---------------------------- MODULE RoutingProofs ----------------------------
(***************************************************************************)
(* What is proved of the routing decision, for every catalog and every set *)
(* of providers and models: it has its type, a model that a registered     *)
(* provider lists is routed to, privacy-first keeps to local providers,    *)
(* balanced selects no dominated candidate, and names keep their meaning.  *)
(*                                                                         *)
(* Two ideas carry the proofs.  The places of a Map are compact (RInv): no *)
(* two keys share one and none exceeds the number of keys, so a pushed key *)
(* is last and the first of a set is unique.  And each strategy's          *)
(* comparator ranks candidates by a number, so that sorting by it, then by *)
(* place, puts exactly one candidate first.                                *)
(***************************************************************************)
EXTENDS Routing, Induction

-----------------------------------------------------------------------------
(* The sum of a sequence of numbers. *)

\* SumFunction adds the elements of a sequence of natural numbers to one.
LEMMA SumIsNat ==
  ASSUME NEW h \in Seq(Nat)
  PROVE  SumFunction(h) \in Nat
<1> DEFINE D == DOMAIN h
           pick == [s \in SUBSET D |-> CHOOSE x \in s : TRUE]
           step == [t \in (SUBSET D) \X Nat |->
                       (IF t[1] = {} THEN 0 ELSE h[pick[t[1]]]) + t[2]]
           iter[s \in SUBSET D] ==
              IF s = {} THEN 0
              ELSE h[CHOOSE x \in s : TRUE] + iter[s \ {CHOOSE x \in s : TRUE}]
<1>1. SumFunction(h) = iter[D]
  BY DEF SumFunction, SumFunctionOnSet, FoldFunctionOnSet, MapThenFoldSet
<1>2. IsFiniteSet(D) /\ \A x \in D : h[x] \in Nat
  <2>1. D = 1..Len(h) /\ Len(h) \in Nat
    OBVIOUS
  <2>2. IsFiniteSet(1..Len(h))
    BY <2>1, FS_Interval
  <2>3. QED
    BY <2>1, <2>2
<1>3. Picks(pick, D)
  BY DEF Picks
<1>4. step \in [(SUBSET D) \X Nat -> Nat]
  BY <1>2, <1>3
<1>5. PICK f \in [SUBSET D -> Nat] : Folds(f, 0, step, pick, D)
  <2> HIDE DEF pick, step, D
  <2>1. 0 \in Nat
    OBVIOUS
  <2>2. QED
    BY <1>2, <1>3, <1>4, <2>1, FoldExists
<1> DEFINE Sum(s, g) == IF s = {} THEN 0
                        ELSE h[CHOOSE x \in s : TRUE] + g[s \ {CHOOSE x \in s : TRUE}]
<1>6. ASSUME NEW s \in SUBSET D
      PROVE  f[s] = Sum(s, f)
  <2>1. CASE s = {}
    BY <1>5, <2>1 DEF Folds
  <2>2. CASE s # {}
    <3>1. s \ {pick[s]} \in SUBSET D
      OBVIOUS
    <3>2. f[s \ {pick[s]}] \in Nat
      BY <1>5, <3>1
    <3>3. step[<<s, f[s \ {pick[s]}]>>] = h[pick[s]] + f[s \ {pick[s]}]
      BY <2>2, <3>2
    <3>4. f[s] = step[<<s, f[s \ {pick[s]}]>>]
      BY <1>5, <2>2 DEF Folds
    <3>5. pick[s] = CHOOSE x \in s : TRUE
      OBVIOUS
    <3>6. QED
      BY <2>2, <3>3, <3>4, <3>5
  <2>3. QED
    BY <2>1, <2>2
<1>7. f = [s \in SUBSET D |-> Sum(s, f)]
  <2> HIDE DEF Sum
  <2>1. QED
    BY <1>5, <1>6
<1>8. iter = [s \in SUBSET D |-> Sum(s, iter)]
  BY <1>7
<1>9. \A s \in SUBSET D : iter[s] = Sum(s, iter)
  <2> HIDE DEF iter, Sum
  <2>1. QED
    BY <1>8
<1> DEFINE P == {s \in SUBSET D : iter[s] \in Nat}
<1>10. {} \in P
  <2> HIDE DEF iter
  <2>1. {} \in SUBSET D
    OBVIOUS
  <2>2. iter[{}] = Sum({}, iter)
    <3> HIDE DEF Sum, D
    <3>1. QED
      BY <1>9, <2>1
  <2>3. Sum({}, iter) = 0
    OBVIOUS
  <2>4. QED
    BY <2>1, <2>2, <2>3
<1>11. ASSUME NEW s \in SUBSET D, s # {}, s \ {pick[s]} \in P
       PROVE  s \in P
  <2> HIDE DEF iter
  <2>1. iter[s] = h[pick[s]] + iter[s \ {pick[s]}]
    BY <1>9, <1>11
  <2>2. h[pick[s]] \in Nat /\ iter[s \ {pick[s]}] \in Nat
    BY <1>2, <1>3, <1>11 DEF Picks
  <2>3. QED
    BY <2>1, <2>2
<1>12. SUBSET D \subseteq P
  <2> HIDE DEF pick, P, D
  <2>1. Inductive(P, pick, D)
    BY <1>10, <1>11 DEF Inductive
  <2>2. QED
    BY <1>2, <1>3, <2>1, AllSubsets
<1>13. QED
  BY <1>1, <1>12

-----------------------------------------------------------------------------
(* The inductive invariant. *)

\* The keys that have a place.
Placed(places) == {k \in Keys : places[k] # 0}

\* Places as insertion gives them: none is shared, none exceeds their number.
Compact(places) ==
    /\ places \in [Keys -> Nat]
    /\ \A k \in Keys : places[k] <= Cardinality(Placed(places))
    /\ \A j, k \in Placed(places) : places[j] = places[k] => j = k

RInv ==
    /\ Compact(position)
    /\ aliasMap \in [Names -> [Keys -> Nat]]
    /\ \A n \in Names : Compact(aliasMap[n])
    /\ entry \in [Keys -> {"default", "discovered"}]
    /\ registered \subseteq Providers
    /\ window \in [Providers -> Seq(Latencies)]
    /\ \A p \in Providers : Len(window[p]) <= Window

\* The constants as the proofs use them.
LEMMA KeysAreFinite ==
  /\ IsFiniteSet(Keys)
  /\ Cardinality(Keys) \in Nat
  /\ \A S : S \subseteq Keys => /\ IsFiniteSet(S)
                               /\ Cardinality(S) \in Nat
                               /\ Cardinality(S) <= Cardinality(Keys)
<1>1. IsFiniteSet(Keys)
  BY RoutingAssumption, FS_Product DEF Keys
<1>2. QED
  BY <1>1, FS_Subset, FS_CardinalityType

\* A place of its own, after all others, is given to a key that is pushed.
LEMMA PushedCompact ==
  ASSUME NEW places, Compact(places), NEW k \in Keys
  PROVE  /\ Compact(Pushed(places, k))
         /\ \A j \in Placed(places) : Pushed(places, k)[j] = places[j]
         /\ \A j \in Placed(places) : places[j] < NextPlace(places)
         /\ Placed(Pushed(places, k)) = Placed(places) \cup {k}
         /\ k \notin Placed(places) => Pushed(places, k)[k] = NextPlace(places)
<1> DEFINE S == Placed(places)
           n == Cardinality(S)
           new == Pushed(places, k)
<1>1. places \in [Keys -> Nat]
  BY DEF Compact
<1>2. NextPlace(places) = n + 1
  BY <1>1 DEF NextPlace, Placed
<1>3. S \subseteq Keys /\ IsFiniteSet(S) /\ n \in Nat
  BY KeysAreFinite DEF Placed
<1>4. \A j \in S : places[j] < n + 1
  BY <1>1, <1>3 DEF Compact
<1>5. CASE k \in S
  <2>1. new = places /\ S \cup {k} = S
    BY <1>5 DEF Pushed, Placed
  <2>2. QED
    BY <1>2, <1>4, <1>5, <2>1
<1>6. CASE k \notin S
  <2>1. new = [places EXCEPT ![k] = n + 1] /\ places[k] = 0
    BY <1>1, <1>2, <1>6 DEF Pushed, Placed
  <2>2. new \in [Keys -> Nat] /\ new[k] = n + 1 /\ \A j \in Keys \ {k} : new[j] = places[j]
    BY <1>1, <1>3, <2>1
  <2>3. Placed(new) = S \cup {k}
    BY <1>3, <2>2 DEF Placed
  <2>4. Cardinality(Placed(new)) = n + 1
    BY <1>3, <1>6, <2>3, FS_AddElement
  <2>5. \A j \in Keys : new[j] <= n + 1
    <3>1. \A j \in Keys : places[j] <= n /\ places[j] \in Nat
      BY <1>1 DEF Compact
    <3>2. QED
      BY <1>3, <2>2, <3>1
  <2>6. \A i, j \in S \cup {k} : new[i] = new[j] => i = j
    <3>1. \A i, j \in S : places[i] = places[j] => i = j
      BY DEF Compact
    <3>2. \A j \in S : new[j] = places[j] /\ places[j] # n + 1
      BY <1>1, <1>3, <1>4, <1>6, <2>2
    <3>3. QED
      BY <2>2, <3>1, <3>2
  <2>7. Compact(new)
    BY <2>2, <2>3, <2>4, <2>5, <2>6 DEF Compact
  <2>8. QED
    BY <1>2, <1>3, <1>4, <1>6, <2>2, <2>3, <2>7
<1>7. QED
  BY <1>5, <1>6

\* The default catalog lists a key once, at one place.
LEMMA BakedPlaces ==
  /\ Range(Baked) \subseteq Keys
  /\ Cardinality(Range(Baked)) = Len(Baked)
  /\ \A k \in Range(Baked) : BakedPlace(k) \in 1..Len(Baked) /\ Baked[BakedPlace(k)] = k
  /\ \A k \in Keys \ Range(Baked) : BakedPlace(k) = 0
<1> USE RoutingAssumption
<1>1. Baked \in Seq(Keys) /\ DOMAIN Baked = 1..Len(Baked) /\ Len(Baked) \in Nat
  OBVIOUS
<1>2. Range(Baked) \subseteq Keys
  BY <1>1 DEF Range
<1>3. ASSUME NEW k \in Range(Baked)
      PROVE  BakedPlace(k) \in 1..Len(Baked) /\ Baked[BakedPlace(k)] = k
  <2>1. \E i \in DOMAIN Baked : Baked[i] = k
    BY DEF Range
  <2>2. BakedPlace(k) \in DOMAIN Baked /\ Baked[BakedPlace(k)] = k
    BY <2>1 DEF BakedPlace
  <2>3. QED
    BY <1>1, <2>2
<1>4. Cardinality(Range(Baked)) = Len(Baked)
  <2>1. Baked \in Bijection(1..Len(Baked), Range(Baked))
    BY <1>1 DEF Bijection, Injection, Surjection, IsInjective, Range
  <2>2. ExistsBijection(1..Len(Baked), Range(Baked))
    BY <2>1 DEF ExistsBijection
  <2>3. QED
    BY <1>1, <2>2, FS_CountingElements
<1>5. \A k \in Keys \ Range(Baked) : BakedPlace(k) = 0
  BY DEF BakedPlace
<1>6. QED
  BY <1>2, <1>3, <1>4, <1>5

\* The default catalog is compact, and so is each list of aliases it has.
LEMMA InitRInv == Init => RInv
<1> SUFFICES ASSUME Init PROVE RInv
  OBVIOUS
<1> USE DEF Init
<1> DEFINE B == Range(Baked)
<1>1. /\ B \subseteq Keys /\ IsFiniteSet(B) /\ Cardinality(B) = Len(Baked) /\ Len(Baked) \in Nat
      /\ \A k \in B : BakedPlace(k) \in 1..Len(Baked) /\ Baked[BakedPlace(k)] = k
      /\ \A k \in Keys \ B : BakedPlace(k) = 0
  BY BakedPlaces, KeysAreFinite
<1>2. Compact(position)
  <2>1. \A k \in Keys : position[k] = BakedPlace(k)
    OBVIOUS
  <2>2. Placed(position) = B
    BY <1>1, <2>1 DEF Placed
  <2>3. position \in [Keys -> Nat] /\ \A k \in Keys : position[k] <= Len(Baked)
    BY <1>1
  <2>4. \A j, k \in B : position[j] = position[k] => j = k
    BY <1>1, <2>1
  <2>5. QED
    BY <1>1, <2>2, <2>3, <2>4 DEF Compact
<1>3. ASSUME NEW n \in Names
      PROVE  Compact(aliasMap[n])
  <2> DEFINE A == {j \in B : n \in BakedNames[j]}
             upTo(k) == {j \in B : n \in BakedNames[j] /\ BakedPlace(j) <= BakedPlace(k)}
             places == aliasMap[n]
  <2>1. \A k \in Keys : places[k] = IF k \in A THEN Cardinality(upTo(k)) ELSE 0
    OBVIOUS
  <2>2. A \subseteq Keys /\ IsFiniteSet(A) /\ Cardinality(A) \in Nat
    BY <1>1, KeysAreFinite
  <2>3. ASSUME NEW k \in A
        PROVE  /\ k \in upTo(k) /\ upTo(k) \subseteq A
               /\ Cardinality(upTo(k)) \in Nat
               /\ Cardinality(upTo(k)) <= Cardinality(A)
               /\ Cardinality(upTo(k)) # 0
    <3>1. k \in upTo(k) /\ upTo(k) \subseteq A
      BY <1>1
    <3>2. IsFiniteSet(upTo(k))
      BY <2>2, <3>1, FS_Subset
    <3>3. QED
      <4> HIDE DEF upTo, A
      <4>1. QED
        BY <2>2, <3>1, <3>2, FS_Subset, FS_CardinalityType, FS_EmptySet
  <2>4. places \in [Keys -> Nat] /\ Placed(places) = A
    <3>1. \A k \in Keys : places[k] \in Nat /\ (places[k] # 0 <=> k \in A)
      <4> HIDE DEF upTo, A, places
      <4>1. QED
        BY <2>1, <2>3
    <3>2. places = [k \in Keys |-> places[k]]
      OBVIOUS
    <3>3. QED
      <4> HIDE DEF places, A
      <4>1. QED
        BY <2>2, <3>1, <3>2 DEF Placed
  <2>5. \A k \in Keys : places[k] <= Cardinality(A)
    <3> HIDE DEF upTo, A, places
    <3>1. QED
      BY <2>1, <2>2, <2>3
  <2>6. ASSUME NEW j \in A, NEW k \in A, BakedPlace(j) < BakedPlace(k)
        PROVE  places[j] # places[k]
    <3>1. upTo(j) \subseteq upTo(k) /\ k \notin upTo(j)
      BY <1>1, <2>6
    <3>2. IsFiniteSet(upTo(k))
      BY <2>2, <2>3, FS_Subset
    <3>3. Cardinality(upTo(j)) # Cardinality(upTo(k))
      <4> HIDE DEF upTo, A, places
      <4>1. QED
        BY <2>3, <3>1, <3>2, FS_Subset
    <3>4. QED
      <4> HIDE DEF upTo, places
      <4>1. QED
        BY <1>1, <2>1, <2>2, <3>3
  <2>7. \A j, k \in A : places[j] = places[k] => j = k
    <3> SUFFICES ASSUME NEW j \in A, NEW k \in A, places[j] = places[k], j # k
                 PROVE  FALSE
      OBVIOUS
    <3>1. BakedPlace(j) \in Nat /\ BakedPlace(k) \in Nat /\ BakedPlace(j) # BakedPlace(k)
      BY <1>1
    <3>2. BakedPlace(j) < BakedPlace(k) \/ BakedPlace(k) < BakedPlace(j)
      BY <3>1
    <3>3. QED
      BY <2>6, <3>2
  <2>8. Compact(places)
    <3> HIDE DEF A, places
    <3>1. QED
      BY <2>4, <2>5, <2>7 DEF Compact
  <2>9. QED
    BY <2>8
<1>4. aliasMap \in [Names -> [Keys -> Nat]]
  BY <1>3 DEF Compact
<1>5. window \in [Providers -> Seq(Latencies)] /\ \A p \in Providers : Len(window[p]) <= Window
  BY RoutingAssumption
<1>6. QED
  BY <1>2, <1>3, <1>4, <1>5 DEF RInv

\* A step keeps the places compact; only AddModel changes them.
LEMMA NextRInv == RInv /\ [Next]_vars => RInv'
<1> SUFFICES ASSUME RInv, [Next]_vars PROVE RInv'
  OBVIOUS
<1> USE DEF RInv
<1>1. ASSUME NEW k \in Offers, Discover(k)
      PROVE  RInv'
  <2>1. k \in Keys
    BY RoutingAssumption
  <2>2. PICK names \in {{k[2]}, {k[2], RawName[k[2]]}} : AddModel(k, names)
    BY <1>1 DEF Discover
  <2>3. Compact(position')
    BY <2>1, <2>2, PushedCompact DEF AddModel
  <2>4. \A n \in Names : Compact(aliasMap'[n])
    BY <2>1, <2>2, PushedCompact DEF AddModel
  <2>5. aliasMap' \in [Names -> [Keys -> Nat]]
    <3>1. aliasMap' = [n \in Names |-> aliasMap'[n]]
      BY <2>2 DEF AddModel
    <3>2. QED
      BY <2>4, <3>1 DEF Compact
  <2>6. QED
    BY <2>2, <2>3, <2>4, <2>5 DEF AddModel, Compact, Placed
<1>2. ASSUME NEW p \in Providers, Register(p) \/ Unregister(p)
      PROVE  RInv'
  <2>1. registered' \subseteq Providers /\ UNCHANGED <<position, entry, aliasMap, window>>
    BY <1>2 DEF Register, Unregister
  <2>2. QED
    BY <2>1 DEF Compact, Placed
<1>3. ASSUME NEW p \in Providers, NEW l \in Latencies, Record(p, l)
      PROVE  RInv'
  <2> DEFINE history == Append(window[p], l)
             shorter == IF Len(history) > Window THEN Tail(history) ELSE history
  <2>1. window[p] \in Seq(Latencies) /\ Len(window[p]) <= Window
    OBVIOUS
  <2>2. shorter \in Seq(Latencies) /\ Len(shorter) <= Window
    <3>1. history \in Seq(Latencies) /\ Len(history) = Len(window[p]) + 1
          /\ Len(window[p]) \in Nat
      BY <2>1
    <3>2. Tail(history) \in Seq(Latencies) /\ Len(Tail(history)) = Len(history) - 1
      <4> HIDE DEF history
      <4>1. history # <<>>
        BY <3>1
      <4>2. QED
        BY <3>1, <4>1
    <3>3. Window \in Nat
      BY RoutingAssumption
    <3>4. QED
      <4> HIDE DEF history
      <4>1. QED
        BY <2>1, <3>1, <3>2, <3>3
  <2>3. window' = [window EXCEPT ![p] = shorter]
    BY <1>3 DEF Record
  <2>4. window' \in [Providers -> Seq(Latencies)]
        /\ \A q \in Providers : Len(window'[q]) <= Window
    <3> HIDE DEF shorter
    <3>1. QED
      BY <2>2, <2>3
  <2>5. QED
    BY <1>3, <2>4 DEF Record, Compact, Placed
<1>4. CASE UNCHANGED vars
  BY <1>4 DEF vars, Compact, Placed
<1>5. QED
  BY <1>1, <1>2, <1>3, <1>4 DEF Next

\* The invariant holds in every reachable state.
LEMMA RoutingInvariant == Spec => []RInv
<1>1. QED
  BY InitRInv, NextRInv, PTL DEF Spec

\* Every variable keeps its type, no place of the catalog is shared and no
\* window outgrows WINDOW_SIZE, whatever is discovered, registered or measured.
THEOREM TypeCorrect == Spec => []TypeOK
<1>1. RInv => TypeOK
  <2> SUFFICES ASSUME RInv PROVE TypeOK
    OBVIOUS
  <2> USE DEF RInv
  <2>1. ASSUME NEW places, Compact(places)
        PROVE  places \in [Keys -> 0..Cardinality(Keys)]
    <3>1. Cardinality(Placed(places)) \in Nat /\ Cardinality(Keys) \in Nat
          /\ Cardinality(Placed(places)) <= Cardinality(Keys)
      BY KeysAreFinite DEF Placed
    <3>2. places \in [Keys -> Nat] /\ \A k \in Keys : places[k] <= Cardinality(Placed(places))
      BY <2>1 DEF Compact
    <3>3. \A k \in Keys : places[k] \in 0..Cardinality(Keys)
      BY <3>1, <3>2
    <3>4. QED
      BY <3>2, <3>3
  <2>2. position \in [Keys -> 0..Cardinality(Keys)]
    BY <2>1
  <2>3. aliasMap \in [Names -> [Keys -> 0..Cardinality(Keys)]]
    BY <2>1
  <2>4. IsInjective(Restrict(position, {k \in Keys : position[k] # 0}))
    BY DEF IsInjective, Restrict, Compact, Placed
  <2>5. QED
    BY <2>2, <2>3, <2>4 DEF TypeOK
<1>2. QED
  BY <1>1, RoutingInvariant, PTL

-----------------------------------------------------------------------------
(* Resolution. *)

\* The first of a set of keys is one of them, and no key of it comes before.
LEMMA FirstIsFirst ==
  ASSUME NEW places, Compact(places), NEW keys, keys \subseteq Keys, keys # {}
  PROVE  /\ FirstOf(keys, places) \in keys
         /\ \A j \in keys : places[FirstOf(keys, places)] <= places[j]
         /\ FirstOf(keys, places) # NoKey
<1>1. \A k \in keys : places[k] \in Nat
  BY DEF Compact
<1>2. \E k \in keys : \A j \in keys : places[k] <= places[j]
  BY <1>1, LeastBy
<1>3. FirstOf(keys, places) = CHOOSE k \in keys : \A j \in keys : places[k] <= places[j]
  BY DEF FirstOf
<1>4. FirstOf(keys, places) \in keys
      /\ \A j \in keys : places[FirstOf(keys, places)] <= places[j]
  BY <1>2, <1>3
<1>5. QED
  BY <1>4, RoutingAssumption

\* Pushing a key leaves the first of the keys that have a place the first.
LEMMA FirstStaysFirst ==
  ASSUME NEW places, Compact(places), NEW k \in Keys, Placed(places) # {}
  PROVE  LET new == Pushed(places, k)
         IN  FirstOf(Placed(new), new) = FirstOf(Placed(places), places)
<1> DEFINE new == Pushed(places, k)
           old == FirstOf(Placed(places), places)
           now == FirstOf(Placed(new), new)
<1>1. /\ Compact(new)
      /\ \A j \in Placed(places) : new[j] = places[j] /\ places[j] < NextPlace(places)
      /\ Placed(new) = Placed(places) \cup {k}
      /\ k \notin Placed(places) => new[k] = NextPlace(places)
  BY PushedCompact
<1>2. Placed(places) \subseteq Keys /\ Placed(new) \subseteq Keys /\ Placed(new) # {}
  BY <1>1 DEF Placed
<1>3. old \in Placed(places) /\ \A j \in Placed(places) : places[old] <= places[j]
  BY <1>2, FirstIsFirst
<1>4. now \in Placed(new) /\ \A j \in Placed(new) : new[now] <= new[j]
  BY <1>1, <1>2, FirstIsFirst
<1> HIDE DEF new, old, now
<1>5. \A j \in Placed(new) : new[j] \in Nat
  BY <1>1, <1>2 DEF Compact
<1>6. now \in Placed(places)
  <2>1. new[now] <= new[old] /\ new[old] = places[old] /\ places[old] < NextPlace(places)
    BY <1>1, <1>3, <1>4
  <2>2. new[now] \in Nat /\ new[old] \in Nat
    BY <1>1, <1>3, <1>4, <1>5
  <2>3. CASE now = k /\ k \notin Placed(places)
    BY <1>1, <2>1, <2>2, <2>3
  <2>4. QED
    BY <1>1, <1>4, <2>3
<1>7. new[now] = new[old]
  <2>1. new[now] <= new[old] /\ new[old] <= new[now]
    BY <1>1, <1>3, <1>4, <1>6
  <2>2. QED
    BY <1>1, <1>3, <1>4, <1>5, <2>1
<1>8. now = old
  BY <1>1, <1>3, <1>4, <1>7 DEF Compact
<1>9. QED
  BY <1>8 DEF new, old, now

\* A model string that resolves keeps resolving, and to the same model unless a
\* model is discovered whose canonical id it is, in whatever order models are
\* registered.
THEOREM NamesKeepTheirMeaning == Spec => StableResolution
<1>1. ASSUME RInv, RInv', [Next]_vars, NEW s \in Names \cup Keys, ResolveModel(s) # NoKey
      PROVE  /\ ResolveModel(s)' # NoKey
             /\ ResolveModel(s)'[2] \in {ResolveModel(s)[2], s}
  <2>1. CASE UNCHANGED <<position, aliasMap>>
    <3>1. ResolveModel(s)' = ResolveModel(s)
      BY <2>1 DEF ResolveModel, FirstOf, Bearing, Aliased, Listed
    <3>2. QED
      BY <1>1, <3>1
  <2>2. ASSUME NEW k \in Offers, NEW names, AddModel(k, names)
        PROVE  /\ ResolveModel(s)' # NoKey
               /\ ResolveModel(s)'[2] \in {ResolveModel(s)[2], s}
    <3>1. k \in Keys
      BY RoutingAssumption
    <3>2. position' = Pushed(position, k) /\ Compact(position) /\ Compact(position')
      BY <1>1, <2>2 DEF AddModel, RInv, Compact, Placed
    <3>3. Listed \subseteq Listed' /\ Listed \subseteq Keys /\ Listed' \subseteq Keys
      BY <3>1, <3>2, PushedCompact DEF Listed, Placed
    <3>4. CASE s \in Keys
      <4>1. s \in Listed
        BY <1>1, <3>4 DEF ResolveModel
      <4>2. ResolveModel(s) = s /\ ResolveModel(s)' = s
        BY <3>3, <3>4, <4>1 DEF ResolveModel
      <4>3. QED
        BY <1>1, <4>2
    <3>5. CASE s \notin Keys /\ Bearing(s)' # {}
      <4>1. ResolveModel(s)' = FirstOf(Bearing(s)', position')
        BY <3>5 DEF ResolveModel, FirstOf, Bearing, Aliased, Listed
      <4>2. Bearing(s)' \subseteq Keys
        BY <3>3 DEF Bearing
      <4>3. ResolveModel(s)' \in Bearing(s)' /\ ResolveModel(s)' # NoKey
        BY <3>2, <3>5, <4>1, <4>2, FirstIsFirst
      <4>4. ResolveModel(s)'[2] = s
        BY <4>3 DEF Bearing
      <4>5. QED
        BY <4>3, <4>4
    <3>6. CASE s \notin Keys /\ Bearing(s)' = {}
      <4>1. s \in Names
        BY <3>6
      <4>2. Bearing(s) = {}
        BY <3>3, <3>6 DEF Bearing
      <4>3. Aliased(s) = Placed(aliasMap[s]) /\ Aliased(s)' = Placed(aliasMap'[s])
        BY DEF Aliased, Placed
      <4>4. ResolveModel(s) = FirstOf(Placed(aliasMap[s]), aliasMap[s])
        BY <3>6, <4>2, <4>3 DEF ResolveModel
      <4>5. ResolveModel(s)' = FirstOf(Placed(aliasMap'[s]), aliasMap'[s])
        BY <3>6, <4>3 DEF ResolveModel, FirstOf, Bearing, Aliased, Listed, Placed
      <4>6. Placed(aliasMap[s]) # {}
        BY <1>1, <4>4 DEF FirstOf
      <4>7. aliasMap'[s] = Pushed(aliasMap[s], k) \/ aliasMap'[s] = aliasMap[s]
        BY <2>2, <4>1 DEF AddModel
      <4>8. Compact(aliasMap[s])
        BY <1>1, <4>1 DEF RInv
      <4>9. ResolveModel(s)' = ResolveModel(s)
        BY <3>1, <4>4, <4>5, <4>6, <4>7, <4>8, FirstStaysFirst
      <4>10. QED
        BY <1>1, <4>9
    <3>7. QED
      BY <3>4, <3>5, <3>6
  <2>3. QED
    BY <1>1, <2>1, <2>2 DEF Next, Discover, Register, Unregister, Record, vars
<1>2. RInv /\ RInv' /\ [Next]_vars =>
        [\A s \in Names \cup Keys :
            ResolveModel(s) # NoKey =>
                /\ ResolveModel(s)' # NoKey
                /\ ResolveModel(s)'[2] \in {ResolveModel(s)[2], s}]_<<position, aliasMap>>
  BY <1>1
<1>3. QED
  BY <1>2, RoutingInvariant, PTL DEF Spec, StableResolution

-----------------------------------------------------------------------------
(* Latencies, costs and scores. *)

\* The average latency of a provider is a number, whatever was measured.
LEMMA LatencyIsNat ==
  ASSUME RInv, NEW k \in Keys
  PROVE  Latency(k) \in Nat
<1> DEFINE h == window[k[1]]
<1>1. h \in Seq(Latencies) /\ k[1] \in Providers
  BY DEF RInv, Keys
<1>2. h \in Seq(Nat) /\ Len(h) \in Nat
  BY <1>1, RoutingAssumption
<1>3. CASE h = <<>>
  BY <1>3 DEF Latency
<1>4. CASE h # <<>>
  <2>1. Len(h) \in Nat \ {0} /\ Scale \in Nat
    BY <1>2, <1>4, RoutingAssumption
  <2>2. Scale \div Len(h) \in Nat
    <3> HIDE DEF h
    <3>1. QED
      BY <2>1
  <2>3. SumFunction(h) \in Nat
    BY <1>2, SumIsNat
  <2>4. Latency(k) = SumFunction(h) * (Scale \div Len(h))
    BY <1>4 DEF Latency
  <2>5. QED
    <3> HIDE DEF h
    <3>1. QED
      BY <2>2, <2>3, <2>4
<1>5. QED
  BY <1>3, <1>4

Greatest(f, C, unit, skip) == Max(({f[k] : k \in C} \ {skip}) \cup {unit})

\* The greatest of the values of a function on a finite set, and of a number,
\* is at least each of them.
LEMMA MaxOfValues ==
  ASSUME NEW C, IsFiniteSet(C), NEW unit \in Nat, NEW skip,
         NEW f \in [C -> Nat \cup {skip}]
  PROVE  /\ Greatest(f, C, unit, skip) \in Nat
         /\ Greatest(f, C, unit, skip) >= unit
         /\ \A k \in C : f[k] # skip => f[k] <= Greatest(f, C, unit, skip)
<1> DEFINE I == {f[k] : k \in C}
           S == (I \ {skip}) \cup {unit}
<1>1. IsFiniteSet(I)
  <2>1. f \in Surjection(C, I)
    BY DEF Surjection
  <2>2. QED
    BY <2>1, FS_Surjection
<1>2. IsFiniteSet(S)
  <2> HIDE DEF I
  <2>1. IsFiniteSet(I \ {skip})
    BY <1>1, FS_RemoveElement
  <2>2. QED
    BY <2>1, FS_AddElement
<1>3. S \subseteq Nat /\ unit \in S
  OBVIOUS
<1>4. Max(S) \in S /\ \A n \in S : n <= Max(S)
  <2> HIDE DEF S
  <2>1. QED
    BY <1>2, <1>3, MaxIsGreatest
<1>5. \A k \in C : f[k] # skip => f[k] \in S
  OBVIOUS
<1>6. Greatest(f, C, unit, skip) = Max(S)
  BY DEF Greatest
<1>7. QED
  <2> HIDE DEF S
  <2>1. QED
    BY <1>3, <1>4, <1>5, <1>6

MaxCost(C) == Max(({Cost(j) : j \in C} \ {NoCost}) \cup {CostUnit})
MaxLatency(C) == Max({Latency(j) : j \in C} \cup {Scale})
CostIn(k, C) == IF Cost(k) = NoCost THEN MaxCost(C) ELSE Cost(k)

\* The bounds that costs and latencies are normalised by.
LEMMA PoolBounds ==
  ASSUME RInv, NEW C, C \subseteq Keys
  PROVE  /\ MaxCost(C) \in Nat /\ MaxCost(C) # 0
         /\ MaxLatency(C) \in Nat /\ MaxLatency(C) # 0
         /\ \A k \in C : /\ Latency(k) \in Nat
                         /\ Latency(k) <= MaxLatency(C)
                         /\ Cost(k) \in Nat \cup {NoCost}
                         /\ Cost(k) # NoCost => Cost(k) <= MaxCost(C)
                         /\ CostIn(k, C) \in Nat
                         /\ Score(k, C) = CostIn(k, C) * MaxLatency(C)
                                             + Latency(k) * MaxCost(C)
<1>1. IsFiniteSet(C)
  BY KeysAreFinite
<1>2. \A k \in C : Latency(k) \in Nat /\ Cost(k) \in Nat \cup {NoCost}
  BY LatencyIsNat, RoutingAssumption DEF Cost, Costs
<1>3. CostUnit \in Nat \ {0} /\ Scale \in Nat \ {0} /\ NoCost \notin Nat
  BY RoutingAssumption
<1>4. /\ MaxCost(C) \in Nat /\ MaxCost(C) >= CostUnit
      /\ \A k \in C : Cost(k) # NoCost => Cost(k) <= MaxCost(C)
  <2> DEFINE f == [k \in C |-> Cost(k)]
             max == Greatest(f, C, CostUnit, NoCost)
  <2>1. f \in [C -> Nat \cup {NoCost}]
    BY <1>2
  <2>2. \A k \in C : f[k] = Cost(k)
    OBVIOUS
  <2>3. max = MaxCost(C)
    BY <2>2 DEF Greatest, MaxCost
  <2>4. max \in Nat /\ max >= CostUnit /\ \A k \in C : f[k] # NoCost => f[k] <= max
    <3> HIDE DEF f
    <3>1. QED
      BY <1>1, <1>3, <2>1, <2>2, MaxOfValues
  <2>5. QED
    <3> HIDE DEF f, max
    <3>1. QED
      BY <2>2, <2>3, <2>4
<1>5. /\ MaxLatency(C) \in Nat /\ MaxLatency(C) >= Scale
      /\ \A k \in C : Latency(k) <= MaxLatency(C)
  <2> DEFINE f == [k \in C |-> Latency(k)]
             max == Greatest(f, C, Scale, NoCost)
  <2>1. f \in [C -> Nat \cup {NoCost}]
    BY <1>2
  <2>2. \A k \in C : f[k] = Latency(k)
    OBVIOUS
  <2>3. max = MaxLatency(C)
    <3>1. NoCost \notin {Latency(j) : j \in C}
      BY <1>2, <1>3
    <3>2. {f[k] : k \in C} = {Latency(j) : j \in C}
      BY <2>2
    <3>3. QED
      BY <3>1, <3>2 DEF Greatest, MaxLatency
  <2>4. max \in Nat /\ max >= Scale /\ \A k \in C : f[k] # NoCost => f[k] <= max
    <3> HIDE DEF f
    <3>1. Scale \in Nat
      BY <1>3
    <3>2. QED
      BY <1>1, <2>1, <3>1, MaxOfValues
  <2>5. \A k \in C : Latency(k) # NoCost
    BY <1>2, <1>3
  <2>6. QED
    <3> HIDE DEF f, max
    <3>1. QED
      BY <2>2, <2>3, <2>4, <2>5
<1>6. \A k \in C : CostIn(k, C) \in Nat
  BY <1>2, <1>4 DEF CostIn
<1>7. \A k \in C : Score(k, C) = CostIn(k, C) * MaxLatency(C) + Latency(k) * MaxCost(C)
  BY DEF Score, CostIn, MaxCost, MaxLatency
<1>8. QED
  BY <1>2, <1>3, <1>4, <1>5, <1>6, <1>7

\* A product of natural numbers is one, and grows with its factors.
LEMMA Products ==
  ASSUME NEW a \in Nat, NEW b \in Nat, NEW c \in Nat
  PROVE  /\ a * c \in Nat
         /\ a <= b => a * c <= b * c
         /\ a < b /\ c # 0 => a * c < b * c
<1>1. a * c \in Nat
  OBVIOUS
<1>2. ASSUME a <= b PROVE a * c <= b * c
  <2>1. b - a \in Nat /\ (b - a) * c \in Nat
    BY <1>2
  <2>2. b * c = a * c + (b - a) * c
    OBVIOUS
  <2>3. QED
    BY <1>1, <2>1, <2>2
<1>3. ASSUME a < b, c # 0 PROVE a * c < b * c
  <2>1. b - a - 1 \in Nat /\ (b - a - 1) * c \in Nat
    BY <1>3
  <2>2. b * c = a * c + c + (b - a - 1) * c
    OBVIOUS
  <2>3. QED
    BY <1>1, <1>3, <2>1, <2>2
<1>4. QED
  BY <1>1, <1>2, <1>3

\* A candidate's score is a number.
LEMMA ScoreIsNat ==
  ASSUME RInv, NEW C, C \subseteq Keys, NEW k \in C
  PROVE  Score(k, C) \in Nat
<1>1. QED
  BY PoolBounds, Products

-----------------------------------------------------------------------------
(* Selection. *)

\* Every strategy's comparator compares numbers that it gives the candidates.
LEMMA Ranked ==
  ASSUME RInv, NEW C, C \subseteq Keys, NEW strategy \in Strategies
  PROVE  \E rank : /\ \A k \in C : rank[k] \in Nat
                   /\ \A a, b \in C : Ahead(strategy, a, b, C) <=> rank[a] < rank[b]
<1>1. \A k \in C : Latency(k) \in Nat
  BY LatencyIsNat
<1>2. CASE strategy \in {"fastest", "privacy-first"}
  <2> DEFINE rank == [k \in C |-> Latency(k)]
  <2>1. \A a, b \in C : Ahead(strategy, a, b, C) <=> rank[a] < rank[b]
    BY <1>2 DEF Ahead, Faster
  <2>2. \A k \in C : rank[k] \in Nat
    BY <1>1
  <2>3. QED
    BY <2>1, <2>2
<1>3. CASE strategy = "cheapest"
  <2> DEFINE rank == [k \in C |-> IF Cost(k) = NoCost THEN MaxCost(C) + 1 ELSE Cost(k)]
  <2>1. MaxCost(C) \in Nat
        /\ \A k \in C : Cost(k) \in Nat \cup {NoCost}
                        /\ (Cost(k) # NoCost => Cost(k) <= MaxCost(C))
    BY PoolBounds
  <2>2. \A k \in C : rank[k] \in Nat
    BY <2>1
  <2>3. ASSUME NEW a \in C, NEW b \in C
        PROVE  Ahead(strategy, a, b, C) <=> rank[a] < rank[b]
    <3>1. Ahead(strategy, a, b, C) <=> Cheaper(a, b)
      BY <1>3 DEF Ahead
    <3>2. Cheaper(a, b) <=> rank[a] < rank[b]
      BY <2>1 DEF Cheaper
    <3>3. QED
      BY <3>1, <3>2
  <2>4. QED
    <3> HIDE DEF rank
    <3>1. QED
      BY <2>2, <2>3
<1>4. CASE strategy = "balanced"
  <2> DEFINE rank == [k \in C |-> Score(k, C)]
  <2>1. \A a, b \in C : Ahead(strategy, a, b, C) <=> rank[a] < rank[b]
    BY <1>4 DEF Ahead
  <2>2. \A k \in C : rank[k] \in Nat
    BY ScoreIsNat
  <2>3. QED
    BY <2>1, <2>2
<1>5. CASE strategy = "local-first"
  <2> DEFINE rank == [k \in C |-> IF k[1] \in Local THEN Latency(k)
                                  ELSE MaxLatency(C) + 1 + Latency(k)]
  <2>1. MaxLatency(C) \in Nat /\ \A k \in C : Latency(k) \in Nat /\ Latency(k) <= MaxLatency(C)
    BY PoolBounds
  <2>2. \A k \in C : rank[k] \in Nat
    BY <2>1
  <2>3. ASSUME NEW a \in C, NEW b \in C
        PROVE  Ahead(strategy, a, b, C) <=> rank[a] < rank[b]
    <3>1. Ahead(strategy, a, b, C) <=>
             \/ a[1] \in Local /\ b[1] \notin Local
             \/ (a[1] \in Local <=> b[1] \in Local) /\ Latency(a) < Latency(b)
      BY <1>5 DEF Ahead, Faster
    <3>2. QED
      BY <2>1, <3>1
  <2>4. QED
    <3> HIDE DEF rank
    <3>1. QED
      BY <2>2, <2>3
<1>6. CASE strategy = "pinned"
  <2> DEFINE rank == [k \in C |-> 0]
  <2>1. \A a, b \in C : ~Ahead(strategy, a, b, C)
    BY <1>6 DEF Ahead
  <2>2. \A k \in C : rank[k] = 0
    OBVIOUS
  <2>3. QED
    <3> HIDE DEF rank
    <3>1. QED
      BY <2>1, <2>2
<1>7. QED
  BY <1>2, <1>3, <1>4, <1>5, <1>6 DEF Strategies

\* The pool of a decision is not empty and of candidates only.
LEMMA PoolOfCandidates ==
  ASSUME NEW strategy, NEW C, C # {}
  PROVE  Pool(strategy, C) # {} /\ Pool(strategy, C) \subseteq C
<1>1. QED
  BY DEF Pool

\* Some candidate comes before all others, so a decision selects one.
LEMMA SelectedIsFirst ==
  ASSUME RInv, NEW strategy \in Strategies, NEW C, C \subseteq Listed, C # {}
  PROVE  LET pool == Pool(strategy, C)
             first == Selected(strategy, C)
         IN  /\ first \in pool
             /\ \A b \in pool \ {first} : Before(strategy, first, b, pool)
<1> DEFINE pool == Pool(strategy, C)
<1>1. pool # {} /\ pool \subseteq Listed /\ pool \subseteq Keys
  BY PoolOfCandidates DEF Listed
<1> HIDE DEF pool
<1>2. PICK rank : /\ \A k \in pool : rank[k] \in Nat
                  /\ \A a, b \in pool : Ahead(strategy, a, b, pool) <=> rank[a] < rank[b]
  BY <1>1, Ranked
<1>3. /\ \A k \in pool : position[k] \in Nat
      /\ \A j, k \in pool : position[j] = position[k] => j = k
  BY <1>1 DEF RInv, Compact, Placed, Listed
<1>4. PICK a \in pool : \A b \in pool \ {a} :
          rank[a] < rank[b] \/ (rank[a] = rank[b] /\ position[a] < position[b])
  BY <1>1, <1>2, <1>3, LeastByBoth
<1>5. \A b \in pool \ {a} : Before(strategy, a, b, pool)
  BY <1>2, <1>4 DEF Before
<1>6. Selected(strategy, C) =
         CHOOSE x \in pool : \A b \in pool \ {x} : Before(strategy, x, b, pool)
  BY DEF Selected, pool
<1>7. Selected(strategy, C) \in pool
      /\ \A b \in pool \ {Selected(strategy, C)} :
            Before(strategy, Selected(strategy, C), b, pool)
  BY <1>5, <1>6
<1>8. QED
  BY <1>7 DEF pool

\* A request for a model by its canonical id is decided among the candidates of
\* that model, if there are any.
LEMMA DecisionForModel ==
  ASSUME RInv, NEW m \in Models, NEW need, NEW strategy, Candidates(m, need) # {}
  PROVE  Decision(m, need, strategy) =
            [selected  |-> Selected(strategy, Candidates(m, need)),
             fallbacks |-> Fallbacks(strategy, Candidates(m, need))]
<1>1. m \notin Keys
  BY RoutingAssumption
<1>2. Bearing(m) # {} /\ Bearing(m) \subseteq Keys
  BY DEF Candidates, Bearing, Listed
<1>3. ResolveModel(m) = FirstOf(Bearing(m), position)
  BY <1>1, <1>2 DEF ResolveModel
<1>4. ResolveModel(m) \in Bearing(m) /\ ResolveModel(m) # NoKey
  BY <1>2, <1>3, FirstIsFirst DEF RInv
<1>5. ResolveModel(m)[2] = m
  BY <1>4 DEF Bearing
<1>6. QED
  BY <1>4, <1>5 DEF Decision

\* A decision stays within the candidates of the model that was asked for.
LEMMA ChainOfCandidates ==
  ASSUME RInv, NEW m \in Models, NEW need, NEW strategy \in Strategies,
         Candidates(m, need) # {}
  PROVE  LET C == Candidates(m, need)
             decision == Decision(m, need, strategy)
         IN  /\ decision.selected = Selected(strategy, C)
             /\ decision.selected \in Pool(strategy, C)
             /\ Chain(decision) \subseteq Pool(strategy, C)
<1> DEFINE C == Candidates(m, need)
           decision == Decision(m, need, strategy)
<1>1. C \subseteq Listed /\ C # {}
  BY DEF Candidates, Bearing
<1>2. decision = [selected |-> Selected(strategy, C), fallbacks |-> Fallbacks(strategy, C)]
  BY DecisionForModel
<1>3. Selected(strategy, C) \in Pool(strategy, C)
  <2> HIDE DEF C
  <2>1. QED
    BY <1>1, SelectedIsFirst
<1>4. Fallbacks(strategy, C) \subseteq Pool(strategy, C)
  BY DEF Fallbacks
<1>5. QED
  <2> HIDE DEF C, decision
  <2>1. decision.selected = Selected(strategy, C)
        /\ decision.fallbacks = Fallbacks(strategy, C)
    BY <1>2
  <2>2. QED
    BY <1>3, <1>4, <2>1 DEF Chain, C, decision

\* A model that a registered provider lists is routed to by its canonical id,
\* with every strategy, also when the id is an alias of another model.
THEOREM OfferedModelsAreRouted == Spec => []OfferedIsRoutable
<1>1. RInv => OfferedIsRoutable
  <2> SUFFICES ASSUME RInv, NEW k \in Listed, k[1] \in registered,
                      NEW strategy \in Strategies
               PROVE  LET need == {IF k[2] \in Embedding THEN "embeddings" ELSE "chat"}
                          selected == Decision(k[2], need, strategy).selected
                      IN  selected # NoKey /\ selected[2] = k[2]
    BY DEF OfferedIsRoutable
  <2> DEFINE need == {IF k[2] \in Embedding THEN "embeddings" ELSE "chat"}
             C == Candidates(k[2], need)
  <2>1. k \in Keys /\ k[2] \in Models
    BY DEF Listed, Keys
  <2>2. need \subseteq Capabilities(k)
    BY DEF Capabilities
  <2>3. k \in C
    <3> HIDE DEF need
    <3>1. QED
      BY <2>2 DEF Candidates, Bearing
  <2>4. Decision(k[2], need, strategy).selected \in Pool(strategy, C)
    <3> HIDE DEF need
    <3>1. QED
      BY <2>1, <2>3, ChainOfCandidates
  <2>5. Pool(strategy, C) \subseteq C
    <3> HIDE DEF C
    <3>1. QED
      BY <2>3, PoolOfCandidates
  <2>6. \A j \in C : j \in Keys /\ j[2] = k[2]
    BY DEF Candidates, Bearing, Listed
  <2>7. QED
    BY <2>4, <2>5, <2>6, RoutingAssumption
<1>2. QED
  BY <1>1, RoutingInvariant, PTL

\* privacy-first never reaches a cloud, not as a fallback either, when a
\* registered local provider can serve the model.
THEOREM PrivacyIsKept == Spec => []PrivacyKept
<1>1. RInv => PrivacyKept
  <2> SUFFICES ASSUME RInv, NEW m \in Models, NEW need \in Needs,
                      NEW local \in Candidates(m, need), local[1] \in Local,
                      NEW k \in Chain(Decision(m, need, "privacy-first"))
               PROVE  k[1] \in Local
    BY DEF PrivacyKept
  <2>1. "privacy-first" \in Strategies
    BY DEF Strategies
  <2>2. k \in Pool("privacy-first", Candidates(m, need))
    BY <2>1, ChainOfCandidates
  <2>3. QED
    BY <2>2 DEF Pool
<1>2. QED
  BY <1>1, RoutingInvariant, PTL

\* balanced selects no provider that another candidate beats in latency without
\* being dearer, however prices and latencies are normalised.
THEOREM BalancedIsUndominated == Spec => []BalancedUndominated
<1>1. RInv => BalancedUndominated
  <2> SUFFICES ASSUME RInv, NEW m \in Models, NEW need \in Needs,
                      NEW k \in Candidates(m, need),
                      LET selected == Decision(m, need, "balanced").selected
                      IN  /\ Faster(k, selected)
                          /\ Cheaper(k, selected) \/ Cost(k) = Cost(selected)
               PROVE  FALSE
    BY DEF BalancedUndominated
  <2> DEFINE C == Candidates(m, need)
             s == Decision(m, need, "balanced").selected
  <2>1. "balanced" \in Strategies /\ Pool("balanced", C) = C
    BY DEF Strategies, Pool
  <2>2. C \subseteq Listed /\ C \subseteq Keys /\ C # {} /\ k \in C
    BY DEF Candidates, Bearing, Listed
  <2>3. s = Selected("balanced", C)
    BY <2>1, ChainOfCandidates
  <2>4. Faster(k, s) /\ (Cheaper(k, s) \/ Cost(k) = Cost(s))
    OBVIOUS
  <2> HIDE DEF C, s
  <2>5. s \in C /\ \A b \in C \ {s} : Before("balanced", s, b, C)
    BY <2>1, <2>2, <2>3, SelectedIsFirst
  <2>6. /\ MaxCost(C) \in Nat /\ MaxCost(C) # 0 /\ MaxLatency(C) \in Nat
        /\ \A j \in {k, s} : /\ Latency(j) \in Nat /\ CostIn(j, C) \in Nat
                             /\ Cost(j) \in Nat \cup {NoCost}
                             /\ Cost(j) # NoCost => Cost(j) <= MaxCost(C)
                             /\ Score(j, C) = CostIn(j, C) * MaxLatency(C)
                                                 + Latency(j) * MaxCost(C)
    BY <2>2, <2>5, PoolBounds
  <2>7. Latency(k) < Latency(s)
    BY <2>4 DEF Faster
  <2>8. CostIn(k, C) <= CostIn(s, C)
    BY <2>4, <2>6, RoutingAssumption DEF Cheaper, CostIn
  <2>9. Score(k, C) < Score(s, C)
    <3>1. CostIn(k, C) * MaxLatency(C) \in Nat /\ CostIn(s, C) * MaxLatency(C) \in Nat
          /\ CostIn(k, C) * MaxLatency(C) <= CostIn(s, C) * MaxLatency(C)
      BY <2>6, <2>8, Products
    <3>2. Latency(k) * MaxCost(C) \in Nat /\ Latency(s) * MaxCost(C) \in Nat
          /\ Latency(k) * MaxCost(C) < Latency(s) * MaxCost(C)
      BY <2>6, <2>7, Products
    <3>3. QED
      BY <2>6, <3>1, <3>2
  <2>10. k # s
    BY <2>6, <2>7
  <2>11. Before("balanced", s, k, C)
    BY <2>2, <2>5, <2>10
  <2>12. Score(k, C) \in Nat /\ Score(s, C) \in Nat
    BY <2>2, <2>5, ScoreIsNat
  <2>13. Ahead("balanced", k, s, C) /\ ~Ahead("balanced", s, k, C)
    BY <2>9, <2>12 DEF Ahead
  <2>14. QED
    BY <2>11, <2>13 DEF Before
<1>2. QED
  BY <1>1, RoutingInvariant, PTL
=============================================================================
