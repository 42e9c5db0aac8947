------------------------------ MODULE Induction ------------------------------
(***************************************************************************)
(* Least and greatest elements, and what folds compute: over a finite set, *)
(* and along a sequence, element after element.                            *)
(*                                                                         *)
(* The induction theorems of the library take an operator and can not be   *)
(* used here.  That the natural numbers are well founded takes none: a set *)
(* of numbers that is not empty has a least element, and induction is the  *)
(* remark that the set of counterexamples has none.                        *)
(***************************************************************************)
EXTENDS Integers, Sequences, FiniteSets, FiniteSetsExt, FiniteSetTheorems,
        WellFoundedInduction, TLAPS

\* A set of natural numbers has a least element.
LEMMA LeastNat ==
  ASSUME NEW S, S \subseteq Nat, S # {}
  PROVE  \E m \in S : \A n \in S : m <= n
<1> DEFINE R == OpToRel(<, Nat)
<1>1. IsWellFoundedOn(R, Nat)
  BY NatLessThanWellFounded
<1>2. PICK m \in S : \A n \in S : <<n, m>> \notin R
  <2> HIDE DEF R
  <2>1. QED
    BY <1>1, WFMin
<1>3. \A n \in S : ~(n < m)
  BY <1>2 DEF OpToRel
<1>4. QED
  BY <1>3

\* Induction: a set that has 0 and with each number its successor has them all.
LEMMA AllNaturals ==
  ASSUME NEW S, 0 \in S, \A n \in Nat : n \in S => n + 1 \in S
  PROVE  Nat \subseteq S
<1> DEFINE T == {n \in Nat : n \notin S}
<1> SUFFICES ASSUME T # {} PROVE FALSE
  OBVIOUS
<1>1. T \subseteq Nat
  OBVIOUS
<1>2. PICK m \in T : \A n \in T : m <= n
  <2> HIDE DEF T
  <2>1. QED
    BY <1>1, LeastNat
<1>3. m \in Nat /\ m # 0
  OBVIOUS
<1>4. m - 1 \in Nat /\ m = (m - 1) + 1
  BY <1>3
<1>5. m - 1 \in S
  BY <1>2, <1>4
<1>6. QED
  BY <1>4, <1>5

\* Among elements measured by natural numbers one measures least.
LEMMA LeastBy ==
  ASSUME NEW S, S # {}, NEW f, \A x \in S : f[x] \in Nat
  PROVE  \E x \in S : \A y \in S : f[x] <= f[y]
<1> DEFINE I == {f[x] : x \in S}
<1>1. I \subseteq Nat /\ I # {}
  OBVIOUS
<1>2. PICK m \in I : \A n \in I : m <= n
  <2> HIDE DEF I
  <2>1. QED
    BY <1>1, LeastNat
<1>3. QED
  BY <1>2

\* The same with a second measure, which tells elements apart.
LEMMA LeastByBoth ==
  ASSUME NEW S, S # {}, NEW f, \A x \in S : f[x] \in Nat,
         NEW g, \A x \in S : g[x] \in Nat,
         \A x, y \in S : g[x] = g[y] => x = y
  PROVE  \E x \in S : \A y \in S \ {x} : f[x] < f[y] \/ (f[x] = f[y] /\ g[x] < g[y])
<1>1. PICK a \in S : \A y \in S : f[a] <= f[y]
  BY LeastBy
<1> DEFINE T == {x \in S : f[x] = f[a]}
<1>2. T # {} /\ \A x \in T : g[x] \in Nat
  OBVIOUS
<1>3. PICK b \in T : \A y \in T : g[b] <= g[y]
  <2> HIDE DEF T
  <2>1. QED
    BY <1>2, LeastBy
<1>4. ASSUME NEW y \in S \ {b}
      PROVE  f[b] < f[y] \/ (f[b] = f[y] /\ g[b] < g[y])
  <2>1. f[b] <= f[y] /\ f[b] \in Nat /\ f[y] \in Nat
    BY <1>1
  <2>2. f[b] = f[y] => g[b] <= g[y] /\ g[b] # g[y] /\ g[b] \in Nat /\ g[y] \in Nat
    BY <1>3
  <2>3. QED
    BY <2>1, <2>2
<1>5. QED
  BY <1>4

\* A finite set of natural numbers has a greatest element.
LEMMA GreatestNat ==
  ASSUME NEW S, S \subseteq Nat, S # {}, IsFiniteSet(S)
  PROVE  \E m \in S : \A n \in S : m >= n
<1> DEFINE above == [x \in S |-> Cardinality({y \in S : y > x})]
<1>1. \A x \in S : IsFiniteSet({y \in S : y > x})
  BY FS_Subset
<1>2. \A x \in S : above[x] \in Nat
  BY <1>1, FS_CardinalityType
<1>3. PICK m \in S : \A x \in S : above[m] <= above[x]
  <2> HIDE DEF above
  <2>1. QED
    BY <1>2, LeastBy
<1>4. SUFFICES ASSUME NEW n \in S, n > m PROVE FALSE
  BY <1>3
<1> DEFINE M == {y \in S : y > m}
           N == {y \in S : y > n}
<1>5. N \subseteq M /\ n \in M /\ n \notin N
  <2>1. m \in Nat /\ n \in Nat /\ \A y \in S : y \in Nat
    OBVIOUS
  <2>2. ASSUME NEW y \in S, y > n PROVE y > m
    BY <1>4, <2>1, <2>2
  <2>3. ~(n > n)
    BY <2>1
  <2>4. QED
    BY <1>4, <2>2, <2>3
<1>6. IsFiniteSet(M) /\ IsFiniteSet(N) /\ Cardinality(M) \in Nat /\ Cardinality(N) \in Nat
  BY <1>1, FS_CardinalityType
<1>7. Cardinality(N) # Cardinality(M) /\ Cardinality(N) <= Cardinality(M)
  <2> HIDE DEF M, N
  <2>1. QED
    BY <1>5, <1>6, FS_Subset
<1>8. Cardinality(M) <= Cardinality(N)
  BY <1>3
<1>9. QED
  <2> HIDE DEF M, N
  <2>1. QED
    BY <1>6, <1>7, <1>8

\* Max is the greatest element of a finite set of numbers.
LEMMA MaxIsGreatest ==
  ASSUME NEW S, S \subseteq Nat, S # {}, IsFiniteSet(S)
  PROVE  Max(S) \in S /\ \A n \in S : n <= Max(S)
<1>1. \E m \in S : \A n \in S : m >= n
  BY GreatestNat
<1>2. Max(S) \in S /\ \A n \in S : Max(S) >= n
  BY <1>1 DEF Max
<1>3. QED
  BY <1>2

-----------------------------------------------------------------------------
(* Finite sets, taken apart by a function that picks an element of each. *)

Picks(pick, S) == \A s \in SUBSET S : s # {} => pick[s] \in s

\* The set P is closed under adding a picked element.
Inductive(P, pick, S) ==
    /\ {} \in P
    /\ \A s \in SUBSET S : s # {} /\ s \ {pick[s]} \in P => s \in P

\* f folds the picked elements, one after the other.
Folds(f, base, step, pick, S) ==
    \A s \in SUBSET S :
        f[s] = IF s = {} THEN base ELSE step[<<s, f[s \ {pick[s]}]>>]

\* Induction over the subsets of a finite set: sets that include the empty set
\* and each set that they include without its picked element are all of them.
LEMMA AllSubsets ==
  ASSUME NEW S, IsFiniteSet(S), NEW pick, Picks(pick, S), NEW P, Inductive(P, pick, S)
  PROVE  SUBSET S \subseteq P
<1> USE DEF Picks, Inductive
<1> DEFINE Bad == {s \in SUBSET S : s \notin P}
           size == [s \in SUBSET S |-> Cardinality(s)]
<1> SUFFICES ASSUME Bad # {} PROVE FALSE
  OBVIOUS
<1>1. \A s \in SUBSET S : IsFiniteSet(s) /\ Cardinality(s) \in Nat
  BY FS_Subset, FS_CardinalityType
<1>2. \A s \in Bad : size[s] \in Nat
  BY <1>1
<1>3. PICK s \in Bad : \A t \in Bad : size[s] <= size[t]
  <2> HIDE DEF Bad, size
  <2>1. QED
    BY <1>2, LeastBy
<1>4. s # {} /\ s \in SUBSET S /\ pick[s] \in s
  OBVIOUS
<1> DEFINE t == s \ {pick[s]}
<1>5. t \in SUBSET S /\ Cardinality(t) = Cardinality(s) - 1
  BY <1>1, <1>4, FS_RemoveElement
<1>6. ~(Cardinality(s) <= Cardinality(t))
  BY <1>1, <1>4, <1>5
<1>7. t \in P
  BY <1>3, <1>5, <1>6
<1>8. QED
  BY <1>4, <1>7

\* A fold over a finite set exists: a function on its subsets that is `base` on
\* the empty set and, on each other set, what `step` makes of its value on the
\* set without one element.
LEMMA FoldExists ==
  ASSUME NEW S, IsFiniteSet(S), NEW pick, Picks(pick, S), NEW V, NEW base \in V,
         NEW step \in [(SUBSET S) \X V -> V]
  PROVE  \E f \in [SUBSET S -> V] : Folds(f, base, step, pick, S)
<1> USE DEF Picks
<1> DEFINE Right(f, s) == IF s = {} THEN base ELSE step[<<s, f[s \ {pick[s]}]>>]
           N == {n \in Nat : \E f \in [SUBSET S -> V] :
                   \A s \in SUBSET S : Cardinality(s) <= n => f[s] = Right(f, s)}
<1>1. \A s \in SUBSET S : IsFiniteSet(s) /\ Cardinality(s) \in Nat
  BY FS_Subset, FS_CardinalityType
<1>2. 0 \in N
  <2> DEFINE f == [s \in SUBSET S |-> base]
  <2>1. f \in [SUBSET S -> V]
    OBVIOUS
  <2>2. ASSUME NEW s \in SUBSET S, Cardinality(s) <= 0
        PROVE  s = {}
    <3>1. Cardinality(s) = 0
      BY <1>1, <2>2
    <3>2. QED
      BY <1>1, <3>1, FS_EmptySet
  <2>3. \A s \in SUBSET S : Cardinality(s) <= 0 => f[s] = Right(f, s)
    BY <2>2
  <2>4. QED
    BY <2>1, <2>3
<1>3. ASSUME NEW n \in Nat, n \in N
      PROVE  n + 1 \in N
  <2>1. PICK f \in [SUBSET S -> V] :
           \A s \in SUBSET S : Cardinality(s) <= n => f[s] = Right(f, s)
    BY <1>3
  <2> DEFINE g == [s \in SUBSET S |->
                      IF Cardinality(s) = n + 1 THEN Right(f, s) ELSE f[s]]
  <2>2. \A s \in SUBSET S : s # {} => s \ {pick[s]} \in SUBSET S
    OBVIOUS
  <2>3. \A s \in SUBSET S : Right(f, s) \in V
    BY <2>2
  <2>4. g \in [SUBSET S -> V]
    BY <2>3
  <2>5. ASSUME NEW s \in SUBSET S, Cardinality(s) <= n + 1, s # {}
        PROVE  g[s \ {pick[s]}] = f[s \ {pick[s]}]
    <3>1. pick[s] \in s /\ Cardinality(s \ {pick[s]}) = Cardinality(s) - 1
      BY <1>1, <2>5, FS_RemoveElement
    <3>2. Cardinality(s \ {pick[s]}) # n + 1
      BY <1>1, <2>5, <3>1
    <3>3. QED
      BY <2>2, <2>5, <3>2
  <2>6. ASSUME NEW s \in SUBSET S, Cardinality(s) <= n + 1
        PROVE  g[s] = Right(g, s)
    <3>1. Right(g, s) = Right(f, s)
      BY <2>5, <2>6
    <3>2. CASE Cardinality(s) = n + 1
      BY <3>1, <3>2
    <3>3. CASE Cardinality(s) # n + 1
      <4>1. Cardinality(s) <= n
        BY <1>1, <2>6, <3>3
      <4>2. QED
        BY <2>1, <3>1, <3>3, <4>1
    <3>4. QED
      BY <3>2, <3>3
  <2>7. n + 1 \in Nat
    OBVIOUS
  <2>8. \E h \in [SUBSET S -> V] :
           \A s \in SUBSET S : Cardinality(s) <= n + 1 => h[s] = Right(h, s)
    <3> HIDE DEF g
    <3>1. QED
      BY <2>4, <2>6
  <2>9. QED
    BY <2>7, <2>8
<1>4. Nat \subseteq N
  <2> HIDE DEF N
  <2>1. QED
    BY <1>2, <1>3, AllNaturals
<1>5. Cardinality(S) \in N /\ \A s \in SUBSET S : Cardinality(s) <= Cardinality(S)
  BY <1>1, <1>4, FS_Subset, FS_CardinalityType
<1>6. QED
  BY <1>5 DEF Folds

-----------------------------------------------------------------------------
(* Left folds of sequences, as FoldLeft of SequencesExt computes them. *)

\* f folds the elements of s from the left: its value on the places 1..i of s is
\* what `step` makes of its value on 1..i-1 and the element i.
LeftFolds(f, base, step, s) ==
    \A t \in SUBSET (DOMAIN s) :
        f[t] = IF t = {} THEN base ELSE step[<<f[t \ {Max(t)}], s[Max(t)]>>]

\* The places of a sequence, and their greatest.
LEMMA PlacesOfSequence ==
  ASSUME NEW E, NEW s \in Seq(E)
  PROVE  /\ IsFiniteSet(DOMAIN s)
         /\ DOMAIN s = 1..Len(s)
         /\ Len(s) \in Nat
         /\ \A t \in SUBSET (DOMAIN s) : t # {} => Max(t) \in t
         /\ Picks([t \in SUBSET (DOMAIN s) |-> Max(t)], DOMAIN s)
<1>1. DOMAIN s = 1..Len(s) /\ Len(s) \in Nat
  OBVIOUS
<1>2. IsFiniteSet(DOMAIN s)
  <2>1. IsFiniteSet(1..Len(s))
    BY <1>1, FS_Interval
  <2>2. QED
    BY <1>1, <2>1
<1>3. ASSUME NEW t \in SUBSET (DOMAIN s), t # {}
      PROVE  Max(t) \in t
  <2>1. t \subseteq Nat /\ IsFiniteSet(t)
    BY <1>1, <1>2, FS_Subset
  <2>2. QED
    BY <1>3, <2>1, MaxIsGreatest
<1>4. QED
  BY <1>1, <1>2, <1>3 DEF Picks

\* A left fold exists.
LEMMA LeftFoldExists ==
  ASSUME NEW E, NEW V, NEW base \in V, NEW step \in [V \X E -> V], NEW s \in Seq(E)
  PROVE  \E f \in [SUBSET (DOMAIN s) -> V] : LeftFolds(f, base, step, s)
<1> DEFINE D == DOMAIN s
           pick == [t \in SUBSET D |-> Max(t)]
           stepOn == [p \in (SUBSET D) \X V |->
                         IF p[1] = {} THEN base ELSE step[<<p[2], s[Max(p[1])]>>]]
<1>1. IsFiniteSet(D) /\ Picks(pick, D) /\ \A t \in SUBSET D : t # {} => Max(t) \in t
  BY PlacesOfSequence
<1>2. \A t \in SUBSET D : t # {} => s[Max(t)] \in E
  BY <1>1
<1>3. stepOn \in [(SUBSET D) \X V -> V]
  BY <1>2
<1>4. PICK f \in [SUBSET D -> V] : Folds(f, base, stepOn, pick, D)
  <2> HIDE DEF D, pick, stepOn
  <2>1. QED
    BY <1>1, <1>3, FoldExists
<1>5. ASSUME NEW t \in SUBSET D, t # {}
      PROVE  f[t] = step[<<f[t \ {Max(t)}], s[Max(t)]>>]
  <2>1. pick[t] = Max(t) /\ t \ {Max(t)} \in SUBSET D
    OBVIOUS
  <2>2. f[t \ {Max(t)}] \in V
    BY <2>1
  <2>3. f[t] = stepOn[<<t, f[t \ {Max(t)}]>>]
    <3> HIDE DEF stepOn, pick
    <3>1. QED
      BY <1>4, <1>5, <2>1 DEF Folds
  <2>4. QED
    BY <1>5, <2>2, <2>3
<1>6. f[{}] = base
  BY <1>4 DEF Folds
<1>7. LeftFolds(f, base, step, s)
  <2> HIDE DEF pick, stepOn
  <2>1. QED
    BY <1>5, <1>6 DEF LeftFolds
<1>8. QED
  BY <1>7

\* The left fold of an empty sequence is its base.
LEMMA LeftFoldEmpty ==
  ASSUME NEW base, NEW step, NEW f, LeftFolds(f, base, step, <<>>)
  PROVE  f[DOMAIN <<>>] = base
<1>1. DOMAIN <<>> = {}
  OBVIOUS
<1>2. QED
  BY <1>1 DEF LeftFolds

\* The left fold of a sequence with one more element is what `step` makes of the
\* fold of the sequence and that element.
LEMMA LeftFoldAppend ==
  ASSUME NEW E, NEW s \in Seq(E), NEW e \in E, NEW base, NEW step,
         NEW f, LeftFolds(f, base, step, s),
         NEW g, LeftFolds(g, base, step, Append(s, e))
  PROVE  g[DOMAIN Append(s, e)] = step[<<f[DOMAIN s], e>>]
<1> DEFINE D == DOMAIN s
           n == Len(s) + 1
           whole == DOMAIN Append(s, e)
           pick == [t \in SUBSET D |-> Max(t)]
           P == {t \in SUBSET D : g[t] = f[t]}
<1>1. /\ IsFiniteSet(D) /\ Picks(pick, D) /\ D = 1..Len(s) /\ Len(s) \in Nat
      /\ \A t \in SUBSET D : t # {} => Max(t) \in t
  BY PlacesOfSequence
<1>2. /\ whole = 1..n /\ n \notin D /\ whole \ {n} = D /\ D \subseteq whole /\ n \in whole
      /\ Append(s, e)[n] = e /\ \A i \in D : Append(s, e)[i] = s[i]
  BY <1>1
<1>3. Inductive(P, pick, D)
  <2>1. {} \in P
    BY DEF LeftFolds
  <2>2. ASSUME NEW t \in SUBSET D, t # {}, t \ {pick[t]} \in P
        PROVE  t \in P
    <3>1. Max(t) \in D /\ Append(s, e)[Max(t)] = s[Max(t)] /\ t \in SUBSET whole
      BY <1>1, <1>2, <2>2
    <3>2. g[t \ {Max(t)}] = f[t \ {Max(t)}]
      BY <2>2
    <3>3. g[t] = step[<<g[t \ {Max(t)}], s[Max(t)]>>]
      BY <2>2, <3>1 DEF LeftFolds
    <3>4. f[t] = step[<<f[t \ {Max(t)}], s[Max(t)]>>]
      BY <2>2 DEF LeftFolds
    <3>5. QED
      BY <3>2, <3>3, <3>4
  <2>3. QED
    <3> HIDE DEF P, pick
    <3>1. QED
      BY <2>1, <2>2 DEF Inductive
<1>4. g[D] = f[D]
  <2>1. SUBSET D \subseteq P
    <3> HIDE DEF P, pick, D
    <3>1. QED
      BY <1>1, <1>3, AllSubsets
  <2>2. QED
    BY <2>1
<1>5. Max(whole) = n
  <2>1. \A y \in whole : n >= y
    BY <1>1, <1>2
  <2>2. \A x \in whole : (\A y \in whole : x >= y) => x = n
    <3>1. \A x \in whole : x \in Nat /\ (x >= n => x = n)
      BY <1>1, <1>2
    <3>2. QED
      BY <1>2, <3>1
  <2>3. QED
    <3> HIDE DEF whole, n
    <3>1. QED
      BY <1>2, <2>1, <2>2 DEF Max
<1>6. g[whole] = step[<<g[whole \ {n}], Append(s, e)[n]>>]
  <2>1. whole # {} /\ whole \in SUBSET whole
    BY <1>2
  <2>2. QED
    <3> HIDE DEF n
    <3>1. QED
      BY <1>5, <2>1 DEF LeftFolds
<1>7. QED
  BY <1>2, <1>4, <1>6

\* v is what a left fold makes of s.
IsLeftFold(v, base, step, s) == \E f : LeftFolds(f, base, step, s) /\ v = f[DOMAIN s]

\* The value of a left fold of the empty sequence is its base.
LEMMA LeftFoldOfEmpty ==
  ASSUME NEW v, NEW base, NEW step, IsLeftFold(v, base, step, <<>>)
  PROVE  v = base
<1>1. PICK f : LeftFolds(f, base, step, <<>>) /\ v = f[DOMAIN <<>>]
  BY DEF IsLeftFold
<1>2. QED
  BY <1>1, LeftFoldEmpty

\* The value of a left fold of a sequence with one more element is what `step`
\* makes of that of the sequence, and of the element.
LEMMA LeftFoldOfAppend ==
  ASSUME NEW v, NEW w, NEW base, NEW step, NEW E, NEW s, NEW e,
         s \in Seq(E), e \in E,
         IsLeftFold(v, base, step, s), IsLeftFold(w, base, step, Append(s, e))
  PROVE  w = step[<<v, e>>]
<1>1. PICK f : LeftFolds(f, base, step, s) /\ v = f[DOMAIN s]
  BY DEF IsLeftFold
<1>2. PICK g : LeftFolds(g, base, step, Append(s, e)) /\ w = g[DOMAIN Append(s, e)]
  BY DEF IsLeftFold
<1>3. g[DOMAIN Append(s, e)] = step[<<f[DOMAIN s], e>>]
  BY <1>1, <1>2, LeftFoldAppend
<1>4. QED
  BY <1>1, <1>2, <1>3

\* Induction over sequences: a set with the empty sequence, and with each
\* sequence also the longer ones, has them all.
LEMMA AllSequences ==
  ASSUME NEW S, NEW P, <<>> \in P,
         \A s \in Seq(S), e \in S : s \in P => Append(s, e) \in P
  PROVE  Seq(S) \subseteq P
<1> DEFINE N == {n \in Nat : \A s \in Seq(S) : Len(s) = n => s \in P}
<1>1. 0 \in N
  <2>1. \A s \in Seq(S) : Len(s) = 0 => s = <<>>
    OBVIOUS
  <2>2. QED
    BY <2>1
<1>2. ASSUME NEW n \in Nat, n \in N
      PROVE  n + 1 \in N
  <2>1. ASSUME NEW s \in Seq(S), Len(s) = n + 1
        PROVE  s \in P
    <3> DEFINE t == SubSeq(s, 1, n)
    <3>1. t \in Seq(S) /\ Len(t) = n /\ s[n + 1] \in S
      BY <2>1
    <3>2. s = Append(t, s[n + 1])
      BY <2>1
    <3>3. t \in P
      BY <1>2, <3>1
    <3>4. QED
      <4> HIDE DEF t
      <4>1. QED
        BY <3>1, <3>2, <3>3
  <2>2. QED
    BY <2>1
<1>3. Nat \subseteq N
  <2> HIDE DEF N
  <2>1. QED
    BY <1>1, <1>2, AllNaturals
<1>4. QED
  BY <1>3

\* Induction up to a bound: a set with 0, and below the bound with each number
\* also the next, has them all.
LEMMA UpTo ==
  ASSUME NEW n \in Nat, NEW P, 0 \in P, \A k \in 0..n - 1 : k \in P => k + 1 \in P
  PROVE  0..n \subseteq P
<1> DEFINE N == {k \in Nat : k <= n => k \in P}
<1>1. 0 \in N
  OBVIOUS
<1>2. ASSUME NEW k \in Nat, k \in N
      PROVE  k + 1 \in N
  <2>1. k + 1 <= n => k \in 0..n - 1 /\ k <= n
    OBVIOUS
  <2>2. QED
    BY <1>2, <2>1
<1>3. Nat \subseteq N
  <2> HIDE DEF N
  <2>1. QED
    BY <1>1, <1>2, AllNaturals
<1>4. QED
  BY <1>3

\* A set of at most one element has no two.
LEMMA AtMostOne ==
  ASSUME NEW C, IsFiniteSet(C), Cardinality(C) <= 1
  PROVE  \A i, j \in C : i = j
<1> SUFFICES ASSUME NEW i \in C, NEW j \in C, i # j PROVE FALSE
  OBVIOUS
<1>1. IsFiniteSet({i}) /\ Cardinality({i}) = 1
  BY FS_Singleton
<1> DEFINE two == {i} \cup {j}
<1>2. two \subseteq C
  OBVIOUS
<1>3. Cardinality(two) = 2
  <2>1. j \notin {i}
    OBVIOUS
  <2>2. Cardinality({i} \cup {j}) = Cardinality({i}) + 1
    BY <1>1, <2>1, FS_AddElement
  <2>3. QED
    BY <1>1, <2>2
<1> HIDE DEF two
<1>4. Cardinality(C) \in Nat /\ Cardinality(two) <= Cardinality(C)
  BY <1>2, FS_Subset, FS_CardinalityType
<1>5. QED
  BY <1>3, <1>4

=============================================================================
