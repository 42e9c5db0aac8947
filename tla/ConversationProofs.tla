-------------------------- MODULE ConversationProofs --------------------------
(***************************************************************************)
(* Proofs about Conversation.                                              *)
(*                                                                         *)
(* A format is a map of sequences: what a message becomes depends on the   *)
(* message alone.  Joint, below, makes of each element of a sequence the   *)
(* sequence that a map gives it, and joins them; the histories, the        *)
(* unified messages, the requests and what is read of them are joints of   *)
(* the story, over maps that the lemmas compose.  The one function that    *)
(* looks back, appendResponsesFunctionCall, joins what one answer was cut  *)
(* into, so that the unified messages are again a joint of the story.      *)
(*                                                                         *)
(* The invariant, CInv, says that the history of either endpoint parses to *)
(* the messages of the story, whichever providers have answered.  PInv     *)
(* adds which results are still to come: those of the last answer's calls. *)
(***************************************************************************)
EXTENDS Conversation, Induction

-----------------------------------------------------------------------------
(* What Joined makes of a sequence. *)

\* Joined, of a function.
Joint(part, s) == Joined(s, LAMBDA x : part[x])

\* f joins the parts of the first elements of s.
Joins(f, part, s) ==
    f = [i \in 0 .. Len(s) |-> IF i = 0 THEN <<>> ELSE f[i - 1] \o part[s[i]]]

\* There is a function that joins the parts.
LEMMA JoinExists ==
  ASSUME NEW X, NEW Y, NEW s, NEW part, s \in Seq(X), part \in [X -> Seq(Y)]
  PROVE  \E f \in [0 .. Len(s) -> Seq(Y)] : Joins(f, part, s)
<1> DEFINE Upto(f, k) == /\ f[0] = <<>>
                         /\ \A i \in 1..k : f[i] = f[i - 1] \o part[s[i]]
           P == {k \in 0 .. Len(s) : \E f \in [0 .. k -> Seq(Y)] : Upto(f, k)}
<1>1. Len(s) \in Nat /\ \A i \in 1 .. Len(s) : part[s[i]] \in Seq(Y)
  OBVIOUS
<1>2. 0 \in P
  <2> DEFINE f == [i \in 0 .. 0 |-> <<>>]
  <2>1. f \in [0 .. 0 -> Seq(Y)] /\ Upto(f, 0)
    OBVIOUS
  <2>2. 0 \in 0 .. Len(s)
    BY <1>1
  <2> HIDE DEF f
  <2>3. QED
    BY <2>1, <2>2
<1>3. ASSUME NEW k \in 0 .. Len(s) - 1, k \in P
      PROVE  k + 1 \in P
  <2>1. PICK f \in [0 .. k -> Seq(Y)] : Upto(f, k)
    BY <1>3
  <2> HIDE DEF P
  <2>2. k \in Nat /\ k + 1 \in 1 .. Len(s) /\ k + 1 \in 0 .. Len(s)
    BY <1>1
  <2> DEFINE g == [i \in 0 .. k + 1 |-> IF i = k + 1 THEN f[k] \o part[s[k + 1]] ELSE f[i]]
  <2>3. f[k] \o part[s[k + 1]] \in Seq(Y)
    <3>1. f[k] \in Seq(Y) /\ part[s[k + 1]] \in Seq(Y)
      BY <1>1, <2>2
    <3>2. QED
      BY <3>1
  <2>4. g \in [0 .. k + 1 -> Seq(Y)]
    BY <2>2, <2>3
  <2>5. \A i \in 0 .. k : g[i] = f[i]
    BY <2>2
  <2>6. g[k + 1] = f[k] \o part[s[k + 1]]
    BY <2>2
  <2> HIDE DEF g
  <2>7. ASSUME NEW i \in 1 .. k + 1
        PROVE  g[i] = g[i - 1] \o part[s[i]]
    <3>1. CASE i = k + 1
      <4>1. i - 1 = k /\ k \in 0 .. k
        BY <2>2, <3>1
      <4>2. QED
        BY <2>5, <2>6, <3>1, <4>1
    <3>2. CASE i \in 1 .. k
      <4>1. i \in 0 .. k /\ i - 1 \in 0 .. k
        BY <2>2, <3>2
      <4>2. QED
        BY <2>1, <2>5, <3>2, <4>1
    <3>3. i = k + 1 \/ i \in 1 .. k
      BY <2>2
    <3>4. QED
      BY <3>1, <3>2, <3>3
  <2>8. g[0] = <<>>
    <3>1. 0 \in 0 .. k
      BY <2>2
    <3>2. QED
      BY <2>1, <2>5, <3>1
  <2>9. QED
    BY <2>2, <2>4, <2>7, <2>8 DEF P
<1>4. Len(s) \in P
  <2>1. 0 .. Len(s) \subseteq P
    <3> HIDE DEF P
    <3>1. QED
      BY <1>1, <1>2, <1>3, UpTo
  <2> HIDE DEF P
  <2>2. Len(s) \in 0 .. Len(s)
    BY <1>1
  <2>3. QED
    BY <2>1, <2>2
<1>5. PICK f \in [0 .. Len(s) -> Seq(Y)] : Upto(f, Len(s))
  BY <1>4
<1>6. Joins(f, part, s)
  <2> DEFINE g == [i \in 0 .. Len(s) |-> IF i = 0 THEN <<>> ELSE f[i - 1] \o part[s[i]]]
  <2>1. ASSUME NEW i \in 0 .. Len(s) PROVE g[i] = f[i]
    <3>1. i # 0 => i \in 1 .. Len(s)
      BY <1>1
    <3>2. QED
      BY <1>5, <3>1
  <2>2. f = g
    BY <2>1
  <2>3. QED
    BY <2>2 DEF Joins
<1>7. QED
  BY <1>6

\* It is the only one.
LEMMA JoinUnique ==
  ASSUME NEW s, Len(s) \in Nat, NEW part, NEW f, NEW g,
         Joins(f, part, s), Joins(g, part, s)
  PROVE  f[Len(s)] = g[Len(s)]
<1> DEFINE P == {k \in 0 .. Len(s) : f[k] = g[k]}
<1>1. ASSUME NEW h, Joins(h, part, s)
      PROVE  /\ h[0] = <<>>
             /\ \A i \in 1 .. Len(s) : h[i] = h[i - 1] \o part[s[i]]
  <2>1. 0 \in 0 .. Len(s) /\ \A i \in 1 .. Len(s) : i \in 0 .. Len(s) /\ i # 0
    OBVIOUS
  <2>2. QED
    BY <1>1, <2>1 DEF Joins
<1>2. 0 \in P
  <2>1. f[0] = <<>> /\ g[0] = <<>>
    BY <1>1
  <2>2. 0 \in 0 .. Len(s)
    OBVIOUS
  <2>3. QED
    BY <2>1, <2>2
<1>3. ASSUME NEW k \in 0 .. Len(s) - 1, k \in P
      PROVE  k + 1 \in P
  <2>1. k + 1 \in 1 .. Len(s) /\ (k + 1) - 1 = k /\ k + 1 \in 0 .. Len(s)
    OBVIOUS
  <2>2. f[k + 1] = f[k] \o part[s[k + 1]] /\ g[k + 1] = g[k] \o part[s[k + 1]]
    BY <1>1, <2>1
  <2>3. QED
    BY <1>3, <2>1, <2>2
<1>4. 0 .. Len(s) \subseteq P
  <2> HIDE DEF P
  <2>1. QED
    BY <1>2, <1>3, UpTo
<1>5. QED
  BY <1>4

\* Joint is its last value.
LEMMA JointIs ==
  ASSUME NEW X, NEW Y, NEW s, NEW part, s \in Seq(X), part \in [X -> Seq(Y)],
         NEW f, Joins(f, part, s)
  PROVE  f[Len(s)] = Joint(part, s)
<1> DEFINE F(h) == [i \in 0 .. Len(s) |-> IF i = 0 THEN <<>> ELSE h[i - 1] \o part[s[i]]]
           c == CHOOSE h : h = F(h)
<1>1. f = F(f)
  BY DEF Joins
<1>2. c = F(c)
  <2> HIDE DEF F
  <2>1. QED
    BY <1>1
<1>3. Joint(part, s) = c[Len(s)]
  BY DEF Joint, Joined
<1>4. Joins(c, part, s)
  <2> HIDE DEF c
  <2>1. QED
    BY <1>2 DEF Joins
<1>5. Len(s) \in Nat
  OBVIOUS
<1>6. QED
  <2> HIDE DEF c
  <2>1. QED
    BY <1>3, <1>4, <1>5, JoinUnique

\* Nothing is made of no elements.
LEMMA JointEmpty ==
  ASSUME NEW part
  PROVE  Joint(part, <<>>) = <<>>
<1>1. <<>> \in Seq({}) /\ Len(<<>>) = 0
  OBVIOUS
<1> DEFINE none == [x \in {} |-> <<>>]
           F(h) == [i \in 0 .. Len(<<>>) |->
                       IF i = 0 THEN <<>> ELSE h[i - 1] \o part[(<<>>)[i]]]
           f == [i \in 0 .. 0 |-> <<>>]
           c == CHOOSE h : h = F(h)
<1>2. \A h : F(h) = f
  BY <1>1
<1>3. c = F(c)
  <2>1. f = F(f)
    BY <1>2
  <2> HIDE DEF F, f
  <2>2. QED
    BY <2>1
<1>4. c[0] = <<>>
  BY <1>2, <1>3
<1>5. Joint(part, <<>>) = c[Len(<<>>)]
  BY DEF Joint, Joined
<1>6. QED
  <2> HIDE DEF c
  <2>1. QED
    BY <1>1, <1>4, <1>5

\* What is made of one more element comes last.
LEMMA JointAppend ==
  ASSUME NEW X, NEW Y, NEW s, NEW e, NEW part,
         s \in Seq(X), e \in X, part \in [X -> Seq(Y)]
  PROVE  Joint(part, Append(s, e)) = Joint(part, s) \o part[e]
<1> DEFINE t == Append(s, e)
           n == Len(s)
<1>1. /\ t \in Seq(X) /\ n \in Nat /\ Len(t) = n + 1 /\ t[n + 1] = e
      /\ \A i \in 1 .. n : t[i] = s[i]
  OBVIOUS
<1> HIDE DEF t
<1>2. PICK g \in [0 .. Len(t) -> Seq(Y)] : Joins(g, part, t)
  BY <1>1, JoinExists
<1> DEFINE f == [i \in 0 .. n |-> g[i]]
<1>3. Joins(f, part, s)
  <2> DEFINE h == [i \in 0 .. n |-> IF i = 0 THEN <<>> ELSE f[i - 1] \o part[s[i]]]
  <2>1. ASSUME NEW i \in 0 .. n PROVE f[i] = h[i]
    <3>0. i \in 0 .. Len(t)
      BY <1>1
    <3>1. g[i] = IF i = 0 THEN <<>> ELSE g[i - 1] \o part[t[i]]
      BY <1>2, <3>0 DEF Joins
    <3>2. i # 0 => i \in 1 .. n /\ i - 1 \in 0 .. n
      BY <1>1
    <3>3. QED
      BY <1>1, <3>1, <3>2
  <2>2. f = h
    BY <2>1
  <2>3. QED
    BY <2>2 DEF Joins
<1>4. f[n] = Joint(part, s)
  <2> HIDE DEF f
  <2>1. QED
    BY <1>3, JointIs
<1>5. g[n + 1] = Joint(part, t)
  <2>1. g[Len(t)] = Joint(part, t)
    <3>1. t \in Seq(X) /\ Joins(g, part, t)
      BY <1>1, <1>2
    <3> HIDE DEF f, n
    <3>2. QED
      BY <3>1, JointIs
  <2>2. QED
    BY <1>1, <2>1
<1>6. g[n + 1] = g[n] \o part[e]
  <2>1. n + 1 \in 0 .. Len(t) /\ n + 1 # 0 /\ (n + 1) - 1 = n
    BY <1>1
  <2>2. QED
    BY <1>1, <1>2, <2>1 DEF Joins
<1>7. f[n] = g[n]
  BY <1>1
<1>8. QED
  <2> HIDE DEF f, n
  <2>1. QED
    BY <1>4, <1>5, <1>6, <1>7 DEF t

\* What is made of a sequence.
LEMMA JointTyped ==
  ASSUME NEW X, NEW Y, NEW s, NEW part, s \in Seq(X), part \in [X -> Seq(Y)]
  PROVE  Joint(part, s) \in Seq(Y)
<1>1. PICK f \in [0 .. Len(s) -> Seq(Y)] : Joins(f, part, s)
  BY JoinExists
<1>2. f[Len(s)] = Joint(part, s)
  BY <1>1, JointIs
<1>3. Len(s) \in 0 .. Len(s)
  OBVIOUS
<1>4. QED
  BY <1>1, <1>2, <1>3

\* What is made of two sequences is what is made of the one and of the other.
LEMMA JointConcat ==
  ASSUME NEW X, NEW Y, NEW s, NEW t, NEW part,
         s \in Seq(X), t \in Seq(X), part \in [X -> Seq(Y)]
  PROVE  Joint(part, s \o t) = Joint(part, s) \o Joint(part, t)
<1> DEFINE P == {r \in Seq(X) : Joint(part, s \o r) = Joint(part, s) \o Joint(part, r)}
<1>1. <<>> \in P
  <2>1. s \o <<>> = s /\ Joint(part, s) \in Seq(Y)
    BY JointTyped
  <2>2. Joint(part, s) \o <<>> = Joint(part, s)
    BY <2>1
  <2>3. <<>> \in Seq(X)
    OBVIOUS
  <2>4. QED
    BY <2>1, <2>2, <2>3, JointEmpty
<1>2. ASSUME NEW r \in Seq(X), NEW e \in X, r \in P
      PROVE  Append(r, e) \in P
  <2>1. s \o r \in Seq(X) /\ Append(r, e) \in Seq(X)
    OBVIOUS
  <2>2. s \o Append(r, e) = Append(s \o r, e)
    OBVIOUS
  <2>3. Joint(part, s \o Append(r, e)) = Joint(part, s \o r) \o part[e]
    <3> DEFINE u == s \o r
    <3>1. u \in Seq(X) /\ s \o Append(r, e) = Append(u, e)
      BY <2>1, <2>2
    <3> HIDE DEF u
    <3>2. Joint(part, Append(u, e)) = Joint(part, u) \o part[e]
      BY <3>1, JointAppend
    <3>3. QED
      BY <3>1, <3>2 DEF u
  <2>4. Joint(part, Append(r, e)) = Joint(part, r) \o part[e]
    BY JointAppend
  <2>5. Joint(part, s) \in Seq(Y) /\ Joint(part, r) \in Seq(Y) /\ part[e] \in Seq(Y)
    BY JointTyped
  <2> DEFINE a == Joint(part, s)
             b == Joint(part, r)
             c == part[e]
  <2>6. (a \o b) \o c = a \o (b \o c)
    <3>1. a \in Seq(Y) /\ b \in Seq(Y) /\ c \in Seq(Y)
      BY <2>5
    <3> HIDE DEF a, b, c
    <3>2. QED
      BY <3>1
  <2>7. Joint(part, s \o r) = a \o b
    BY <1>2
  <2> HIDE DEF a, b, c
  <2>8. Joint(part, s \o Append(r, e)) = a \o Joint(part, Append(r, e))
    BY <2>3, <2>4, <2>6, <2>7 DEF a, b, c
  <2>9. QED
    BY <2>1, <2>8 DEF a
<1>3. QED
  <2> HIDE DEF P
  <2>1. Seq(X) \subseteq P
    BY <1>1, <1>2, AllSequences
  <2>2. QED
    BY <2>1 DEF P

\* p and q make the same of each element of s.
Agree(p, q, s) == \A i \in DOMAIN s : p[s[i]] = q[s[i]]

\* The functions that make sequences of Y of the elements of X.
Parts(X, Y) == [X -> Seq(Y)]

\* Parts that agree on the elements make the same of a sequence.
LEMMA JointSame ==
  ASSUME NEW X, NEW Y, NEW p, NEW q, NEW s, p \in Parts(X, Y),
         q \in Parts(X, Y), s \in Seq(X), Agree(p, q, s)
  PROVE  Joint(p, s) = Joint(q, s)
<1> USE DEF Parts
<1>1. \E f : Joins(f, p, s)
  BY JoinExists
<1>2. ASSUME NEW f, Joins(f, p, s)
      PROVE  Joins(f, q, s)
  <2>1. \A i \in 0 .. Len(s) : i # 0 => p[s[i]] = q[s[i]]
    BY DEF Agree
  <2>2. [i \in 0 .. Len(s) |-> IF i = 0 THEN <<>> ELSE f[i - 1] \o p[s[i]]]
        = [i \in 0 .. Len(s) |-> IF i = 0 THEN <<>> ELSE f[i - 1] \o q[s[i]]]
    BY <2>1
  <2>3. QED
    BY <1>2, <2>2 DEF Joins
<1>3. ASSUME NEW r \in [X -> Seq(Y)], NEW f, Joins(f, r, s)
      PROVE  f[Len(s)] = Joint(r, s)
  <2>1. s \in Seq(X) /\ r \in [X -> Seq(Y)] /\ Joins(f, r, s)
    BY <1>3
  <2>2. QED
    BY <2>1, JointIs
<1>4. QED
  BY <1>1, <1>2, <1>3

\* What p makes of what q makes of an element.
Twice(p, q) == [x \in DOMAIN q |-> Joint(p, q[x])]

\* What is made of what is made.
LEMMA JointOfJoint ==
  ASSUME NEW X, NEW Y, NEW Z, NEW q, NEW p, NEW u,
         q \in [X -> Seq(Y)], p \in [Y -> Seq(Z)], u \in Seq(X)
  PROVE  /\ Joint(p, Joint(q, u)) = Joint(Twice(p, q), u)
         /\ Twice(p, q) \in [X -> Seq(Z)]
<1> DEFINE r == [x \in X |-> Joint(p, q[x])]
           P == {s \in Seq(X) : Joint(p, Joint(q, s)) = Joint(r, s)}
<1>1. r \in [X -> Seq(Z)]
  <2>1. \A x \in X : q[x] \in Seq(Y)
    OBVIOUS
  <2>2. \A y \in Seq(Y) : Joint(p, y) \in Seq(Z)
    BY JointTyped
  <2>3. QED
    BY <2>1, <2>2
<1>2. <<>> \in P
  <2>1. <<>> \in Seq(X)
    OBVIOUS
  <2>2. QED
    BY <2>1, JointEmpty
<1>3. ASSUME NEW s \in Seq(X), NEW e \in X, s \in P
      PROVE  Append(s, e) \in P
  <2>1. Joint(q, Append(s, e)) = Joint(q, s) \o q[e]
    BY JointAppend
  <2>2. Joint(q, s) \in Seq(Y) /\ q[e] \in Seq(Y)
    BY JointTyped
  <2>3. Joint(p, Joint(q, s) \o q[e]) = Joint(p, Joint(q, s)) \o Joint(p, q[e])
    <3> DEFINE a == Joint(q, s)
               b == q[e]
    <3>1. a \in Seq(Y) /\ b \in Seq(Y)
      BY <2>2
    <3> HIDE DEF a, b, r, P
    <3>2. Joint(p, a \o b) = Joint(p, a) \o Joint(p, b)
      BY <3>1, JointConcat
    <3>3. QED
      BY <3>1, <3>2 DEF a, b
  <2>4. r[e] = Joint(p, q[e])
    OBVIOUS
  <2> HIDE DEF r
  <2>5. Joint(r, Append(s, e)) = Joint(r, s) \o r[e]
    BY <1>1, JointAppend
  <2>6. Append(s, e) \in Seq(X)
    OBVIOUS
  <2>7. QED
    BY <1>3, <2>1, <2>3, <2>4, <2>5, <2>6
<1>4. r = Twice(p, q)
  BY DEF Twice
<1>5. QED
  <2>1. Seq(X) \subseteq P
    <3> HIDE DEF P
    <3>1. QED
      BY <1>2, <1>3, AllSequences
  <2>2. QED
    BY <1>1, <1>4, <2>1

\* What is made of one element.
LEMMA JointOne ==
  ASSUME NEW X, NEW Y, NEW part, NEW x, part \in [X -> Seq(Y)], x \in X
  PROVE  Joint(part, <<x>>) = part[x]
<1> DEFINE none == <<>>
<1>1. none \in Seq(X) /\ part[x] \in Seq(Y) /\ <<x>> = Append(none, x)
  OBVIOUS
<1>2. Joint(part, none) = <<>>
  BY JointEmpty
<1> HIDE DEF none
<1>3. Joint(part, Append(none, x)) = Joint(part, none) \o part[x]
  BY <1>1, JointAppend
<1>4. Joint(part, none) \o part[x] = part[x]
  BY <1>1, <1>2
<1>5. QED
  BY <1>1, <1>3, <1>4

\* The images of a sequence's elements, and the sequences of one image.
Mapped(h, s) == [i \in DOMAIN s |-> h[s[i]]]
Ones(h) == [x \in DOMAIN h |-> <<h[x]>>]

\* The sequence of the images joins those of one image.
LEMMA JointMap ==
  ASSUME NEW h, NEW u, u \in Seq(DOMAIN h)
  PROVE  Mapped(h, u) = Joint(Ones(h), u)
<1> DEFINE X == DOMAIN h
           Y == {h[x] : x \in X}
<1> DEFINE one == [x \in X |-> <<h[x]>>]
           P == {s \in Seq(X) : [i \in DOMAIN s |-> h[s[i]]] = Joint(one, s)}
<1>1. one \in [X -> Seq(Y)] /\ \A x \in X : one[x] = <<h[x]>>
  OBVIOUS
<1> HIDE DEF one
<1>2. <<>> \in P
  <2>1. Joint(one, <<>>) = <<>>
    BY JointEmpty
  <2>2. [i \in DOMAIN <<>> |-> h[(<<>>)[i]]] = <<>>
    OBVIOUS
  <2>3. <<>> \in Seq(X)
    OBVIOUS
  <2>4. QED
    BY <2>1, <2>2, <2>3
<1>3. ASSUME NEW s \in Seq(X), NEW e \in X, s \in P
      PROVE  Append(s, e) \in P
  <2> DEFINE t == Append(s, e)
             a == [i \in DOMAIN s |-> h[s[i]]]
  <2>1. /\ t \in Seq(X) /\ Len(t) = Len(s) + 1 /\ t[Len(s) + 1] = e /\ Len(s) \in Nat
        /\ DOMAIN s = 1 .. Len(s) /\ DOMAIN t = 1 .. Len(s) + 1
        /\ \A i \in 1 .. Len(s) : t[i] = s[i] /\ s[i] \in X
    OBVIOUS
  <2> HIDE DEF t
  <2>2. a \in Seq(Y) /\ Len(a) = Len(s)
    BY <2>1
  <2>3. [i \in DOMAIN t |-> h[t[i]]] = a \o <<h[e]>>
    BY <2>1, <2>2
  <2>4. Joint(one, t) = Joint(one, s) \o one[e]
    <3>1. s \in Seq(X) /\ e \in X
      OBVIOUS
    <3> HIDE DEF P, X, Y
    <3>2. Joint(one, Append(s, e)) = Joint(one, s) \o one[e]
      BY <1>1, <3>1, JointAppend
    <3>3. QED
      BY <3>2 DEF t
  <2>5. a = Joint(one, s)
    BY <1>3
  <2> HIDE DEF X, Y
  <2>6. [i \in DOMAIN t |-> h[t[i]]] = Joint(one, t)
    <3> HIDE DEF a
    <3>1. QED
      BY <1>1, <2>3, <2>4, <2>5
  <2>7. QED
    BY <2>1, <2>6 DEF t
<1>4. Seq(X) \subseteq P
  <2> HIDE DEF P
  <2>1. QED
    BY <1>2, <1>3, AllSequences
<1>5. one = Ones(h)
  BY DEF one, Ones
<1>6. QED
  BY <1>4, <1>5 DEF Mapped

-----------------------------------------------------------------------------
(* The values of a conversation. *)

Args == Arguments \cup {"none"}
Roles == {"system", "developer", "user", "assistant", "tool", "function_call",
          "function_call_output"}
Messages ==
    [role : Roles, shape : {"string", "parts", "none"}, content : Seq(Blocks),
     calls : Seq(Blocks), id : Nat]
AskedMessages == [role : Roles, id : Nat, blocks : Seq(Blocks)]
Entries ==
    [by : Roles, shape : {"string", "parts"}, id : Nat, blocks : Seq(Blocks)]
Utterances == [by : Roles, token : Nat, args : Args]

\* The blocks of a kind.
Keep(kind) == [b \in Blocks |-> IF b.kind = kind THEN <<b>> ELSE <<>>]

\* Texts, Images and Calls keep the blocks of their kind.
LEMMA OfKindIs ==
  ASSUME NEW kind, NEW s \in Seq(Blocks)
  PROVE  OfKind(kind, s) = Joint(Keep(kind), s) /\ OfKind(kind, s) \in Seq(Blocks)
<1> DEFINE F(h) == [i \in 0 .. Len(s) |->
               IF i = 0 THEN <<>>
               ELSE h[i - 1] \o (IF s[i].kind = kind THEN <<s[i]>> ELSE <<>>)]
           c == CHOOSE h : h = F(h)
           part == Keep(kind)
<1>1. part \in [Blocks -> Seq(Blocks)] /\ s \in Seq(Blocks)
  BY DEF Keep
<1>2. \A i \in 0 .. Len(s) : i # 0 =>
          s[i] \in Blocks /\ part[s[i]] = IF s[i].kind = kind THEN <<s[i]>> ELSE <<>>
  BY DEF Keep
<1>3. ASSUME NEW h
      PROVE  Joins(h, part, s) <=> h = F(h)
  <2> HIDE DEF part
  <2>1. F(h) = [i \in 0 .. Len(s) |-> IF i = 0 THEN <<>> ELSE h[i - 1] \o part[s[i]]]
    BY <1>2
  <2>2. QED
    BY <2>1 DEF Joins
<1>4. c = F(c)
  <2>1. \E h : Joins(h, part, s)
    BY <1>1, JoinExists
  <2>2. \E h : h = F(h)
    BY <1>3, <2>1
  <2> HIDE DEF F
  <2>3. QED
    BY <2>2
<1>5. OfKind(kind, s) = c[Len(s)]
  BY DEF OfKind, Joined
<1>6. Joins(c, part, s)
  BY <1>3, <1>4
<1>7. c[Len(s)] = Joint(part, s) /\ Joint(part, s) \in Seq(Blocks)
  <2> HIDE DEF c, part
  <2>1. QED
    BY <1>1, <1>6, JointIs, JointTyped
<1>8. QED
  <2> HIDE DEF c
  <2>1. QED
    BY <1>5, <1>7

\* What a provider is sent of a message, and what of it as its system prompt.
Sends(d) ==
    [m \in Messages |->
        IF d = "anthropic"
        THEN IF m.role = "system" THEN <<>>
             ELSE <<Asked(IF m.role = "assistant" THEN "assistant" ELSE "user", 0,
                          ToAnthropicContent(m))>>
        ELSE IF d = "ollama" THEN <<ToOllamaMessage(m)>>
        ELSE <<ToOpenAiMessage(m)>>]
Prompts(d) ==
    [m \in Messages |->
        IF d = "anthropic" /\ m.role = "system" THEN m.content ELSE <<>>]

\* A function on the first places is a sequence.
LEMMA SequenceOf ==
  ASSUME NEW S, NEW n \in Nat, NEW f \in [1 .. n -> S]
  PROVE  f \in Seq(S)
  OBVIOUS

\* A block is one of Blocks.
LEMMA BlockTyped ==
  ASSUME NEW kind \in {"text", "image", "call", "result"}, NEW id \in Nat,
         NEW token \in Nat, NEW args \in Args
  PROVE  Block(kind, id, token, args) \in Blocks
  BY DEF Block, Blocks, Args

\* The mappers send blocks.
LEMMA ContentTyped ==
  ASSUME NEW m \in Messages
  PROVE  /\ ToAnthropicContent(m) \in Seq(Blocks)
         /\ ToOpenAiMessage(m) \in AskedMessages
         /\ ToOllamaMessage(m) \in AskedMessages
<1>1. /\ m.role \in Roles /\ m.id \in Nat
      /\ m.content \in Seq(Blocks) /\ m.calls \in Seq(Blocks)
  BY DEF Messages
<1> DEFINE content == m.content
           calls == m.calls
<1>2. \A i \in DOMAIN content : content[i] \in Blocks /\ content[i].token \in Nat
  <2>1. \A i \in DOMAIN content : content[i] \in Blocks
    BY <1>1
  <2>2. QED
    BY <2>1 DEF Blocks
<1>3. \A i \in DOMAIN calls : calls[i] \in Blocks
  BY <1>1
<1>7. DOMAIN calls = 1 .. Len(calls) /\ Len(calls) \in Nat
  BY <1>1
<1>4. ToAnthropicContent(m) \in Seq(Blocks)
  <2> DEFINE n == IF m.shape = "string" /\ content # <<>> THEN content[1].token ELSE 0
             parsed == [i \in DOMAIN calls |->
                 [calls[i] EXCEPT !.args = IF @ = "" THEN "{}" ELSE @]]
             texts == [i \in DOMAIN content |-> Text(content[i].token)]
  <2>1. ToolResult(m.id, n) \in Blocks
    <3>1. n \in Nat
      <4>1. content # <<>> => 1 \in DOMAIN content
        BY <1>1
      <4>2. QED
        BY <1>2, <4>1
    <3> HIDE DEF n
    <3>2. QED
      BY <1>1, <3>1, BlockTyped DEF ToolResult, Args
  <2>2. parsed \in Seq(Blocks)
    <3>1. \A i \in DOMAIN calls :
              [calls[i] EXCEPT !.args = IF @ = "" THEN "{}" ELSE @] \in Blocks
      BY <1>3 DEF Blocks, Arguments
    <3>2. parsed \in [1 .. Len(calls) -> Blocks]
      BY <1>7, <3>1
    <3> HIDE DEF calls, parsed
    <3>3. QED
      BY <1>7, <3>2, SequenceOf
  <2>3. texts \in Seq(Blocks)
    <3>1. \A i \in DOMAIN content : Text(content[i].token) \in Blocks
      BY <1>2, BlockTyped DEF Text, Args
    <3>2. QED
      BY <1>1, <3>1
  <2>4. ToAnthropicContent(m) =
            IF m.role = "tool" THEN <<ToolResult(m.id, n)>>
            ELSE IF m.role = "assistant" /\ calls # <<>>
            THEN (IF m.shape = "string" THEN content ELSE <<>>) \o parsed
            ELSE texts
    BY DEF ToAnthropicContent
  <2>5. (IF m.shape = "string" THEN content ELSE <<>>) \o parsed \in Seq(Blocks)
    <3> HIDE DEF parsed
    <3>1. QED
      BY <1>1, <2>2
  <2> HIDE DEF n, parsed, texts
  <2>6. QED
    BY <2>1, <2>3, <2>4, <2>5
<1>5. ToOpenAiMessage(m) \in AskedMessages
  <2>1. content \o calls \in Seq(Blocks)
    BY <1>1
  <2>2. QED
    BY <1>1, <2>1 DEF ToOpenAiMessage, Asked, AskedMessages
<1>6. ToOllamaMessage(m) \in AskedMessages
  <2> DEFINE bare == [i \in DOMAIN calls |->
                 [calls[i] EXCEPT !.id = 0, !.args = ParseToolArguments(@)]]
  <2>1. bare \in Seq(Blocks)
    <3>1. \A i \in DOMAIN calls :
              [calls[i] EXCEPT !.id = 0, !.args = ParseToolArguments(@)] \in Blocks
      BY <1>3 DEF Blocks, Arguments, ParseToolArguments
    <3>2. bare \in [1 .. Len(calls) -> Blocks]
      BY <1>7, <3>1
    <3> HIDE DEF calls, bare
    <3>3. QED
      BY <1>7, <3>2, SequenceOf
  <2>2. Texts(content) \in Seq(Blocks) /\ Images(content) \in Seq(Blocks)
    BY <1>1, OfKindIs DEF Texts, Images
  <2>3. Texts(content) \o Images(content) \o bare \in Seq(Blocks)
    <3> HIDE DEF bare
    <3>1. QED
      BY <2>1, <2>2
  <2>4. ToOllamaMessage(m) = Asked(m.role, 0, Texts(content) \o Images(content) \o bare)
    BY DEF ToOllamaMessage
  <2> HIDE DEF bare
  <2>5. QED
    BY <1>1, <2>3, <2>4 DEF Asked, AskedMessages
<1>8. QED
  BY <1>4, <1>5, <1>6

\* What a provider is sent of a message are messages and a prompt.
LEMMA SendsTyped ==
  ASSUME NEW d
  PROVE  Sends(d) \in [Messages -> Seq(AskedMessages)] /\ Prompts(d) \in [Messages -> Seq(Blocks)]
<1>1. ASSUME NEW m \in Messages
      PROVE  Sends(d)[m] \in Seq(AskedMessages) /\ Prompts(d)[m] \in Seq(Blocks)
  <2>1. m.content \in Seq(Blocks) /\ m.role \in Roles
    BY DEF Messages
  <2> DEFINE r == IF m.role = "assistant" THEN "assistant" ELSE "user"
  <2>2. Asked(r, 0, ToAnthropicContent(m)) \in AskedMessages
    BY ContentTyped DEF Asked, AskedMessages, Roles
  <2>3. ToOpenAiMessage(m) \in AskedMessages /\ ToOllamaMessage(m) \in AskedMessages
    BY ContentTyped
  <2>4. \A a \in AskedMessages : <<a>> \in Seq(AskedMessages)
    OBVIOUS
  <2>5. QED
    BY <2>1, <2>2, <2>3, <2>4 DEF Sends, Prompts
<1>2. DOMAIN Sends(d) = Messages /\ DOMAIN Prompts(d) = Messages
  BY DEF Sends, Prompts
<1>3. QED
  BY <1>1, <1>2 DEF Sends, Prompts

-----------------------------------------------------------------------------
(* A request, made message after message and read block after block. *)

\* The system prompt that Anthropic is sent.
LEMMA PromptIs ==
  ASSUME NEW s \in Seq(Messages)
  PROVE  ToAnthropicRequest(s).system = Joint(Prompts("anthropic"), s)
<1> DEFINE F(h) == [i \in 0 .. Len(s) |->
               IF i = 0 THEN <<>>
               ELSE h[i - 1] \o (IF s[i].role = "system" THEN s[i].content ELSE <<>>)]
           c == CHOOSE h : h = F(h)
           part == Prompts("anthropic")
<1>1. part \in [Messages -> Seq(Blocks)] /\ s \in Seq(Messages)
  BY SendsTyped
<1>2. \A i \in 0 .. Len(s) : i # 0 =>
          /\ s[i] \in Messages
          /\ part[s[i]] = IF s[i].role = "system" THEN s[i].content ELSE <<>>
  BY DEF Prompts
<1>3. ASSUME NEW h
      PROVE  Joins(h, part, s) <=> h = F(h)
  <2> HIDE DEF part
  <2>1. F(h) = [i \in 0 .. Len(s) |-> IF i = 0 THEN <<>> ELSE h[i - 1] \o part[s[i]]]
    BY <1>2
  <2>2. QED
    BY <2>1 DEF Joins
<1>4. c = F(c)
  <2>1. \E h : Joins(h, part, s)
    BY <1>1, JoinExists
  <2>2. \E h : h = F(h)
    BY <1>3, <2>1
  <2> HIDE DEF F
  <2>3. QED
    BY <2>2
<1>5. ToAnthropicRequest(s).system = c[Len(s)]
  BY DEF ToAnthropicRequest, Joined
<1>6. Joins(c, part, s)
  BY <1>3, <1>4
<1>7. c[Len(s)] = Joint(part, s)
  <2> HIDE DEF c, part
  <2>1. QED
    BY <1>1, <1>6, JointIs
<1>8. QED
  <2> HIDE DEF c
  <2>1. QED
    BY <1>5, <1>7

\* The messages that Anthropic is sent.
LEMMA AnthropicMessagesAre ==
  ASSUME NEW s \in Seq(Messages)
  PROVE  ToAnthropicRequest(s).messages = Joint(Sends("anthropic"), s)
<1> DEFINE sent(m) == IF m.role = "system" THEN <<>>
                      ELSE <<Asked(IF m.role = "assistant" THEN "assistant" ELSE "user",
                                   0, ToAnthropicContent(m))>>
           F(h) == [i \in 0 .. Len(s) |->
               IF i = 0 THEN <<>> ELSE h[i - 1] \o sent(s[i])]
           c == CHOOSE h : h = F(h)
           part == Sends("anthropic")
<1>1. part \in [Messages -> Seq(AskedMessages)] /\ s \in Seq(Messages)
  BY SendsTyped
<1>2. \A i \in 0 .. Len(s) : i # 0 => s[i] \in Messages /\ part[s[i]] = sent(s[i])
  BY DEF Sends
<1>3. ASSUME NEW h
      PROVE  Joins(h, part, s) <=> h = F(h)
  <2> HIDE DEF part, sent
  <2>1. F(h) = [i \in 0 .. Len(s) |-> IF i = 0 THEN <<>> ELSE h[i - 1] \o part[s[i]]]
    BY <1>2
  <2>2. QED
    BY <2>1 DEF Joins
<1>4. c = F(c)
  <2>1. \E h : Joins(h, part, s)
    BY <1>1, JoinExists
  <2>2. \E h : h = F(h)
    BY <1>3, <2>1
  <2> HIDE DEF F
  <2>3. QED
    BY <2>2
<1>5. ToAnthropicRequest(s).messages = c[Len(s)]
  BY DEF ToAnthropicRequest, Joined
<1>6. Joins(c, part, s)
  BY <1>3, <1>4
<1>7. c[Len(s)] = Joint(part, s)
  <2> HIDE DEF c, part
  <2>1. QED
    BY <1>1, <1>6, JointIs
<1>8. QED
  <2> HIDE DEF c
  <2>1. QED
    BY <1>5, <1>7

\* The messages that any provider is sent.
LEMMA MessagesAre ==
  ASSUME NEW d \in {"openai", "anthropic", "ollama", "nova"}, NEW s \in Seq(Messages)
  PROVE  ToRequest(d, s).messages = Joint(Sends(d), s)
<1>1. CASE d = "anthropic"
  BY <1>1, AnthropicMessagesAre DEF ToRequest
<1>2. CASE d = "ollama"
  <2> DEFINE h == [m \in Messages |-> ToOllamaMessage(m)]
  <2>1. s \in Seq(DOMAIN h)
    OBVIOUS
  <2>2. [i \in DOMAIN s |-> ToOllamaMessage(s[i])] = Mapped(h, s)
    BY DEF Mapped
  <2>3. Ones(h) = Sends(d)
    BY <1>2 DEF Sends, Ones
  <2> HIDE DEF h
  <2>4. Mapped(h, s) = Joint(Ones(h), s)
    BY <2>1, JointMap
  <2>5. ToRequest(d, s).messages = [i \in DOMAIN s |-> ToOllamaMessage(s[i])]
    BY <1>2 DEF ToRequest, ToOllamaRequest
  <2>6. QED
    BY <2>2, <2>3, <2>4, <2>5
<1>3. CASE d \in {"openai", "nova"}
  <2> DEFINE h == [m \in Messages |-> ToOpenAiMessage(m)]
  <2>1. s \in Seq(DOMAIN h)
    OBVIOUS
  <2>2. [i \in DOMAIN s |-> ToOpenAiMessage(s[i])] = Mapped(h, s)
    BY DEF Mapped
  <2>3. Ones(h) = Sends(d)
    BY <1>3 DEF Sends, Ones
  <2> HIDE DEF h
  <2>4. Mapped(h, s) = Joint(Ones(h), s)
    BY <2>1, JointMap
  <2>5. ToRequest(d, s).messages = [i \in DOMAIN s |-> ToOpenAiMessage(s[i])]
    BY <1>3 DEF ToRequest, ToOpenAiRequest, ToNovaRequest
  <2>6. QED
    BY <2>2, <2>3, <2>4, <2>5
<1>4. QED
  BY <1>1, <1>2, <1>3

\* A block, a message and a prompt, read.
ReadBlock(role) ==
    [b \in Blocks |-> IF b.token = 0 THEN <<>>
                      ELSE <<Utterance(IF b.kind = "result" THEN "tool" ELSE role,
                                       b.token, b.args)>>]
ReadMessage == [m \in AskedMessages |-> Joint(ReadBlock(m.role), m.blocks)]
ReadPrompt == [b \in Blocks |-> <<Utterance("system", b.token, b.args)>>]

\* What is read are utterances.
LEMMA ReadTyped ==
  /\ \A role \in Roles : ReadBlock(role) \in [Blocks -> Seq(Utterances)]
  /\ ReadMessage \in [AskedMessages -> Seq(Utterances)]
  /\ ReadPrompt \in [Blocks -> Seq(Utterances)]
<1>1. ASSUME NEW role \in Roles
      PROVE  ReadBlock(role) \in [Blocks -> Seq(Utterances)]
  <2>1. ASSUME NEW b \in Blocks
        PROVE  ReadBlock(role)[b] \in Seq(Utterances)
    <3> DEFINE by == IF b.kind = "result" THEN "tool" ELSE role
    <3>1. by \in Roles /\ b.token \in Nat /\ b.args \in Args
      BY DEF Blocks, Roles, Args
    <3> HIDE DEF by
    <3>2. Utterance(by, b.token, b.args) \in Utterances
      BY <3>1 DEF Utterance, Utterances
    <3>3. ReadBlock(role)[b] = IF b.token = 0 THEN <<>>
                               ELSE <<Utterance(by, b.token, b.args)>>
      BY DEF ReadBlock, by
    <3>4. QED
      BY <3>2, <3>3
  <2>2. QED
    BY <2>1 DEF ReadBlock
<1>2. ReadMessage \in [AskedMessages -> Seq(Utterances)]
  <2>1. ASSUME NEW m \in AskedMessages
        PROVE  Joint(ReadBlock(m.role), m.blocks) \in Seq(Utterances)
    <3> DEFINE r == ReadBlock(m.role)
               s == m.blocks
    <3>1. r \in [Blocks -> Seq(Utterances)] /\ s \in Seq(Blocks)
      BY <1>1 DEF AskedMessages
    <3> HIDE DEF r, s
    <3>2. Joint(r, s) \in Seq(Utterances)
      BY <3>1, JointTyped
    <3>3. QED
      BY <3>2 DEF r, s
  <2>2. QED
    BY <2>1 DEF ReadMessage
<1>3. ReadPrompt \in [Blocks -> Seq(Utterances)]
  BY DEF ReadPrompt, Utterance, Utterances, Blocks, Roles, Args
<1>4. QED
  BY <1>1, <1>2, <1>3

\* A message is read block after block.
LEMMA MessageRead ==
  ASSUME NEW m \in AskedMessages
  PROVE  Joined(m.blocks, LAMBDA b :
                 IF b.token = 0 THEN <<>>
                 ELSE <<Utterance(IF b.kind = "result" THEN "tool" ELSE m.role,
                                  b.token, b.args)>>)
         = ReadMessage[m]
<1> DEFINE s == m.blocks
           read(b) == IF b.token = 0 THEN <<>>
                      ELSE <<Utterance(IF b.kind = "result" THEN "tool" ELSE m.role,
                                       b.token, b.args)>>
           F(h) == [i \in 0 .. Len(s) |->
               IF i = 0 THEN <<>> ELSE h[i - 1] \o read(s[i])]
           c == CHOOSE h : h = F(h)
           part == ReadBlock(m.role)
<1>1. part \in [Blocks -> Seq(Utterances)] /\ s \in Seq(Blocks)
  BY ReadTyped DEF AskedMessages
<1>2. \A i \in 0 .. Len(s) : i # 0 => s[i] \in Blocks /\ part[s[i]] = read(s[i])
  <2>1. \A b \in Blocks : part[b] = read(b)
    BY DEF ReadBlock
  <2>2. \A i \in 0 .. Len(s) : i # 0 => s[i] \in Blocks
    BY <1>1
  <2> HIDE DEF part, read, s
  <2>3. QED
    BY <2>1, <2>2
<1>3. ASSUME NEW h
      PROVE  Joins(h, part, s) <=> h = F(h)
  <2> HIDE DEF part, read, s
  <2>1. F(h) = [i \in 0 .. Len(s) |-> IF i = 0 THEN <<>> ELSE h[i - 1] \o part[s[i]]]
    BY <1>2
  <2>2. QED
    BY <2>1 DEF Joins
<1>4. c = F(c)
  <2>1. \E h : Joins(h, part, s)
    <3> HIDE DEF part, s
    <3>1. QED
      BY <1>1, JoinExists
  <2>2. \E h : h = F(h)
    BY <1>3, <2>1
  <2> HIDE DEF F
  <2>3. QED
    BY <2>2
<1>5. Joined(m.blocks, LAMBDA b : read(b)) = c[Len(s)]
  BY DEF Joined
<1>6. Joins(c, part, s)
  BY <1>3, <1>4
<1>7. c[Len(s)] = Joint(part, s)
  <2> HIDE DEF c, part, s
  <2>1. QED
    BY <1>1, <1>6, JointIs
<1>8. ReadMessage[m] = Joint(part, s)
  BY DEF ReadMessage
<1>9. QED
  BY <1>5, <1>7, <1>8

\* A request is read message after message, its prompt first.
LEMMA RequestRead ==
  ASSUME NEW r, r.system \in Seq(Blocks), r.messages \in Seq(AskedMessages)
  PROVE  ReadBack(r) = Joint(ReadPrompt, r.system) \o Joint(ReadMessage, r.messages)
<1> DEFINE s == r.messages
           read(m) ==
               Joined(m.blocks, LAMBDA b :
                 IF b.token = 0 THEN <<>>
                 ELSE <<Utterance(IF b.kind = "result" THEN "tool" ELSE m.role,
                                  b.token, b.args)>>)
           F(h) == [i \in 0 .. Len(s) |->
               IF i = 0 THEN <<>> ELSE h[i - 1] \o read(s[i])]
           c == CHOOSE h : h = F(h)
           prompt == [i \in DOMAIN r.system |->
               Utterance("system", r.system[i].token, r.system[i].args)]
<1>1. ReadMessage \in [AskedMessages -> Seq(Utterances)] /\ s \in Seq(AskedMessages)
  BY ReadTyped
<1>2. \A i \in 0 .. Len(s) : i # 0 => ReadMessage[s[i]] = read(s[i])
  <2>1. \A m \in AskedMessages : ReadMessage[m] = read(m)
    BY MessageRead
  <2>2. \A i \in 0 .. Len(s) : i # 0 => s[i] \in AskedMessages
    BY <1>1
  <2> HIDE DEF read, s
  <2>3. QED
    BY <2>1, <2>2
<1>3. ASSUME NEW h
      PROVE  Joins(h, ReadMessage, s) <=> h = F(h)
  <2> HIDE DEF read, s
  <2>1. F(h) = [i \in 0 .. Len(s) |->
                   IF i = 0 THEN <<>> ELSE h[i - 1] \o ReadMessage[s[i]]]
    BY <1>2
  <2>2. QED
    BY <2>1 DEF Joins
<1>4. c = F(c)
  <2>1. \E h : Joins(h, ReadMessage, s)
    <3> HIDE DEF s
    <3>1. QED
      BY <1>1, JoinExists
  <2>2. \E h : h = F(h)
    BY <1>3, <2>1
  <2> HIDE DEF F
  <2>3. QED
    BY <2>2
<1>5. ReadBack(r) = prompt \o c[Len(s)]
  BY DEF ReadBack, Joined
<1>6. Joins(c, ReadMessage, s)
  BY <1>3, <1>4
<1>7. c[Len(s)] = Joint(ReadMessage, s)
  <2> HIDE DEF c, s
  <2>1. QED
    BY <1>1, <1>6, JointIs
<1>8. prompt = Joint(ReadPrompt, r.system)
  <2> DEFINE h == [b \in Blocks |-> Utterance("system", b.token, b.args)]
             u == r.system
  <2>1. u \in Seq(DOMAIN h)
    OBVIOUS
  <2>2. prompt = Mapped(h, u)
    <3>1. \A i \in DOMAIN u : u[i] \in Blocks
      OBVIOUS
    <3>2. QED
      BY <3>1 DEF Mapped
  <2>3. Ones(h) = ReadPrompt
    BY DEF Ones, ReadPrompt
  <2> HIDE DEF h, u, prompt
  <2>4. Mapped(h, u) = Joint(Ones(h), u)
    BY <2>1, JointMap
  <2>5. QED
    BY <2>2, <2>3, <2>4 DEF u
<1>9. QED
  <2> HIDE DEF c, prompt, s
  <2>1. QED
    BY <1>5, <1>7, <1>8 DEF s

\* What is to be heard of a block, and of an entry of the story.
HeardBlock(d, e, kinds) ==
    [b \in Blocks |->
        IF b.kind \in kinds /\ ~Lost(d, e, b)
        THEN <<Utterance(Speaker(e), b.token, ReadAs(d, b.args))>> ELSE <<>>]
Hears(d, e, kinds) == Joint(HeardBlock(d, e, kinds), e.blocks)
HeardEntry(d, e) ==
    IF e.by = "assistant" THEN Hears(d, e, {"text"}) \o Hears(d, e, {"call"})
    ELSE IF d = "ollama" THEN Hears(d, e, {"text"}) \o Hears(d, e, {"image"})
    ELSE Hears(d, e, {"text", "image"})
HeardInPrompt(d) ==
    [e \in Entries |-> IF InPrompt(d, e) THEN HeardEntry(d, e) ELSE <<>>]
HeardAfter(d) ==
    [e \in Entries |-> IF InPrompt(d, e) THEN <<>> ELSE HeardEntry(d, e)]

\* What is heard of a block are utterances.
LEMMA HeardBlockTyped ==
  ASSUME NEW d, NEW e \in Entries, NEW kinds
  PROVE  HeardBlock(d, e, kinds) \in [Blocks -> Seq(Utterances)]
<1>1. ASSUME NEW b \in Blocks
      PROVE  HeardBlock(d, e, kinds)[b] \in Seq(Utterances)
  <2>1. b.token \in Nat /\ b.args \in Args
    BY DEF Blocks, Args
  <2>2. ReadAs(d, b.args) \in Args
    BY <2>1 DEF ReadAs, ParseToolArguments, Args, Arguments
  <2>3. Speaker(e) \in Roles
    BY DEF Speaker, Entries, Roles
  <2>4. Utterance(Speaker(e), b.token, ReadAs(d, b.args)) \in Utterances
    BY <2>1, <2>2, <2>3 DEF Utterance, Utterances
  <2>5. HeardBlock(d, e, kinds)[b] =
            IF b.kind \in kinds /\ ~Lost(d, e, b)
            THEN <<Utterance(Speaker(e), b.token, ReadAs(d, b.args))>> ELSE <<>>
    BY DEF HeardBlock
  <2>6. QED
    BY <2>4, <2>5
<1>2. QED
  BY <1>1 DEF HeardBlock

\* What is heard of an entry are utterances.
LEMMA HeardTyped ==
  ASSUME NEW d
  PROVE  /\ \A e \in Entries : \A kinds : Hears(d, e, kinds) \in Seq(Utterances)
         /\ HeardInPrompt(d) \in [Entries -> Seq(Utterances)]
         /\ HeardAfter(d) \in [Entries -> Seq(Utterances)]
<1>1. ASSUME NEW e \in Entries, NEW kinds
      PROVE  Hears(d, e, kinds) \in Seq(Utterances)
  <2> DEFINE part == HeardBlock(d, e, kinds)
             s == e.blocks
  <2>1. part \in [Blocks -> Seq(Utterances)] /\ s \in Seq(Blocks)
    BY HeardBlockTyped DEF Entries
  <2> HIDE DEF part, s
  <2>2. Joint(part, s) \in Seq(Utterances)
    BY <2>1, JointTyped
  <2>3. QED
    BY <2>2 DEF Hears, part, s
<1>2. ASSUME NEW e \in Entries
      PROVE  HeardEntry(d, e) \in Seq(Utterances)
  <2> DEFINE a(kinds) == Hears(d, e, kinds)
  <2>1. \A kinds : a(kinds) \in Seq(Utterances)
    BY <1>1
  <2>2. HeardEntry(d, e) =
            IF e.by = "assistant" THEN a({"text"}) \o a({"call"})
            ELSE IF d = "ollama" THEN a({"text"}) \o a({"image"})
            ELSE a({"text", "image"})
    BY DEF HeardEntry
  <2> HIDE DEF a
  <2>3. QED
    BY <2>1, <2>2
<1>3. QED
  BY <1>1, <1>2 DEF HeardInPrompt, HeardAfter

\* What is heard of the blocks of some kinds.
LEMMA BlocksHeard ==
  ASSUME NEW d, NEW e \in Entries, NEW kinds
  PROVE  Joined(e.blocks, LAMBDA b :
             IF b.kind \in kinds /\ ~Lost(d, e, b)
             THEN <<Utterance(Speaker(e), b.token, ReadAs(d, b.args))>>
             ELSE <<>>)
         = Hears(d, e, kinds)
<1> DEFINE s == e.blocks
           heard(b) == IF b.kind \in kinds /\ ~Lost(d, e, b)
                       THEN <<Utterance(Speaker(e), b.token, ReadAs(d, b.args))>>
                       ELSE <<>>
           F(h) == [i \in 0 .. Len(s) |->
               IF i = 0 THEN <<>> ELSE h[i - 1] \o heard(s[i])]
           c == CHOOSE h : h = F(h)
           part == HeardBlock(d, e, kinds)
<1>1. part \in [Blocks -> Seq(Utterances)] /\ s \in Seq(Blocks)
  BY HeardBlockTyped DEF Entries
<1>2. \A i \in 0 .. Len(s) : i # 0 => s[i] \in Blocks /\ part[s[i]] = heard(s[i])
  <2>1. \A b \in Blocks : part[b] = heard(b)
    BY DEF HeardBlock
  <2>2. \A i \in 0 .. Len(s) : i # 0 => s[i] \in Blocks
    BY <1>1
  <2> HIDE DEF part, heard, s
  <2>3. QED
    BY <2>1, <2>2
<1>3. ASSUME NEW h
      PROVE  Joins(h, part, s) <=> h = F(h)
  <2> HIDE DEF part, heard, s
  <2>1. F(h) = [i \in 0 .. Len(s) |-> IF i = 0 THEN <<>> ELSE h[i - 1] \o part[s[i]]]
    BY <1>2
  <2>2. QED
    BY <2>1 DEF Joins
<1>4. c = F(c)
  <2>1. \E h : Joins(h, part, s)
    <3> HIDE DEF part, s
    <3>1. QED
      BY <1>1, JoinExists
  <2>2. \E h : h = F(h)
    BY <1>3, <2>1
  <2> HIDE DEF F
  <2>3. QED
    BY <2>2
<1>5. Joined(e.blocks, LAMBDA b : heard(b)) = c[Len(s)]
  BY DEF Joined
<1>6. Joins(c, part, s)
  BY <1>3, <1>4
<1>7. c[Len(s)] = Joint(part, s)
  <2> HIDE DEF c, part, s
  <2>1. QED
    BY <1>1, <1>6, JointIs
<1>8. QED
  BY <1>5, <1>7 DEF Hears

\* What is to be heard of an entry.
LEMMA EntryHeard ==
  ASSUME NEW d, NEW e \in Entries
  PROVE  Uttered(d, e) = HeardEntry(d, e)
  BY BlocksHeard DEF Uttered, HeardEntry

\* What is to be heard of the story as a prompt.
LEMMA MeantInPrompt ==
  ASSUME NEW d, NEW s \in Seq(Entries)
  PROVE  Joined(s, LAMBDA e : IF InPrompt(d, e) THEN Uttered(d, e) ELSE <<>>)
         = Joint(HeardInPrompt(d), s)
<1> DEFINE heard(e) == IF InPrompt(d, e) THEN Uttered(d, e) ELSE <<>>
           F(h) == [i \in 0 .. Len(s) |->
               IF i = 0 THEN <<>> ELSE h[i - 1] \o heard(s[i])]
           c == CHOOSE h : h = F(h)
           part == HeardInPrompt(d)
<1>1. part \in [Entries -> Seq(Utterances)] /\ s \in Seq(Entries)
  BY HeardTyped
<1>2. \A i \in 0 .. Len(s) : i # 0 => s[i] \in Entries /\ part[s[i]] = heard(s[i])
  <2>1. \A e \in Entries : part[e] = heard(e)
    BY EntryHeard DEF HeardInPrompt
  <2> HIDE DEF part, heard
  <2>2. QED
    BY <2>1
<1>3. ASSUME NEW h
      PROVE  Joins(h, part, s) <=> h = F(h)
  <2> HIDE DEF part, heard
  <2>1. F(h) = [i \in 0 .. Len(s) |-> IF i = 0 THEN <<>> ELSE h[i - 1] \o part[s[i]]]
    BY <1>2
  <2>2. QED
    BY <2>1 DEF Joins
<1>4. c = F(c)
  <2>1. \E h : Joins(h, part, s)
    <3> HIDE DEF part
    <3>1. QED
      BY <1>1, JoinExists
  <2>2. \E h : h = F(h)
    BY <1>3, <2>1
  <2> HIDE DEF F
  <2>3. QED
    BY <2>2
<1>5. Joined(s, LAMBDA e : heard(e)) = c[Len(s)]
  BY DEF Joined
<1>6. Joins(c, part, s)
  BY <1>3, <1>4
<1>7. c[Len(s)] = Joint(part, s)
  <2> HIDE DEF c, part
  <2>1. QED
    BY <1>1, <1>6, JointIs
<1>8. QED
  BY <1>5, <1>7

\* What is to be heard of the story after the prompt.
LEMMA MeantAfter ==
  ASSUME NEW d, NEW s \in Seq(Entries)
  PROVE  Joined(s, LAMBDA e : IF InPrompt(d, e) THEN <<>> ELSE Uttered(d, e))
         = Joint(HeardAfter(d), s)
<1> DEFINE heard(e) == IF InPrompt(d, e) THEN <<>> ELSE Uttered(d, e)
           F(h) == [i \in 0 .. Len(s) |->
               IF i = 0 THEN <<>> ELSE h[i - 1] \o heard(s[i])]
           c == CHOOSE h : h = F(h)
           part == HeardAfter(d)
<1>1. part \in [Entries -> Seq(Utterances)] /\ s \in Seq(Entries)
  BY HeardTyped
<1>2. \A i \in 0 .. Len(s) : i # 0 => s[i] \in Entries /\ part[s[i]] = heard(s[i])
  <2>1. \A e \in Entries : part[e] = heard(e)
    BY EntryHeard DEF HeardAfter
  <2> HIDE DEF part, heard
  <2>2. QED
    BY <2>1
<1>3. ASSUME NEW h
      PROVE  Joins(h, part, s) <=> h = F(h)
  <2> HIDE DEF part, heard
  <2>1. F(h) = [i \in 0 .. Len(s) |-> IF i = 0 THEN <<>> ELSE h[i - 1] \o part[s[i]]]
    BY <1>2
  <2>2. QED
    BY <2>1 DEF Joins
<1>4. c = F(c)
  <2>1. \E h : Joins(h, part, s)
    <3> HIDE DEF part
    <3>1. QED
      BY <1>1, JoinExists
  <2>2. \E h : h = F(h)
    BY <1>3, <2>1
  <2> HIDE DEF F
  <2>3. QED
    BY <2>2
<1>5. Joined(s, LAMBDA e : heard(e)) = c[Len(s)]
  BY DEF Joined
<1>6. Joins(c, part, s)
  BY <1>3, <1>4
<1>7. c[Len(s)] = Joint(part, s)
  <2> HIDE DEF c, part
  <2>1. QED
    BY <1>1, <1>6, JointIs
<1>8. QED
  BY <1>5, <1>7

\* What is to be heard of the story.
LEMMA MeantIs ==
  ASSUME NEW d, story \in Seq(Entries)
  PROVE  Meant(d) = Joint(HeardInPrompt(d), story) \o Joint(HeardAfter(d), story)
  BY MeantInPrompt, MeantAfter DEF Meant

-----------------------------------------------------------------------------
(* The input of /v1/responses, parsed item after item. *)

ParseItem(messages, item) ==
    IF item.role = "function_call" THEN AppendResponsesFunctionCall(messages, item)
    ELSE Append(messages, MapResponsesInputItem(item))
ParseItems == [p \in Seq(Messages) \X Messages |-> ParseItem(p[1], p[2])]

\* A message is one of Messages.
LEMMA MessageTyped ==
  ASSUME NEW role \in Roles, NEW shape \in {"string", "parts", "none"},
         NEW content \in Seq(Blocks), NEW calls \in Seq(Blocks), NEW id \in Nat
  PROVE  Message(role, shape, content, calls, id) \in Messages
  BY DEF Message, Messages

\* Parsing an item leads from messages to messages.
LEMMA ParseItemTyped ==
  /\ <<>> \in Seq(Messages)
  /\ \A u \in Seq(Messages), m \in Messages : ParseItem(u, m) \in Seq(Messages)
  /\ ParseItems \in [Seq(Messages) \X Messages -> Seq(Messages)]
<1>1. ASSUME NEW u \in Seq(Messages), NEW m \in Messages
      PROVE  ParseItem(u, m) \in Seq(Messages)
  <2>1. /\ m.role \in Roles /\ m.shape \in {"string", "parts", "none"} /\ m.id \in Nat
        /\ m.content \in Seq(Blocks) /\ m.calls \in Seq(Blocks)
    BY DEF Messages
  <2>2. Len(u) \in Nat /\ \A i \in 1 .. Len(u) : u[i] \in Messages
    OBVIOUS
  <2>3. AppendResponsesFunctionCall(u, m) \in Seq(Messages)
    <3> DEFINE n == Len(u)
    <3>1. CASE n > 0 /\ u[n].role = "assistant"
      <4>1. n \in 1 .. Len(u) /\ u[n] \in Messages /\ u[n].calls \in Seq(Blocks)
        BY <2>2, <3>1 DEF Messages
      <4>2. [u[n] EXCEPT !.calls = @ \o m.calls] \in Messages
        <5>1. u[n].calls \o m.calls \in Seq(Blocks)
          BY <2>1, <4>1
        <5>2. QED
          BY <4>1, <5>1 DEF Messages
      <4>3. [u EXCEPT ![n].calls = @ \o m.calls]
            = [u EXCEPT ![n] = [u[n] EXCEPT !.calls = @ \o m.calls]]
        OBVIOUS
      <4>4. [u EXCEPT ![n].calls = @ \o m.calls] \in Seq(Messages)
        BY <4>1, <4>2, <4>3
      <4>5. QED
        BY <3>1, <4>4 DEF AppendResponsesFunctionCall
    <3>2. CASE ~(n > 0 /\ u[n].role = "assistant")
      <4>1. Message("assistant", "string", <<>>, m.calls, 0) \in Messages
        <5>1. <<>> \in Seq(Blocks)
          OBVIOUS
        <5>2. QED
          BY <2>1, <5>1 DEF Message, Messages, Roles
      <4>2. QED
        BY <3>2, <4>1 DEF AppendResponsesFunctionCall
    <3>3. QED
      BY <3>1, <3>2
  <2>4. MapResponsesInputItem(m) \in Messages
    <3>1. Texts(m.content) \in Seq(Blocks)
      BY <2>1, OfKindIs DEF Texts
    <3> DEFINE r == IF m.role = "developer" THEN "system" ELSE m.role
    <3>2. r \in Roles
      BY <2>1 DEF Roles
    <3> HIDE DEF r
    <3>3. Message(r, "string", Texts(m.content), <<>>, 0) \in Messages
      <4>1. <<>> \in Seq(Blocks)
        OBVIOUS
      <4>2. QED
        BY <3>1, <3>2, <4>1 DEF Message, Messages
    <3>4. [m EXCEPT !.role = "tool"] \in Messages
      BY DEF Messages, Roles
    <3>5. QED
      BY <3>3, <3>4 DEF MapResponsesInputItem, r
  <2>5. QED
    BY <2>3, <2>4 DEF ParseItem
<1>2. QED
  BY <1>1 DEF ParseItems

\* Parsing the input folds its items with ParseItem.
LEMMA ParseFold ==
  ASSUME NEW input \in Seq(Messages)
  PROVE  IsLeftFold(ParseResponsesRequest(input), <<>>, ParseItems, input) /\ ParseResponsesRequest(input) \in Seq(Messages)
<1> DEFINE D == DOMAIN input
           pick == [t \in SUBSET D |-> Max(t)]
           next(g, t) == IF t = {} THEN <<>>
                         ELSE ParseItem(g[t \ {Max(t)}], input[Max(t)])
           iter[t \in SUBSET D] == IF t = {} THEN <<>>
                                   ELSE ParseItem(iter[t \ {Max(t)}], input[Max(t)])
<1>1. ParseResponsesRequest(input) = iter[D]
  BY DEF ParseResponsesRequest, ParseItem, FoldLeft, MapThenFoldSet
<1>2. IsFiniteSet(D) /\ Picks(pick, D) /\ \A t \in SUBSET D : t # {} => Max(t) \in t
  BY PlacesOfSequence
<1>3. ParseItems \in [Seq(Messages) \X Messages -> Seq(Messages)] /\ <<>> \in Seq(Messages)
  BY ParseItemTyped
<1>4. PICK f \in [SUBSET D -> Seq(Messages)] : LeftFolds(f, <<>>, ParseItems, input)
  <2> HIDE DEF D
  <2>1. QED
    BY <1>3, LeftFoldExists DEF D
<1>5. ASSUME NEW t \in SUBSET D
      PROVE  f[t] = next(f, t)
  <2>1. CASE t = {}
    BY <1>4, <2>1 DEF LeftFolds
  <2>2. CASE t # {}
    <3>1. t \ {Max(t)} \in SUBSET D /\ input[Max(t)] \in Messages
      BY <1>2, <2>2
    <3>2. f[t \ {Max(t)}] \in Seq(Messages)
      BY <3>1
    <3>3. f[t] = ParseItems[<<f[t \ {Max(t)}], input[Max(t)]>>]
      BY <1>4, <2>2 DEF LeftFolds
    <3>4. ParseItems[<<f[t \ {Max(t)}], input[Max(t)]>>]
             = ParseItem(f[t \ {Max(t)}], input[Max(t)])
      BY <3>1, <3>2 DEF ParseItems
    <3>5. QED
      BY <2>2, <3>3, <3>4
  <2>3. QED
    BY <2>1, <2>2
<1>6. f = [t \in SUBSET D |-> next(f, t)]
  <2> HIDE DEF next
  <2>1. QED
    BY <1>4, <1>5
<1>7. iter = [t \in SUBSET D |-> next(iter, t)]
  BY <1>6
<1>8. \A t \in SUBSET D : iter[t] = next(iter, t)
  <2> HIDE DEF iter, next
  <2>1. QED
    BY <1>7
<1> DEFINE P == {t \in SUBSET D : iter[t] = f[t]}
<1>9. Inductive(P, pick, D)
  <2>1. {} \in P
    <3> HIDE DEF iter
    <3>1. next(iter, {}) = <<>> /\ next(f, {}) = <<>> /\ {} \in SUBSET D
      OBVIOUS
    <3>2. QED
      <4> HIDE DEF next, D
      <4>1. QED
        BY <1>5, <1>8, <3>1
  <2>2. ASSUME NEW t \in SUBSET D, t # {}, t \ {pick[t]} \in P
        PROVE  t \in P
    <3> HIDE DEF iter
    <3>1. iter[t \ {Max(t)}] = f[t \ {Max(t)}]
      BY <2>2
    <3>2. next(iter, t) = next(f, t)
      BY <2>2, <3>1
    <3>3. QED
      <4> HIDE DEF next
      <4>1. QED
        BY <1>5, <1>8, <3>2
  <2>3. QED
    <3> HIDE DEF P, pick
    <3>1. QED
      BY <2>1, <2>2 DEF Inductive
<1>10. iter[D] = f[D]
  <2>1. SUBSET D \subseteq P
    <3> HIDE DEF P, pick, D
    <3>1. QED
      BY <1>2, <1>9, AllSubsets
  <2>2. QED
    <3> HIDE DEF iter
    <3>1. QED
      BY <2>1
<1>11. QED
  BY <1>1, <1>4, <1>10 DEF IsLeftFold

\* Parsing is one item after the other.
LEMMA ParseSteps ==
  ASSUME NEW input \in Seq(Messages)
  PROVE  /\ ParseResponsesRequest(input) \in Seq(Messages)
         /\ ParseResponsesRequest(<<>>) = <<>>
         /\ \A e \in Messages : ParseResponsesRequest(Append(input, e)) = ParseItem(ParseResponsesRequest(input), e)
<1>1. IsLeftFold(ParseResponsesRequest(input), <<>>, ParseItems, input) /\ ParseResponsesRequest(input) \in Seq(Messages)
  BY ParseFold
<1>2. <<>> \in Seq(Messages) /\ \A e \in Messages : Append(input, e) \in Seq(Messages)
  OBVIOUS
<1>3. IsLeftFold(ParseResponsesRequest(<<>>), <<>>, ParseItems, <<>>)
  BY <1>2, ParseFold
<1>4. ASSUME NEW e \in Messages
      PROVE  ParseResponsesRequest(Append(input, e)) = ParseItem(ParseResponsesRequest(input), e)
  <2>1. IsLeftFold(ParseResponsesRequest(Append(input, e)), <<>>, ParseItems, Append(input, e))
    BY <1>2, ParseFold
  <2>2. ParseResponsesRequest(Append(input, e)) = ParseItems[<<ParseResponsesRequest(input), e>>]
    BY <1>1, <2>1, LeftFoldOfAppend
  <2>3. QED
    BY <1>1, <2>2 DEF ParseItems
<1>5. QED
  BY <1>1, <1>3, <1>4, LeftFoldOfEmpty

\* The length of a sequence given by its places.
LEMMA LengthOf ==
  ASSUME NEW S, NEW n \in Nat, NEW f \in [1 .. n -> S]
  PROVE  Len(f) = n /\ DOMAIN f = 1 .. n
  OBVIOUS

\* Sequences of the same length with the same elements are the same.
LEMMA SameElements ==
  ASSUME NEW S, NEW s, NEW t, s \in Seq(S), t \in Seq(S), Len(s) = Len(t),
         \A i \in 1 .. Len(s) : s[i] = t[i]
  PROVE  s = t
  OBVIOUS

\* The last element, put in the place of another.
LEMMA LastReplaced ==
  ASSUME NEW S, NEW u, NEW r, NEW q, u \in Seq(S), r \in S, q \in S
  PROVE  [Append(u, r) EXCEPT ![Len(u) + 1] = q] = Append(u, q)
<1> DEFINE n == Len(u) + 1
           v == Append(u, r)
           w == [v EXCEPT ![n] = q]
           x == Append(u, q)
<1>1. Len(u) \in Nat /\ n \in Nat /\ n \in 1 .. n
  OBVIOUS
<1>2. /\ v \in Seq(S) /\ Len(v) = n /\ DOMAIN v = 1 .. n
      /\ x \in Seq(S) /\ Len(x) = n /\ x[n] = q
      /\ \A i \in 1 .. n : i # n => v[i] = u[i] /\ x[i] = u[i]
  BY <1>1
<1> HIDE DEF n, v, x
<1>3. w \in [1 .. n -> S]
  BY <1>1, <1>2
<1>4. \A i \in 1 .. n : w[i] = x[i]
  BY <1>1, <1>2
<1> HIDE DEF w
<1>5. w \in Seq(S) /\ Len(w) = n
  BY <1>1, <1>3, SequenceOf, LengthOf
<1>6. w = x
  BY <1>2, <1>4, <1>5, SameElements
<1>7. QED
  BY <1>6 DEF w, v, x, n

\* The items of the calls of an answer, and a message of an assistant.
CallItem(c) == Message("function_call", "none", <<>>, <<c>>, c.id)
CallItems(cs) == [i \in DOMAIN cs |-> CallItem(cs[i])]
Reply(texts, calls) == Message("assistant", "string", texts, calls, 0)

\* One item for each call.
LEMMA CallItemsAre ==
  /\ CallItems(<<>>) = <<>>
  /\ \A c \in Blocks : CallItem(c) \in Messages
  /\ \A cs \in Seq(Blocks) : CallItems(cs) \in Seq(Messages)
  /\ \A cs \in Seq(Blocks), c \in Blocks :
         CallItems(Append(cs, c)) = Append(CallItems(cs), CallItem(c))
<1>1. CallItems(<<>>) = <<>>
  BY DEF CallItems
<1>2. ASSUME NEW c \in Blocks PROVE CallItem(c) \in Messages
  <2>1. <<>> \in Seq(Blocks) /\ <<c>> \in Seq(Blocks) /\ c.id \in Nat
    BY DEF Blocks
  <2>2. QED
    BY <2>1 DEF CallItem, Message, Messages, Roles
<1>3. ASSUME NEW cs \in Seq(Blocks) PROVE CallItems(cs) \in Seq(Messages)
  <2>1. Len(cs) \in Nat /\ DOMAIN cs = 1 .. Len(cs) /\ \A i \in 1 .. Len(cs) : cs[i] \in Blocks
    OBVIOUS
  <2>2. CallItems(cs) \in [1 .. Len(cs) -> Messages]
    BY <1>2, <2>1 DEF CallItems
  <2>3. QED
    BY <2>1, <2>2, SequenceOf
<1>4. ASSUME NEW cs \in Seq(Blocks), NEW c \in Blocks
      PROVE  CallItems(Append(cs, c)) = Append(CallItems(cs), CallItem(c))
  <2> DEFINE t == Append(cs, c)
  <2>1. /\ Len(cs) \in Nat /\ DOMAIN cs = 1 .. Len(cs) /\ DOMAIN t = 1 .. Len(cs) + 1
        /\ t[Len(cs) + 1] = c /\ \A i \in 1 .. Len(cs) : t[i] = cs[i]
    OBVIOUS
  <2>2. CallItems(cs) \in Seq(Messages) /\ Len(CallItems(cs)) = Len(cs)
    <3>1. CallItems(cs) \in [1 .. Len(cs) -> Messages]
      BY <1>2, <2>1 DEF CallItems
    <3>2. QED
      BY <2>1, <3>1, SequenceOf, LengthOf
  <2>3. \A i \in 1 .. Len(cs) : CallItems(cs)[i] = CallItem(cs[i])
    BY <2>1 DEF CallItems
  <2> HIDE DEF t
  <2>4. CallItems(t) = [i \in 1 .. Len(cs) + 1 |-> CallItem(t[i])]
    BY <2>1 DEF CallItems
  <2>5. \A i \in 1 .. Len(cs) + 1 : CallItem(t[i]) = Append(CallItems(cs), CallItem(c))[i]
    <3>1. ASSUME NEW i \in 1 .. Len(cs) + 1
          PROVE  CallItem(t[i]) = Append(CallItems(cs), CallItem(c))[i]
      <4>1. CASE i = Len(cs) + 1
        BY <2>1, <2>2, <4>1
      <4>2. CASE i \in 1 .. Len(cs)
        BY <2>1, <2>2, <2>3, <4>2
      <4>3. i = Len(cs) + 1 \/ i \in 1 .. Len(cs)
        BY <2>1
      <4>4. QED
        BY <4>1, <4>2, <4>3
    <3>2. QED
      BY <3>1
  <2>6. Append(CallItems(cs), CallItem(c)) \in Seq(Messages)
    BY <1>2, <2>2
  <2>7. CallItems(t) = Append(CallItems(cs), CallItem(c))
    <3> DEFINE u == CallItems(t)
               v == Append(CallItems(cs), CallItem(c))
    <3>1. u \in [1 .. Len(cs) + 1 -> Messages]
      <4>1. \A i \in 1 .. Len(cs) + 1 : t[i] \in Blocks
        BY DEF t
      <4>2. QED
        BY <1>2, <2>4, <4>1
    <3>2. v \in Seq(Messages) /\ Len(v) = Len(cs) + 1
      BY <1>2, <2>1, <2>2
    <3>3. \A i \in 1 .. Len(cs) + 1 : u[i] = v[i]
      BY <2>4, <2>5
    <3> HIDE DEF u, v
    <3>4. u \in Seq(Messages) /\ Len(u) = Len(cs) + 1
      <4>1. Len(cs) + 1 \in Nat
        BY <2>1
      <4>2. QED
        BY <3>1, <4>1, SequenceOf, LengthOf
    <3>5. u = v
      BY <3>2, <3>3, <3>4, SameElements
    <3>6. QED
      BY <3>5 DEF u, v
  <2>8. QED
    BY <2>7 DEF t
<1>5. QED
  BY <1>1, <1>2, <1>3, <1>4

\* A reply is a message, and a call item joins it.
LEMMA ReplyIs ==
  ASSUME NEW texts, texts \in Seq(Blocks), NEW calls, calls \in Seq(Blocks)
  PROVE  /\ Reply(texts, calls) \in Messages
         /\ Reply(texts, calls).role = "assistant"
         /\ \A u \in Seq(Messages), c \in Blocks :
                ParseItem(Append(u, Reply(texts, calls)), CallItem(c))
                = Append(u, Reply(texts, Append(calls, c)))
<1>1. Reply(texts, calls) \in Messages
  BY DEF Reply, Message, Messages, Roles
<1>2. Reply(texts, calls).role = "assistant" /\ Reply(texts, calls).calls = calls
  BY DEF Reply, Message
<1>3. ASSUME NEW u \in Seq(Messages), NEW c \in Blocks
      PROVE  ParseItem(Append(u, Reply(texts, calls)), CallItem(c))
             = Append(u, Reply(texts, Append(calls, c)))
  <2> DEFINE r == Reply(texts, calls)
             v == Append(u, r)
             n == Len(u) + 1
  <2>1. Len(u) \in Nat /\ Len(v) = n /\ n > 0 /\ v[n] = r /\ v \in Seq(Messages)
    BY <1>1
  <2>2. CallItem(c).role = "function_call" /\ CallItem(c).calls = <<c>>
    BY DEF CallItem, Message
  <2>3. ParseItem(v, CallItem(c)) = [v EXCEPT ![n].calls = @ \o <<c>>]
    <3> HIDE DEF v, r
    <3>1. QED
      BY <1>2, <2>1, <2>2 DEF ParseItem, AppendResponsesFunctionCall, r
  <2>4. calls \o <<c>> = Append(calls, c)
    OBVIOUS
  <2>5. [r EXCEPT !.calls = @ \o <<c>>] = Reply(texts, Append(calls, c))
    <3> DEFINE more == calls \o <<c>>
    <3>1. r = [role |-> "assistant", shape |-> "string", content |-> texts,
               calls |-> calls, id |-> 0]
      BY DEF Reply, Message
    <3>2. Reply(texts, more) = [role |-> "assistant", shape |-> "string", content |-> texts,
                                calls |-> more, id |-> 0]
      BY DEF Reply, Message
    <3> HIDE DEF r
    <3>3. [r EXCEPT !.calls = @ \o <<c>>] = [r EXCEPT !.calls = more]
      BY <3>1
    <3> HIDE DEF more
    <3>4. [r EXCEPT !.calls = more] = Reply(texts, more)
      BY <3>1, <3>2
    <3>5. QED
      BY <2>4, <3>3, <3>4 DEF more
  <2>6. [v EXCEPT ![n].calls = @ \o <<c>>] = [v EXCEPT ![n] = [r EXCEPT !.calls = @ \o <<c>>]]
    BY <2>1
  <2>7. Reply(texts, Append(calls, c)) \in Messages
    <3>1. Append(calls, c) \in Seq(Blocks)
      OBVIOUS
    <3>2. QED
      BY <3>1 DEF Reply, Message, Messages, Roles
  <2>8. [v EXCEPT ![n] = Reply(texts, Append(calls, c))]
        = Append(u, Reply(texts, Append(calls, c)))
    <3> DEFINE q == Reply(texts, Append(calls, c))
    <3>1. q \in Messages /\ r \in Messages
      BY <1>1, <2>7
    <3> HIDE DEF q, r
    <3>2. [Append(u, r) EXCEPT ![Len(u) + 1] = q] = Append(u, q)
      BY <3>1, LastReplaced
    <3>3. QED
      BY <3>2 DEF q
  <2>9. QED
    BY <2>3, <2>5, <2>6, <2>8
<1>4. QED
  BY <1>1, <1>2, <1>3

\* The calls of an answer join the text before them.
LEMMA CallsJoin ==
  ASSUME NEW h \in Seq(Messages), NEW u \in Seq(Messages), NEW texts \in Seq(Blocks),
         ParseResponsesRequest(h) = Append(u, Reply(texts, <<>>)),
         NEW calls \in Seq(Blocks)
  PROVE  ParseResponsesRequest(h \o CallItems(calls)) = Append(u, Reply(texts, calls))
<1> DEFINE P == {cs \in Seq(Blocks) :
                  ParseResponsesRequest(h \o CallItems(cs)) = Append(u, Reply(texts, cs))}
<1>1. <<>> \in P
  <2>1. h \o CallItems(<<>>) = h
    BY CallItemsAre
  <2>2. <<>> \in Seq(Blocks)
    OBVIOUS
  <2>3. QED
    BY <2>1, <2>2
<1>2. ASSUME NEW cs \in Seq(Blocks), NEW c \in Blocks, cs \in P
      PROVE  Append(cs, c) \in P
  <2> DEFINE g == h \o CallItems(cs)
  <2>1. CallItems(cs) \in Seq(Messages) /\ CallItem(c) \in Messages
    BY CallItemsAre
  <2>2. g \in Seq(Messages) /\ h \o Append(CallItems(cs), CallItem(c)) = Append(g, CallItem(c))
    BY <2>1
  <2>3. CallItems(Append(cs, c)) = Append(CallItems(cs), CallItem(c))
    BY CallItemsAre
  <2>4. ParseResponsesRequest(g) = Append(u, Reply(texts, cs))
    BY <1>2
  <2> HIDE DEF g
  <2>5. ParseResponsesRequest(Append(g, CallItem(c)))
        = ParseItem(ParseResponsesRequest(g), CallItem(c))
    BY <2>1, <2>2, ParseSteps
  <2>6. ParseItem(Append(u, Reply(texts, cs)), CallItem(c))
        = Append(u, Reply(texts, Append(cs, c)))
    BY ReplyIs
  <2>7. Append(cs, c) \in Seq(Blocks)
    OBVIOUS
  <2>8. QED
    BY <2>2, <2>3, <2>4, <2>5, <2>6, <2>7
<1>3. Seq(Blocks) \subseteq P
  <2> HIDE DEF P
  <2>1. QED
    BY <1>1, <1>2, AllSequences
<1>4. QED
  BY <1>3

\* The messages do not end with one of the assistant.
NoReplyLast(u) == u = <<>> \/ u[Len(u)].role # "assistant"

\* Without a text before them, the calls of an answer make a message.
LEMMA CallsStart ==
  ASSUME NEW h \in Seq(Messages), NEW u \in Seq(Messages),
         ParseResponsesRequest(h) = u, NoReplyLast(u),
         NEW calls \in Seq(Blocks), calls # <<>>
  PROVE  ParseResponsesRequest(h \o CallItems(calls)) = Append(u, Reply(<<>>, calls))
<1> DEFINE P == {cs \in Seq(Blocks) :
                  ParseResponsesRequest(h \o CallItems(cs)) =
                      IF cs = <<>> THEN u ELSE Append(u, Reply(<<>>, cs))}
<1>1. <<>> \in P
  <2>1. h \o CallItems(<<>>) = h
    BY CallItemsAre
  <2>2. <<>> \in Seq(Blocks)
    OBVIOUS
  <2>3. QED
    BY <2>1, <2>2
<1>2. ASSUME NEW cs \in Seq(Blocks), NEW c \in Blocks, cs \in P
      PROVE  Append(cs, c) \in P
  <2> DEFINE g == h \o CallItems(cs)
  <2>1. CallItems(cs) \in Seq(Messages) /\ CallItem(c) \in Messages
    BY CallItemsAre
  <2>2. g \in Seq(Messages) /\ h \o Append(CallItems(cs), CallItem(c)) = Append(g, CallItem(c))
    BY <2>1
  <2>3. CallItems(Append(cs, c)) = Append(CallItems(cs), CallItem(c))
    BY CallItemsAre
  <2>4. ParseResponsesRequest(g) = IF cs = <<>> THEN u ELSE Append(u, Reply(<<>>, cs))
    BY <1>2
  <2> HIDE DEF g
  <2>5. ParseResponsesRequest(Append(g, CallItem(c)))
        = ParseItem(ParseResponsesRequest(g), CallItem(c))
    BY <2>1, <2>2, ParseSteps
  <2>6. ParseItem(ParseResponsesRequest(g), CallItem(c))
        = Append(u, Reply(<<>>, Append(cs, c)))
    <3>1. CASE cs = <<>>
      <4>1. ParseResponsesRequest(g) = u
        BY <2>4, <3>1
      <4>2. CallItem(c).role = "function_call" /\ CallItem(c).calls = <<c>>
        BY DEF CallItem, Message
      <4>3. ~(Len(u) > 0 /\ u[Len(u)].role = "assistant")
        BY DEF NoReplyLast
      <4>4. Append(cs, c) = <<c>>
        BY <3>1
      <4>5. ParseItem(u, CallItem(c)) = Append(u, Reply(<<>>, <<c>>))
        BY <4>2, <4>3 DEF ParseItem, AppendResponsesFunctionCall, Reply
      <4>6. QED
        BY <4>1, <4>4, <4>5
    <3>2. CASE cs # <<>>
      <4> DEFINE none == <<>>
      <4>1. none \in Seq(Blocks) /\ ParseResponsesRequest(g) = Append(u, Reply(none, cs))
        BY <2>4, <3>2
      <4> HIDE DEF none
      <4>2. ParseItem(Append(u, Reply(none, cs)), CallItem(c))
            = Append(u, Reply(none, Append(cs, c)))
        BY <4>1, ReplyIs
      <4>3. QED
        BY <4>1, <4>2 DEF none
    <3>3. QED
      BY <3>1, <3>2
  <2>7. Append(cs, c) \in Seq(Blocks) /\ Append(cs, c) # <<>>
    <3>1. Len(Append(cs, c)) = Len(cs) + 1 /\ Len(cs) \in Nat /\ Append(cs, c) \in Seq(Blocks)
      OBVIOUS
    <3> DEFINE t == Append(cs, c)
    <3>2. Len(<<>>) = 0
      OBVIOUS
    <3>3. Len(t) # 0 /\ t \in Seq(Blocks)
      BY <3>1
    <3> HIDE DEF t
    <3>4. t # <<>>
      BY <3>2, <3>3
    <3>5. QED
      BY <3>3, <3>4 DEF t
  <2>8. QED
    BY <2>2, <2>3, <2>5, <2>6, <2>7
<1>3. Seq(Blocks) \subseteq P
  <2> HIDE DEF P
  <2>1. QED
    BY <1>1, <1>2, AllSequences
<1>4. QED
  BY <1>3

\* p makes nothing of the elements of s.
Idle(p, s) == \A i \in DOMAIN s : p[s[i]] = <<>>

\* Nothing is made of elements of which nothing is made.
LEMMA JointNothing ==
  ASSUME NEW X, NEW Y, NEW p, NEW s, p \in [X -> Seq(Y)], s \in Seq(X), Idle(p, s)
  PROVE  Joint(p, s) = <<>>
<1> DEFINE P == {t \in Seq(X) : Idle(p, t) => Joint(p, t) = <<>>}
<1>1. <<>> \in P
  <2>1. <<>> \in Seq(X)
    OBVIOUS
  <2>2. QED
    BY <2>1, JointEmpty
<1>2. ASSUME NEW t \in Seq(X), NEW e \in X, t \in P
      PROVE  Append(t, e) \in P
  <2> DEFINE v == Append(t, e)
  <2>1. Joint(p, v) = Joint(p, t) \o p[e]
    <3> HIDE DEF P
    <3>1. QED
      BY JointAppend
  <2>2. /\ v \in Seq(X) /\ Len(t) + 1 \in DOMAIN v /\ v[Len(t) + 1] = e
        /\ \A i \in DOMAIN t : i \in DOMAIN v /\ v[i] = t[i]
    OBVIOUS
  <2> HIDE DEF v
  <2>3. ASSUME Idle(p, v)
        PROVE  Joint(p, v) = <<>>
    <3>1. Idle(p, t) /\ p[e] = <<>>
      BY <2>2, <2>3 DEF Idle
    <3>2. Joint(p, t) = <<>>
      BY <1>2, <3>1
    <3>3. QED
      BY <2>1, <3>1, <3>2
  <2>4. v \in P
    BY <2>2, <2>3
  <2>5. QED
    BY <2>4 DEF v
<1>3. s \in P
  <2> HIDE DEF P
  <2>1. QED
    BY <1>1, <1>2, AllSequences
<1>4. QED
  BY <1>3

\* Keeping the blocks of a kind twice is keeping them, and of two kinds none.
LEMMA KeepTwice ==
  ASSUME NEW kind, NEW s \in Seq(Blocks)
  PROVE  /\ OfKind(kind, OfKind(kind, s)) = OfKind(kind, s)
         /\ \A other : other # kind => OfKind(other, OfKind(kind, s)) = <<>>
<1>1. \A x : Keep(x) \in [Blocks -> Seq(Blocks)]
  BY DEF Keep
<1>2. \A x : \A b \in Blocks : Keep(x)[b] = IF b.kind = x THEN <<b>> ELSE <<>>
  BY DEF Keep
<1>3. ASSUME NEW x
      PROVE  /\ OfKind(x, OfKind(kind, s)) = Joint(Twice(Keep(x), Keep(kind)), s)
             /\ Twice(Keep(x), Keep(kind)) \in [Blocks -> Seq(Blocks)]
  <2> DEFINE p == Keep(x)
             q == Keep(kind)
             t == OfKind(kind, s)
  <2>1. t = Joint(q, s) /\ t \in Seq(Blocks)
    BY OfKindIs
  <2>2. p \in [Blocks -> Seq(Blocks)] /\ q \in [Blocks -> Seq(Blocks)] /\ s \in Seq(Blocks)
    BY <1>1
  <2>3. OfKind(x, t) = Joint(p, t)
    <3> HIDE DEF t
    <3>1. QED
      BY <2>1, OfKindIs
  <2> HIDE DEF p, q, t
  <2>4. Joint(p, Joint(q, s)) = Joint(Twice(p, q), s) /\ Twice(p, q) \in [Blocks -> Seq(Blocks)]
    BY <2>2, JointOfJoint
  <2>5. QED
    BY <2>1, <2>3, <2>4 DEF p, q, t
<1>4. ASSUME NEW x, NEW b \in Blocks
      PROVE  Twice(Keep(x), Keep(kind))[b] =
                 IF b.kind = x /\ b.kind = kind THEN <<b>> ELSE <<>>
  <2> DEFINE p == Keep(x)
  <2>1. Twice(p, Keep(kind))[b] = Joint(p, Keep(kind)[b])
    BY DEF Twice, Keep
  <2>2. p \in [Blocks -> Seq(Blocks)]
    BY <1>1
  <2>3. Joint(p, <<b>>) = p[b]
    <3> HIDE DEF p
    <3>1. QED
      BY <2>2, JointOne
  <2>4. Joint(p, <<>>) = <<>>
    BY JointEmpty
  <2> HIDE DEF p
  <2>5. p[b] = IF b.kind = x THEN <<b>> ELSE <<>>
    BY <1>2 DEF p
  <2>6. Twice(p, Keep(kind))[b] = IF b.kind = x /\ b.kind = kind THEN <<b>> ELSE <<>>
    BY <1>2, <2>1, <2>3, <2>4, <2>5
  <2>7. QED
    BY <2>6 DEF p
<1>5. \A i \in DOMAIN s : s[i] \in Blocks
  OBVIOUS
<1>6. OfKind(kind, OfKind(kind, s)) = OfKind(kind, s)
  <2> DEFINE p == Twice(Keep(kind), Keep(kind))
             q == Keep(kind)
  <2>1. Agree(p, q, s)
    <3>1. \A b \in Blocks : p[b] = q[b]
      BY <1>2, <1>4
    <3> HIDE DEF p, q
    <3>2. QED
      BY <1>5, <3>1 DEF Agree
  <2>2. p \in [Blocks -> Seq(Blocks)] /\ q \in [Blocks -> Seq(Blocks)]
    BY <1>1, <1>3
  <2> HIDE DEF p, q
  <2>3. Joint(p, s) = Joint(q, s)
    <3>1. p \in Parts(Blocks, Blocks) /\ q \in Parts(Blocks, Blocks)
      BY <2>2 DEF Parts
    <3>2. QED
      BY <2>1, <3>1, JointSame
  <2>4. QED
    BY <1>3, <2>3, OfKindIs DEF p, q
<1>7. ASSUME NEW other, other # kind
      PROVE  OfKind(other, OfKind(kind, s)) = <<>>
  <2> DEFINE p == Twice(Keep(other), Keep(kind))
  <2>1. Idle(p, s)
    BY <1>4, <1>5, <1>7 DEF Idle
  <2>2. p \in [Blocks -> Seq(Blocks)]
    BY <1>3
  <2> HIDE DEF p
  <2>3. Joint(p, s) = <<>>
    BY <2>1, <2>2, JointNothing
  <2>4. QED
    BY <1>3, <2>3 DEF p
<1>8. QED
  BY <1>6, <1>7

-----------------------------------------------------------------------------
(* The story and the messages of a request. *)

TextBlocks == {b \in Blocks : b.kind = "text" /\ b.id = 0 /\ b.token # 0 /\ b.args = "none"}
ImageBlocks == {b \in Blocks : b.kind = "image" /\ b.id = 0 /\ b.token # 0 /\ b.args = "none"}
CallBlocks ==
    {b \in Blocks : b.kind = "call" /\ b.id = b.token /\ b.token # 0 /\ b.args \in Arguments}

\* What the client and the upstreams say.
SaidByClient(a, e) ==
    \/ /\ e.by \in {"system", "developer", "user"} /\ e.shape = "string" /\ e.id = 0
       /\ \E b \in TextBlocks : e.blocks = <<b>>
    \/ /\ e.by = "user" /\ e.shape = "parts" /\ e.id = 0
       /\ \E b \in ImageBlocks, c \in TextBlocks : e.blocks = <<b, c>>
    \/ /\ e.by = "tool" /\ (e.shape = "parts" => a = "chat")
       /\ \E b \in TextBlocks : e.blocks = <<b>>
SaidByAssistant(e) ==
    /\ e.by = "assistant" /\ e.shape = "string" /\ e.id = 0
    /\ e.blocks \in Seq(TextBlocks \cup CallBlocks)
WellSaid(a, e) == e \in Entries /\ (SaidByClient(a, e) \/ SaidByAssistant(e))

\* The messages that an entry is in a request.
UnitOf(a) ==
    [e \in Entries |->
        IF e.by = "assistant"
        THEN IF a # "chat" /\ Texts(e.blocks) = <<>> /\ Calls(e.blocks) = <<>> THEN <<>>
             ELSE <<Reply(Texts(e.blocks), Calls(e.blocks))>>
        ELSE IF a # "chat"
        THEN <<Message(Speaker(e), "string", Texts(e.blocks), <<>>, e.id)>>
        ELSE IF e.by = "developer" THEN <<Message("user", "string", <<>>, <<>>, 0)>>
        ELSE <<Message(e.by, e.shape, e.blocks, <<>>, e.id)>>]

UnifiedOf(a, h) ==
    IF a = "chat" THEN ParseChatCompletionRequest(h) ELSE ParseResponsesRequest(h)

\* An entry is messages.
LEMMA UnitTyped ==
  ASSUME NEW a
  PROVE  UnitOf(a) \in [Entries -> Seq(Messages)]
<1>1. ASSUME NEW e \in Entries
      PROVE  UnitOf(a)[e] \in Seq(Messages)
  <2>1. /\ e.by \in Roles /\ e.shape \in {"string", "parts"} /\ e.id \in Nat
        /\ e.blocks \in Seq(Blocks)
    BY DEF Entries
  <2>2. Texts(e.blocks) \in Seq(Blocks) /\ Calls(e.blocks) \in Seq(Blocks)
    BY <2>1, OfKindIs DEF Texts, Calls
  <2> DEFINE none == <<>>
             r == Reply(Texts(e.blocks), Calls(e.blocks))
             m == Message(Speaker(e), "string", Texts(e.blocks), none, e.id)
             n == Message("user", "string", none, none, 0)
             o == Message(e.by, e.shape, e.blocks, none, e.id)
  <2>3. none \in Seq(Blocks) /\ Speaker(e) \in Roles
    BY <2>1 DEF Speaker, Roles
  <2>4. r \in Messages
    BY <2>2, ReplyIs
  <2>5. m \in Messages /\ n \in Messages /\ o \in Messages
    <3> HIDE DEF none
    <3>1. QED
      BY <2>1, <2>2, <2>3 DEF Message, Messages, Roles
  <2>6. UnitOf(a)[e] \in {<<>>, <<r>>, <<m>>, <<n>>, <<o>>}
    BY DEF UnitOf
  <2> HIDE DEF r, m, n, o, none
  <2>7. <<>> \in Seq(Messages) /\ \A x \in Messages : <<x>> \in Seq(Messages)
    OBVIOUS
  <2>8. QED
    BY <2>4, <2>5, <2>6, <2>7
<1>2. QED
  BY <1>1 DEF UnitOf

\* The messages of a chat, parsed one after the other.
LEMMA ChatParsed ==
  ASSUME NEW h, NEW m, h \in Seq(Messages), m \in Messages
  PROVE  /\ ParseChatCompletionRequest(h) \in Seq(Messages)
         /\ ParseChatCompletionRequest(Append(h, m))
            = ParseChatCompletionRequest(h) \o <<MapOpenAiMessage(m)>>
<1> DEFINE f == [x \in Messages |-> MapOpenAiMessage(x)]
           p == Ones(f)
<1>1. ASSUME NEW x \in Messages PROVE MapOpenAiMessage(x) \in Messages
  BY DEF MapOpenAiMessage, Message, Messages, Roles
<1>2. p \in [Messages -> Seq(Messages)] /\ p[m] = <<MapOpenAiMessage(m)>>
  BY <1>1 DEF Ones
<1>3. ASSUME NEW g \in Seq(Messages)
      PROVE  ParseChatCompletionRequest(g) = Joint(p, g)
  <2>1. \A i \in DOMAIN g : g[i] \in Messages
    OBVIOUS
  <2>2. ParseChatCompletionRequest(g) = Mapped(f, g)
    BY <2>1 DEF ParseChatCompletionRequest, Mapped
  <2>3. g \in Seq(DOMAIN f)
    OBVIOUS
  <2> HIDE DEF f
  <2>4. Mapped(f, g) = Joint(Ones(f), g)
    BY <2>3, JointMap
  <2>5. QED
    BY <2>2, <2>4
<1> HIDE DEF p, f
<1>t. h \in Seq(Messages) /\ m \in Messages /\ p \in [Messages -> Seq(Messages)]
  BY <1>2
<1>4. Joint(p, Append(h, m)) = Joint(p, h) \o p[m]
  BY <1>t, JointAppend
<1>5. Joint(p, h) \in Seq(Messages)
  BY <1>t, JointTyped
<1>6. Append(h, m) \in Seq(Messages)
  OBVIOUS
<1>7. QED
  BY <1>2, <1>3, <1>4, <1>5, <1>6

\* The item that a client makes of what it says.
ClientItem(a, e) ==
    Message(IF e.by # "tool" THEN e.by ELSE IF a = "chat" THEN "tool"
            ELSE "function_call_output",
            e.shape, e.blocks, <<>>, e.id)

\* A text, and an image and a text, without what is not text.
LEMMA TextsOf ==
  ASSUME NEW b \in TextBlocks
  PROVE  /\ Texts(<<b>>) = <<b>>
         /\ \A c \in ImageBlocks : Texts(<<c, b>>) = <<b>>
<1> DEFINE k == Keep("text")
<1>1. k \in [Blocks -> Seq(Blocks)] /\ b \in Blocks /\ k[b] = <<b>>
  BY DEF Keep, TextBlocks
<1>2. Texts(<<b>>) = Joint(k, <<b>>)
  BY <1>1, OfKindIs DEF Texts
<1>3. Joint(k, <<b>>) = k[b]
  <2> HIDE DEF k
  <2>1. QED
    BY <1>1, JointOne
<1>4. ASSUME NEW c \in ImageBlocks
      PROVE  Texts(<<c, b>>) = <<b>>
  <2>1. c \in Blocks /\ k[c] = <<>>
    BY DEF Keep, ImageBlocks
  <2>2. <<c, b>> \in Seq(Blocks)
    BY <1>1, <2>1
  <2>3. Texts(<<c, b>>) = Joint(k, <<c, b>>)
    BY <2>2, OfKindIs DEF Texts
  <2>t. k \in [Blocks -> Seq(Blocks)] /\ c \in Blocks /\ b \in Blocks
    BY <1>1, <2>1
  <2> DEFINE one == <<c>>
  <2>o. one \in Seq(Blocks) /\ <<c, b>> = Append(one, b)
    BY <2>t
  <2> HIDE DEF k
  <2>p. Joint(k, one) = k[c]
    BY <2>t, JointOne
  <2> HIDE DEF one
  <2>q. Joint(k, Append(one, b)) = Joint(k, one) \o k[b]
    BY <2>t, <2>o, JointAppend
  <2>4. Joint(k, <<c, b>>) = k[c] \o k[b]
    BY <2>o, <2>p, <2>q
  <2>5. QED
    BY <1>1, <2>1, <2>3, <2>4
<1>5. QED
  BY <1>1, <1>2, <1>3, <1>4

\* What the client says comes last in the messages.
LEMMA ClientItemParsed ==
  ASSUME NEW a, NEW e \in Entries, SaidByClient(a, e), NEW h \in Seq(Messages)
  PROVE  /\ ClientItem(a, e) \in Messages
         /\ UnifiedOf(a, Append(h, ClientItem(a, e))) = UnifiedOf(a, h) \o UnitOf(a)[e]
         /\ \E m \in Messages : UnitOf(a)[e] = <<m>> /\ m.role # "assistant"
<1> DEFINE m == ClientItem(a, e)
<1>1. /\ e.by \in {"system", "developer", "user", "tool"} /\ e.shape \in {"string", "parts"}
      /\ e.id \in Nat /\ e.blocks \in Seq(Blocks)
  BY DEF SaidByClient, Entries
<1>2. m \in Messages
  <2>1. <<>> \in Seq(Blocks)
    OBVIOUS
  <2>2. QED
    BY <1>1, <2>1 DEF ClientItem, Message, Messages, Roles
<1>3. CASE a = "chat"
  <2>1. ParseChatCompletionRequest(Append(h, m))
        = ParseChatCompletionRequest(h) \o <<MapOpenAiMessage(m)>>
    <3> HIDE DEF m
    <3>1. QED
      BY <1>2, ChatParsed
  <2>2. UnitOf(a)[e] = <<MapOpenAiMessage(m)>>
    BY <1>1, <1>3 DEF UnitOf, MapOpenAiMessage, ClientItem, Message
  <2>3. MapOpenAiMessage(m) \in Messages /\ MapOpenAiMessage(m).role # "assistant"
    BY <1>1, <1>2, <1>3 DEF MapOpenAiMessage, ClientItem, Message, Messages, Roles
  <2> HIDE DEF m
  <2>4. QED
    BY <1>2, <1>3, <2>1, <2>2, <2>3 DEF UnifiedOf, m
<1>4. CASE a # "chat"
  <2>1. ParseResponsesRequest(Append(h, m)) = ParseItem(ParseResponsesRequest(h), m)
    <3> HIDE DEF m
    <3>1. QED
      BY <1>2, ParseSteps
  <2>2. ParseItem(ParseResponsesRequest(h), m)
        = Append(ParseResponsesRequest(h), MapResponsesInputItem(m))
    BY <1>1, <1>4 DEF ParseItem, ClientItem, Message
  <2>3. UnitOf(a)[e] = <<MapResponsesInputItem(m)>>
    <3>1. UnitOf(a)[e] = <<Message(Speaker(e), "string", Texts(e.blocks), <<>>, e.id)>>
      BY <1>1, <1>4 DEF UnitOf
    <3>2. CASE e.by = "tool"
      <4>s. e.shape = "string"
        BY <1>1, <1>4, <3>2 DEF SaidByClient
      <4>p. PICK b \in TextBlocks : e.blocks = <<b>>
        BY <3>2 DEF SaidByClient
      <4>1. e.shape = "string" /\ Texts(e.blocks) = e.blocks
        BY <4>s, <4>p, TextsOf
      <4>2. MapResponsesInputItem(m) = Message("tool", "string", e.blocks, <<>>, e.id)
        BY <1>4, <3>2, <4>1 DEF MapResponsesInputItem, ClientItem, Message
      <4>3. QED
        BY <3>1, <3>2, <4>1, <4>2 DEF Speaker
    <3>3. CASE e.by # "tool"
      <4>1. e.id = 0
        BY <3>3 DEF SaidByClient
      <4>2. m.role = e.by /\ m.content = e.blocks
        BY <3>3 DEF ClientItem, Message
      <4>3. MapResponsesInputItem(m) = Message(Speaker(e), "string", Texts(e.blocks), <<>>, 0)
        BY <1>1, <4>2 DEF MapResponsesInputItem, Speaker
      <4>4. QED
        BY <3>1, <4>1, <4>3
    <3>4. QED
      BY <3>2, <3>3
  <2>4. MapResponsesInputItem(m).role # "assistant"
    BY <1>1, <1>4 DEF MapResponsesInputItem, ClientItem, Message
  <2>5. ParseResponsesRequest(h) \in Seq(Messages) /\ MapResponsesInputItem(m) \in Messages
    <3>1. UnitOf(a)[e] \in Seq(Messages)
      BY UnitTyped
    <3> DEFINE x == MapResponsesInputItem(m)
    <3>2. <<x>> \in Seq(Messages)
      BY <2>3, <3>1
    <3> HIDE DEF x
    <3>3. Len(<<x>>) = 1 /\ (<<x>>)[1] = x
      OBVIOUS
    <3>4. x \in Messages
      BY <3>2, <3>3
    <3>5. QED
      BY <3>4, ParseSteps DEF x
  <2> DEFINE u == ParseResponsesRequest(h)
             x == MapResponsesInputItem(m)
  <2>6. Append(u, x) = u \o <<x>>
    <3>1. u \in Seq(Messages) /\ x \in Messages
      BY <2>5
    <3> HIDE DEF u, x
    <3>2. QED
      BY <3>1
  <2> HIDE DEF m
  <2>7. QED
    BY <1>2, <1>4, <2>1, <2>2, <2>3, <2>4, <2>5, <2>6 DEF UnifiedOf, m
<1>5. QED
  BY <1>3, <1>4

\* The items that a client is given of an answer.
ItemsOf(a, response) ==
    IF a = "chat" THEN FormatChatCompletionResponse(response)
    ELSE FormatResponsesResponse(response)

\* The text of an answer as an item of /v1/responses.
TextItem(texts) == Message("assistant", "parts", texts, <<>>, 0)

\* An item with texts is parsed to a message with them.
LEMMA TextItemParsed ==
  ASSUME NEW s \in Seq(Blocks)
  PROVE  /\ TextItem(Texts(s)) \in Messages
         /\ \A u : ParseItem(u, TextItem(Texts(s))) = Append(u, Reply(Texts(s), <<>>))
<1> DEFINE texts == Texts(s)
           none == <<>>
<1>1. texts \in Seq(Blocks) /\ none \in Seq(Blocks)
  BY OfKindIs DEF Texts
<1>2. Texts(texts) = texts
  BY KeepTwice DEF Texts
<1>3. TextItem(texts) = Message("assistant", "parts", texts, none, 0)
  BY DEF TextItem
<1> HIDE DEF texts, none
<1>4. TextItem(texts) \in Messages
  BY <1>1, <1>3, MessageTyped DEF Roles
<1>5. TextItem(texts).role = "assistant" /\ TextItem(texts).content = texts
  BY <1>3 DEF Message
<1>6. MapResponsesInputItem(TextItem(texts)) = Reply(texts, <<>>)
  BY <1>2, <1>5 DEF MapResponsesInputItem, Reply
<1>7. ASSUME NEW u
      PROVE  ParseItem(u, TextItem(texts)) = Append(u, Reply(texts, <<>>))
  BY <1>5, <1>6 DEF ParseItem
<1>8. QED
  BY <1>4, <1>7 DEF texts

\* What an upstream said comes last in the messages, whole.
LEMMA AnswerParsed ==
  ASSUME NEW a, NEW e \in Entries, SaidByAssistant(e), NEW h, h \in Seq(Messages),
         NoReplyLast(UnifiedOf(a, h)), NEW response,
         Texts(response.content) = Texts(e.blocks),
         Calls(response.content) = Calls(e.blocks)
  PROVE  /\ ItemsOf(a, response) \in Seq(Messages)
         /\ UnifiedOf(a, h \o ItemsOf(a, response)) = UnifiedOf(a, h) \o UnitOf(a)[e]
<1> DEFINE texts == Texts(e.blocks)
           calls == Calls(e.blocks)
           items == ItemsOf(a, response)
           r == Reply(texts, calls)
           u == ParseResponsesRequest(h)
           one == <<r>>
<1>1. e.blocks \in Seq(Blocks) /\ e.by = "assistant"
  BY DEF Entries, SaidByAssistant
<1>2. texts \in Seq(Blocks) /\ calls \in Seq(Blocks)
  BY <1>1, OfKindIs DEF Texts, Calls
<1>3. r \in Messages
  <2> HIDE DEF texts, calls
  <2>1. QED
    BY <1>2, ReplyIs
<1>4. CASE a = "chat"
  <2>1. items = one
    BY <1>4 DEF ItemsOf, FormatChatCompletionResponse, Reply
  <2>2. UnitOf(a)[e] = one
    BY <1>1, <1>4 DEF UnitOf
  <2>3. MapOpenAiMessage(r) = r
    BY DEF MapOpenAiMessage, Reply, Message
  <2> HIDE DEF r, items
  <2>4. ParseChatCompletionRequest(Append(h, r)) = ParseChatCompletionRequest(h) \o one
    BY <1>3, <2>3, ChatParsed
  <2>5. h \o one = Append(h, r) /\ one \in Seq(Messages)
    BY <1>3
  <2>6. QED
    BY <1>4, <2>1, <2>2, <2>4, <2>5 DEF UnifiedOf, items
<1>5. CASE a # "chat"
  <2>1. u \in Seq(Messages) /\ NoReplyLast(u)
    BY <1>5, ParseSteps DEF UnifiedOf
  <2>2. items = (IF texts = <<>> THEN <<>> ELSE <<TextItem(texts)>>) \o CallItems(calls)
    BY <1>5 DEF ItemsOf, FormatResponsesResponse, TextItem, CallItems, CallItem
  <2>3. CallItems(calls) \in Seq(Messages)
    <3> HIDE DEF calls
    <3>1. QED
      BY <1>2, CallItemsAre
  <2>4. UnitOf(a)[e] = IF texts = <<>> /\ calls = <<>> THEN <<>> ELSE one
    BY <1>1, <1>5 DEF UnitOf
  <2> SUFFICES items \in Seq(Messages) /\ ParseResponsesRequest(h \o items) = u \o UnitOf(a)[e]
    BY <1>5 DEF UnifiedOf
  <2>5. CASE texts = <<>>
    <3>1. items = CallItems(calls)
      <4> DEFINE cs == CallItems(calls)
      <4> HIDE DEF cs
      <4>1. <<>> \o cs = cs
        BY <2>3 DEF cs
      <4>2. QED
        BY <2>2, <2>5, <4>1 DEF cs
    <3>2. CASE calls = <<>>
      <4>1. items = <<>>
        BY <3>1, <3>2, CallItemsAre
      <4>2. h \o <<>> = h /\ u \o <<>> = u
        BY <2>1
      <4>3. <<>> \in Seq(Messages)
        OBVIOUS
      <4>4. QED
        BY <2>4, <2>5, <3>2, <4>1, <4>2, <4>3
    <3>3. CASE calls # <<>>
      <4> DEFINE none == <<>>
      <4>1. ParseResponsesRequest(h \o CallItems(calls)) = Append(u, Reply(none, calls))
        <5> HIDE DEF calls
        <5>1. QED
          BY <1>2, <2>1, <3>3, CallsStart
      <4>2. Append(u, r) = u \o one
        <5> HIDE DEF u, r
        <5>1. QED
          BY <1>3, <2>1
      <4>3. Reply(none, calls) = r
        BY <2>5
      <4> HIDE DEF items, u, r, calls, one
      <4>4. QED
        BY <2>3, <2>4, <3>1, <3>3, <4>1, <4>2, <4>3
    <3>4. QED
      BY <3>2, <3>3
  <2>6. CASE texts # <<>>
    <3> DEFINE t == TextItem(texts)
               g == Append(h, t)
               none == <<>>
               cs == CallItems(calls)
    <3>1. t \in Messages /\ ParseItem(u, t) = Append(u, Reply(texts, none))
      <4> HIDE DEF u
      <4>1. QED
        BY <1>1, TextItemParsed
    <3>2. ParseResponsesRequest(g) = ParseItem(u, t)
      <4> HIDE DEF t
      <4>1. QED
        BY <3>1, ParseSteps
    <3>3. g \in Seq(Messages)
      <4> HIDE DEF t
      <4>1. QED
        BY <3>1
    <3>4. ParseResponsesRequest(g) = Append(u, Reply(texts, none))
      BY <3>1, <3>2
    <3>5. ParseResponsesRequest(g \o cs) = Append(u, r)
      <4> HIDE DEF g, u, texts, calls
      <4>1. QED
        BY <1>2, <2>1, <3>3, <3>4, CallsJoin
    <3>6. items = <<t>> \o cs
      BY <2>2, <2>6
    <3> HIDE DEF t, cs, items
    <3>7. items \in Seq(Messages) /\ h \o items = g \o cs
      BY <2>3, <3>1, <3>6 DEF cs
    <3>8. Append(u, r) = u \o one
      <4> HIDE DEF u, r
      <4>1. QED
        BY <1>3, <2>1
    <3>9. UnitOf(a)[e] = one
      BY <2>4, <2>6
    <3> HIDE DEF g, u, r, one
    <3>10. QED
      BY <3>5, <3>7, <3>8, <3>9
  <2>7. QED
    BY <2>5, <2>6
<1>6. QED
  BY <1>4, <1>5

\* y is an element of s; p makes y of an element of s.
Elem(y, s) == \E i \in DOMAIN s : s[i] = y
Makes(p, s, y) == \E i \in DOMAIN s : Elem(y, p[s[i]])

\* The elements of two sequences.
LEMMA ElemConcat ==
  ASSUME NEW Y, NEW s, NEW t, s \in Seq(Y), t \in Seq(Y), NEW y
  PROVE  Elem(y, s \o t) <=> Elem(y, s) \/ Elem(y, t)
<1> DEFINE v == s \o t
<1>1. /\ Len(s) \in Nat /\ Len(t) \in Nat /\ DOMAIN s = 1 .. Len(s) /\ DOMAIN t = 1 .. Len(t)
      /\ DOMAIN v = 1 .. (Len(s) + Len(t))
      /\ \A i \in 1 .. Len(s) : v[i] = s[i]
      /\ \A i \in 1 .. Len(t) : v[Len(s) + i] = t[i]
  OBVIOUS
<1> HIDE DEF v
<1>2. ASSUME Elem(y, v) PROVE Elem(y, s) \/ Elem(y, t)
  <2>1. PICK i \in 1 .. (Len(s) + Len(t)) : v[i] = y
    BY <1>1, <1>2 DEF Elem
  <2>2. CASE i \in 1 .. Len(s)
    BY <1>1, <2>1, <2>2 DEF Elem
  <2>3. CASE i \notin 1 .. Len(s)
    <3>1. i - Len(s) \in 1 .. Len(t) /\ i = Len(s) + (i - Len(s))
      BY <1>1, <2>1, <2>3
    <3>2. v[Len(s) + (i - Len(s))] = t[i - Len(s)]
      BY <1>1, <3>1
    <3>3. t[i - Len(s)] = y
      BY <2>1, <3>1, <3>2
    <3>4. QED
      BY <1>1, <3>1, <3>3 DEF Elem
  <2>4. QED
    BY <2>2, <2>3
<1>3. ASSUME Elem(y, s) PROVE Elem(y, v)
  <2>1. PICK i \in 1 .. Len(s) : s[i] = y
    BY <1>1, <1>3 DEF Elem
  <2>2. i \in 1 .. (Len(s) + Len(t)) /\ v[i] = y
    BY <1>1, <2>1
  <2>3. QED
    BY <1>1, <2>2 DEF Elem
<1>4. ASSUME Elem(y, t) PROVE Elem(y, v)
  <2>1. PICK i \in 1 .. Len(t) : t[i] = y
    BY <1>1, <1>4 DEF Elem
  <2>2. Len(s) + i \in 1 .. (Len(s) + Len(t)) /\ v[Len(s) + i] = y
    BY <1>1, <2>1
  <2>3. QED
    BY <1>1, <2>2 DEF Elem
<1>5. QED
  BY <1>2, <1>3, <1>4 DEF v

\* The elements that are made of a sequence are those made of its elements.
LEMMA ElemJoint ==
  ASSUME NEW X, NEW Y, NEW p, NEW s, p \in [X -> Seq(Y)], s \in Seq(X), NEW y
  PROVE  Elem(y, Joint(p, s)) <=> Makes(p, s, y)
<1> DEFINE P == {t \in Seq(X) : Elem(y, Joint(p, t)) <=> Makes(p, t, y)}
<1>1. <<>> \in P
  <2>1. <<>> \in Seq(X)
    OBVIOUS
  <2> DEFINE none == <<>>
  <2>2. Joint(p, none) = none
    BY JointEmpty
  <2>3. DOMAIN none = {}
    OBVIOUS
  <2> HIDE DEF none
  <2>4. ~Elem(y, none) /\ ~Makes(p, none, y)
    BY <2>3 DEF Elem, Makes
  <2>5. QED
    BY <2>1, <2>2, <2>4 DEF none
<1>2. ASSUME NEW t \in Seq(X), NEW e \in X, t \in P
      PROVE  Append(t, e) \in P
  <2> DEFINE v == Append(t, e)
             j == Joint(p, t)
             n == Len(t) + 1
  <2>1. Joint(p, v) = j \o p[e]
    <3> HIDE DEF P
    <3>1. QED
      BY JointAppend
  <2>2. /\ v \in Seq(X) /\ n \in DOMAIN v /\ v[n] = e
        /\ \A i \in DOMAIN t : i \in DOMAIN v /\ v[i] = t[i]
        /\ \A i \in DOMAIN v : i = n \/ i \in DOMAIN t
    OBVIOUS
  <2>3. j \in Seq(Y) /\ p[e] \in Seq(Y)
    <3> HIDE DEF P
    <3>1. QED
      BY JointTyped
  <2> HIDE DEF v, j, n
  <2>4. Elem(y, j \o p[e]) <=> Elem(y, j) \/ Elem(y, p[e])
    <3> DEFINE k == p[e]
    <3>1. k \in Seq(Y)
      BY <2>3
    <3> HIDE DEF k, P
    <3>2. Elem(y, j \o k) <=> Elem(y, j) \/ Elem(y, k)
      BY <2>3, <3>1, ElemConcat
    <3>3. QED
      BY <3>2 DEF k
  <2>5. Elem(y, j) <=> Makes(p, t, y)
    BY <1>2 DEF j
  <2>6. Makes(p, v, y) <=> Makes(p, t, y) \/ Elem(y, p[e])
    <3>1. ASSUME Makes(p, v, y) PROVE Makes(p, t, y) \/ Elem(y, p[e])
      <4>1. PICK i \in DOMAIN v : Elem(y, p[v[i]])
        BY <3>1 DEF Makes
      <4>2. QED
        BY <2>2, <4>1 DEF Makes
    <3>2. ASSUME Makes(p, t, y) PROVE Makes(p, v, y)
      <4>1. PICK i \in DOMAIN t : Elem(y, p[t[i]])
        BY <3>2 DEF Makes
      <4>2. QED
        BY <2>2, <4>1 DEF Makes
    <3>3. ASSUME Elem(y, p[e]) PROVE Makes(p, v, y)
      BY <2>2, <3>3 DEF Makes
    <3>4. QED
      BY <3>1, <3>2, <3>3
  <2>7. v \in P
    BY <2>1, <2>2, <2>4, <2>5, <2>6
  <2>8. QED
    BY <2>7 DEF v
<1>3. s \in P
  <2> HIDE DEF P
  <2>1. QED
    BY <1>1, <1>2, AllSequences
<1>4. QED
  BY <1>3

\* A sequence without elements is empty.
LEMMA NoElem ==
  ASSUME NEW Y, NEW s, s \in Seq(Y), \A y : ~Elem(y, s)
  PROVE  s = <<>>
<1>1. Len(s) \in Nat /\ DOMAIN s = 1 .. Len(s)
  OBVIOUS
<1>2. Len(s) = 0
  <2>1. SUFFICES ASSUME Len(s) # 0 PROVE FALSE
    OBVIOUS
  <2>2. 1 \in DOMAIN s
    BY <1>1, <2>1
  <2>3. QED
    BY <2>2 DEF Elem
<1>3. QED
  BY <1>2

\* The blocks of a kind are those of the content that are of the kind.
LEMMA ElemOfKind ==
  ASSUME NEW kind, NEW s, s \in Seq(Blocks), NEW b
  PROVE  Elem(b, OfKind(kind, s)) <=> Elem(b, s) /\ b.kind = kind
<1> DEFINE p == Keep(kind)
<1>1. p \in [Blocks -> Seq(Blocks)]
  BY DEF Keep
<1>2. OfKind(kind, s) = Joint(p, s)
  BY OfKindIs
<1>3. \A i \in DOMAIN s : s[i] \in Blocks
  OBVIOUS
<1>4. \A c \in Blocks : Elem(b, p[c]) <=> c = b /\ b.kind = kind
  <2>1. ASSUME NEW c \in Blocks PROVE Elem(b, p[c]) <=> c = b /\ b.kind = kind
    <3>1. CASE c.kind = kind
      <4>1. p[c] = <<c>>
        BY <3>1 DEF Keep
      <4>2. Elem(b, <<c>>) <=> c = b
        BY DEF Elem
      <4>3. QED
        BY <3>1, <4>1, <4>2
    <3>2. CASE c.kind # kind
      <4>1. p[c] = <<>>
        BY <3>2 DEF Keep
      <4>2. ~Elem(b, <<>>)
        BY DEF Elem
      <4>3. QED
        BY <3>2, <4>1, <4>2
    <3>3. QED
      BY <3>1, <3>2
  <2>2. QED
    BY <2>1
<1>5. Makes(p, s, b) <=> Elem(b, s) /\ b.kind = kind
  BY <1>3, <1>4 DEF Makes, Elem
<1> HIDE DEF p
<1>6. Elem(b, Joint(p, s)) <=> Makes(p, s, b)
  BY <1>1, ElemJoint
<1>7. QED
  BY <1>2, <1>5, <1>6

Providers == {"openai", "anthropic", "ollama", "nova"}

\* The n-th block of an answer whose blocks are numbered from first on.
IsAnswered(d, b, token) ==
    \/ b = Text(token)
    \/ d # "nova" /\ \E args \in Arguments :
           b = Block("call", IF d = "ollama" THEN 0 ELSE token, token, args)

\* An answer is a sequence of texts and calls.
LEMMA AnswersAre ==
  ASSUME NEW d \in Providers, NEW blocks \in Answers(d)
  PROVE  /\ Len(blocks) \in 0 .. MaxBlocks /\ DOMAIN blocks = 1 .. Len(blocks)
         /\ blocks = [i \in 1 .. Len(blocks) |-> blocks[i]]
         /\ \A i \in DOMAIN blocks : IsAnswered(d, blocks[i], FirstToken + i)
<1> DEFINE Of(kinds) ==
             [i \in DOMAIN kinds |->
                 IF kinds[i][1] = "text" THEN Text(FirstToken + i)
                 ELSE Block("call", IF d = "ollama" THEN 0 ELSE FirstToken + i,
                            FirstToken + i, kinds[i][2])]
<1>1. \E n \in 0 .. MaxBlocks : \E kinds \in [1 .. n -> Kinds(d)] : blocks = Of(kinds)
  BY DEF Answers
<1>p. PICK n \in 0 .. MaxBlocks : \E kinds \in [1 .. n -> Kinds(d)] : blocks = Of(kinds)
  BY <1>1
<1>2. PICK kinds \in [1 .. n -> Kinds(d)] : blocks = Of(kinds)
  BY <1>p
<1>3. n \in Nat /\ blocks = [i \in 1 .. n |-> Of(kinds)[i]]
  BY <1>2, ConversationAssumption
<1>4. Len(blocks) = n /\ DOMAIN blocks = 1 .. n
  <2> DEFINE S == {Of(kinds)[i] : i \in 1 .. n}
  <2>1. blocks \in [1 .. n -> S]
    BY <1>3
  <2> HIDE DEF S, Of
  <2>2. QED
    BY <1>3, <2>1, LengthOf
<1>5. ASSUME NEW i \in 1 .. n
      PROVE  IsAnswered(d, blocks[i], FirstToken + i)
  <2>1. blocks[i] = IF kinds[i][1] = "text" THEN Text(FirstToken + i)
                    ELSE Block("call", IF d = "ollama" THEN 0 ELSE FirstToken + i,
                               FirstToken + i, kinds[i][2])
    BY <1>2
  <2>2. kinds[i] \in Kinds(d)
    BY <1>2
  <2>3. CASE kinds[i][1] = "text"
    BY <2>1, <2>3 DEF IsAnswered
  <2>4. CASE kinds[i][1] # "text"
    <3>1. kinds[i][2] \in ArgumentsOf(d)
      BY <2>2, <2>4 DEF Kinds
    <3>2. d # "nova" /\ kinds[i][2] \in Arguments
      BY <3>1 DEF Providers, ArgumentsOf, Arguments
    <3>3. QED
      BY <2>1, <2>4, <3>2 DEF IsAnswered
  <2>5. QED
    BY <2>3, <2>4
<1>6. blocks = [i \in 1 .. n |-> blocks[i]]
  BY <1>3
<1>7. QED
  BY <1>2, <1>4, <1>5, <1>6

\* What an upstream says, with the ids that the calls are given.
LEMMA AnswerSaid ==
  ASSUME NEW d \in Providers, NEW blocks \in Answers(d), FirstToken \in Nat
  PROVE  /\ Len(FromOllamaContent(blocks)) \in 0 .. MaxBlocks
         /\ DOMAIN blocks = DOMAIN FromOllamaContent(blocks)
         /\ blocks \in Seq(Blocks)
         /\ FromOllamaContent(blocks) \in Seq(TextBlocks \cup CallBlocks)
         /\ FromOllamaContent(blocks) \in Seq(Blocks)
         /\ \A i \in DOMAIN blocks :
                /\ FromOllamaContent(blocks)[i].token = FirstToken + i
                /\ FromOllamaContent(blocks)[i].kind = blocks[i].kind
                /\ FromOllamaContent(blocks)[i].args = blocks[i].args
                /\ d = "nova" => blocks[i].kind = "text"
         /\ d # "ollama" => FromOllamaContent(blocks) = blocks
<1> DEFINE s == FromOllamaContent(blocks)
<1>1. /\ Len(blocks) \in 0 .. MaxBlocks /\ DOMAIN blocks = 1 .. Len(blocks) /\ Len(blocks) \in Nat
      /\ blocks = [i \in 1 .. Len(blocks) |-> blocks[i]]
      /\ \A i \in DOMAIN blocks : IsAnswered(d, blocks[i], FirstToken + i)
  BY AnswersAre, ConversationAssumption
<1>2. ASSUME NEW i \in DOMAIN blocks
      PROVE  /\ blocks[i] \in Blocks
             /\ s[i] \in TextBlocks \cup CallBlocks
             /\ s[i].token = FirstToken + i /\ s[i].kind = blocks[i].kind
             /\ s[i].args = blocks[i].args
             /\ d = "nova" => blocks[i].kind = "text"
             /\ d # "ollama" => s[i] = blocks[i]
  <2> DEFINE n == FirstToken + i
  <2>1. n \in Nat /\ n # 0 /\ IsAnswered(d, blocks[i], n)
    BY <1>1
  <2>2. s[i] = IF blocks[i].kind = "call" THEN [blocks[i] EXCEPT !.id = blocks[i].token]
               ELSE blocks[i]
    BY DEF FromOllamaContent
  <2> HIDE DEF n, s
  <2>3. CASE blocks[i] = Text(n)
    <3>1. blocks[i] \in TextBlocks /\ blocks[i].kind = "text" /\ blocks[i].token = n
      BY <2>1, <2>3 DEF Text, Block, Blocks, TextBlocks
    <3>2. s[i] = blocks[i]
      BY <2>2, <3>1
    <3>3. QED
      BY <3>1, <3>2 DEF n, TextBlocks
  <2>4. CASE d # "nova" /\ \E args \in Arguments :
                 blocks[i] = Block("call", IF d = "ollama" THEN 0 ELSE n, n, args)
    <3>1. PICK args \in Arguments :
                 blocks[i] = Block("call", IF d = "ollama" THEN 0 ELSE n, n, args)
      BY <2>4
    <3>2. s[i] = Block("call", n, n, args)
      BY <2>2, <3>1 DEF Block
    <3>3. s[i] \in CallBlocks /\ blocks[i] \in Blocks
      BY <2>1, <3>1, <3>2 DEF Block, Blocks, CallBlocks
    <3>4. QED
      BY <2>4, <3>1, <3>2, <3>3 DEF n, Block
  <2>5. QED
    BY <2>1, <2>3, <2>4 DEF IsAnswered
<1>3. s = [i \in 1 .. Len(blocks) |-> s[i]]
  BY <1>1 DEF FromOllamaContent
<1> HIDE DEF s
<1>4. s \in [1 .. Len(blocks) -> TextBlocks \cup CallBlocks] /\ s \in [1 .. Len(blocks) -> Blocks]
  BY <1>1, <1>2, <1>3 DEF TextBlocks, CallBlocks
<1>5. /\ s \in Seq(TextBlocks \cup CallBlocks) /\ s \in Seq(Blocks)
      /\ Len(s) = Len(blocks) /\ DOMAIN s = 1 .. Len(blocks)
  <2>1. s \in Seq(TextBlocks \cup CallBlocks)
    BY <1>1, <1>4, SequenceOf
  <2>2. s \in Seq(Blocks)
    BY <1>1, <1>4, SequenceOf
  <2>3. QED
    BY <1>1, <1>4, <2>1, <2>2, LengthOf
<1>6. blocks \in Seq(Blocks)
  <2>2. blocks \in [1 .. Len(blocks) -> Blocks]
    BY <1>1, <1>2
  <2>3. QED
    BY <1>1, <2>2, SequenceOf
<1>7. d # "ollama" => s = blocks
  <2>1. SUFFICES ASSUME d # "ollama" PROVE s = blocks
    OBVIOUS
  <2>2. \A i \in 1 .. Len(s) : s[i] = blocks[i]
    BY <1>1, <1>2, <1>5, <2>1
  <2>3. QED
    BY <1>5, <1>6, <2>2, SameElements
<1>8. QED
  BY <1>1, <1>2, <1>5, <1>6, <1>7 DEF s

\* What the mappers make of an answer has its texts and its calls.
LEMMA AnswerContent ==
  ASSUME NEW d \in Providers, NEW blocks \in Answers(d), FirstToken \in Nat, NEW raw
  PROVE  /\ Texts(FromResponse(d, blocks, raw).content) = Texts(FromOllamaContent(blocks))
         /\ Calls(FromResponse(d, blocks, raw).content) = Calls(FromOllamaContent(blocks))
         /\ Calls(FromOllamaContent(blocks)) = <<>> <=> Calls(blocks) = <<>>
         /\ d = "nova" => Calls(FromOllamaContent(blocks)) = <<>>
<1> DEFINE s == FromOllamaContent(blocks)
<1>1. /\ blocks \in Seq(Blocks) /\ s \in Seq(Blocks) /\ DOMAIN blocks = DOMAIN s
      /\ \A i \in DOMAIN s : s[i].kind = blocks[i].kind
      /\ d = "nova" => \A i \in DOMAIN s : s[i].kind = "text"
      /\ d # "ollama" => s = blocks
  BY AnswerSaid
<1> HIDE DEF s
<1>2. ASSUME NEW t, t \in Seq(Blocks)
      PROVE  Calls(t) = <<>> <=> \A i \in DOMAIN t : t[i].kind # "call"
  <2>1. \A b : Elem(b, Calls(t)) <=> Elem(b, t) /\ b.kind = "call"
    BY <1>2, ElemOfKind DEF Calls
  <2>2. Calls(t) \in Seq(Blocks)
    BY <1>2, OfKindIs DEF Calls
  <2> DEFINE cs == Calls(t)
  <2>3. ASSUME cs = <<>>, NEW i \in DOMAIN t PROVE t[i].kind # "call"
    <3>1. ~Elem(t[i], cs)
      BY <2>3 DEF Elem
    <3>2. Elem(t[i], t)
      BY DEF Elem
    <3>3. QED
      BY <2>1, <3>1, <3>2
  <2>4. ASSUME \A i \in DOMAIN t : t[i].kind # "call" PROVE cs = <<>>
    <3>1. \A b : ~Elem(b, cs)
      BY <2>1, <2>4 DEF Elem
    <3> HIDE DEF cs
    <3>2. cs = <<>>
      BY <2>2, <3>1, NoElem DEF cs
    <3>3. QED
      BY <3>2
  <2>5. QED
    BY <2>3, <2>4
<1>3. Calls(s) = <<>> <=> Calls(blocks) = <<>>
  BY <1>1, <1>2
<1>4. d = "nova" => Calls(s) = <<>>
  <2>1. SUFFICES ASSUME d = "nova" PROVE Calls(s) = <<>>
    OBVIOUS
  <2>2. \A i \in DOMAIN s : s[i].kind # "call"
    BY <1>1, <2>1
  <2>3. QED
    BY <1>1, <1>2, <2>2
<1>5. /\ Texts(FromResponse(d, blocks, raw).content) = Texts(s)
      /\ Calls(FromResponse(d, blocks, raw).content) = Calls(s)
  <2>1. CASE d \in {"openai", "anthropic"}
    <3>1. FromResponse(d, blocks, raw).content = blocks
      BY <2>1 DEF FromResponse, FromOpenAiResponse, FromAnthropicResponse, Response
    <3>2. QED
      BY <1>1, <2>1, <3>1
  <2>2. CASE d = "ollama"
    <3>1. FromResponse(d, blocks, raw).content = s
      BY <2>2 DEF FromResponse, FromOllamaResponse, Response, s
    <3>2. QED
      BY <3>1
  <2>3. CASE d = "nova"
    <3>1. FromResponse(d, blocks, raw).content = Texts(s)
      BY <1>1, <2>3 DEF FromResponse, FromNovaResponse, Response
    <3>2. Texts(Texts(s)) = Texts(s) /\ Calls(Texts(s)) = <<>>
      BY <1>1, KeepTwice DEF Texts, Calls
    <3>3. QED
      BY <1>4, <2>3, <3>1, <3>2
  <2>4. QED
    BY <2>1, <2>2, <2>3 DEF Providers
<1>6. QED
  BY <1>3, <1>4, <1>5 DEF s

-----------------------------------------------------------------------------
(* The invariant. *)

\* The blocks of the story are numbered as they are said.
Numbered == \A i \in DOMAIN story : \A j \in DOMAIN story[i].blocks :
                story[i].blocks[j].token \in 1 .. FirstToken

\* No two calls have the same id.
CallsApart == \A b \in Made : b.id # 0 /\ \A c \in Made : b.id = c.id => b = c

CInv ==
    /\ api \in {"chat", "responses"}
    /\ state \in {"open", "asked", "answered", "failed"}
    /\ dialect \in Dialects \cup {"none"}
    /\ story \in Seq(Entries)
    /\ history \in Seq(Messages)
    /\ \A i \in DOMAIN story : WellSaid(api, story[i])
    /\ Numbered
    /\ CallsApart
    /\ UnifiedOf(api, history) = Joint(UnitOf(api), story)
    /\ state # "answered" => NoReplyLast(UnifiedOf(api, history))
    /\ state = "asked" =>
           /\ dialect \in Dialects
           /\ request = ToRequest(dialect, UnifiedOf(api, history))
           /\ ~MappingThrows(dialect, UnifiedOf(api, history))
    /\ state = "failed" => MappingThrows(dialect, UnifiedOf(api, history))
    /\ state # "asked" => request = NoRequest

\* The invariant holds at first.
LEMMA CInvInit ==
  ASSUME Init
  PROVE  CInv
<1> DEFINE none == <<>>
<1>1. none \in Seq(Entries) /\ none \in Seq(Messages) /\ DOMAIN none = {}
  OBVIOUS
<1>2. UnifiedOf(api, none) = none
  <2>1. ParseChatCompletionRequest(none) = none
    BY DEF ParseChatCompletionRequest
  <2>2. ParseResponsesRequest(none) = none
    BY <1>1, ParseSteps
  <2>3. QED
    BY <2>1, <2>2 DEF UnifiedOf
<1>3. Joint(UnitOf(api), none) = none
  BY JointEmpty
<1>4. NoReplyLast(none)
  BY DEF NoReplyLast
<1>5. story = none /\ history = none
  BY DEF Init
<1> HIDE DEF none
<1>6. Numbered /\ CallsApart
  BY <1>1, <1>5 DEF Numbered, CallsApart, Made
<1>7. QED
  BY <1>1, <1>2, <1>3, <1>4, <1>5, <1>6 DEF Init, CInv

\* Only the assistant says calls, and they are known by their number.
LEMMA CallSaid ==
  ASSUME NEW a, NEW e, WellSaid(a, e), NEW j \in DOMAIN e.blocks,
         e.blocks[j].kind = "call"
  PROVE  SaidByAssistant(e) /\ e.blocks[j] \in CallBlocks
<1>1. CASE SaidByClient(a, e)
  <2>1. \/ \E b \in TextBlocks : e.blocks = <<b>>
        \/ \E b \in ImageBlocks, c \in TextBlocks : e.blocks = <<b, c>>
    BY <1>1 DEF SaidByClient
  <2>2. e.blocks[j].kind \in {"text", "image"}
    <3>1. CASE \E b \in TextBlocks : e.blocks = <<b>>
      <4>1. PICK b \in TextBlocks : e.blocks = <<b>>
        BY <3>1
      <4>2. j = 1
        BY <4>1
      <4>3. QED
        BY <4>1, <4>2 DEF TextBlocks
    <3>2. CASE \E b \in ImageBlocks, c \in TextBlocks : e.blocks = <<b, c>>
      <4>1. PICK b \in ImageBlocks, c \in TextBlocks : e.blocks = <<b, c>>
        BY <3>2
      <4>2. j = 1 \/ j = 2
        BY <4>1
      <4>3. QED
        BY <4>1, <4>2 DEF TextBlocks, ImageBlocks
    <3>3. QED
      BY <2>1, <3>1, <3>2
  <2>3. QED
    BY <2>2
<1>2. CASE SaidByAssistant(e)
  <2>1. e.blocks \in Seq(TextBlocks \cup CallBlocks)
    BY <1>2 DEF SaidByAssistant
  <2> DEFINE s == e.blocks
             S == TextBlocks \cup CallBlocks
  <2>2. s \in Seq(S) /\ j \in DOMAIN s
    BY <2>1
  <2> HIDE DEF s, S
  <2>3. s[j] \in S
    BY <2>2
  <2>4. QED
    BY <1>2, <2>3 DEF s, S, TextBlocks
<1>3. QED
  BY <1>1, <1>2 DEF WellSaid

\* The blocks of an entry that come next are new.
Following(e) ==
    /\ \A j \in DOMAIN e.blocks :
           e.blocks[j].token \in (FirstToken + 1) .. (FirstToken + MaxBlocks + 2)
    /\ \A j, k \in DOMAIN e.blocks : e.blocks[j].token = e.blocks[k].token => j = k

\* What is said next leaves the story well formed.
LEMMA StoryGrows ==
  ASSUME CInv, NEW e \in Entries, WellSaid(api, e), Following(e),
         story' = Append(story, e), api' = api
  PROVE  /\ story' \in Seq(Entries)
         /\ \A i \in DOMAIN story' : WellSaid(api', story'[i])
         /\ Numbered'
         /\ CallsApart'
<1>1. /\ story \in Seq(Entries) /\ Numbered /\ CallsApart
      /\ \A i \in DOMAIN story : WellSaid(api, story[i])
  BY DEF CInv
<1> DEFINE n == Len(story) + 1
<1>2. /\ Len(story) \in Nat /\ story' \in Seq(Entries) /\ Len(story') = n
      /\ n \in DOMAIN story' /\ story'[n] = e
      /\ \A i \in DOMAIN story : i \in DOMAIN story' /\ story'[i] = story[i]
      /\ \A i \in DOMAIN story' : i = n \/ i \in DOMAIN story
  BY <1>1
<1>3. FirstToken \in Nat /\ FirstToken' = FirstToken + MaxBlocks + 2
  BY <1>2, ConversationAssumption DEF FirstToken
<1>4. \A i \in DOMAIN story' : WellSaid(api', story'[i])
  BY <1>1, <1>2
<1>5. Numbered'
  <2>1. ASSUME NEW i \in DOMAIN story', NEW j \in DOMAIN story'[i].blocks
        PROVE  story'[i].blocks[j].token \in 1 .. FirstToken'
    <3>1. CASE i = n
      <4>1. story'[i].blocks[j].token \in (FirstToken + 1) .. (FirstToken + MaxBlocks + 2)
        BY <1>2, <2>1, <3>1 DEF Following
      <4>2. QED
        BY <1>3, <4>1
    <3>2. CASE i \in DOMAIN story
      <4>1. story'[i].blocks[j].token \in 1 .. FirstToken
        BY <1>1, <1>2, <2>1, <3>2 DEF Numbered
      <4>2. QED
        BY <1>3, <4>1, ConversationAssumption
    <3>3. QED
      BY <1>2, <3>1, <3>2
  <2>2. QED
    BY <2>1 DEF Numbered
<1>6. ASSUME NEW b \in Made
      PROVE  b.token \in 1 .. FirstToken /\ b.id = b.token
  <2>1. PICK i \in DOMAIN story : b \in ToSet(story[i].blocks) /\ b.kind = "call"
    BY DEF Made
  <2>2. PICK j \in DOMAIN story[i].blocks : b = story[i].blocks[j]
    BY <2>1 DEF ToSet
  <2>3. b \in CallBlocks
    BY <1>1, <2>1, <2>2, CallSaid
  <2>4. QED
    BY <1>1, <2>2, <2>3 DEF Numbered, CallBlocks
<1>7. ASSUME NEW b \in Made'
      PROVE  b \in Made \/ \E j \in DOMAIN e.blocks : b = e.blocks[j] /\ b.kind = "call"
  <2>1. PICK i \in DOMAIN story' : b \in ToSet(story'[i].blocks) /\ b.kind = "call"
    BY DEF Made
  <2>2. PICK j \in DOMAIN story'[i].blocks : b = story'[i].blocks[j]
    BY <2>1 DEF ToSet
  <2>3. CASE i = n
    BY <1>2, <2>1, <2>2, <2>3
  <2>4. CASE i \in DOMAIN story
    <3>1. b \in ToSet(story[i].blocks)
      BY <1>2, <2>1, <2>4
    <3>2. QED
      BY <2>1, <2>4, <3>1 DEF Made
  <2>5. QED
    BY <1>2, <2>3, <2>4
<1>8. ASSUME NEW j \in DOMAIN e.blocks, e.blocks[j].kind = "call"
      PROVE  /\ e.blocks[j].id = e.blocks[j].token
             /\ e.blocks[j].token \in (FirstToken + 1) .. (FirstToken + MaxBlocks + 2)
  BY <1>8, CallSaid DEF Following, CallBlocks
<1>9. CallsApart'
  <2>1. ASSUME NEW b \in Made' PROVE b.id # 0
    <3>1. CASE b \in Made
      BY <1>3, <1>6, <3>1
    <3>2. CASE \E j \in DOMAIN e.blocks : b = e.blocks[j] /\ b.kind = "call"
      BY <1>3, <1>8, <3>2, ConversationAssumption
    <3>3. QED
      BY <1>7, <3>1, <3>2
  <2>2. ASSUME NEW b \in Made', NEW c \in Made', b.id = c.id PROVE b = c
    <3>1. CASE b \in Made /\ c \in Made
      BY <1>1, <2>2, <3>1 DEF CallsApart
    <3>2. CASE b \in Made /\ c \notin Made
      <4>1. b.id \in 1 .. FirstToken
        BY <1>6, <3>2
      <4>2. c.id \in (FirstToken + 1) .. (FirstToken + MaxBlocks + 2)
        BY <1>7, <1>8, <3>2
      <4>3. QED
        BY <1>3, <2>2, <4>1, <4>2
    <3>3. CASE b \notin Made /\ c \in Made
      <4>1. c.id \in 1 .. FirstToken
        BY <1>6, <3>3
      <4>2. b.id \in (FirstToken + 1) .. (FirstToken + MaxBlocks + 2)
        BY <1>7, <1>8, <3>3
      <4>3. QED
        BY <1>3, <2>2, <4>1, <4>2
    <3>4. CASE b \notin Made /\ c \notin Made
      <4>1. PICK j \in DOMAIN e.blocks : b = e.blocks[j] /\ b.kind = "call"
        BY <1>7, <3>4
      <4>2. PICK k \in DOMAIN e.blocks : c = e.blocks[k] /\ c.kind = "call"
        BY <1>7, <3>4
      <4>3. b.token = c.token
        BY <1>8, <2>2, <4>1, <4>2
      <4>4. j = k
        BY <4>1, <4>2, <4>3 DEF Following
      <4>5. QED
        BY <4>1, <4>2, <4>4
    <3>5. QED
      BY <3>1, <3>2, <3>3, <3>4
  <2>3. QED
    BY <2>1, <2>2 DEF CallsApart
<1>10. QED
  BY <1>2, <1>4, <1>5, <1>9

\* Something is said that makes the story longer.
Tells(e, items) == /\ story' = Append(story, e)
                   /\ history' = history \o items
                   /\ api' = api

\* The messages of the story, when the client has said more.
LEMMA ClientTells ==
  ASSUME CInv, NEW e \in Entries, SaidByClient(api, e), Following(e),
         ByClient, Tells(e, <<ClientItem(api, e)>>)
  PROVE  CInv'
<1> DEFINE m == ClientItem(api, e)
           u == UnifiedOf(api, history)
<1>1. WellSaid(api, e) /\ story \in Seq(Entries) /\ history \in Seq(Messages)
  BY DEF WellSaid, CInv
<1>2. /\ story' \in Seq(Entries) /\ \A i \in DOMAIN story' : WellSaid(api', story'[i])
      /\ Numbered' /\ CallsApart'
  BY <1>1, StoryGrows DEF Tells
<1>3. /\ m \in Messages
      /\ UnifiedOf(api, Append(history, m)) = u \o UnitOf(api)[e]
      /\ \E x \in Messages : UnitOf(api)[e] = <<x>> /\ x.role # "assistant"
  BY <1>1, ClientItemParsed
<1>4. UnitOf(api) \in [Entries -> Seq(Messages)]
  BY UnitTyped
<1>5. Joint(UnitOf(api), Append(story, e)) = Joint(UnitOf(api), story) \o UnitOf(api)[e]
  <2> DEFINE p == UnitOf(api)
  <2>1. p \in [Entries -> Seq(Messages)]
    BY <1>4
  <2> HIDE DEF p
  <2>2. Joint(p, Append(story, e)) = Joint(p, story) \o p[e]
    BY <1>1, <2>1, JointAppend
  <2>3. QED
    BY <2>2 DEF p
<1>6. u = Joint(UnitOf(api), story) /\ u \in Seq(Messages)
  <2>1. u = Joint(UnitOf(api), story)
    BY DEF CInv
  <2>2. Joint(UnitOf(api), story) \in Seq(Messages)
    <3> DEFINE p == UnitOf(api)
    <3>1. p \in [Entries -> Seq(Messages)]
      BY <1>4
    <3> HIDE DEF p
    <3>2. Joint(p, story) \in Seq(Messages)
      BY <1>1, <3>1, JointTyped
    <3>3. QED
      BY <3>2 DEF p
  <2>3. QED
    BY <2>1, <2>2
<1> HIDE DEF m
<1>7. history' = Append(history, m) /\ history' \in Seq(Messages)
  BY <1>1, <1>3 DEF Tells, m
<1>8. UnifiedOf(api', history') = Joint(UnitOf(api'), story')
  BY <1>3, <1>5, <1>6, <1>7 DEF Tells
<1>9. NoReplyLast(UnifiedOf(api', history'))
  <2>1. PICK x \in Messages : UnitOf(api)[e] = <<x>> /\ x.role # "assistant"
    BY <1>3
  <2>2. UnifiedOf(api', history') = u \o <<x>>
    BY <1>3, <1>7, <2>1 DEF Tells
  <2> HIDE DEF u
  <2>3. (u \o <<x>>)[Len(u \o <<x>>)] = x
    BY <1>6
  <2>4. QED
    BY <2>1, <2>2, <2>3 DEF NoReplyLast
<1>10. state' = "open" /\ dialect' = "none" /\ request' = request /\ request = NoRequest
  BY DEF ByClient, CInv
<1>11. api' \in {"chat", "responses"}
  BY DEF CInv, Tells
<1>12. QED
  BY <1>2, <1>7, <1>8, <1>9, <1>10, <1>11 DEF CInv

\* FirstToken is a number.
LEMMA FirstTokenIs ==
  ASSUME CInv
  PROVE  FirstToken \in Nat
<1>1. Len(story) \in Nat
  BY DEF CInv
<1>2. QED
  BY <1>1, ConversationAssumption DEF FirstToken

\* What the client says is an entry of the story.
LEMMA SayingTells ==
  ASSUME CInv, NEW role \in {"system", "developer", "user"}, NEW content \in Sayings,
         ClientSays(role, content)
  PROVE  \E e \in Entries : /\ SaidByClient(api, e) /\ Following(e)
                            /\ Tells(e, <<ClientItem(api, e)>>) /\ ByClient
                            /\ e.by # "tool" /\ e.id = 0
<1>1. FirstToken \in Nat /\ MaxBlocks \in Nat
  BY FirstTokenIs, ConversationAssumption
<1> DEFINE b == Text(FirstToken + 1)
           c == Image(FirstToken + 1)
           t == Text(FirstToken + 2)
<1>2. b \in TextBlocks /\ t \in TextBlocks /\ c \in ImageBlocks
  BY <1>1 DEF Text, Image, Block, Blocks, TextBlocks, ImageBlocks
<1>3. b.token = FirstToken + 1 /\ t.token = FirstToken + 2 /\ c.token = FirstToken + 1
  BY DEF Text, Image, Block
<1>4. content = <<b>> \/ content = <<c, t>>
  BY DEF Sayings
<1> HIDE DEF b, c, t
<1>5. b \in Blocks /\ c \in Blocks /\ t \in Blocks
  BY <1>2 DEF TextBlocks, ImageBlocks
<1> DEFINE e == [by |-> role, shape |-> IF Len(content) = 1 THEN "string" ELSE "parts",
                 id |-> 0, blocks |-> content]
<1>6. e.by = role /\ e.id = 0 /\ e.blocks = content
      /\ e.shape = IF Len(content) = 1 THEN "string" ELSE "parts"
  OBVIOUS
<1>7. e \in Entries
  <2>a. <<b>> \in Seq(Blocks) /\ <<c, t>> \in Seq(Blocks)
    BY <1>5
  <2>1. content \in Seq(Blocks)
    BY <1>4, <2>a
  <2>2. QED
    BY <2>1 DEF Entries, Roles
<1>8. Tells(e, <<ClientItem(api, e)>>) /\ ByClient
  <2>1. ClientItem(api, e) = Message(role, e.shape, content, <<>>, 0)
    BY DEF ClientItem
  <2>2. QED
    BY <2>1 DEF ClientSays, Said, Tells
<1>9. role # "user" => Len(content) = 1
  BY DEF ClientSays
<1> HIDE DEF e
<1>10. SaidByClient(api, e) /\ Following(e)
  <2>1. CASE content = <<b>>
    <3>1. Len(content) = 1 /\ DOMAIN content = {1} /\ content[1] = b
      BY <2>1
    <3>2. SaidByClient(api, e)
      BY <1>2, <1>6, <2>1, <3>1 DEF SaidByClient
    <3>3. Following(e)
      BY <1>1, <1>3, <1>6, <3>1 DEF Following
    <3>4. QED
      BY <3>2, <3>3
  <2>2. CASE content = <<c, t>>
    <3>1. Len(content) = 2 /\ DOMAIN content = {1, 2} /\ content[1] = c /\ content[2] = t
      BY <2>2
    <3>2. SaidByClient(api, e)
      BY <1>2, <1>6, <1>9, <2>2, <3>1 DEF SaidByClient
    <3>3. Following(e)
      BY <1>1, <1>3, <1>6, <3>1 DEF Following
    <3>4. QED
      BY <3>2, <3>3
  <2>3. QED
    BY <1>4, <2>1, <2>2
<1>11. e.by # "tool" /\ e.id = 0
  BY <1>6
<1>12. QED
  BY <1>7, <1>8, <1>10, <1>11

\* What the client says keeps the invariant.
LEMMA CInvClientSays ==
  ASSUME CInv, NEW role \in {"system", "developer", "user"}, NEW content \in Sayings,
         ClientSays(role, content)
  PROVE  CInv'
  BY SayingTells, ClientTells

\* The id of a call that has no result yet is a number.
LEMMA PendingIs ==
  ASSUME CInv, NEW c \in Pending
  PROVE  c \in Nat /\ c # 0 /\ \E b \in Made : c = b.id
<1>1. PICK b \in Made : c = b.id
  BY DEF Pending
<1>2. PICK i \in DOMAIN story : b \in ToSet(story[i].blocks) /\ b.kind = "call"
  BY DEF Made
<1>3. PICK j \in DOMAIN story[i].blocks : b = story[i].blocks[j]
  BY <1>2 DEF ToSet
<1>4. WellSaid(api, story[i])
  BY DEF CInv
<1>5. b \in CallBlocks
  BY <1>2, <1>3, <1>4, CallSaid
<1>6. QED
  BY <1>1, <1>5 DEF CallBlocks, Blocks

\* A tool's result is an entry of the story.
LEMMA ResultTells ==
  ASSUME CInv, NEW c \in Pending, NEW shape \in {"string", "parts"},
         ClientRunsTool(c, shape)
  PROVE  \E e \in Entries : /\ SaidByClient(api, e) /\ Following(e)
                            /\ Tells(e, <<ClientItem(api, e)>>) /\ ByClient
                            /\ e.by = "tool" /\ e.id = c
<1>1. FirstToken \in Nat /\ MaxBlocks \in Nat /\ c \in Nat
  BY FirstTokenIs, PendingIs, ConversationAssumption
<1> DEFINE b == Text(FirstToken + 1)
           result == <<b>>
           e == [by |-> "tool", shape |-> shape, id |-> c, blocks |-> result]
<1>2. b \in TextBlocks /\ b.token = FirstToken + 1
  BY <1>1 DEF Text, Block, Blocks, TextBlocks
<1>3. Tells(e, <<ClientItem(api, e)>>) /\ ByClient /\ (shape = "parts" => api = "chat")
  <2>1. ClientItem(api, e) = Message(IF api = "chat" THEN "tool" ELSE "function_call_output",
                                     shape, result, <<>>, c)
    BY DEF ClientItem
  <2>2. QED
    BY <2>1 DEF ClientRunsTool, Said, Tells
<1> HIDE DEF b
<1>4. b \in Blocks
  BY <1>2 DEF TextBlocks
<1>5. result \in Seq(Blocks) /\ DOMAIN result = {1} /\ result[1] = b
  BY <1>4
<1>6. e \in Entries
  BY <1>1, <1>5 DEF Entries, Roles
<1>7. SaidByClient(api, e)
  BY <1>2, <1>3 DEF SaidByClient
<1>8. Following(e)
  BY <1>1, <1>2, <1>5 DEF Following
<1>9. e.by = "tool" /\ e.id = c
  OBVIOUS
<1> HIDE DEF e
<1>10. QED
  BY <1>3, <1>6, <1>7, <1>8, <1>9

\* A tool's result keeps the invariant.
LEMMA CInvClientRunsTool ==
  ASSUME CInv, NEW c \in Pending, NEW shape \in {"string", "parts"},
         ClientRunsTool(c, shape)
  PROVE  CInv'
  BY ResultTells, ClientTells

\* Sending the history keeps the invariant.
LEMMA CInvSend ==
  ASSUME CInv, NEW d \in Dialects, Send(d)
  PROVE  CInv'
<1>1. UNCHANGED <<api, story, history>>
  BY DEF Send
<1>2. FirstToken' = FirstToken /\ Made' = Made
  BY <1>1 DEF FirstToken, Made
<1>3. Numbered' /\ CallsApart'
  <2>1. Numbered /\ CallsApart
    BY DEF CInv
  <2>2. Numbered'
    BY <1>1, <1>2, <2>1 DEF Numbered
  <2>3. CallsApart'
    BY <1>2, <2>1 DEF CallsApart
  <2>4. QED
    BY <2>2, <2>3
<1> DEFINE u == UnifiedOf(api, history)
<1>4. Unified = u /\ UnifiedOf(api', history') = u
  BY <1>1 DEF Unified, UnifiedOf
<1>5. NoReplyLast(u)
  BY DEF CInv, Send
<1>6. \/ state' = "failed" /\ request' = NoRequest /\ MappingThrows(d, u)
      \/ state' = "asked" /\ request' = ToRequest(d, u) /\ ~MappingThrows(d, u)
  BY <1>4 DEF Send
<1>7. dialect' = d
  BY DEF Send
<1>8. u = Joint(UnitOf(api), story)
  BY DEF CInv
<1> HIDE DEF u
<1>9. UnifiedOf(api', history') = Joint(UnitOf(api'), story')
  BY <1>1, <1>4, <1>8
<1>10. /\ api' \in {"chat", "responses"} /\ story' \in Seq(Entries) /\ history' \in Seq(Messages)
       /\ \A i \in DOMAIN story' : WellSaid(api', story'[i])
  BY <1>1 DEF CInv
<1>11. QED
  BY <1>3, <1>4, <1>5, <1>6, <1>7, <1>9, <1>10 DEF CInv

\* The entry of an answer.
AnswerEntry(blocks) == [by |-> "assistant", shape |-> "string", id |-> 0,
                        blocks |-> FromOllamaContent(blocks)]

\* An answer is said as the story has it.
LEMMA AnswerTells ==
  ASSUME CInv, state = "asked", NEW blocks \in Answers(dialect), NEW raw,
         Answer(blocks, raw)
  PROVE  /\ AnswerEntry(blocks) \in Entries
         /\ WellSaid(api, AnswerEntry(blocks)) /\ SaidByAssistant(AnswerEntry(blocks))
         /\ Following(AnswerEntry(blocks))
         /\ Tells(AnswerEntry(blocks), ItemsOf(api, FromResponse(dialect, blocks, raw)))
<1>1. FirstToken \in Nat /\ MaxBlocks \in Nat /\ dialect \in Providers
  BY FirstTokenIs, ConversationAssumption DEF CInv, Providers
<1> DEFINE s == FromOllamaContent(blocks)
           e == AnswerEntry(blocks)
<1>2. /\ Len(s) \in 0 .. MaxBlocks /\ s \in Seq(TextBlocks \cup CallBlocks) /\ s \in Seq(Blocks)
      /\ \A i \in DOMAIN s : s[i].token = FirstToken + i
  BY <1>1, AnswerSaid
<1> HIDE DEF s
<1>3. e = [by |-> "assistant", shape |-> "string", id |-> 0, blocks |-> s]
  BY DEF AnswerEntry, s
<1>4. /\ e.by = "assistant" /\ e.shape = "string" /\ e.id = 0 /\ e.blocks = s
      /\ e \in Entries
  BY <1>2, <1>3 DEF Entries, Roles
<1>5. SaidByAssistant(e) /\ WellSaid(api, e)
  BY <1>2, <1>4 DEF SaidByAssistant, WellSaid
<1>6. DOMAIN s = 1 .. Len(s) /\ Len(s) <= MaxBlocks /\ Len(s) \in Nat
  BY <1>1, <1>2
<1>7. Following(e)
  <2> HIDE DEF e
  <2>1. ASSUME NEW j \in DOMAIN s
        PROVE  s[j].token \in (FirstToken + 1) .. (FirstToken + MaxBlocks + 2)
    BY <1>1, <1>2, <1>6
  <2>2. ASSUME NEW j \in DOMAIN s, NEW k \in DOMAIN s, s[j].token = s[k].token
        PROVE  j = k
    <3>1. j \in Nat /\ k \in Nat /\ FirstToken + j = FirstToken + k
      BY <1>2, <1>6, <2>2
    <3>2. QED
      BY <1>1, <3>1
  <2>3. QED
    BY <1>4, <2>1, <2>2 DEF Following
<1>8. Tells(e, ItemsOf(api, FromResponse(dialect, blocks, raw)))
  BY DEF Answer, Said, Tells, ItemsOf, AnswerEntry
<1>9. QED
  BY <1>4, <1>5, <1>7, <1>8

\* The messages of the story, when an upstream has answered.
LEMMA CInvAnswer ==
  ASSUME CInv, state = "asked", NEW blocks \in Answers(dialect), NEW raw,
         Answer(blocks, raw)
  PROVE  CInv'
<1> DEFINE e == AnswerEntry(blocks)
           response == FromResponse(dialect, blocks, raw)
           items == ItemsOf(api, response)
           u == UnifiedOf(api, history)
           p == UnitOf(api)
<1>1. e \in Entries /\ WellSaid(api, e) /\ SaidByAssistant(e) /\ Following(e) /\ Tells(e, items)
  BY AnswerTells
<1>2. FirstToken \in Nat /\ dialect \in Providers
  BY FirstTokenIs, ConversationAssumption DEF CInv, Providers
<1>3. /\ Texts(response.content) = Texts(e.blocks)
      /\ Calls(response.content) = Calls(e.blocks)
  BY <1>2, AnswerContent DEF AnswerEntry
<1>4. /\ story \in Seq(Entries) /\ history \in Seq(Messages) /\ NoReplyLast(u)
      /\ u = Joint(p, story)
  BY DEF CInv
<1>5. p \in [Entries -> Seq(Messages)]
  BY UnitTyped
<1>6. items \in Seq(Messages) /\ UnifiedOf(api, history \o items) = u \o p[e]
  <2> HIDE DEF e, response
  <2>1. QED
    BY <1>1, <1>3, <1>4, AnswerParsed
<1> HIDE DEF e, response, items, u, p
<1>7. Joint(p, Append(story, e)) = Joint(p, story) \o p[e]
  <2>1. story \in Seq(Entries) /\ e \in Entries /\ p \in [Entries -> Seq(Messages)]
    BY <1>1, <1>4, <1>5
  <2>2. QED
    BY <2>1, JointAppend
<1>8. UnifiedOf(api', history') = Joint(UnitOf(api'), story')
  BY <1>1, <1>4, <1>6, <1>7 DEF Tells, p
<1>9. /\ story' \in Seq(Entries) /\ \A i \in DOMAIN story' : WellSaid(api', story'[i])
      /\ Numbered' /\ CallsApart'
  BY <1>1, StoryGrows DEF Tells
<1>10. history' \in Seq(Messages) /\ api' \in {"chat", "responses"}
  BY <1>1, <1>4, <1>6 DEF Tells, CInv
<1>11. state' = "answered" /\ request' = NoRequest /\ dialect' \in Dialects \cup {"none"}
  BY DEF Answer, CInv
<1>12. QED
  BY <1>8, <1>9, <1>10, <1>11 DEF CInv

\* A state that is left as it is.
LEMMA CInvSame ==
  ASSUME CInv, UNCHANGED vars
  PROVE  CInv'
<1>1. FirstToken' = FirstToken /\ Made' = Made
  BY DEF FirstToken, Made, vars
<1>2. Numbered' /\ CallsApart'
  BY <1>1 DEF Numbered, CallsApart, CInv, vars
<1>3. QED
  BY <1>2 DEF CInv, vars

\* Every step keeps the invariant.
LEMMA CInvStep ==
  ASSUME CInv, [Next]_vars
  PROVE  CInv'
<1>1. CASE \E role \in {"system", "developer", "user"}, content \in Sayings :
               ClientSays(role, content)
  BY <1>1, CInvClientSays
<1>2. CASE \E c \in Pending, shape \in {"string", "parts"} : ClientRunsTool(c, shape)
  BY <1>2, CInvClientRunsTool
<1>3. CASE \E d \in Dialects : Send(d)
  BY <1>3, CInvSend
<1>4. CASE /\ state = "asked"
           /\ \E blocks \in Answers(dialect) :
                  \E raw \in Endings(dialect, blocks) : Answer(blocks, raw)
  BY <1>4, CInvAnswer
<1>5. CASE UNCHANGED vars
  BY <1>5, CInvSame
<1>6. QED
  BY <1>1, <1>2, <1>3, <1>4, <1>5 DEF Next

\* The invariant always holds.
LEMMA CInvAlways == Spec => []CInv
<1>1. Init => CInv
  BY CInvInit
<1>2. CInv /\ [Next]_vars => CInv'
  BY CInvStep
<1>3. QED
  BY <1>1, <1>2, PTL DEF Spec

\* The invariant speaks of messages.
LEMMA UnifiedIs ==
  ASSUME CInv
  PROVE  /\ UnifiedOf(api, history) = Joint(UnitOf(api), story)
         /\ UnifiedOf(api, history) \in Seq(Messages)
         /\ UnitOf(api) \in [Entries -> Seq(Messages)]
         /\ story \in Seq(Entries)
<1> DEFINE p == UnitOf(api)
<1>1. p \in [Entries -> Seq(Messages)]
  BY UnitTyped
<1>2. story \in Seq(Entries) /\ UnifiedOf(api, history) = Joint(p, story)
  BY DEF CInv
<1> HIDE DEF p
<1>3. Joint(p, story) \in Seq(Messages)
  BY <1>1, <1>2, JointTyped
<1>4. QED
  BY <1>1, <1>2, <1>3 DEF p

\* The calls of a story are those in its messages.
LEMMA CallsUnified ==
  ASSUME CInv, NEW b
  PROVE  b \in Made <=>
             \E i \in DOMAIN UnifiedOf(api, history) :
                 Elem(b, UnifiedOf(api, history)[i].calls)
<1> DEFINE p == UnitOf(api)
           u == UnifiedOf(api, history)
<1>1. /\ u = Joint(p, story) /\ u \in Seq(Messages) /\ story \in Seq(Entries)
      /\ p \in [Entries -> Seq(Messages)]
  BY UnifiedIs
<1>2. \A i \in DOMAIN story : WellSaid(api, story[i]) /\ story[i] \in Entries
  BY DEF CInv, WellSaid
<1>3. ASSUME NEW e \in Entries
      PROVE  \A c : Elem(c, Calls(e.blocks)) <=> Elem(c, e.blocks) /\ c.kind = "call"
  <2>1. e.blocks \in Seq(Blocks)
    BY DEF Entries
  <2>2. QED
    BY <2>1, ElemOfKind DEF Calls
<1>4. \A m : Elem(m, u) <=> Makes(p, story, m)
  <2> HIDE DEF p, u
  <2>1. QED
    BY <1>1, ElemJoint
<1>5. ASSUME b \in Made
      PROVE  \E i \in DOMAIN u : Elem(b, u[i].calls)
  <2>1. PICK i \in DOMAIN story : b \in ToSet(story[i].blocks) /\ b.kind = "call"
    BY <1>5 DEF Made
  <2>2. PICK j \in DOMAIN story[i].blocks : b = story[i].blocks[j]
    BY <2>1 DEF ToSet
  <2> DEFINE e == story[i]
             r == Reply(Texts(e.blocks), Calls(e.blocks))
  <2>3. e \in Entries /\ SaidByAssistant(e)
    BY <1>2, <2>1, <2>2, CallSaid
  <2>4. Elem(b, Calls(e.blocks))
    BY <1>3, <2>1, <2>2, <2>3 DEF Elem
  <2>5. Calls(e.blocks) # <<>>
    BY <2>4 DEF Elem
  <2>6. p[e] = <<r>>
    BY <2>3, <2>5 DEF UnitOf, SaidByAssistant
  <2>7. Elem(r, p[e])
    <3> HIDE DEF r, p, e
    <3>1. QED
      BY <2>6 DEF Elem
  <2>8. Elem(r, u)
    <3> HIDE DEF r, p, u
    <3>1. QED
      BY <1>4, <2>1, <2>7 DEF Makes
  <2>9. r.calls = Calls(e.blocks)
    BY DEF Reply, Message
  <2> HIDE DEF r, u, e
  <2>10. QED
    BY <2>4, <2>8, <2>9 DEF Elem
<1>6. ASSUME NEW i \in DOMAIN u, Elem(b, u[i].calls)
      PROVE  b \in Made
  <2> DEFINE m == u[i]
  <2>1. Elem(m, u)
    BY DEF Elem
  <2>2. Makes(p, story, m)
    BY <1>4, <2>1
  <2> HIDE DEF m
  <2>3. PICK k \in DOMAIN story : Elem(m, p[story[k]])
    BY <2>2 DEF Makes
  <2> DEFINE e == story[k]
  <2>4. e \in Entries
    BY <1>2
  <2>5. Elem(b, m.calls)
    BY <1>6 DEF m
  <2>6. e.by = "assistant" /\ m = Reply(Texts(e.blocks), Calls(e.blocks))
    <3>1. CASE e.by = "assistant"
      <4>1. p[e] = <<>> \/ p[e] = <<Reply(Texts(e.blocks), Calls(e.blocks))>>
        BY <2>4, <3>1 DEF UnitOf
      <4> HIDE DEF p, e
      <4>2. m = Reply(Texts(e.blocks), Calls(e.blocks))
        BY <2>3, <4>1 DEF Elem, e
      <4>3. QED
        BY <3>1, <4>2
    <3>2. CASE e.by # "assistant"
      <4>1. m.calls = <<>>
        <5> DEFINE x == Message(Speaker(e), "string", Texts(e.blocks), <<>>, e.id)
                   y == Message("user", "string", <<>>, <<>>, 0)
                   z == Message(e.by, e.shape, e.blocks, <<>>, e.id)
        <5>1. p[e] \in {<<x>>, <<y>>, <<z>>}
          BY <2>4, <3>2 DEF UnitOf
        <5>2. x.calls = <<>> /\ y.calls = <<>> /\ z.calls = <<>>
          BY DEF Message
        <5> HIDE DEF x, y, z, p, e
        <5>3. m \in {x, y, z}
          BY <2>3, <5>1 DEF Elem, e
        <5>4. QED
          BY <5>2, <5>3
      <4>2. QED
        BY <2>5, <4>1 DEF Elem
    <3>3. QED
      BY <3>1, <3>2
  <2>7. Elem(b, Calls(e.blocks))
    BY <2>5, <2>6 DEF Reply, Message
  <2>8. Elem(b, e.blocks) /\ b.kind = "call"
    BY <1>3, <2>4, <2>7
  <2>9. b \in ToSet(e.blocks)
    BY <2>8 DEF Elem, ToSet
  <2>10. QED
    BY <2>8, <2>9 DEF Made
<1>7. QED
  BY <1>5, <1>6

\* The mapper of Anthropic fails over arguments that were cut off, and no other.
LEMMA CutFails ==
  ASSUME CInv, NEW d
  PROVE  MappingThrows(d, UnifiedOf(api, history))
         <=> d = "anthropic" /\ \E b \in Made : b.args = "cut"
<1> DEFINE u == UnifiedOf(api, history)
<1>1. \A b : b \in Made <=> \E i \in DOMAIN u : Elem(b, u[i].calls)
  BY CallsUnified
<1> HIDE DEF u
<1>2. (\E i \in DOMAIN u : \E j \in DOMAIN u[i].calls : u[i].calls[j].args = "cut")
      <=> \E b \in Made : b.args = "cut"
  BY <1>1 DEF Elem
<1>3. QED
  BY <1>2 DEF MappingThrows, ArgumentsThrow, u

\* Theorem: a request fails in the gateway only over arguments that a model's
\* answer was cut off in, and only on its way to Anthropic.
THEOREM OnlyCutFails == Spec => []OnlyCutArgumentsFail
<1>1. CInv => OnlyCutArgumentsFail
  BY CutFails DEF CInv, OnlyCutArgumentsFail
<1>2. QED
  BY <1>1, CInvAlways, PTL

\* A request is of messages and of blocks.
LEMMA RequestTyped ==
  ASSUME CInv
  PROVE  request.system \in Seq(Blocks) /\ request.messages \in Seq(AskedMessages)
<1>1. CASE state = "asked"
  <2> DEFINE u == UnifiedOf(api, history)
             p == Prompts(dialect)
             q == Sends(dialect)
  <2>1. /\ dialect \in {"openai", "anthropic", "ollama", "nova"} /\ u \in Seq(Messages)
        /\ request = ToRequest(dialect, u)
    BY <1>1, UnifiedIs, ConversationAssumption DEF CInv
  <2>2. p \in [Messages -> Seq(Blocks)] /\ q \in [Messages -> Seq(AskedMessages)]
    BY SendsTyped
  <2> HIDE DEF u
  <2>3. request.messages = Joint(q, u)
    BY <2>1, MessagesAre
  <2>4. request.system = <<>> \/ request.system = Joint(p, u)
    <3>1. CASE dialect = "anthropic"
      BY <2>1, <3>1, PromptIs DEF ToRequest
    <3>2. CASE dialect # "anthropic"
      BY <2>1, <3>2 DEF ToRequest, ToOpenAiRequest, ToOllamaRequest, ToNovaRequest
    <3>3. QED
      BY <3>1, <3>2
  <2> HIDE DEF p, q
  <2>5. Joint(q, u) \in Seq(AskedMessages)
    BY <2>1, <2>2, JointTyped
  <2>6. Joint(p, u) \in Seq(Blocks) /\ <<>> \in Seq(Blocks)
    <3>1. Joint(p, u) \in Seq(Blocks)
      BY <2>1, <2>2, JointTyped
    <3>2. QED
      BY <3>1
  <2>7. QED
    BY <2>3, <2>4, <2>5, <2>6
<1>2. CASE state # "asked"
  <2>1. request = NoRequest
    BY <1>2 DEF CInv
  <2>2. request.system = <<>> /\ request.messages = <<>>
    BY <2>1 DEF NoRequest
  <2>3. <<>> \in Seq(Blocks) /\ <<>> \in Seq(AskedMessages)
    OBVIOUS
  <2>4. QED
    BY <2>2, <2>3
<1>3. QED
  BY <1>1, <1>2

\* Theorem: the state is well formed and every call has an id of its own.
THEOREM ConversationTypeCorrect == Spec => []TypeOK
<1>1. ASSUME CInv PROVE TypeOK
  <2>1. \A i \in DOMAIN history : history[i] \in Messages
    BY <1>1 DEF CInv
  <2>2. ASSUME NEW s \in Seq(Blocks) PROVE ToSet(s) \subseteq Blocks
    BY DEF ToSet
  <2>3. \A i \in DOMAIN history : /\ ToSet(history[i].content) \subseteq Blocks
                                  /\ ToSet(history[i].calls) \subseteq Blocks
    BY <2>1, <2>2 DEF Messages
  <2>4. /\ ToSet(request.system) \subseteq Blocks
        /\ \A i \in DOMAIN request.messages :
               ToSet(request.messages[i].blocks) \subseteq Blocks
    <3>1. request.system \in Seq(Blocks) /\ request.messages \in Seq(AskedMessages)
      BY <1>1, RequestTyped
    <3>2. \A i \in DOMAIN request.messages : request.messages[i] \in AskedMessages
      BY <3>1
    <3>3. QED
      BY <2>2, <3>1, <3>2 DEF AskedMessages
  <2>5. QED
    BY <1>1, <2>3, <2>4 DEF CInv, CallsApart, TypeOK
<1>2. QED
  BY <1>1, CInvAlways, PTL

\* The elements of an image, read.
Maps(X, Y) == [X -> Y]
Follows(p, f, g, u) == \A i \in DOMAIN u : p[f[u[i]]] = g[u[i]]

\* What is made of the images of a sequence's elements.
LEMMA JointMapped ==
  ASSUME NEW X, NEW Y, NEW Z, NEW p, NEW f, NEW g, NEW u, p \in Parts(Y, Z),
         f \in Maps(X, Y), g \in Parts(X, Z), u \in Seq(X), Follows(p, f, g, u)
  PROVE  Joint(p, Mapped(f, u)) = Joint(g, u)
<1>0. p \in [Y -> Seq(Z)] /\ f \in [X -> Y] /\ g \in [X -> Seq(Z)]
  BY DEF Parts, Maps
<1> DEFINE q == Ones(f)
           t == Twice(p, q)
<1>1. q \in [X -> Seq(Y)] /\ \A x \in X : q[x] = <<f[x]>> /\ f[x] \in Y
  BY <1>0 DEF Ones
<1>2. u \in Seq(DOMAIN f)
  BY <1>0
<1>3. Mapped(f, u) = Joint(q, u)
  <2> HIDE DEF q
  <2>1. QED
    BY <1>2, JointMap DEF q
<1> HIDE DEF q
<1>4. Joint(p, Joint(q, u)) = Joint(t, u) /\ t \in [X -> Seq(Z)]
  <2>1. q \in [X -> Seq(Y)]
    BY <1>1
  <2>2. QED
    BY <1>0, <2>1, JointOfJoint
<1>5. ASSUME NEW x \in X PROVE t[x] = p[f[x]]
  <2>1. t[x] = Joint(p, q[x])
    BY <1>1 DEF Twice
  <2>2. Joint(p, <<f[x]>>) = p[f[x]]
    <3> DEFINE y == f[x]
    <3>1. y \in Y
      BY <1>1
    <3> HIDE DEF y
    <3>2. Joint(p, <<y>>) = p[y]
      BY <1>0, <3>1, JointOne
    <3>3. QED
      BY <3>2 DEF y
  <2>3. QED
    BY <1>1, <2>1, <2>2
<1>6. Agree(t, g, u)
  <2>1. \A i \in DOMAIN u : u[i] \in X
    OBVIOUS
  <2> HIDE DEF t
  <2>2. QED
    BY <1>5, <2>1 DEF Agree, Follows
<1> HIDE DEF t
<1>7. Joint(t, u) = Joint(g, u)
  <2>1. t \in Parts(X, Z) /\ g \in Parts(X, Z)
    BY <1>4 DEF Parts
  <2>2. QED
    BY <1>6, <2>1, JointSame
<1>8. QED
  BY <1>3, <1>4, <1>7

\* What is heard of the blocks of a kind.
LEMMA HearsOfKind ==
  ASSUME NEW d, NEW e \in Entries, NEW kind
  PROVE  Hears(d, e, {kind}) = Joint(HeardBlock(d, e, {kind}), OfKind(kind, e.blocks))
<1> DEFINE p == HeardBlock(d, e, {kind})
           q == Keep(kind)
           s == e.blocks
           t == Twice(p, q)
<1>1. p \in [Blocks -> Seq(Utterances)] /\ q \in [Blocks -> Seq(Blocks)] /\ s \in Seq(Blocks)
  BY HeardBlockTyped DEF Keep, Entries
<1>2. ASSUME NEW b \in Blocks PROVE t[b] = p[b]
  <2>1. t[b] = Joint(p, q[b])
    BY DEF Twice, Keep
  <2>2. CASE b.kind = kind
    <3>1. q[b] = <<b>>
      BY <2>2 DEF Keep
    <3>2. Joint(p, <<b>>) = p[b]
      <4> HIDE DEF p
      <4>1. QED
        BY <1>1, JointOne
    <3>3. QED
      BY <2>1, <3>1, <3>2
  <2>3. CASE b.kind # kind
    <3>1. q[b] = <<>> /\ p[b] = <<>>
      BY <2>3 DEF Keep, HeardBlock
    <3>2. Joint(p, <<>>) = <<>>
      BY JointEmpty
    <3>3. QED
      BY <2>1, <3>1, <3>2
  <2>4. QED
    BY <2>2, <2>3
<1> HIDE DEF p, q, s, t
<1>3. Joint(p, Joint(q, s)) = Joint(t, s) /\ t \in [Blocks -> Seq(Utterances)]
  BY <1>1, JointOfJoint DEF t
<1>4. Agree(t, p, s)
  <2>1. \A i \in DOMAIN s : s[i] \in Blocks
    BY <1>1
  <2>2. QED
    BY <1>2, <2>1 DEF Agree
<1>5. Joint(t, s) = Joint(p, s)
  <2>1. t \in Parts(Blocks, Utterances) /\ p \in Parts(Blocks, Utterances)
    BY <1>1, <1>3 DEF Parts
  <2>2. QED
    BY <1>1, <1>4, <2>1, JointSame
<1>6. OfKind(kind, s) = Joint(q, s)
  BY <1>1, OfKindIs DEF q
<1>7. QED
  BY <1>3, <1>5, <1>6 DEF Hears, p, s

\* What the assistant says are texts and calls.
LEMMA AssistantParts ==
  ASSUME NEW e \in Entries, SaidByAssistant(e)
  PROVE  /\ Texts(e.blocks) \in Seq(Blocks) /\ Calls(e.blocks) \in Seq(Blocks)
         /\ \A i \in DOMAIN Texts(e.blocks) : Texts(e.blocks)[i] \in TextBlocks
         /\ \A i \in DOMAIN Calls(e.blocks) : Calls(e.blocks)[i] \in CallBlocks
<1> DEFINE s == e.blocks
           S == TextBlocks \cup CallBlocks
<1>1. s \in Seq(Blocks) /\ s \in Seq(S)
  BY DEF Entries, SaidByAssistant
<1> HIDE DEF s, S
<1>2. \A b : Elem(b, s) => b \in S
  BY <1>1 DEF Elem
<1>3. ASSUME NEW i \in DOMAIN Texts(s) PROVE Texts(s)[i] \in TextBlocks
  <2>1. Elem(Texts(s)[i], Texts(s))
    BY DEF Elem
  <2>2. Elem(Texts(s)[i], s) /\ Texts(s)[i].kind = "text"
    BY <1>1, <2>1, ElemOfKind DEF Texts
  <2>3. QED
    BY <1>2, <2>2 DEF S, CallBlocks
<1>4. ASSUME NEW i \in DOMAIN Calls(s) PROVE Calls(s)[i] \in CallBlocks
  <2>1. Elem(Calls(s)[i], Calls(s))
    BY DEF Elem
  <2>2. Elem(Calls(s)[i], s) /\ Calls(s)[i].kind = "call"
    BY <1>1, <2>1, ElemOfKind DEF Calls
  <2>3. QED
    BY <1>2, <2>2 DEF S, TextBlocks
<1>5. Texts(s) \in Seq(Blocks) /\ Calls(s) \in Seq(Blocks)
  BY <1>1, OfKindIs DEF Texts, Calls
<1>6. QED
  BY <1>3, <1>4, <1>5 DEF s

-----------------------------------------------------------------------------
(* A message, sent and read. *)

\* The message that a provider is sent of m.
SentAs(d, m) ==
    IF d = "anthropic"
    THEN Asked(IF m.role = "assistant" THEN "assistant" ELSE "user", 0, ToAnthropicContent(m))
    ELSE IF d = "ollama" THEN ToOllamaMessage(m) ELSE ToOpenAiMessage(m)

Prompted(d, m) == d = "anthropic" /\ m.role = "system"

\* What is read of one message.
LEMMA OneRead ==
  ASSUME NEW d, NEW m, m \in Messages
  PROVE  /\ Joint(ReadMessage, Joint(Sends(d), <<m>>)) =
                IF Prompted(d, m) THEN <<>>
                ELSE Joint(ReadBlock(SentAs(d, m).role), SentAs(d, m).blocks)
         /\ Joint(ReadPrompt, Joint(Prompts(d), <<m>>)) =
                IF Prompted(d, m) THEN Joint(ReadPrompt, m.content) ELSE <<>>
<1> DEFINE p == Sends(d)
           q == Prompts(d)
           x == SentAs(d, m)
           none == <<>>
<1>1. p \in [Messages -> Seq(AskedMessages)] /\ q \in [Messages -> Seq(Blocks)]
  BY SendsTyped
<1>2. /\ p[m] = IF Prompted(d, m) THEN none ELSE <<x>>
      /\ q[m] = IF Prompted(d, m) THEN m.content ELSE none
  BY DEF Sends, Prompts, Prompted, SentAs
<1>3. ~Prompted(d, m) => x \in AskedMessages
  <2>1. SUFFICES ASSUME ~Prompted(d, m) PROVE x \in AskedMessages
    OBVIOUS
  <2>2. <<x>> \in Seq(AskedMessages)
    <3> HIDE DEF p, x
    <3>1. p[m] = <<x>>
      BY <1>2, <2>1
    <3>2. QED
      BY <1>1, <3>1
  <2> HIDE DEF x
  <2>3. Len(<<x>>) = 1 /\ (<<x>>)[1] = x
    OBVIOUS
  <2>4. QED
    BY <2>2, <2>3
<1> HIDE DEF p, q, x, none
<1>4. Joint(p, <<m>>) = p[m]
  BY <1>1, JointOne
<1>5. Joint(q, <<m>>) = q[m]
  BY <1>1, JointOne
<1>6. Joint(ReadMessage, none) = <<>> /\ Joint(ReadPrompt, none) = <<>>
  BY JointEmpty DEF none
<1>7. ~Prompted(d, m) => Joint(ReadMessage, <<x>>) = Joint(ReadBlock(x.role), x.blocks)
  <2>1. SUFFICES ASSUME ~Prompted(d, m)
                 PROVE  Joint(ReadMessage, <<x>>) = Joint(ReadBlock(x.role), x.blocks)
    OBVIOUS
  <2>2. x \in AskedMessages /\ ReadMessage \in [AskedMessages -> Seq(Utterances)]
    BY <1>3, <2>1, ReadTyped
  <2>3. Joint(ReadMessage, <<x>>) = ReadMessage[x]
    BY <2>2, JointOne
  <2>4. ReadMessage[x] = Joint(ReadBlock(x.role), x.blocks)
    BY <2>2 DEF ReadMessage
  <2>5. QED
    BY <2>3, <2>4
<1>8. QED
  BY <1>2, <1>4, <1>5, <1>6, <1>7 DEF p, q, x

\* What is read of one block, and of two.
LEMMA BlockRead ==
  ASSUME NEW role, role \in Roles, NEW b, b \in Blocks
  PROVE  /\ Joint(ReadBlock(role), <<b>>) = ReadBlock(role)[b]
         /\ ReadBlock(role)[b] = IF b.token = 0 THEN <<>>
                 ELSE <<Utterance(IF b.kind = "result" THEN "tool" ELSE role, b.token, b.args)>>
<1> DEFINE p == ReadBlock(role)
<1>1. p \in [Blocks -> Seq(Utterances)]
  BY ReadTyped
<1>2. p[b] = IF b.token = 0 THEN <<>>
             ELSE <<Utterance(IF b.kind = "result" THEN "tool" ELSE role, b.token, b.args)>>
  BY DEF ReadBlock
<1> HIDE DEF p
<1>3. Joint(p, <<b>>) = p[b]
  BY <1>1, JointOne
<1>4. QED
  BY <1>2, <1>3 DEF p

\* Two sequences of one element.
LEMMA Couples ==
  ASSUME NEW u, NEW v
  PROVE  /\ <<u>> \o <<v>> = <<u, v>> /\ <<u>> \o <<>> = <<u>> /\ <<>> \o <<u>> = <<u>>
         /\ <<>> \o <<>> = <<>>
<1> DEFINE S == {u, v}
<1>1. u \in S /\ v \in S
  OBVIOUS
<1> HIDE DEF S
<1>2. <<u>> \in Seq(S) /\ <<v>> \in Seq(S) /\ <<>> \in Seq(S)
  BY <1>1
<1>3. <<u>> \o <<v>> = <<u, v>>
  <2> DEFINE w == <<u>> \o <<v>>
             x == <<u, v>>
  <2>1. w \in Seq(S) /\ Len(w) = 2 /\ w[1] = u /\ w[2] = v
    BY <1>1, <1>2
  <2>2. x \in Seq(S) /\ Len(x) = 2 /\ x[1] = u /\ x[2] = v
    BY <1>1
  <2> HIDE DEF w, x
  <2>3. \A i \in 1 .. Len(w) : w[i] = x[i]
    <3>1. ASSUME NEW i \in 1 .. 2 PROVE w[i] = x[i]
      <4>1. i = 1 \/ i = 2
        OBVIOUS
      <4>2. QED
        BY <2>1, <2>2, <4>1
    <3>2. QED
      BY <2>1, <3>1
  <2>4. w = x
    BY <2>1, <2>2, <2>3, SameElements
  <2>5. QED
    BY <2>4 DEF w, x
<1>4. <<u>> \o <<>> = <<u>> /\ <<>> \o <<u>> = <<u>> /\ <<>> \o <<>> = <<>>
  BY <1>2
<1>5. QED
  BY <1>3, <1>4

\* What is read of two blocks.
LEMMA PairRead ==
  ASSUME NEW role, role \in Roles, NEW b, b \in Blocks, NEW c, c \in Blocks,
         b.token # 0, c.token # 0, b.kind # "result", c.kind # "result"
  PROVE  Joint(ReadBlock(role), <<b, c>>) =
             <<Utterance(role, b.token, b.args), Utterance(role, c.token, c.args)>>
<1> DEFINE p == ReadBlock(role)
           u == Utterance(role, b.token, b.args)
           v == Utterance(role, c.token, c.args)
<1>1. p[b] = <<u>> /\ p[c] = <<v>>
  BY BlockRead
<1>2. p \in [Blocks -> Seq(Utterances)] /\ b \in Blocks /\ c \in Blocks
  BY ReadTyped
<1> HIDE DEF p, u, v
<1>3. Joint(p, <<b, c>>) = p[b] \o p[c]
  <2> DEFINE one == <<b>>
  <2>1. one \in Seq(Blocks) /\ <<b, c>> = Append(one, c)
    BY <1>2
  <2>2. Joint(p, one) = p[b]
    BY <1>2, JointOne
  <2> HIDE DEF one
  <2>3. Joint(p, Append(one, c)) = Joint(p, one) \o p[c]
    BY <1>2, <2>1, JointAppend
  <2>4. QED
    BY <2>1, <2>2, <2>3
<1>4. <<u>> \o <<v>> = <<u, v>>
  BY Couples
<1>5. QED
  BY <1>1, <1>3, <1>4 DEF p, u, v

-----------------------------------------------------------------------------
(* What is to be heard of the client. *)

\* What is to be heard of a block among a client's.
LEMMA ClientBlock ==
  ASSUME NEW d, NEW e, NEW kinds, NEW b, b \in Blocks, b.args = "none"
  PROVE  HeardBlock(d, e, kinds)[b] =
             IF b.kind \in kinds /\ ~Lost(d, e, b)
             THEN <<Utterance(Speaker(e), b.token, b.args)>> ELSE <<>>
  BY DEF HeardBlock, ReadAs

\* A text that the client says alone.
LEMMA HeardText ==
  ASSUME NEW d, NEW e, e \in Entries, e.by # "assistant", NEW b, b \in TextBlocks,
         e.blocks = <<b>>
  PROVE  HeardEntry(d, e) = IF Lost(d, e, b) THEN <<>>
                            ELSE <<Utterance(Speaker(e), b.token, "none")>>
<1>1. b \in Blocks /\ b.kind = "text" /\ b.args = "none"
  BY DEF TextBlocks
<1>2. ASSUME NEW kinds
      PROVE  Hears(d, e, kinds) = IF "text" \in kinds /\ ~Lost(d, e, b)
                 THEN <<Utterance(Speaker(e), b.token, "none")>> ELSE <<>>
  <2> DEFINE p == HeardBlock(d, e, kinds)
  <2>1. p \in [Blocks -> Seq(Utterances)]
    BY HeardBlockTyped
  <2>2. p[b] = IF "text" \in kinds /\ ~Lost(d, e, b)
               THEN <<Utterance(Speaker(e), b.token, "none")>> ELSE <<>>
    BY <1>1, ClientBlock
  <2>3. Hears(d, e, kinds) = Joint(p, <<b>>)
    BY DEF Hears
  <2> HIDE DEF p
  <2>4. Joint(p, <<b>>) = p[b]
    BY <1>1, <2>1, JointOne
  <2>5. QED
    BY <2>2, <2>3, <2>4
<1> DEFINE u == IF Lost(d, e, b) THEN <<>> ELSE <<Utterance(Speaker(e), b.token, "none")>>
<1>3. Hears(d, e, {"text"}) = u /\ Hears(d, e, {"image"}) = <<>> /\ Hears(d, e, {"text", "image"}) = u
  BY <1>2
<1>4. u \o <<>> = u
  <2>1. u \in Seq(Utterances)
    <3>1. Hears(d, e, {"text"}) \in Seq(Utterances)
      BY HeardTyped
    <3> HIDE DEF u
    <3>2. QED
      BY <1>3, <3>1
  <2> HIDE DEF u
  <2>2. QED
    BY <2>1
<1> HIDE DEF u
<1>5. HeardEntry(d, e) = u
  BY <1>3, <1>4 DEF HeardEntry
<1>6. QED
  BY <1>5 DEF u

\* An image and a text that the client says.
LEMMA HeardPair ==
  ASSUME NEW d, NEW e, e \in Entries, e.by = "user", NEW c, c \in ImageBlocks,
         NEW b, b \in TextBlocks, e.blocks = <<c, b>>
  PROVE  HeardEntry(d, e) =
             IF api = "responses" THEN <<Utterance("user", b.token, "none")>>
             ELSE IF d = "ollama"
             THEN <<Utterance("user", b.token, "none"), Utterance("user", c.token, "none")>>
             ELSE <<Utterance("user", c.token, "none"), Utterance("user", b.token, "none")>>
<1> DEFINE u == Utterance("user", c.token, "none")
           v == Utterance("user", b.token, "none")
<1>1. /\ b \in Blocks /\ b.kind = "text" /\ b.args = "none"
      /\ c \in Blocks /\ c.kind = "image" /\ c.args = "none"
  BY DEF TextBlocks, ImageBlocks
<1>2. Speaker(e) = "user" /\ ~Lost(d, e, b) /\ (Lost(d, e, c) <=> api = "responses")
  BY <1>1 DEF Speaker, Lost
<1> HIDE DEF u, v
<1>3. ASSUME NEW kinds
      PROVE  Hears(d, e, kinds) =
                 (IF "image" \in kinds /\ api # "responses" THEN <<u>> ELSE <<>>)
                 \o (IF "text" \in kinds THEN <<v>> ELSE <<>>)
  <2> DEFINE p == HeardBlock(d, e, kinds)
  <2>1. p \in [Blocks -> Seq(Utterances)]
    BY HeardBlockTyped
  <2>b. b \in Blocks /\ c \in Blocks
    BY <1>1
  <2>2. p[c] = IF "image" \in kinds /\ api # "responses" THEN <<u>> ELSE <<>>
    <3>1. p[c] = IF "image" \in kinds /\ ~Lost(d, e, c)
                 THEN <<Utterance(Speaker(e), c.token, "none")>> ELSE <<>>
      BY <1>1, ClientBlock
    <3>2. QED
      BY <1>2, <3>1 DEF u
  <2>3. p[b] = IF "text" \in kinds THEN <<v>> ELSE <<>>
    BY <1>1, <1>2, ClientBlock DEF v
  <2>4. Hears(d, e, kinds) = Joint(p, <<c, b>>)
    BY DEF Hears
  <2> HIDE DEF p
  <2>5. Joint(p, <<c, b>>) = p[c] \o p[b]
    <3> DEFINE one == <<c>>
    <3>1. one \in Seq(Blocks) /\ <<c, b>> = Append(one, b)
      BY <2>b
    <3>2. Joint(p, one) = p[c]
      BY <2>1, <2>b, JointOne
    <3> HIDE DEF one
    <3>3. Joint(p, Append(one, b)) = Joint(p, one) \o p[b]
      BY <2>1, <2>b, <3>1, JointAppend
    <3>4. QED
      BY <3>1, <3>2, <3>3
  <2>6. QED
    BY <2>2, <2>3, <2>4, <2>5
<1>4. /\ <<u>> \o <<v>> = <<u, v>> /\ <<v>> \o <<u>> = <<v, u>>
      /\ <<u>> \o <<>> = <<u>> /\ <<>> \o <<v>> = <<v>> /\ <<v>> \o <<>> = <<v>>
      /\ <<>> \o <<>> = <<>>
  BY Couples
<1>5. Hears(d, e, {"text"}) = <<v>>
  BY <1>3, <1>4
<1>6. Hears(d, e, {"image"}) = IF api = "responses" THEN <<>> ELSE <<u>>
  BY <1>3, <1>4
<1>7. Hears(d, e, {"text", "image"}) = IF api = "responses" THEN <<v>> ELSE <<u, v>>
  BY <1>3, <1>4
<1>8. QED
  BY <1>4, <1>5, <1>6, <1>7 DEF HeardEntry, u, v

\* The blocks of a kind among none, among one and among two.
LEMMA FewOfKind ==
  ASSUME NEW kind, NEW c, c \in Blocks, NEW b, b \in Blocks
  PROVE  /\ OfKind(kind, <<>>) = <<>>
         /\ OfKind(kind, <<b>>) = IF b.kind = kind THEN <<b>> ELSE <<>>
         /\ OfKind(kind, <<c, b>>) = (IF c.kind = kind THEN <<c>> ELSE <<>>)
                                     \o (IF b.kind = kind THEN <<b>> ELSE <<>>)
<1> DEFINE k == Keep(kind)
           none == <<>>
           one == <<c>>
           other == <<b>>
<1>1. k \in [Blocks -> Seq(Blocks)]
  BY DEF Keep
<1>2. /\ k[b] = IF b.kind = kind THEN <<b>> ELSE <<>>
      /\ k[c] = IF c.kind = kind THEN <<c>> ELSE <<>>
  BY DEF Keep
<1>3. /\ none \in Seq(Blocks) /\ one \in Seq(Blocks) /\ other \in Seq(Blocks)
      /\ <<c, b>> = Append(one, b) /\ Append(one, b) \in Seq(Blocks)
  OBVIOUS
<1> HIDE DEF k
<1>4. Joint(k, none) = <<>> /\ Joint(k, other) = k[b] /\ Joint(k, one) = k[c]
  BY <1>1, JointEmpty, JointOne
<1> HIDE DEF none, one, other
<1>5. Joint(k, Append(one, b)) = Joint(k, one) \o k[b]
  BY <1>1, <1>3, JointAppend
<1>6. OfKind(kind, none) = Joint(k, none) /\ OfKind(kind, other) = Joint(k, other)
  BY <1>3, OfKindIs DEF k
<1>7. OfKind(kind, Append(one, b)) = Joint(k, Append(one, b))
  BY <1>3, OfKindIs DEF k
<1>8. QED
  BY <1>2, <1>3, <1>4, <1>5, <1>6, <1>7 DEF none, other

\* A message without calls, as Ollama is sent it.
LEMMA OllamaWithoutCalls ==
  ASSUME NEW m, m.calls = <<>>
  PROVE  ToOllamaMessage(m) = Asked(m.role, 0, Texts(m.content) \o Images(m.content) \o <<>>)
<1> DEFINE h(c) == [c EXCEPT !.id = 0, !.args = ParseToolArguments(@)]
           none == [i \in DOMAIN m.calls |-> h(m.calls[i])]
<1>1. ToOllamaMessage(m) = Asked(m.role, 0, Texts(m.content) \o Images(m.content) \o none)
  BY DEF ToOllamaMessage
<1> HIDE DEF h
<1>2. none = <<>>
  OBVIOUS
<1> HIDE DEF none
<1>3. QED
  BY <1>1, <1>2

\* A message of a text.
IsText(m, role, shape, b, id) == m = Message(role, shape, <<b>>, <<>>, id)

\* A text, sent.
LEMMA SentText ==
  ASSUME NEW d, d \in Providers, NEW role, role \in {"system", "user", "tool"}, NEW shape,
         NEW id, NEW b, b \in TextBlocks, NEW m, IsText(m, role, shape, b, id)
  PROVE  /\ d # "anthropic" => SentAs(d, m).role = role /\ SentAs(d, m).blocks = <<b>>
         /\ d = "anthropic" /\ role = "user" =>
                SentAs(d, m).role = "user" /\ SentAs(d, m).blocks = <<b>>
         /\ d = "anthropic" /\ role = "tool" =>
                /\ SentAs(d, m).role = "user"
                /\ SentAs(d, m).blocks =
                       <<ToolResult(id, IF shape = "string" THEN b.token ELSE 0)>>
<1>1. /\ m.role = role /\ m.shape = shape /\ m.content = <<b>> /\ m.calls = <<>> /\ m.id = id
  BY DEF IsText, Message
<1>2. b \in Blocks /\ b.kind = "text" /\ b = Text(b.token)
  BY DEF TextBlocks, Blocks, Text, Block
<1>3. CASE d \in {"openai", "nova"}
  <2>1. SentAs(d, m) = Asked(role, id, <<b>> \o <<>>)
    BY <1>1, <1>3 DEF SentAs, ToOpenAiMessage
  <2>2. <<b>> \o <<>> = <<b>>
    BY Couples
  <2>3. QED
    BY <1>3, <2>1, <2>2 DEF Asked
<1>4. CASE d = "ollama"
  <2>1. Texts(<<b>>) = <<b>> /\ Images(<<b>>) = <<>>
    BY <1>2, FewOfKind DEF Texts, Images
  <2> DEFINE none == <<>>
  <2>3. SentAs(d, m) = Asked(role, 0, Texts(m.content) \o Images(m.content) \o none)
    BY <1>1, <1>4, OllamaWithoutCalls DEF SentAs
  <2> HIDE DEF none
  <2>4. Texts(m.content) \o Images(m.content) \o none = <<b>>
    BY <1>1, <2>1, Couples DEF none
  <2>5. SentAs(d, m) = Asked(role, 0, <<b>>)
    BY <2>3, <2>4
  <2>6. SentAs(d, m).role = role /\ SentAs(d, m).blocks = <<b>>
    BY <2>5 DEF Asked
  <2>7. QED
    BY <1>4, <2>6
<1>5. CASE d = "anthropic" /\ role = "user"
  <2>1. ToAnthropicContent(m) = [i \in DOMAIN m.content |-> Text(m.content[i].token)]
    BY <1>1, <1>5 DEF ToAnthropicContent
  <2>2. [i \in DOMAIN m.content |-> Text(m.content[i].token)] = <<b>>
    <3> DEFINE one == <<b>>
    <3>1. one \in Seq(Blocks) /\ DOMAIN one = 1 .. 1 /\ one[1] = b /\ Len(one) = 1
      BY <1>2
    <3> DEFINE x == [i \in DOMAIN one |-> Text(one[i].token)]
    <3> HIDE DEF one
    <3>2. \A i \in 1 .. 1 : i = 1
      OBVIOUS
    <3>3. \A i \in 1 .. 1 : x[i] = b
      BY <1>2, <3>1, <3>2
    <3>4. x \in [1 .. 1 -> Blocks]
      BY <1>2, <3>1, <3>2
    <3> HIDE DEF x
    <3>5. x \in Seq(Blocks) /\ Len(x) = 1
      BY <3>4, SequenceOf, LengthOf
    <3>6. x = one
      BY <3>1, <3>2, <3>3, <3>5, SameElements
    <3>7. QED
      BY <1>1, <3>6 DEF x, one
  <2>3. QED
    BY <1>1, <1>5, <2>1, <2>2 DEF SentAs, Asked
<1>6. CASE d = "anthropic" /\ role = "tool"
  <2>1. m.content # <<>> /\ m.content[1] = b
    <3>1. Len(<<b>>) = 1 /\ Len(<<>>) = 0 /\ (<<b>>)[1] = b
      OBVIOUS
    <3> DEFINE s == <<b>>
    <3>2. Len(s) # 0 /\ s[1] = b
      BY <3>1
    <3> HIDE DEF s
    <3>3. s # <<>>
      BY <3>1, <3>2
    <3>4. QED
      BY <1>1, <3>2, <3>3 DEF s
  <2>2. ToAnthropicContent(m) =
            <<ToolResult(id, IF shape = "string" THEN b.token ELSE 0)>>
    BY <1>1, <1>6, <2>1 DEF ToAnthropicContent
  <2>3. QED
    BY <1>1, <1>6, <2>2 DEF SentAs, Asked
<1>7. QED
  BY <1>3, <1>4, <1>5, <1>6 DEF Providers

\* Nothing, sent.
LEMMA SentNothing ==
  ASSUME NEW d, d \in Providers, NEW m, m = Message("user", "string", <<>>, <<>>, 0)
  PROVE  SentAs(d, m).role = "user" /\ SentAs(d, m).blocks = <<>>
<1>1. m.role = "user" /\ m.content = <<>> /\ m.calls = <<>>
  BY DEF Message
<1>2. <<>> \o <<>> = <<>>
  BY Couples
<1>3. CASE d \in {"openai", "nova"}
  BY <1>1, <1>2, <1>3 DEF SentAs, ToOpenAiMessage, Asked
<1>4. CASE d = "ollama"
  <2>1. Texts(<<>>) = <<>> /\ Images(<<>>) = <<>>
    <3>1. Block("text", 0, 0, "none") \in Blocks
      BY BlockTyped DEF Args
    <3>2. QED
      BY <3>1, FewOfKind DEF Texts, Images
  <2> DEFINE none == <<>>
  <2>3. SentAs(d, m) = Asked("user", 0, Texts(m.content) \o Images(m.content) \o none)
    BY <1>1, <1>4, OllamaWithoutCalls DEF SentAs
  <2>4. QED
    BY <1>1, <1>2, <1>4, <2>1, <2>3 DEF Asked
<1>5. CASE d = "anthropic"
  <2>1. ToAnthropicContent(m) = [i \in DOMAIN m.content |-> Text(m.content[i].token)]
    BY <1>1, <1>5 DEF ToAnthropicContent
  <2>2. [i \in DOMAIN m.content |-> Text(m.content[i].token)] = <<>>
    BY <1>1
  <2>3. QED
    BY <1>1, <1>5, <2>1, <2>2 DEF SentAs, Asked
<1>6. QED
  BY <1>3, <1>4, <1>5 DEF Providers

\* A message of an image and a text.
IsPair(m, c, b) == m = Message("user", "parts", <<c, b>>, <<>>, 0)

\* An image and a text, sent.
LEMMA SentPair ==
  ASSUME NEW d, d \in Providers, NEW c, c \in ImageBlocks, NEW b, b \in TextBlocks,
         NEW m, IsPair(m, c, b)
  PROVE  /\ SentAs(d, m).role = "user"
         /\ SentAs(d, m).blocks =
                CASE d = "ollama" -> <<b, c>>
                  [] d = "anthropic" -> <<Text(c.token), b>>
                  [] OTHER -> <<c, b>>
<1>1. m.role = "user" /\ m.content = <<c, b>> /\ m.calls = <<>>
  BY DEF IsPair, Message
<1>2. /\ b \in Blocks /\ b.kind = "text" /\ b = Text(b.token)
      /\ c \in Blocks /\ c.kind = "image" /\ Text(c.token) \in Blocks
  BY DEF TextBlocks, ImageBlocks, Blocks, Text, Block
<1>3. CASE d \in {"openai", "nova"}
  <2>1. SentAs(d, m) = Asked("user", m.id, m.content \o m.calls)
    BY <1>1, <1>3 DEF SentAs, ToOpenAiMessage
  <2>2. m.content \o m.calls = <<c, b>>
    <3> DEFINE s == <<c, b>>
    <3>1. s \in Seq(Blocks)
      BY <1>2
    <3> HIDE DEF s
    <3>2. s \o <<>> = s
      BY <3>1
    <3>3. QED
      BY <1>1, <3>2 DEF s
  <2>3. SentAs(d, m).role = "user" /\ SentAs(d, m).blocks = m.content \o m.calls
    <3> DEFINE x == m.content \o m.calls
               i == m.id
    <3>1. SentAs(d, m) = Asked("user", i, x)
      BY <2>1
    <3> HIDE DEF x, i
    <3>2. SentAs(d, m).role = "user" /\ SentAs(d, m).blocks = x
      BY <3>1 DEF Asked
    <3>3. QED
      BY <3>2 DEF x
  <2>4. QED
    BY <1>3, <2>2, <2>3
<1>4. CASE d = "ollama"
  <2>1. Texts(<<c, b>>) = <<b>> /\ Images(<<c, b>>) = <<c>>
    <3>1. Texts(<<c, b>>) = <<>> \o <<b>> /\ Images(<<c, b>>) = <<c>> \o <<>>
      BY <1>2, FewOfKind DEF Texts, Images
    <3>2. <<>> \o <<b>> = <<b>> /\ <<c>> \o <<>> = <<c>>
      BY Couples
    <3>3. QED
      BY <3>1, <3>2
  <2> DEFINE none == <<>>
  <2>3. SentAs(d, m) = Asked("user", 0, Texts(m.content) \o Images(m.content) \o none)
    BY <1>1, <1>4, OllamaWithoutCalls DEF SentAs
  <2> HIDE DEF none
  <2>4. Texts(m.content) \o Images(m.content) \o none = <<b, c>>
    <3>1. <<b>> \o <<c>> = <<b, c>>
      BY Couples
    <3> DEFINE s == <<b, c>>
    <3>2. s \in Seq(Blocks)
      BY <1>2
    <3> HIDE DEF s
    <3>3. s \o <<>> = s
      BY <3>2
    <3>4. QED
      BY <1>1, <2>1, <3>1, <3>3 DEF s, none
  <2>5. /\ SentAs(d, m).role = "user"
        /\ SentAs(d, m).blocks = Texts(m.content) \o Images(m.content) \o none
    BY <2>3 DEF Asked
  <2>6. QED
    BY <1>4, <2>4, <2>5
<1>5. CASE d = "anthropic"
  <2>1. ToAnthropicContent(m) = [i \in DOMAIN m.content |-> Text(m.content[i].token)]
    BY <1>1, <1>5 DEF ToAnthropicContent
  <2>2. [i \in DOMAIN m.content |-> Text(m.content[i].token)] = <<Text(c.token), b>>
    <3> DEFINE t == Text(c.token)
               s == <<c, b>>
               y == <<t, b>>
    <3>1. s \in Seq(Blocks) /\ DOMAIN s = 1 .. 2 /\ s[1] = c /\ s[2] = b
      BY <1>2
    <3>2. t \in Blocks
      BY <1>2
    <3> DEFINE x == [i \in DOMAIN s |-> Text(s[i].token)]
    <3> HIDE DEF s
    <3>3. \A i \in 1 .. 2 : i = 1 \/ i = 2
      OBVIOUS
    <3>4. x[1] = t /\ x[2] = b
      BY <1>2, <3>1
    <3>5. x \in [1 .. 2 -> Blocks]
      <4>1. \A i \in 1 .. 2 : Text(s[i].token) \in Blocks
        BY <1>2, <3>1, <3>2, <3>3
      <4>2. QED
        BY <3>1, <4>1
    <3> HIDE DEF x, t
    <3>6. x \in Seq(Blocks) /\ Len(x) = 2
      BY <3>5, SequenceOf, LengthOf
    <3>7. y \in Seq(Blocks) /\ Len(y) = 2 /\ y[1] = t /\ y[2] = b
      BY <1>2, <3>2
    <3> HIDE DEF y
    <3>8. \A i \in 1 .. Len(x) : x[i] = y[i]
      BY <3>3, <3>4, <3>6, <3>7
    <3>9. x = y
      BY <3>6, <3>7, <3>8, SameElements
    <3>10. QED
      BY <1>1, <3>9 DEF x, y, t, s
  <2>3. QED
    BY <1>1, <1>5, <2>1, <2>2 DEF SentAs, Asked
<1>6. QED
  BY <1>3, <1>4, <1>5 DEF Providers

\* What a provider reads of an entry, and what it reads of it as its prompt.
ReadOf(d, e) == Joint(ReadMessage, Joint(Sends(d), UnitOf(api)[e]))
PromptOf(d, e) == Joint(ReadPrompt, Joint(Prompts(d), UnitOf(api)[e]))
IsRead(d, e) == ReadOf(d, e) = HeardAfter(d)[e] /\ PromptOf(d, e) = HeardInPrompt(d)[e]

\* An entry that is one message is read as that message is.
LEMMA UnitRead ==
  ASSUME NEW d, NEW e, e \in Entries, NEW m, UnitOf(api)[e] = <<m>>
  PROVE  /\ m \in Messages
         /\ ReadOf(d, e) = IF Prompted(d, m) THEN <<>>
                           ELSE Joint(ReadBlock(SentAs(d, m).role), SentAs(d, m).blocks)
         /\ PromptOf(d, e) = IF Prompted(d, m) THEN Joint(ReadPrompt, m.content) ELSE <<>>
<1>1. UnitOf(api) \in [Entries -> Seq(Messages)]
  BY UnitTyped
<1>2. UnitOf(api)[e] \in Seq(Messages)
  BY <1>1
<1>3. m \in Messages
  <2>1. <<m>> \in Seq(Messages)
    BY <1>2
  <2>2. Len(<<m>>) = 1 /\ (<<m>>)[1] = m
    OBVIOUS
  <2>3. \A s \in Seq(Messages) : Len(s) = 1 => s[1] \in Messages
    OBVIOUS
  <2>4. QED
    BY <2>1, <2>2, <2>3
<1>4. QED
  BY <1>3, OneRead DEF ReadOf, PromptOf

\* A client's text is read as it was said.
LEMMA TextIsRead ==
  ASSUME NEW d, d \in Providers, api \in {"chat", "responses"},
         NEW e, e \in Entries, e.by \in {"system", "developer", "user"}, e.shape = "string",
         e.id = 0, NEW b, b \in TextBlocks, e.blocks = <<b>>
  PROVE  IsRead(d, e)
<1>1. b \in Blocks /\ b.token # 0 /\ b.kind = "text" /\ b.args = "none"
  BY DEF TextBlocks
<1>2. /\ HeardAfter(d)[e] = IF InPrompt(d, e) THEN <<>> ELSE HeardEntry(d, e)
      /\ HeardInPrompt(d)[e] = IF InPrompt(d, e) THEN HeardEntry(d, e) ELSE <<>>
  BY DEF HeardAfter, HeardInPrompt
<1>3. HeardEntry(d, e) = IF Lost(d, e, b) THEN <<>>
                         ELSE <<Utterance(Speaker(e), b.token, "none")>>
  BY HeardText
<1>4. Lost(d, e, b) <=> api = "chat" /\ e.by = "developer"
  BY <1>1 DEF Lost
<1>5. CASE api = "chat" /\ e.by = "developer"
  <2> DEFINE m == Message("user", "string", <<>>, <<>>, 0)
  <2>1. UnitOf(api)[e] = <<m>>
    BY <1>5 DEF UnitOf
  <2>2. SentAs(d, m).blocks = <<>>
    BY SentNothing
  <2>3. ~Prompted(d, m)
    BY DEF Prompted, Message
  <2> HIDE DEF m
  <2>4. ReadOf(d, e) = Joint(ReadBlock(SentAs(d, m).role), SentAs(d, m).blocks)
        /\ PromptOf(d, e) = <<>>
    BY <2>1, <2>3, UnitRead
  <2>5. ReadOf(d, e) = <<>>
    BY <2>2, <2>4, JointEmpty
  <2>6. QED
    BY <1>2, <1>3, <1>4, <1>5, <2>4, <2>5 DEF IsRead
<1>6. CASE ~(api = "chat" /\ e.by = "developer")
  <2> DEFINE r == Speaker(e)
             m == Message(r, "string", <<b>>, <<>>, 0)
             u == Utterance(r, b.token, "none")
  <2>1. UnitOf(api)[e] = <<m>>
    <3>1. Texts(e.blocks) = <<b>>
      BY TextsOf
    <3>2. CASE api = "chat"
      <4>1. UnitOf(api)[e] = <<Message(e.by, e.shape, e.blocks, <<>>, e.id)>>
        BY <1>6, <3>2 DEF UnitOf
      <4>2. r = e.by
        BY <1>6, <3>2 DEF Speaker
      <4>3. QED
        BY <4>1, <4>2
    <3>3. CASE api # "chat"
      <4>1. UnitOf(api)[e] = <<Message(Speaker(e), "string", Texts(e.blocks), <<>>, e.id)>>
        BY <3>3 DEF UnitOf
      <4>2. QED
        BY <3>1, <4>1
    <3>4. QED
      BY <3>2, <3>3
  <2>2. r \in {"system", "user"} /\ (InPrompt(d, e) <=> Prompted(d, m))
    BY DEF Speaker, InPrompt, Prompted, Message
  <2>3. ~Prompted(d, m) => SentAs(d, m).role = r /\ SentAs(d, m).blocks = <<b>>
    <3>1. m.role = r
      BY DEF Message
    <3>2. /\ d # "anthropic" => SentAs(d, m).role = r /\ SentAs(d, m).blocks = <<b>>
          /\ d = "anthropic" /\ r = "user" =>
                 SentAs(d, m).role = "user" /\ SentAs(d, m).blocks = <<b>>
      <4>1. r \in {"system", "user", "tool"} /\ IsText(m, r, "string", b, 0)
        BY <2>2 DEF IsText
      <4> HIDE DEF m, r
      <4>2. QED
        BY <4>1, SentText
    <3> HIDE DEF m
    <3>3. QED
      BY <2>2, <3>1, <3>2 DEF Prompted
  <2>4. m.content = <<b>>
    BY DEF Message
  <2>5. /\ ReadOf(d, e) = IF Prompted(d, m) THEN <<>>
                          ELSE Joint(ReadBlock(SentAs(d, m).role), SentAs(d, m).blocks)
        /\ PromptOf(d, e) = IF Prompted(d, m) THEN Joint(ReadPrompt, m.content) ELSE <<>>
    <3> HIDE DEF m
    <3>1. QED
      BY <2>1, UnitRead
  <2>6. Joint(ReadBlock(r), <<b>>) = <<u>>
    <3>1. r \in Roles
      BY <2>2 DEF Roles
    <3> HIDE DEF r
    <3>2. QED
      BY <1>1, <3>1, BlockRead
  <2>7. Prompted(d, m) => Joint(ReadPrompt, <<b>>) = <<u>>
    <3>1. SUFFICES ASSUME Prompted(d, m) PROVE Joint(ReadPrompt, <<b>>) = <<u>>
      OBVIOUS
    <3>2. r = "system"
      BY <3>1 DEF Prompted, Message
    <3>3. ReadPrompt \in [Blocks -> Seq(Utterances)]
      BY ReadTyped
    <3>4. Joint(ReadPrompt, <<b>>) = ReadPrompt[b]
      BY <1>1, <3>3, JointOne
    <3>5. ReadPrompt[b] = <<Utterance("system", b.token, b.args)>>
      BY <1>1 DEF ReadPrompt
    <3>6. QED
      BY <1>1, <3>2, <3>4, <3>5
  <2>8. HeardEntry(d, e) = <<u>>
    BY <1>3, <1>4, <1>6
  <2> HIDE DEF m, r, u
  <2>9. QED
    BY <1>2, <2>2, <2>3, <2>4, <2>5, <2>6, <2>7, <2>8 DEF IsRead
<1>7. QED
  BY <1>5, <1>6

\* A client's image and text are read as they were said.
LEMMA PairIsRead ==
  ASSUME NEW d, d \in Providers, api \in {"chat", "responses"},
         NEW e, e \in Entries, e.by = "user", e.shape = "parts", e.id = 0,
         NEW c, c \in ImageBlocks, NEW b, b \in TextBlocks, e.blocks = <<c, b>>
  PROVE  IsRead(d, e)
<1> DEFINE u == Utterance("user", c.token, "none")
           v == Utterance("user", b.token, "none")
<1>1. /\ b \in Blocks /\ b.token # 0 /\ b.kind = "text" /\ b.args = "none"
      /\ c \in Blocks /\ c.token # 0 /\ c.kind = "image" /\ c.args = "none"
  BY DEF TextBlocks, ImageBlocks
<1>2. /\ HeardAfter(d)[e] = HeardEntry(d, e)
      /\ HeardInPrompt(d)[e] = <<>>
  BY DEF HeardAfter, HeardInPrompt, InPrompt, Speaker
<1>3. HeardEntry(d, e) = IF api = "responses" THEN <<v>>
                         ELSE IF d = "ollama" THEN <<v, u>> ELSE <<u, v>>
  BY HeardPair
<1>4. "user" \in Roles
  BY DEF Roles
<1>5. CASE api = "chat"
  <2> DEFINE m == Message("user", "parts", <<c, b>>, <<>>, 0)
  <2>1. UnitOf(api)[e] = <<m>>
    BY <1>5 DEF UnitOf
  <2>2. IsPair(m, c, b) /\ ~Prompted(d, m)
    BY DEF IsPair, Prompted, Message
  <2> HIDE DEF m
  <2>3. /\ SentAs(d, m).role = "user"
        /\ SentAs(d, m).blocks =
               CASE d = "ollama" -> <<b, c>>
                 [] d = "anthropic" -> <<Text(c.token), b>>
                 [] OTHER -> <<c, b>>
    BY <2>2, SentPair
  <2>4. /\ ReadOf(d, e) = Joint(ReadBlock("user"), SentAs(d, m).blocks)
        /\ PromptOf(d, e) = <<>>
    BY <2>1, <2>2, <2>3, UnitRead
  <2>5. Joint(ReadBlock("user"), <<b, c>>) = <<v, u>> /\ Joint(ReadBlock("user"), <<c, b>>) = <<u, v>>
    <3>1. Joint(ReadBlock("user"), <<b, c>>) = <<v, u>>
      BY <1>1, <1>4, PairRead
    <3>2. Joint(ReadBlock("user"), <<c, b>>) = <<u, v>>
      BY <1>1, <1>4, PairRead
    <3>3. QED
      BY <3>1, <3>2
  <2>6. Joint(ReadBlock("user"), <<Text(c.token), b>>) = <<u, v>>
    <3> DEFINE t == Text(c.token)
    <3>1. t \in Blocks /\ t.token = c.token /\ t.kind = "text" /\ t.args = "none"
      BY <1>1 DEF Text, Block, Blocks
    <3> HIDE DEF t, u, v
    <3>2. Joint(ReadBlock("user"), <<t, b>>)
          = <<Utterance("user", t.token, t.args), Utterance("user", b.token, b.args)>>
      BY <1>1, <1>4, <3>1, PairRead
    <3>3. QED
      BY <1>1, <3>1, <3>2 DEF t, u, v
  <2> HIDE DEF u, v
  <2>7. ReadOf(d, e) = IF d = "ollama" THEN <<v, u>> ELSE <<u, v>>
    <3>1. CASE d = "ollama"
      BY <2>3, <2>4, <2>5, <3>1
    <3>2. CASE d = "anthropic"
      BY <2>3, <2>4, <2>6, <3>2
    <3>3. CASE d \in {"openai", "nova"}
      BY <2>3, <2>4, <2>5, <3>3
    <3>4. QED
      BY <3>1, <3>2, <3>3 DEF Providers
  <2>8. QED
    BY <1>2, <1>3, <1>5, <2>4, <2>7 DEF IsRead
<1>6. CASE api = "responses"
  <2> DEFINE m == Message("user", "string", <<b>>, <<>>, 0)
  <2>1. UnitOf(api)[e] = <<m>>
    <3>1. UnitOf(api)[e] = <<Message(Speaker(e), "string", Texts(e.blocks), <<>>, e.id)>>
      BY <1>6 DEF UnitOf
    <3>2. Texts(e.blocks) = <<b>> /\ Speaker(e) = "user"
      BY TextsOf DEF Speaker
    <3>3. QED
      BY <3>1, <3>2
  <2>2. ~Prompted(d, m)
    BY DEF Prompted, Message
  <2>t. IsText(m, "user", "string", b, 0)
    BY DEF IsText
  <2> HIDE DEF m
  <2>3. SentAs(d, m).role = "user" /\ SentAs(d, m).blocks = <<b>>
    BY <2>t, SentText
  <2>4. ReadOf(d, e) = Joint(ReadBlock("user"), <<b>>) /\ PromptOf(d, e) = <<>>
    BY <2>1, <2>2, <2>3, UnitRead
  <2>5. Joint(ReadBlock("user"), <<b>>) = <<v>>
    BY <1>1, <1>4, BlockRead
  <2> HIDE DEF u, v
  <2>6. QED
    BY <1>2, <1>3, <1>6, <2>4, <2>5 DEF IsRead
<1>7. QED
  BY <1>5, <1>6

\* A tool's result is read as it was given.
LEMMA ResultIsRead ==
  ASSUME NEW d, d \in Providers, api \in {"chat", "responses"},
         NEW e, e \in Entries, e.by = "tool", e.shape = "parts" => api = "chat",
         NEW b, b \in TextBlocks, e.blocks = <<b>>
  PROVE  IsRead(d, e)
<1> DEFINE m == Message("tool", e.shape, <<b>>, <<>>, e.id)
           u == Utterance("tool", b.token, "none")
<1>1. b \in Blocks /\ b.token # 0 /\ b.kind = "text" /\ b.args = "none" /\ b.token \in Nat
  BY DEF TextBlocks, Blocks
<1>2. /\ HeardAfter(d)[e] = HeardEntry(d, e)
      /\ HeardInPrompt(d)[e] = <<>>
  BY DEF HeardAfter, HeardInPrompt, InPrompt, Speaker
<1>3. HeardEntry(d, e) = IF d = "anthropic" /\ e.shape = "parts" THEN <<>> ELSE <<u>>
  <2>1. Lost(d, e, b) <=> d = "anthropic" /\ e.shape = "parts"
    BY <1>1 DEF Lost
  <2>2. Speaker(e) = "tool"
    BY DEF Speaker
  <2>3. HeardEntry(d, e) = IF Lost(d, e, b) THEN <<>>
                           ELSE <<Utterance(Speaker(e), b.token, "none")>>
    BY HeardText
  <2>4. QED
    BY <2>1, <2>2, <2>3
<1>4. UnitOf(api)[e] = <<m>>
  <2>1. CASE api = "chat"
    BY <2>1 DEF UnitOf
  <2>2. CASE api # "chat"
    <3>1. UnitOf(api)[e] = <<Message(Speaker(e), "string", Texts(e.blocks), <<>>, e.id)>>
      BY <2>2 DEF UnitOf
    <3>2. Texts(e.blocks) = <<b>> /\ Speaker(e) = "tool" /\ e.shape = "string"
      BY <2>2, TextsOf DEF Speaker, Entries
    <3>3. QED
      BY <3>1, <3>2
  <2>3. QED
    BY <2>1, <2>2
<1>5. ~Prompted(d, m)
  BY DEF Prompted, Message
<1>6. /\ d # "anthropic" => SentAs(d, m).role = "tool" /\ SentAs(d, m).blocks = <<b>>
      /\ d = "anthropic" =>
             /\ SentAs(d, m).role = "user"
             /\ SentAs(d, m).blocks =
                    <<ToolResult(e.id, IF e.shape = "string" THEN b.token ELSE 0)>>
  <2>1. IsText(m, "tool", e.shape, b, e.id)
    BY DEF IsText
  <2> HIDE DEF m
  <2>2. QED
    BY <2>1, SentText
<1> HIDE DEF m
<1>7. ReadOf(d, e) = Joint(ReadBlock(SentAs(d, m).role), SentAs(d, m).blocks) /\ PromptOf(d, e) = <<>>
  BY <1>4, <1>5, UnitRead
<1>8. "tool" \in Roles /\ "user" \in Roles
  BY DEF Roles
<1>9. Joint(ReadBlock("tool"), <<b>>) = <<u>>
  BY <1>1, <1>8, BlockRead
<1>10. d = "anthropic" => ReadOf(d, e) = IF e.shape = "parts" THEN <<>> ELSE <<u>>
  <2>1. SUFFICES ASSUME d = "anthropic"
                 PROVE  ReadOf(d, e) = IF e.shape = "parts" THEN <<>> ELSE <<u>>
    OBVIOUS
  <2> DEFINE n == IF e.shape = "string" THEN b.token ELSE 0
             t == ToolResult(e.id, n)
  <2>2. n \in Nat /\ e.id \in Nat /\ e.shape \in {"string", "parts"}
    BY <1>1 DEF Entries
  <2>3. t \in Blocks /\ t.token = n /\ t.kind = "result" /\ t.args = "none"
    <3> HIDE DEF n
    <3>1. QED
      BY <2>2 DEF ToolResult, Block, Blocks
  <2>4. ReadOf(d, e) = Joint(ReadBlock("user"), <<t>>)
    BY <1>6, <1>7, <2>1
  <2> HIDE DEF t
  <2>5. Joint(ReadBlock("user"), <<t>>)
        = IF t.token = 0 THEN <<>> ELSE <<Utterance("tool", t.token, t.args)>>
    BY <1>8, <2>3, BlockRead
  <2>6. QED
    BY <1>1, <2>2, <2>3, <2>4, <2>5
<1> HIDE DEF u
<1>11. QED
  BY <1>2, <1>3, <1>6, <1>7, <1>9, <1>10 DEF IsRead

\* What the client says is read as it was said.
LEMMA ClientIsRead ==
  ASSUME NEW d, d \in Providers, api \in {"chat", "responses"},
         NEW e, e \in Entries, SaidByClient(api, e)
  PROVE  IsRead(d, e)
<1>1. CASE /\ e.by \in {"system", "developer", "user"} /\ e.shape = "string" /\ e.id = 0
           /\ \E b \in TextBlocks : e.blocks = <<b>>
  BY <1>1, TextIsRead
<1>2. CASE /\ e.by = "user" /\ e.shape = "parts" /\ e.id = 0
           /\ \E b \in ImageBlocks, c \in TextBlocks : e.blocks = <<b, c>>
  BY <1>2, PairIsRead
<1>3. CASE /\ e.by = "tool" /\ (e.shape = "parts" => api = "chat")
           /\ \E b \in TextBlocks : e.blocks = <<b>>
  BY <1>3, ResultIsRead
<1>4. QED
  BY <1>1, <1>2, <1>3 DEF SaidByClient

\* A call as Anthropic and as Ollama are sent it.
AsAnthropic == [b \in Blocks |-> [b EXCEPT !.args = IF @ = "" THEN "{}" ELSE @]]
AsOllama == [b \in Blocks |-> [b EXCEPT !.id = 0, !.args = ParseToolArguments(@)]]

\* A call stays a block.
LEMMA CallSent ==
  /\ AsAnthropic \in [Blocks -> Blocks] /\ AsOllama \in [Blocks -> Blocks]
  /\ \A b \in Blocks :
         /\ AsAnthropic[b].kind = b.kind /\ AsAnthropic[b].token = b.token
         /\ AsAnthropic[b].args = IF b.args = "" THEN "{}" ELSE b.args
         /\ AsOllama[b].kind = b.kind /\ AsOllama[b].token = b.token
         /\ AsOllama[b].args = ParseToolArguments(b.args)
<1>1. ASSUME NEW b \in Blocks
      PROVE  /\ [b EXCEPT !.args = IF @ = "" THEN "{}" ELSE @] \in Blocks
             /\ [b EXCEPT !.id = 0, !.args = ParseToolArguments(@)] \in Blocks
  BY DEF Blocks, Arguments, ParseToolArguments
<1>2. ASSUME NEW b \in Blocks
      PROVE  /\ AsAnthropic[b].kind = b.kind /\ AsAnthropic[b].token = b.token
             /\ AsAnthropic[b].args = IF b.args = "" THEN "{}" ELSE b.args
             /\ AsOllama[b].kind = b.kind /\ AsOllama[b].token = b.token
             /\ AsOllama[b].args = ParseToolArguments(b.args)
  BY DEF AsAnthropic, AsOllama, Blocks
<1>3. AsAnthropic \in [Blocks -> Blocks] /\ AsOllama \in [Blocks -> Blocks]
  BY <1>1 DEF AsAnthropic, AsOllama
<1>4. QED
  BY <1>2, <1>3

\* What is heard of a text or of a call of the assistant.
LEMMA AssistantBlock ==
  ASSUME NEW d, d \in Providers, NEW e, e \in Entries, e.by = "assistant", NEW b
  PROVE  /\ b \in TextBlocks =>
                HeardBlock(d, e, {"text"})[b] = <<Utterance("assistant", b.token, "none")>>
         /\ b \in CallBlocks =>
                HeardBlock(d, e, {"call"})[b]
                = <<Utterance("assistant", b.token, ReadAs(d, b.args))>>
<1>1. Speaker(e) = "assistant"
  BY DEF Speaker
<1>2. ASSUME b \in TextBlocks
      PROVE  HeardBlock(d, e, {"text"})[b] = <<Utterance("assistant", b.token, "none")>>
  <2>1. b \in Blocks /\ b.kind = "text" /\ b.args = "none" /\ ~Lost(d, e, b)
    BY <1>2 DEF TextBlocks, Lost
  <2>2. HeardBlock(d, e, {"text"})[b] = <<Utterance(Speaker(e), b.token, b.args)>>
    BY <2>1, ClientBlock
  <2>3. QED
    BY <1>1, <2>1, <2>2
<1>3. ASSUME b \in CallBlocks
      PROVE  HeardBlock(d, e, {"call"})[b]
             = <<Utterance("assistant", b.token, ReadAs(d, b.args))>>
  <2>1. b \in Blocks /\ b.kind = "call" /\ ~Lost(d, e, b)
    BY <1>3 DEF CallBlocks, Lost
  <2>2. HeardBlock(d, e, {"call"})[b]
        = <<Utterance(Speaker(e), b.token, ReadAs(d, b.args))>>
    BY <2>1 DEF HeardBlock
  <2>3. QED
    BY <1>1, <2>2
<1>4. QED
  BY <1>2, <1>3

\* The calls of a message that a provider is sent.
CallsSent(d, cs) == IF d = "anthropic" THEN Mapped(AsAnthropic, cs)
                    ELSE IF d = "ollama" THEN Mapped(AsOllama, cs) ELSE cs

\* What a provider reads of texts and of calls.
LEMMA AssistantPartsRead ==
  ASSUME NEW d, d \in Providers, NEW e, e \in Entries, e.by = "assistant",
         NEW texts, texts \in Seq(Blocks), \A i \in DOMAIN texts : texts[i] \in TextBlocks,
         NEW calls, calls \in Seq(Blocks), \A i \in DOMAIN calls : calls[i] \in CallBlocks
  PROVE  /\ Joint(ReadBlock("assistant"), texts) = Joint(HeardBlock(d, e, {"text"}), texts)
         /\ Joint(ReadBlock("assistant"), CallsSent(d, calls))
            = Joint(HeardBlock(d, e, {"call"}), calls)
         /\ CallsSent(d, calls) \in Seq(Blocks)
<1> DEFINE p == ReadBlock("assistant")
           q == HeardBlock(d, e, {"text"})
           r == HeardBlock(d, e, {"call"})
<1>1. "assistant" \in Roles
  BY DEF Roles
<1>2. /\ p \in Parts(Blocks, Utterances) /\ q \in Parts(Blocks, Utterances)
      /\ r \in Parts(Blocks, Utterances)
  BY <1>1, ReadTyped, HeardBlockTyped DEF Parts
<1>3. ASSUME NEW b, b \in TextBlocks PROVE p[b] = q[b]
  <2>1. b \in Blocks /\ b.token # 0 /\ b.kind = "text" /\ b.args = "none"
    BY <1>3 DEF TextBlocks
  <2>2. p[b] = <<Utterance("assistant", b.token, "none")>>
    BY <1>1, <2>1, BlockRead
  <2>3. q[b] = <<Utterance("assistant", b.token, "none")>>
    BY <1>3, AssistantBlock
  <2>4. QED
    BY <2>2, <2>3
<1>4. Joint(p, texts) = Joint(q, texts)
  <2> HIDE DEF p, q
  <2>1. Agree(p, q, texts)
    BY <1>3 DEF Agree
  <2>2. QED
    BY <1>2, <2>1, JointSame
<1>5. ASSUME NEW b, b \in CallBlocks
      PROVE  /\ d = "anthropic" => p[AsAnthropic[b]] = r[b]
             /\ d = "ollama" => p[AsOllama[b]] = r[b]
             /\ d \in {"openai", "nova"} => p[b] = r[b]
  <2>1. b \in Blocks /\ b.token # 0 /\ b.kind = "call" /\ b.args # "none"
    BY <1>5 DEF CallBlocks, Arguments
  <2>2. r[b] = <<Utterance("assistant", b.token, ReadAs(d, b.args))>>
    BY <1>5, AssistantBlock
  <2>3. ASSUME NEW x, x \in Blocks, x.token = b.token, x.kind = "call", x.args = ReadAs(d, b.args)
        PROVE  p[x] = r[b]
    BY <1>1, <2>1, <2>2, <2>3, BlockRead
  <2>4. CASE d = "anthropic"
    <3>1. AsAnthropic[b] \in Blocks /\ AsAnthropic[b].token = b.token /\ AsAnthropic[b].kind = "call"
          /\ AsAnthropic[b].args = IF b.args = "" THEN "{}" ELSE b.args
      BY <2>1, CallSent
    <3>2. ReadAs(d, b.args) = IF b.args = "" THEN "{}" ELSE b.args
      BY <2>4 DEF ReadAs
    <3>3. QED
      BY <2>3, <2>4, <3>1, <3>2
  <2>5. CASE d = "ollama"
    <3>1. AsOllama[b] \in Blocks /\ AsOllama[b].token = b.token /\ AsOllama[b].kind = "call"
          /\ AsOllama[b].args = ParseToolArguments(b.args)
      BY <2>1, CallSent
    <3>2. ReadAs(d, b.args) = ParseToolArguments(b.args)
      BY <2>1, <2>5 DEF ReadAs
    <3>3. QED
      BY <2>3, <2>5, <3>1, <3>2
  <2>6. CASE d \in {"openai", "nova"}
    <3>1. ReadAs(d, b.args) = b.args
      BY <2>6 DEF ReadAs
    <3>2. QED
      BY <2>1, <2>3, <2>6, <3>1
  <2>7. QED
    BY <2>4, <2>5, <2>6 DEF Providers
<1>6. \A i \in DOMAIN calls : calls[i] \in CallBlocks
  OBVIOUS
<1> HIDE DEF p, q, r
<1>7. CASE d = "anthropic"
  <2>1. Follows(p, AsAnthropic, r, calls)
    BY <1>5, <1>6, <1>7 DEF Follows
  <2>2. Joint(p, Mapped(AsAnthropic, calls)) = Joint(r, calls)
    <3>1. AsAnthropic \in Maps(Blocks, Blocks)
      BY CallSent DEF Maps
    <3>2. QED
      BY <1>2, <2>1, <3>1, JointMapped
  <2>3. Mapped(AsAnthropic, calls) \in Seq(Blocks)
    <3>1. AsAnthropic \in [Blocks -> Blocks]
      BY CallSent
    <3>2. Mapped(AsAnthropic, calls) \in [1 .. Len(calls) -> Blocks] /\ Len(calls) \in Nat
      BY <3>1 DEF Mapped
    <3>3. QED
      BY <3>2, SequenceOf
  <2>4. QED
    BY <1>4, <1>7, <2>2, <2>3 DEF CallsSent, p, q, r
<1>8. CASE d = "ollama"
  <2>1. Follows(p, AsOllama, r, calls)
    BY <1>5, <1>6, <1>8 DEF Follows
  <2>2. Joint(p, Mapped(AsOllama, calls)) = Joint(r, calls)
    <3>1. AsOllama \in Maps(Blocks, Blocks)
      BY CallSent DEF Maps
    <3>2. QED
      BY <1>2, <2>1, <3>1, JointMapped
  <2>3. Mapped(AsOllama, calls) \in Seq(Blocks)
    <3>1. AsOllama \in [Blocks -> Blocks]
      BY CallSent
    <3>2. Mapped(AsOllama, calls) \in [1 .. Len(calls) -> Blocks] /\ Len(calls) \in Nat
      BY <3>1 DEF Mapped
    <3>3. QED
      BY <3>2, SequenceOf
  <2>4. QED
    BY <1>4, <1>8, <2>2, <2>3 DEF CallsSent, p, q, r
<1>9. CASE d \in {"openai", "nova"}
  <2>1. Agree(p, r, calls)
    BY <1>5, <1>6, <1>9 DEF Agree
  <2>2. Joint(p, calls) = Joint(r, calls)
    BY <1>2, <2>1, JointSame
  <2>3. QED
    BY <1>4, <1>9, <2>2 DEF CallsSent, p, q, r
<1>10. QED
  BY <1>7, <1>8, <1>9 DEF Providers

\* What an assistant said, sent.
LEMMA ReplySent ==
  ASSUME NEW d, d \in Providers, NEW s, s \in Seq(Blocks), NEW texts, texts = Texts(s),
         \A i \in DOMAIN texts : texts[i] \in TextBlocks,
         NEW calls, calls \in Seq(Blocks), CallsSent(d, calls) \in Seq(Blocks),
         NEW m, m = Reply(texts, calls)
  PROVE  SentAs(d, m).role = "assistant" /\ SentAs(d, m).blocks = texts \o CallsSent(d, calls)
<1>1. /\ m.role = "assistant" /\ m.shape = "string" /\ m.content = texts /\ m.calls = calls
      /\ m.id = 0
  BY DEF Reply, Message
<1>2. /\ texts \in Seq(Blocks) /\ Texts(texts) = texts /\ Images(texts) = <<>>
  BY OfKindIs, KeepTwice DEF Texts, Images
<1>3. \A i \in DOMAIN calls : calls[i] \in Blocks
  OBVIOUS
<1>4. CASE d \in {"openai", "nova"}
  <2>1. SentAs(d, m) = Asked("assistant", 0, texts \o calls)
    BY <1>1, <1>4 DEF SentAs, ToOpenAiMessage
  <2>2. CallsSent(d, calls) = calls
    BY <1>4 DEF CallsSent
  <2>3. QED
    BY <2>1, <2>2 DEF Asked
<1>5. CASE d = "ollama"
  <2> DEFINE h(c) == [c EXCEPT !.id = 0, !.args = ParseToolArguments(@)]
             sent == [i \in DOMAIN calls |-> h(calls[i])]
  <2>1. ToOllamaMessage(m) = Asked("assistant", 0, Texts(texts) \o Images(texts) \o sent)
    BY <1>1 DEF ToOllamaMessage
  <2>2. \A b \in Blocks : AsOllama[b] = h(b)
    BY DEF AsOllama
  <2> HIDE DEF h
  <2>3. sent = Mapped(AsOllama, calls)
    BY <1>3, <2>2 DEF Mapped
  <2>4. sent = CallsSent(d, calls)
    BY <1>5, <2>3 DEF CallsSent
  <2> HIDE DEF sent
  <2>5. Texts(texts) \o Images(texts) \o sent = texts \o sent
    <3>1. texts \o <<>> = texts
      BY <1>2
    <3>2. QED
      BY <1>2, <3>1
  <2> DEFINE all == texts \o sent
  <2>6. SentAs(d, m) = Asked("assistant", 0, all)
    BY <1>5, <2>1, <2>5 DEF SentAs
  <2> HIDE DEF all
  <2>7. SentAs(d, m).role = "assistant" /\ SentAs(d, m).blocks = all
    BY <2>6 DEF Asked
  <2>8. QED
    BY <2>4, <2>7 DEF all
<1>6. CASE d = "anthropic"
  <2>1. CASE calls # <<>>
    <3> DEFINE h(c) == [c EXCEPT !.args = IF @ = "" THEN "{}" ELSE @]
               sent == [i \in DOMAIN calls |-> h(calls[i])]
    <3>1. ToAnthropicContent(m) = texts \o sent
      BY <1>1, <2>1 DEF ToAnthropicContent
    <3>2. \A b \in Blocks : AsAnthropic[b] = h(b)
      BY DEF AsAnthropic
    <3> HIDE DEF h
    <3>3. sent = Mapped(AsAnthropic, calls)
      BY <1>3, <3>2 DEF Mapped
    <3>4. sent = CallsSent(d, calls)
      BY <1>6, <3>3 DEF CallsSent
    <3> HIDE DEF sent
    <3> DEFINE all == texts \o sent
    <3>5. SentAs(d, m) = Asked("assistant", 0, all)
      BY <1>1, <1>6, <3>1 DEF SentAs
    <3> HIDE DEF all
    <3>6. SentAs(d, m).role = "assistant" /\ SentAs(d, m).blocks = all
      BY <3>5 DEF Asked
    <3>7. QED
      BY <3>4, <3>6 DEF all
  <2>2. CASE calls = <<>>
    <3> DEFINE x == [i \in DOMAIN texts |-> Text(texts[i].token)]
    <3>1. ToAnthropicContent(m) = x
      BY <1>1, <2>2 DEF ToAnthropicContent
    <3>2. \A b \in TextBlocks : Text(b.token) = b /\ b \in Blocks
      BY DEF TextBlocks, Blocks, Text, Block
    <3>3. \A i \in 1 .. Len(texts) : x[i] = texts[i] /\ x[i] \in Blocks
      BY <1>2, <3>2
    <3>4. x \in [1 .. Len(texts) -> Blocks] /\ Len(texts) \in Nat
      <4>1. DOMAIN texts = 1 .. Len(texts) /\ Len(texts) \in Nat
        BY <1>2
      <4>2. QED
        BY <3>3, <4>1
    <3> HIDE DEF x
    <3>5. x \in Seq(Blocks) /\ Len(x) = Len(texts)
      BY <3>4, SequenceOf, LengthOf
    <3>6. x = texts
      BY <1>2, <3>3, <3>5, SameElements
    <3>7. CallsSent(d, calls) = <<>>
      <4>1. DOMAIN calls = {}
        BY <2>2
      <4>2. Mapped(AsAnthropic, <<>>) = <<>>
        BY DEF Mapped
      <4>3. QED
        BY <1>6, <2>2, <4>2 DEF CallsSent
    <3>8. texts \o <<>> = texts
      BY <1>2
    <3>9. SentAs(d, m) = Asked("assistant", 0, texts)
      BY <1>1, <1>6, <3>1, <3>6 DEF SentAs
    <3>10. SentAs(d, m).role = "assistant" /\ SentAs(d, m).blocks = texts
      BY <3>9 DEF Asked
    <3>11. QED
      BY <3>7, <3>8, <3>10
  <2>3. QED
    BY <2>1, <2>2
<1>7. QED
  BY <1>4, <1>5, <1>6 DEF Providers

\* What the assistant says is read as it was said, its calls after its texts.
LEMMA AssistantIsRead ==
  ASSUME NEW d, d \in Providers, NEW e, e \in Entries, SaidByAssistant(e)
  PROVE  IsRead(d, e)
<1> DEFINE texts == Texts(e.blocks)
           calls == Calls(e.blocks)
           m == Reply(texts, calls)
           p == ReadBlock("assistant")
           q == HeardBlock(d, e, {"text"})
           r == HeardBlock(d, e, {"call"})
<1>1. /\ texts \in Seq(Blocks) /\ calls \in Seq(Blocks)
      /\ \A i \in DOMAIN texts : texts[i] \in TextBlocks
      /\ \A i \in DOMAIN calls : calls[i] \in CallBlocks
  BY AssistantParts
<1>2. e.by = "assistant" /\ e.blocks \in Seq(Blocks)
  BY DEF SaidByAssistant, Entries
<1>3. /\ Joint(p, texts) = Joint(q, texts)
      /\ Joint(p, CallsSent(d, calls)) = Joint(r, calls)
      /\ CallsSent(d, calls) \in Seq(Blocks)
  <2> HIDE DEF texts, calls
  <2>1. QED
    BY <1>1, <1>2, AssistantPartsRead
<1>4. HeardEntry(d, e) = Joint(q, texts) \o Joint(r, calls)
  <2>1. Hears(d, e, {"text"}) = Joint(q, texts) /\ Hears(d, e, {"call"}) = Joint(r, calls)
    BY HearsOfKind DEF Texts, Calls
  <2>2. QED
    BY <1>2, <2>1 DEF HeardEntry
<1>5. /\ HeardAfter(d)[e] = HeardEntry(d, e) /\ HeardInPrompt(d)[e] = <<>>
  BY <1>2 DEF HeardAfter, HeardInPrompt, InPrompt, Speaker
<1>6. CASE api # "chat" /\ texts = <<>> /\ calls = <<>>
  <2>1. UnitOf(api)[e] = <<>>
    BY <1>2, <1>6 DEF UnitOf
  <2>2. ReadOf(d, e) = <<>> /\ PromptOf(d, e) = <<>>
    BY <2>1, JointEmpty DEF ReadOf, PromptOf
  <2>3. Joint(q, texts) = <<>> /\ Joint(r, calls) = <<>>
    <3> HIDE DEF q, r
    <3>1. QED
      BY <1>6, JointEmpty
  <2>4. <<>> \o <<>> = <<>>
    BY Couples
  <2>5. QED
    BY <1>4, <1>5, <2>2, <2>3, <2>4 DEF IsRead
<1>7. CASE ~(api # "chat" /\ texts = <<>> /\ calls = <<>>)
  <2>1. UnitOf(api)[e] = <<m>>
    BY <1>2, <1>7 DEF UnitOf
  <2>2. ~Prompted(d, m)
    BY DEF Prompted, Reply, Message
  <2>3. SentAs(d, m).role = "assistant" /\ SentAs(d, m).blocks = texts \o CallsSent(d, calls)
    <3>1. texts = Texts(e.blocks) /\ m = Reply(texts, calls)
      OBVIOUS
    <3> HIDE DEF m, texts, calls
    <3>2. QED
      BY <1>1, <1>2, <1>3, <3>1, ReplySent
  <2> DEFINE sent == CallsSent(d, calls)
  <2> HIDE DEF m
  <2>4. ReadOf(d, e) = Joint(p, texts \o sent) /\ PromptOf(d, e) = <<>>
    BY <2>1, <2>2, <2>3, UnitRead
  <2>5. Joint(p, texts \o sent) = Joint(p, texts) \o Joint(p, sent)
    <3>1. p \in [Blocks -> Seq(Utterances)] /\ texts \in Seq(Blocks) /\ sent \in Seq(Blocks)
      BY <1>1, <1>3, ReadTyped DEF Roles
    <3> HIDE DEF p, texts, sent
    <3>2. QED
      BY <3>1, JointConcat
  <2>6. QED
    BY <1>3, <1>4, <1>5, <2>4, <2>5 DEF IsRead
<1>8. QED
  BY <1>6, <1>7

\* Every entry is read as it was said.
LEMMA EntryIsRead ==
  ASSUME CInv, NEW d, d \in Providers, NEW i \in DOMAIN story
  PROVE  IsRead(d, story[i]) /\ story[i] \in Entries
<1>1. WellSaid(api, story[i]) /\ api \in {"chat", "responses"}
  BY DEF CInv
<1>2. QED
  BY <1>1, ClientIsRead, AssistantIsRead DEF WellSaid

\* A request is read as the conversation.
LEMMA RequestIsRead ==
  ASSUME CInv, state = "asked"
  PROVE  ReadBack(request) = Meant(dialect)
<1> DEFINE d == dialect
           unit == UnitOf(api)
           sends == Sends(d)
           prompts == Prompts(d)
           u == UnifiedOf(api, history)
           after == HeardAfter(d)
           before == HeardInPrompt(d)
<1>1. /\ d \in Providers /\ u = Joint(unit, story) /\ u \in Seq(Messages)
      /\ unit \in [Entries -> Seq(Messages)] /\ story \in Seq(Entries)
      /\ request = ToRequest(d, u)
  BY UnifiedIs, ConversationAssumption DEF CInv, Providers
<1>2. sends \in [Messages -> Seq(AskedMessages)] /\ prompts \in [Messages -> Seq(Blocks)]
  BY SendsTyped
<1>3. request.system \in Seq(Blocks) /\ request.messages \in Seq(AskedMessages)
  BY RequestTyped
<1>4. request.messages = Joint(sends, u)
  <2> HIDE DEF u
  <2>1. QED
    BY <1>1, MessagesAre DEF Providers
<1>5. request.system = Joint(prompts, u)
  <2>1. CASE d = "anthropic"
    <3> HIDE DEF u
    <3>1. QED
      BY <1>1, <2>1, PromptIs DEF ToRequest
  <2>2. CASE d # "anthropic"
    <3>1. request.system = <<>>
      BY <1>1, <2>2 DEF Providers, ToRequest, ToOpenAiRequest, ToOllamaRequest, ToNovaRequest
    <3>2. Idle(prompts, u)
      <4>1. \A i \in DOMAIN u : u[i] \in Messages
        BY <1>1
      <4> HIDE DEF u
      <4>2. QED
        BY <2>2, <4>1 DEF Idle, Prompts
    <3> HIDE DEF prompts, u
    <3>3. Joint(prompts, u) = <<>>
      BY <1>1, <1>2, <3>2, JointNothing
    <3>4. QED
      BY <3>1, <3>3
  <2>3. QED
    BY <2>1, <2>2
<1>6. ReadBack(request) = Joint(ReadPrompt, request.system) \o Joint(ReadMessage, request.messages)
  BY <1>3, RequestRead
<1>7. /\ ReadMessage \in [AskedMessages -> Seq(Utterances)]
      /\ ReadPrompt \in [Blocks -> Seq(Utterances)]
  BY ReadTyped
<1>8. /\ after \in [Entries -> Seq(Utterances)] /\ before \in [Entries -> Seq(Utterances)]
  BY HeardTyped
<1>9. \A i \in DOMAIN story : /\ story[i] \in Entries
                              /\ ReadOf(d, story[i]) = after[story[i]]
                              /\ PromptOf(d, story[i]) = before[story[i]]
  BY <1>1, EntryIsRead DEF IsRead
<1>10. Meant(d) = Joint(before, story) \o Joint(after, story)
  BY <1>1, MeantIs
<1> HIDE DEF unit, sends, prompts, u, after, before
<1> DEFINE sent == Twice(sends, unit)
           prompted == Twice(prompts, unit)
<1>11. Joint(sends, u) = Joint(sent, story) /\ sent \in [Entries -> Seq(AskedMessages)]
  <2>1. Joint(sends, Joint(unit, story)) = Joint(sent, story) /\ sent \in [Entries -> Seq(AskedMessages)]
    BY <1>1, <1>2, JointOfJoint
  <2>2. QED
    BY <1>1, <2>1
<1>12. Joint(prompts, u) = Joint(prompted, story) /\ prompted \in [Entries -> Seq(Blocks)]
  <2>1. Joint(prompts, Joint(unit, story)) = Joint(prompted, story) /\ prompted \in [Entries -> Seq(Blocks)]
    BY <1>1, <1>2, JointOfJoint
  <2>2. QED
    BY <1>1, <2>1
<1>13. \A e \in Entries : sent[e] = Joint(sends, unit[e]) /\ prompted[e] = Joint(prompts, unit[e])
  BY <1>1 DEF Twice
<1> HIDE DEF sent, prompted
<1> DEFINE x == Twice(ReadMessage, sent)
           y == Twice(ReadPrompt, prompted)
<1>14. Joint(ReadMessage, Joint(sent, story)) = Joint(x, story) /\ x \in [Entries -> Seq(Utterances)]
  BY <1>1, <1>7, <1>11, JointOfJoint
<1>15. Joint(ReadPrompt, Joint(prompted, story)) = Joint(y, story) /\ y \in [Entries -> Seq(Utterances)]
  BY <1>1, <1>7, <1>12, JointOfJoint
<1>16. \A e \in Entries : x[e] = ReadOf(d, e) /\ y[e] = PromptOf(d, e)
  <2>1. \A e \in Entries : x[e] = Joint(ReadMessage, sent[e]) /\ y[e] = Joint(ReadPrompt, prompted[e])
    BY <1>11, <1>12 DEF Twice
  <2>2. \A e : /\ ReadOf(d, e) = Joint(ReadMessage, Joint(sends, unit[e]))
               /\ PromptOf(d, e) = Joint(ReadPrompt, Joint(prompts, unit[e]))
    BY DEF ReadOf, PromptOf, sends, unit, prompts
  <2> HIDE DEF x, y
  <2>3. QED
    BY <1>13, <2>1, <2>2
<1> HIDE DEF x, y
<1>17. Agree(x, after, story) /\ Agree(y, before, story)
  BY <1>9, <1>16 DEF Agree
<1>18. Joint(x, story) = Joint(after, story)
  <2>1. x \in Parts(Entries, Utterances) /\ after \in Parts(Entries, Utterances)
    BY <1>8, <1>14 DEF Parts
  <2>2. QED
    BY <1>1, <1>17, <2>1, JointSame
<1>19. Joint(y, story) = Joint(before, story)
  <2>1. y \in Parts(Entries, Utterances) /\ before \in Parts(Entries, Utterances)
    BY <1>8, <1>15 DEF Parts
  <2>2. QED
    BY <1>1, <1>17, <2>1, JointSame
<1>20. QED
  BY <1>4, <1>5, <1>6, <1>10, <1>11, <1>12, <1>14, <1>15, <1>18, <1>19

\* Theorem: whatever providers a conversation has gone through, the upstream
\* reads all of it.
THEOREM ConversationReachesUpstream == Spec => []RequestIsTheConversation
<1>1. CInv => RequestIsTheConversation
  BY RequestIsRead DEF RequestIsTheConversation
<1>2. QED
  BY <1>1, CInvAlways, PTL

-----------------------------------------------------------------------------
(* How a reply says that it ended. *)

\* The finish of a response, by how the provider says that the answer ended.
LEMMA FinishIs ==
  ASSUME NEW d, d \in Providers, NEW blocks, NEW raw, raw \in Endings(d, blocks)
  PROVE  /\ FromResponse(d, blocks, raw).finish
            \in {"length", "tool_calls", "stop", "content_filter"}
         /\ raw \in {"length", "max_tokens"} =>
                \/ FromResponse(d, blocks, raw).finish = "length"
                \/ d = "ollama" /\ Calls(blocks) # <<>>
         /\ FromResponse(d, blocks, raw).finish = "length" => raw \in {"length", "max_tokens"}
         /\ FromResponse(d, blocks, raw).finish = "tool_calls" => Calls(blocks) # <<>>
         /\ FromResponse(d, blocks, raw).finish = "stop" =>
                Calls(blocks) = <<>> \/ (d = "openai" /\ raw = "stop") \/ d = "nova"
<1> DEFINE called == Calls(blocks) # <<>>
           cut == \E i \in DOMAIN blocks : blocks[i].args = "cut"
           f == FromResponse(d, blocks, raw).finish
<1>1. CASE d = "anthropic"
  <2>1. raw \in {"max_tokens"} \cup (IF called THEN {"tool_use"} ELSE {"end_turn", "refusal"})
    BY <1>1 DEF Endings
  <2>2. f = MapStopReason(raw)
    BY <1>1 DEF FromResponse, FromAnthropicResponse, Response
  <2> HIDE DEF called, f
  <2>3. \/ raw = "max_tokens" /\ f = "length"
        \/ raw = "tool_use" /\ called /\ f = "tool_calls"
        \/ raw \in {"end_turn", "refusal"} /\ ~called /\ f = "stop"
    BY <2>1, <2>2 DEF MapStopReason
  <2>4. QED
    BY <1>1, <2>3 DEF called, f
<1>2. CASE d = "openai"
  <2>1. raw \in {"length"} \cup (IF cut THEN {} ELSE IF called THEN {"tool_calls", "stop"}
                                 ELSE {"stop", "content_filter"})
    BY <1>2 DEF Endings
  <2>2. f = MapFinishReason(raw)
    BY <1>2 DEF FromResponse, FromOpenAiResponse, Response
  <2> HIDE DEF called, cut, f
  <2>3. /\ f = raw
        /\ \/ raw = "length"
           \/ raw = "tool_calls" /\ called
           \/ raw = "stop"
           \/ raw = "content_filter"
    BY <2>1, <2>2 DEF MapFinishReason
  <2>4. QED
    BY <1>2, <2>3 DEF called, f
<1>3. CASE d = "ollama"
  <2>1. raw \in {"length", "stop"}
    BY <1>3 DEF Endings
  <2>2. f = MapOllamaFinishReason(called, raw)
    BY <1>3 DEF FromResponse, FromOllamaResponse, Response
  <2> HIDE DEF called, f
  <2>3. f = IF called THEN "tool_calls" ELSE IF raw = "length" THEN "length" ELSE "stop"
    BY <2>2 DEF MapOllamaFinishReason
  <2>4. QED
    BY <1>3, <2>1, <2>3 DEF called, f
<1>4. CASE d = "nova"
  <2>1. raw \in {"length", "stop"}
    BY <1>4 DEF Endings
  <2>2. f = raw
    BY <1>4 DEF FromResponse, FromNovaResponse, Response
  <2>3. QED
    BY <1>4, <2>1, <2>2
<1>5. QED
  BY <1>1, <1>2, <1>3, <1>4 DEF Providers

\* An answer's reply says how it ended.
LEMMA AnswerSaysHowItEnded ==
  ASSUME CInv, state = "asked", NEW blocks \in Answers(dialect),
         NEW raw \in Endings(dialect, blocks), Answer(blocks, raw)
  PROVE  ReplySaysHowItEnded'
<1> DEFINE d == dialect
           e == AnswerEntry(blocks)
           response == FromResponse(d, blocks, raw)
           calls == Calls(e.blocks)
           f == response.finish
<1>1. d \in Providers /\ FirstToken \in Nat
  BY FirstTokenIs, ConversationAssumption DEF CInv, Providers
<1>2. e \in Entries /\ Tells(e, ItemsOf(api, response))
  BY AnswerTells
<1>3. /\ Calls(response.content) = calls
      /\ calls = <<>> <=> Calls(blocks) = <<>>
      /\ d = "nova" => calls = <<>>
  BY <1>1, AnswerContent DEF AnswerEntry
<1>4. story' = Append(story, e) /\ story \in Seq(Entries)
  BY <1>2 DEF Tells, CInv
<1> HIDE DEF e
<1>5. story'[Len(story')] = e
  BY <1>2, <1>4
<1>6. /\ f \in {"length", "tool_calls", "stop", "content_filter"}
      /\ raw \in {"length", "max_tokens"} => f = "length" \/ (d = "ollama" /\ calls # <<>>)
      /\ f = "length" => raw \in {"length", "max_tokens"}
      /\ f = "tool_calls" => calls # <<>>
      /\ f = "stop" => calls = <<>> \/ (d = "openai" /\ raw = "stop")
  BY <1>1, <1>3, FinishIs
<1> DEFINE reply == IF api = "chat" THEN f ELSE ResponsesStatus(f)
<1>7. told' = [ended |-> raw, reply |-> reply] /\ dialect' = d
  BY DEF Answer
<1>8. reply = IF api = "chat" THEN f ELSE IF f = "length" THEN "incomplete" ELSE "completed"
  <2> HIDE DEF f
  <2>1. ResponsesStatus(f) = IF f = "length" THEN "incomplete" ELSE "completed"
    BY <1>6 DEF ResponsesStatus
  <2>2. QED
    BY <2>1
<1> DEFINE given == UNION {{b.id : b \in ToSet(history'[i].calls)} : i \in DOMAIN history'}
<1>9. ASSUME reply = "tool_calls", NEW j \in DOMAIN calls
      PROVE  calls[j].id \in given
  <2>1. api = "chat"
    <3> HIDE DEF f, reply
    <3>1. QED
      BY <1>8, <1>9
  <2> DEFINE m == Message("assistant", "string", Texts(response.content),
                          Calls(response.content), 0)
             n == Len(history) + 1
  <2>2. history' = history \o <<m>>
    BY <1>2, <2>1 DEF Tells, ItemsOf, FormatChatCompletionResponse
  <2>3. m.calls = calls
    BY <1>3 DEF Message
  <2> HIDE DEF m
  <2>4. history \in Seq(Messages)
    BY DEF CInv
  <2>5. n \in DOMAIN history' /\ history'[n] = m
    BY <2>2, <2>4
  <2>6. calls[j] \in ToSet(history'[n].calls)
    BY <1>9, <2>3, <2>5 DEF ToSet
  <2> HIDE DEF calls, n
  <2>7. QED
    BY <2>5, <2>6
<1>10. story'[Len(story')].blocks = e.blocks /\ Calls(e.blocks) = calls
  BY <1>5
<1>11. told'.ended = raw /\ told'.reply = reply
  BY <1>7
<1> HIDE DEF calls, given, f, reply
<1>12. /\ raw \in {"length", "max_tokens"} =>
              \/ reply \in {"length", "incomplete"}
              \/ d = "ollama" /\ calls # <<>>
       /\ reply \in {"length", "incomplete"} => raw \in {"length", "max_tokens"}
       /\ reply = "tool_calls" => calls # <<>>
       /\ reply = "stop" => calls = <<>> \/ (d = "openai" /\ raw = "stop")
  BY <1>6, <1>8
<1>13. Calls(story'[Len(story')].blocks) = calls
  BY <1>10
<1>14. QED
  BY <1>7, <1>9, <1>11, <1>12, <1>13 DEF ReplySaysHowItEnded, given

\* Theorem: a client can trust the end of a reply.
THEOREM RepliesSayHowTheyEnded == Spec => []ReplySaysHowItEnded
<1> DEFINE Inv == CInv /\ ReplySaysHowItEnded
<1>1. Init => Inv
  <2>1. Init => CInv
    BY CInvInit
  <2>2. Init => ReplySaysHowItEnded
    BY DEF Init, ReplySaysHowItEnded
  <2>3. QED
    BY <2>1, <2>2
<1>2. Inv /\ [Next]_vars => Inv'
  <2> SUFFICES ASSUME CInv, ReplySaysHowItEnded, [Next]_vars
               PROVE  ReplySaysHowItEnded'
    BY CInvStep
  <2>1. CASE \E role \in {"system", "developer", "user"}, content \in Sayings :
                 ClientSays(role, content)
    <3>1. state' = "open"
      BY <2>1 DEF ClientSays, ByClient
    <3>2. QED
      BY <3>1 DEF ReplySaysHowItEnded
  <2>2. CASE \E c \in Pending, shape \in {"string", "parts"} : ClientRunsTool(c, shape)
    <3>1. state' = "open"
      BY <2>2 DEF ClientRunsTool, ByClient
    <3>2. QED
      BY <3>1 DEF ReplySaysHowItEnded
  <2>3. CASE \E d \in Dialects : Send(d)
    <3>1. state' \in {"asked", "failed"}
      BY <2>3 DEF Send
    <3>2. QED
      BY <3>1 DEF ReplySaysHowItEnded
  <2>4. CASE /\ state = "asked"
             /\ \E blocks \in Answers(dialect) :
                    \E raw \in Endings(dialect, blocks) : Answer(blocks, raw)
    BY <2>4, AnswerSaysHowItEnded
  <2>5. CASE UNCHANGED vars
    BY <2>5 DEF vars, ReplySaysHowItEnded
  <2>6. QED
    BY <2>1, <2>2, <2>3, <2>4, <2>5 DEF Next
<1>3. Inv => ReplySaysHowItEnded
  OBVIOUS
<1>4. QED
  <2> HIDE DEF Inv
  <2>1. QED
    BY <1>1, <1>2, <1>3, PTL DEF Spec

-----------------------------------------------------------------------------
(* The results that follow the calls. *)

\* Of a content without blocks of a kind nothing is kept.
LEMMA NoneOfKind ==
  ASSUME NEW kind, NEW s, s \in Seq(Blocks), \A i \in DOMAIN s : s[i].kind # kind
  PROVE  OfKind(kind, s) = <<>>
<1> DEFINE t == OfKind(kind, s)
<1>1. \A b : ~Elem(b, t)
  <2>1. \A b : Elem(b, t) => Elem(b, s) /\ b.kind = kind
    BY ElemOfKind
  <2> HIDE DEF t
  <2>2. QED
    BY <2>1 DEF Elem
<1>2. t \in Seq(Blocks)
  BY OfKindIs
<1> HIDE DEF t
<1>3. t = <<>>
  BY <1>1, <1>2, NoElem
<1>4. QED
  BY <1>3 DEF t

\* Of a content of one kind all of it is kept.
LEMMA AllOfKind ==
  ASSUME NEW kind, NEW s, s \in Seq(Blocks), \A i \in DOMAIN s : s[i].kind = kind
  PROVE  OfKind(kind, s) = s
<1> DEFINE Pure(t) == \A i \in DOMAIN t : t[i].kind = kind
           P == {t \in Seq(Blocks) : Pure(t) => OfKind(kind, t) = t}
           k == Keep(kind)
<1>1. k \in [Blocks -> Seq(Blocks)]
  BY DEF Keep
<1>2. <<>> \in P
  <2>1. <<>> \in Seq(Blocks)
    OBVIOUS
  <2>2. OfKind(kind, <<>>) = Joint(k, <<>>)
    BY <2>1, OfKindIs
  <2>3. QED
    BY <2>1, <2>2, JointEmpty
<1>3. ASSUME NEW t \in Seq(Blocks), NEW e \in Blocks, t \in P
      PROVE  Append(t, e) \in P
  <2> DEFINE v == Append(t, e)
  <2>1. /\ v \in Seq(Blocks) /\ Len(t) + 1 \in DOMAIN v /\ v[Len(t) + 1] = e
        /\ \A i \in DOMAIN t : i \in DOMAIN v /\ v[i] = t[i]
        /\ t \o <<e>> = v
    OBVIOUS
  <2>2. Joint(k, v) = Joint(k, t) \o k[e]
    <3> HIDE DEF P, k
    <3>1. QED
      BY <1>1, JointAppend
  <2> HIDE DEF v
  <2>3. ASSUME Pure(v)
        PROVE  OfKind(kind, v) = v
    <3>1. Pure(t) /\ e.kind = kind
      BY <2>1, <2>3
    <3>2. OfKind(kind, t) = t
      BY <1>3, <3>1
    <3>3. k[e] = <<e>>
      BY <3>1 DEF Keep
    <3> HIDE DEF k, P, Pure
    <3>4. OfKind(kind, v) = Joint(k, v) /\ OfKind(kind, t) = Joint(k, t)
      BY <2>1, OfKindIs DEF k
    <3>5. QED
      BY <2>1, <2>2, <3>2, <3>3, <3>4
  <2>4. v \in P
    BY <2>1, <2>3
  <2>5. QED
    BY <2>4 DEF v
<1>4. s \in P
  <2> HIDE DEF P
  <2>1. QED
    BY <1>2, <1>3, AllSequences
<1>5. QED
  BY <1>4

\* What a provider is sent of an entry.
SentOf(d, e) == Joint(Sends(d), UnitOf(api)[e])

\* An entry that is one message is sent as that message.
LEMMA UnitSent ==
  ASSUME NEW d, NEW e, e \in Entries, NEW m, UnitOf(api)[e] = <<m>>
  PROVE  /\ m \in Messages
         /\ SentOf(d, e) = IF Prompted(d, m) THEN <<>> ELSE <<SentAs(d, m)>>
<1>1. m \in Messages
  BY UnitRead
<1> DEFINE p == Sends(d)
<1>2. p \in [Messages -> Seq(AskedMessages)]
  BY SendsTyped
<1>3. p[m] = IF Prompted(d, m) THEN <<>> ELSE <<SentAs(d, m)>>
  BY <1>1 DEF Sends, Prompted, SentAs
<1> HIDE DEF p
<1>4. Joint(p, <<m>>) = p[m]
  BY <1>1, <1>2, JointOne
<1>5. QED
  BY <1>1, <1>3, <1>4 DEF SentOf, p

\* A message that is sent is one that upstreams are asked.
LEMMA OneSent ==
  ASSUME NEW d, NEW e, e \in Entries, NEW x, SentOf(d, e) = <<x>>
  PROVE  x \in AskedMessages
<1> DEFINE p == Sends(d)
           u == UnitOf(api)[e]
<1>1. p \in [Messages -> Seq(AskedMessages)] /\ u \in Seq(Messages)
  BY SendsTyped, UnitTyped
<1> HIDE DEF p, u
<1>2. Joint(p, u) \in Seq(AskedMessages)
  BY <1>1, JointTyped
<1>3. \A t \in Seq(AskedMessages) : Len(t) = 1 => t[1] \in AskedMessages
  OBVIOUS
<1>4. <<x>> \in Seq(AskedMessages) /\ Len(<<x>>) = 1 /\ (<<x>>)[1] = x
  BY <1>2 DEF SentOf, p, u
<1>5. QED
  BY <1>3, <1>4

\* A message without calls and results.
Plain(x) == ~HasResult(x) /\ Calls(x.blocks) = <<>>

\* Blocks that are neither calls nor results make a plain message.
LEMMA PlainIs ==
  ASSUME NEW x, x.role # "tool", NEW s, x.blocks = s, s \in Seq(Blocks),
         \A i \in DOMAIN s : s[i].kind \notin {"call", "result"}
  PROVE  Plain(x)
<1>1. Calls(s) = <<>>
  BY NoneOfKind DEF Calls
<1>2. QED
  BY <1>1 DEF Plain, HasResult

\* Of what the client says no message has calls or results.
LEMMA SayingSent ==
  ASSUME NEW d, d \in Providers, api \in {"chat", "responses"},
         NEW e, e \in Entries, SaidByClient(api, e), e.by # "tool"
  PROVE  SentOf(d, e) = <<>> \/ \E x \in AskedMessages : SentOf(d, e) = <<x>> /\ Plain(x)
<1>1. ASSUME NEW m, UnitOf(api)[e] = <<m>>, NEW s, s \in Seq(Blocks),
             \A i \in DOMAIN s : s[i].kind \notin {"call", "result"},
             ~Prompted(d, m) => SentAs(d, m).role # "tool" /\ SentAs(d, m).blocks = s
      PROVE  SentOf(d, e) = <<>> \/ \E x \in AskedMessages : SentOf(d, e) = <<x>> /\ Plain(x)
  <2>1. m \in Messages /\ SentOf(d, e) = IF Prompted(d, m) THEN <<>> ELSE <<SentAs(d, m)>>
    BY <1>1, UnitSent
  <2>2. CASE Prompted(d, m)
    BY <2>1, <2>2
  <2>3. CASE ~Prompted(d, m)
    <3> DEFINE x == SentAs(d, m)
    <3>1. x.role # "tool" /\ x.blocks = s
      BY <1>1, <2>3
    <3>2. SentOf(d, e) = <<x>>
      BY <2>1, <2>3
    <3> HIDE DEF x
    <3>4. x \in AskedMessages
      BY <3>2, OneSent
    <3>5. Plain(x)
      BY <1>1, <3>1, PlainIs
    <3>6. QED
      BY <3>2, <3>4, <3>5
  <2>4. QED
    BY <2>2, <2>3
<1> DEFINE none == <<>>
<1>2. none \in Seq(Blocks) /\ DOMAIN none = {}
  OBVIOUS
<1>3. CASE api = "chat" /\ e.by = "developer"
  <2> DEFINE m == Message("user", "string", <<>>, <<>>, 0)
  <2>1. UnitOf(api)[e] = <<m>>
    BY <1>3 DEF UnitOf
  <2>2. SentAs(d, m).role = "user" /\ SentAs(d, m).blocks = none
    BY SentNothing
  <2> HIDE DEF m, none
  <2>3. QED
    BY <1>1, <1>2, <2>1, <2>2
<1>4. CASE ~(api = "chat" /\ e.by = "developer") /\ e.shape = "string"
  <2>1. PICK b \in TextBlocks : e.blocks = <<b>>
    BY <1>4 DEF SaidByClient
  <2>2. e.by \in {"system", "developer", "user"} /\ e.id = 0
    BY DEF SaidByClient
  <2> DEFINE r == Speaker(e)
             m == Message(r, "string", <<b>>, <<>>, 0)
             s == <<b>>
  <2>3. UnitOf(api)[e] = <<m>>
    <3>1. Texts(e.blocks) = <<b>>
      BY <2>1, TextsOf
    <3>2. CASE api = "chat"
      <4>1. UnitOf(api)[e] = <<Message(e.by, e.shape, e.blocks, <<>>, e.id)>>
        BY <1>4, <2>2, <3>2 DEF UnitOf
      <4>2. r = e.by
        BY <1>4, <3>2 DEF Speaker
      <4>3. QED
        BY <1>4, <2>1, <2>2, <4>1, <4>2
    <3>3. CASE api # "chat"
      <4>1. UnitOf(api)[e] = <<Message(Speaker(e), "string", Texts(e.blocks), <<>>, e.id)>>
        BY <2>2, <3>3 DEF UnitOf
      <4>2. QED
        BY <2>2, <3>1, <4>1
    <3>4. QED
      BY <3>2, <3>3
  <2>4. r \in {"system", "user"} /\ IsText(m, r, "string", b, 0)
    BY <2>2 DEF Speaker, IsText
  <2>5. m.role = r
    BY DEF Message
  <2> HIDE DEF m, r
  <2>6. ~Prompted(d, m) => SentAs(d, m).role = r /\ SentAs(d, m).blocks = s
    <3>1. /\ d # "anthropic" => SentAs(d, m).role = r /\ SentAs(d, m).blocks = <<b>>
          /\ d = "anthropic" /\ r = "user" =>
                 SentAs(d, m).role = "user" /\ SentAs(d, m).blocks = <<b>>
      <4>1. r \in {"system", "user", "tool"}
        BY <2>4
      <4>2. QED
        BY <2>4, <4>1, SentText
    <3>2. QED
      BY <2>4, <2>5, <3>1 DEF Prompted
  <2>7. s \in Seq(Blocks) /\ \A i \in DOMAIN s : s[i].kind \notin {"call", "result"}
    BY DEF TextBlocks
  <2> HIDE DEF s
  <2>8. QED
    BY <1>1, <2>3, <2>4, <2>6, <2>7
<1>5. CASE e.shape = "parts"
  <2>1. PICK c \in ImageBlocks, b \in TextBlocks : e.blocks = <<c, b>>
    BY <1>5 DEF SaidByClient
  <2>2. e.by = "user" /\ e.id = 0
    BY <1>5 DEF SaidByClient
  <2>3. b \in Blocks /\ c \in Blocks /\ b.kind = "text" /\ c.kind = "image"
    BY DEF TextBlocks, ImageBlocks
  <2>4. CASE api = "chat"
    <3> DEFINE m == Message("user", "parts", <<c, b>>, <<>>, 0)
               t == Text(c.token)
               s1 == <<b, c>>
               s2 == <<t, b>>
               s3 == <<c, b>>
    <3>1. UnitOf(api)[e] = <<m>>
      BY <1>5, <2>1, <2>2, <2>4 DEF UnitOf
    <3>2. IsPair(m, c, b) /\ ~Prompted(d, m)
      BY DEF IsPair, Prompted, Message
    <3> HIDE DEF m
    <3>3. /\ SentAs(d, m).role = "user"
          /\ SentAs(d, m).blocks =
                 CASE d = "ollama" -> <<b, c>>
                   [] d = "anthropic" -> <<Text(c.token), b>>
                   [] OTHER -> <<c, b>>
      BY <3>2, SentPair
    <3>4. \/ SentAs(d, m).blocks = s1 \/ SentAs(d, m).blocks = s2
          \/ SentAs(d, m).blocks = s3
      BY <3>3
    <3>5. t \in Blocks /\ t.kind = "text"
      BY <2>3 DEF Text, Block, Blocks
    <3> HIDE DEF t
    <3>6. ASSUME NEW x, NEW y, x \in Blocks, y \in Blocks, x.kind \notin {"call", "result"},
                 y.kind \notin {"call", "result"}, NEW s, s = <<x, y>>
          PROVE  s \in Seq(Blocks) /\ \A i \in DOMAIN s : s[i].kind \notin {"call", "result"}
      BY <3>6
    <3>7. /\ s1 \in Seq(Blocks) /\ \A i \in DOMAIN s1 : s1[i].kind \notin {"call", "result"}
          /\ s2 \in Seq(Blocks) /\ \A i \in DOMAIN s2 : s2[i].kind \notin {"call", "result"}
          /\ s3 \in Seq(Blocks) /\ \A i \in DOMAIN s3 : s3[i].kind \notin {"call", "result"}
      BY <2>3, <3>5, <3>6
    <3> HIDE DEF s1, s2, s3
    <3>8. QED
      BY <1>1, <3>1, <3>3, <3>4, <3>7
  <2>5. CASE api = "responses"
    <3> DEFINE m == Message("user", "string", <<b>>, <<>>, 0)
               s == <<b>>
    <3>1. UnitOf(api)[e] = <<m>>
      <4>1. UnitOf(api)[e] = <<Message(Speaker(e), "string", Texts(e.blocks), <<>>, e.id)>>
        BY <2>2, <2>5 DEF UnitOf
      <4>2. Texts(e.blocks) = <<b>> /\ Speaker(e) = "user"
        BY <2>1, <2>2, TextsOf DEF Speaker
      <4>3. QED
        BY <2>2, <4>1, <4>2
    <3>2. IsText(m, "user", "string", b, 0)
      BY DEF IsText
    <3> HIDE DEF m
    <3>3. SentAs(d, m).role = "user" /\ SentAs(d, m).blocks = s
      BY <3>2, SentText
    <3>4. s \in Seq(Blocks) /\ \A i \in DOMAIN s : s[i].kind \notin {"call", "result"}
      BY <2>3
    <3> HIDE DEF s
    <3>5. QED
      BY <1>1, <3>1, <3>3, <3>4
  <2>6. QED
    BY <2>4, <2>5
<1>6. QED
  BY <1>3, <1>4, <1>5 DEF Entries

\* A tool's result is sent as one message, that names the call.
LEMMA ResultSent ==
  ASSUME NEW d, d \in Providers, api \in {"chat", "responses"},
         NEW e, e \in Entries, SaidByClient(api, e), e.by = "tool"
  PROVE  \E x \in AskedMessages :
             /\ SentOf(d, e) = <<x>>
             /\ HasResult(x) /\ Calls(x.blocks) = <<>>
             /\ d # "ollama" => ResultId(x) = e.id
<1>1. PICK b \in TextBlocks : e.blocks = <<b>>
  BY DEF SaidByClient
<1>2. e.shape = "parts" => api = "chat"
  BY DEF SaidByClient
<1> DEFINE m == Message("tool", e.shape, <<b>>, <<>>, e.id)
           x == SentAs(d, m)
<1>3. b \in Blocks /\ b.token \in Nat /\ b.kind = "text"
  BY DEF TextBlocks, Blocks
<1>4. UnitOf(api)[e] = <<m>>
  <2>1. CASE api = "chat"
    BY <1>1, <2>1 DEF UnitOf
  <2>2. CASE api # "chat"
    <3>1. UnitOf(api)[e] = <<Message(Speaker(e), "string", Texts(e.blocks), <<>>, e.id)>>
      BY <2>2 DEF UnitOf
    <3>2. Texts(e.blocks) = <<b>> /\ Speaker(e) = "tool" /\ e.shape = "string"
      BY <1>1, <1>2, <2>2, TextsOf DEF Speaker, Entries
    <3>3. QED
      BY <3>1, <3>2
  <2>3. QED
    BY <2>1, <2>2
<1>5. ~Prompted(d, m) /\ IsText(m, "tool", e.shape, b, e.id) /\ m.id = e.id
  BY DEF Prompted, IsText, Message
<1> HIDE DEF m
<1>6. SentOf(d, e) = <<x>>
  BY <1>4, <1>5, UnitSent
<1>7. x \in AskedMessages
  <2> HIDE DEF x
  <2>1. QED
    BY <1>6, OneSent
<1>8. /\ d # "anthropic" => x.role = "tool" /\ x.blocks = <<b>>
      /\ d = "anthropic" =>
             /\ x.role = "user"
             /\ x.blocks = <<ToolResult(e.id, IF e.shape = "string" THEN b.token ELSE 0)>>
  <2>1. IsText(m, "tool", e.shape, b, e.id)
    BY <1>5
  <2>2. QED
    BY <1>1, <2>1, SentText
<1>9. d \in {"openai", "nova"} => x.id = e.id
  BY <1>5 DEF SentAs, ToOpenAiMessage, Asked
<1> HIDE DEF x
<1>10. CASE d # "anthropic"
  <2>1. HasResult(x) /\ ResultId(x) = x.id
    BY <1>8, <1>10 DEF HasResult, ResultId
  <2> DEFINE s == <<b>>
  <2>2. s \in Seq(Blocks) /\ \A i \in DOMAIN s : s[i].kind # "call"
    BY <1>3
  <2> HIDE DEF s
  <2>3. Calls(s) = <<>>
    BY <2>2, NoneOfKind DEF Calls
  <2>4. QED
    BY <1>6, <1>7, <1>8, <1>9, <1>10, <2>1, <2>3 DEF s, Providers
<1>11. CASE d = "anthropic"
  <2> DEFINE n == IF e.shape = "string" THEN b.token ELSE 0
             t == ToolResult(e.id, n)
             s == <<t>>
  <2>1. n \in Nat /\ e.id \in Nat
    BY <1>3 DEF Entries
  <2>2. t \in Blocks /\ t.kind = "result" /\ t.id = e.id
    <3> HIDE DEF n
    <3>1. QED
      BY <2>1 DEF ToolResult, Block, Blocks
  <2>3. x.role = "user" /\ x.blocks = s
    BY <1>8, <1>11
  <2> HIDE DEF t
  <2>4. s \in Seq(Blocks) /\ DOMAIN s = {1} /\ s[1] = t
    BY <2>2
  <2>5. Calls(s) = <<>>
    <3>1. \A i \in DOMAIN s : s[i].kind # "call"
      BY <2>2, <2>4
    <3> HIDE DEF s
    <3>2. QED
      BY <2>4, <3>1, NoneOfKind DEF Calls
  <2> HIDE DEF s
  <2>6. HasResult(x) /\ ResultId(x) = e.id
    BY <2>2, <2>3, <2>4 DEF HasResult, ResultId
  <2>7. QED
    BY <1>6, <1>7, <2>3, <2>5, <2>6
<1>12. QED
  BY <1>10, <1>11

\* The ids of the calls.
IdsOf(cs) == {b.id : b \in ToSet(cs)}

\* Mapped, the calls of a message keep their number and, but for Ollama, ids.
LEMMA SentCalls ==
  ASSUME NEW d, d \in Providers,
         NEW calls, calls \in Seq(Blocks), \A i \in DOMAIN calls : calls[i] \in CallBlocks
  PROVE  /\ CallsSent(d, calls) \in Seq(Blocks)
         /\ Len(CallsSent(d, calls)) = Len(calls)
         /\ \A i \in DOMAIN CallsSent(d, calls) : CallsSent(d, calls)[i].kind = "call"
         /\ d # "ollama" => IdsOf(CallsSent(d, calls)) = IdsOf(calls)
<1>1. \A i \in DOMAIN calls : calls[i] \in Blocks /\ calls[i].kind = "call"
  BY DEF CallBlocks
<1>2. ASSUME NEW h, h \in [Blocks -> Blocks], \A b \in Blocks : h[b].kind = b.kind
      PROVE  /\ Mapped(h, calls) \in Seq(Blocks) /\ Len(Mapped(h, calls)) = Len(calls)
             /\ DOMAIN Mapped(h, calls) = DOMAIN calls
             /\ \A i \in DOMAIN calls : /\ Mapped(h, calls)[i] = h[calls[i]]
                                        /\ Mapped(h, calls)[i].kind = "call"
  <2> DEFINE s == Mapped(h, calls)
  <2>1. s \in [1 .. Len(calls) -> Blocks] /\ Len(calls) \in Nat
    BY <1>2 DEF Mapped
  <2>2. \A i \in DOMAIN calls : s[i] = h[calls[i]] /\ s[i].kind = "call"
    BY <1>1, <1>2 DEF Mapped
  <2>3. DOMAIN calls = 1 .. Len(calls)
    OBVIOUS
  <2> HIDE DEF s
  <2>4. s \in Seq(Blocks) /\ Len(s) = Len(calls) /\ DOMAIN s = 1 .. Len(calls)
    BY <2>1, SequenceOf, LengthOf
  <2>5. QED
    BY <2>2, <2>3, <2>4 DEF s
<1>3. CASE d = "anthropic"
  <2> DEFINE s == Mapped(AsAnthropic, calls)
  <2>1. /\ s \in Seq(Blocks) /\ Len(s) = Len(calls) /\ DOMAIN s = DOMAIN calls
        /\ \A i \in DOMAIN calls : s[i] = AsAnthropic[calls[i]] /\ s[i].kind = "call"
    BY <1>2, CallSent
  <2> HIDE DEF s
  <2>2. \A b \in Blocks : AsAnthropic[b].id = b.id
    BY DEF AsAnthropic, Blocks
  <2>3. \A i \in DOMAIN calls : s[i].id = calls[i].id
    BY <1>1, <2>1, <2>2
  <2>4. IdsOf(s) = IdsOf(calls)
    BY <2>1, <2>3 DEF IdsOf, ToSet
  <2>5. CallsSent(d, calls) = s
    BY <1>3 DEF CallsSent, s
  <2>6. QED
    BY <2>1, <2>4, <2>5
<1>4. CASE d = "ollama"
  <2> DEFINE s == Mapped(AsOllama, calls)
  <2>1. /\ s \in Seq(Blocks) /\ Len(s) = Len(calls) /\ DOMAIN s = DOMAIN calls
        /\ \A i \in DOMAIN calls : s[i].kind = "call"
    BY <1>2, CallSent
  <2> HIDE DEF s
  <2>2. CallsSent(d, calls) = s
    BY <1>4 DEF CallsSent, s
  <2>3. QED
    BY <1>4, <2>1, <2>2
<1>5. CASE d \in {"openai", "nova"}
  <2>1. CallsSent(d, calls) = calls
    BY <1>5 DEF CallsSent
  <2>2. QED
    BY <1>1, <2>1
<1>6. QED
  BY <1>3, <1>4, <1>5 DEF Providers

\* What the assistant says is sent as one message with its calls, if at all.
LEMMA AnswerSent ==
  ASSUME NEW d, d \in Providers, NEW e, e \in Entries, SaidByAssistant(e)
  PROVE  \/ SentOf(d, e) = <<>> /\ Calls(e.blocks) = <<>>
         \/ \E x \in AskedMessages :
                /\ SentOf(d, e) = <<x>>
                /\ ~HasResult(x)
                /\ Len(Calls(x.blocks)) = Len(Calls(e.blocks))
                /\ d # "ollama" => IdsOf(Calls(x.blocks)) = IdsOf(Calls(e.blocks))
<1> DEFINE texts == Texts(e.blocks)
           calls == Calls(e.blocks)
           m == Reply(texts, calls)
           sent == CallsSent(d, calls)
<1>1. /\ texts \in Seq(Blocks) /\ calls \in Seq(Blocks)
      /\ \A i \in DOMAIN texts : texts[i] \in TextBlocks
      /\ \A i \in DOMAIN calls : calls[i] \in CallBlocks
  BY AssistantParts
<1>2. e.by = "assistant" /\ e.blocks \in Seq(Blocks) /\ texts = Texts(e.blocks)
  BY DEF SaidByAssistant, Entries
<1>3. CASE api # "chat" /\ texts = <<>> /\ calls = <<>>
  <2>1. UnitOf(api)[e] = <<>>
    BY <1>2, <1>3 DEF UnitOf
  <2> DEFINE p == Sends(d)
  <2>2. SentOf(d, e) = Joint(p, <<>>)
    BY <2>1 DEF SentOf
  <2> HIDE DEF p
  <2>3. Joint(p, <<>>) = <<>>
    BY JointEmpty
  <2>4. QED
    BY <1>3, <2>2, <2>3
<1>4. CASE ~(api # "chat" /\ texts = <<>> /\ calls = <<>>)
  <2>1. UnitOf(api)[e] = <<m>>
    BY <1>2, <1>4 DEF UnitOf
  <2>2. ~Prompted(d, m)
    BY DEF Prompted, Reply, Message
  <2>3. m = Reply(texts, calls)
    OBVIOUS
  <2> HIDE DEF m, texts, calls
  <2>4. /\ sent \in Seq(Blocks) /\ Len(sent) = Len(calls)
        /\ \A i \in DOMAIN sent : sent[i].kind = "call"
        /\ d # "ollama" => IdsOf(sent) = IdsOf(calls)
    BY <1>1, SentCalls
  <2>5. SentAs(d, m).role = "assistant" /\ SentAs(d, m).blocks = texts \o sent
    BY <1>1, <1>2, <2>3, <2>4, ReplySent
  <2> HIDE DEF sent
  <2> DEFINE x == SentAs(d, m)
             both == texts \o sent
  <2>6. SentOf(d, e) = <<x>>
    BY <2>1, <2>2, UnitSent
  <2>7. x.role = "assistant" /\ x.blocks = both
    BY <2>5
  <2> HIDE DEF x
  <2>8. x \in AskedMessages
    BY <2>6, OneSent
  <2>9. Calls(both) = sent
    <3> DEFINE k == Keep("call")
    <3>1. k \in [Blocks -> Seq(Blocks)]
      BY DEF Keep
    <3>2. both \in Seq(Blocks)
      BY <1>1, <2>4
    <3>3. /\ Calls(both) = Joint(k, both) /\ Calls(texts) = Joint(k, texts)
          /\ Calls(sent) = Joint(k, sent)
      <4> HIDE DEF both
      <4>1. QED
        BY <1>1, <2>4, <3>2, OfKindIs DEF Calls
    <3> HIDE DEF k
    <3>4. Joint(k, texts \o sent) = Joint(k, texts) \o Joint(k, sent)
      BY <1>1, <2>4, <3>1, JointConcat
    <3>5. Calls(texts) = <<>>
      <4>1. \A i \in DOMAIN texts : texts[i].kind # "call"
        BY <1>1 DEF TextBlocks
      <4>2. QED
        BY <1>1, <4>1, NoneOfKind DEF Calls
    <3>6. Calls(sent) = sent
      BY <2>4, AllOfKind DEF Calls
    <3>7. <<>> \o sent = sent
      BY <2>4
    <3>8. QED
      BY <3>3, <3>4, <3>5, <3>6, <3>7
  <2>10. ~HasResult(x)
    <3>1. \A i \in DOMAIN both : both[i].kind # "result"
      <4>1. \A i \in DOMAIN texts : texts[i].kind # "result"
        BY <1>1 DEF TextBlocks
      <4>2. ASSUME NEW i \in DOMAIN both
            PROVE  both[i].kind # "result"
        <5>1. \/ i \in DOMAIN texts /\ both[i] = texts[i]
              \/ i - Len(texts) \in DOMAIN sent /\ both[i] = sent[i - Len(texts)]
          BY <1>1, <2>4
        <5>2. QED
          BY <2>4, <4>1, <5>1
      <4>3. QED
        BY <4>2
    <3> HIDE DEF both
    <3>2. QED
      BY <2>7, <3>1 DEF HasResult
  <2>11. QED
    BY <2>4, <2>6, <2>7, <2>8, <2>9, <2>10 DEF calls
<1>5. QED
  BY <1>3, <1>4

\* The last message in which a result of the i-th one's calls is due, and the
\* calls whose results messages give.
Ends(L, i) == i + Len(Calls(L[i].blocks))
Given(L, a, b) == {ResultId(L[j]) : j \in a .. b}

\* The messages of a request for which the results P are still to come: the
\* place of every result that is due is one of a result or after the last
\* message, and every result is due there.
Chained(d, L, P) ==
    /\ IsFiniteSet(P)
    /\ \A i \in DOMAIN L :
           /\ \A j \in (i + 1) .. Ends(L, i) : j <= Len(L) => HasResult(L[j])
           /\ HasResult(L[i]) => \E k \in 1 .. (i - 1) : i \in (k + 1) .. Ends(L, k)
           /\ Ends(L, i) <= Len(L) /\ d # "ollama" =>
                  Given(L, i + 1, Ends(L, i)) = IdsOf(Calls(L[i].blocks))
           /\ Ends(L, i) > Len(L) =>
                  /\ Ends(L, i) = Len(L) + Cardinality(P)
                  /\ d # "ollama" =>
                         P \cup Given(L, i + 1, Len(L)) = IdsOf(Calls(L[i].blocks))
    /\ P # {} => \E i \in DOMAIN L : Ends(L, i) > Len(L)

\* M is L with one more message.
Longer(L, x, M) ==
    /\ Len(L) \in Nat /\ Len(M) = Len(L) + 1
    /\ DOMAIN L = 1 .. Len(L) /\ DOMAIN M = 1 .. (Len(L) + 1)
    /\ M[Len(L) + 1] = x
    /\ \A i \in 1 .. Len(L) : M[i] = L[i] /\ Ends(M, i) = Ends(L, i) /\ Ends(L, i) \in Nat
                              /\ i <= Ends(L, i)
    /\ Ends(M, Len(L) + 1) = Len(L) + 1 + Len(Calls(x.blocks))
    /\ Len(Calls(x.blocks)) \in Nat

\* What is appended changes nothing before it.
LEMMA LongerIs ==
  ASSUME NEW L, L \in Seq(AskedMessages), NEW x, x \in AskedMessages, NEW M, M = Append(L, x)
  PROVE  Longer(L, x, M)
<1>1. /\ Len(L) \in Nat /\ Len(M) = Len(L) + 1 /\ M \in Seq(AskedMessages)
      /\ DOMAIN L = 1 .. Len(L) /\ DOMAIN M = 1 .. (Len(L) + 1)
      /\ M[Len(L) + 1] = x
      /\ \A i \in 1 .. Len(L) : M[i] = L[i] /\ L[i] \in AskedMessages
  OBVIOUS
<1>2. ASSUME NEW m, m \in AskedMessages
      PROVE  Len(Calls(m.blocks)) \in Nat
  <2>1. m.blocks \in Seq(Blocks)
    BY <1>2 DEF AskedMessages
  <2>2. Calls(m.blocks) \in Seq(Blocks)
    BY <2>1, OfKindIs DEF Calls
  <2>3. QED
    BY <2>2
<1>3. \A i \in 1 .. Len(L) : M[i] = L[i] /\ Ends(M, i) = Ends(L, i) /\ Ends(L, i) \in Nat
                             /\ i <= Ends(L, i)
  <2>1. ASSUME NEW i \in 1 .. Len(L)
        PROVE  M[i] = L[i] /\ Ends(M, i) = Ends(L, i) /\ Ends(L, i) \in Nat /\ i <= Ends(L, i)
    <3>1. M[i] = L[i] /\ Len(Calls(L[i].blocks)) \in Nat /\ i \in Nat
      BY <1>1, <1>2
    <3>2. QED
      BY <3>1 DEF Ends
  <2>2. QED
    BY <2>1
<1>4. Ends(M, Len(L) + 1) = Len(L) + 1 + Len(Calls(x.blocks))
  BY <1>1 DEF Ends
<1>5. QED
  BY <1>1, <1>2, <1>3, <1>4 DEF Longer

\* Messages that have not changed give the results they gave.
LEMMA GivenStays ==
  ASSUME NEW L, NEW M, NEW a, NEW b, \A j \in a .. b : M[j] = L[j]
  PROVE  Given(M, a, b) = Given(L, a, b)
  BY DEF Given

\* One result more is given.
LEMMA GivenMore ==
  ASSUME NEW M, NEW a, a \in Nat, NEW b, b \in Nat, a <= b + 1
  PROVE  Given(M, a, b + 1) = Given(M, a, b) \cup {ResultId(M[b + 1])}
<1>1. a .. (b + 1) = (a .. b) \cup {b + 1}
  OBVIOUS
<1>2. QED
  BY <1>1 DEF Given

\* A message without a result, after which the results Q are to come.
LEMMA ChainAnswered ==
  ASSUME NEW d, NEW L, L \in Seq(AskedMessages), Chained(d, L, {}),
         NEW x, x \in AskedMessages, ~HasResult(x),
         NEW Q, IsFiniteSet(Q), Cardinality(Q) = Len(Calls(x.blocks)),
         d # "ollama" => Q = IdsOf(Calls(x.blocks))
  PROVE  Chained(d, Append(L, x), Q)
<1> DEFINE M == Append(L, x)
           n == Len(L)
<1>1. /\ n \in Nat /\ Len(M) = n + 1 /\ DOMAIN L = 1 .. n /\ DOMAIN M = 1 .. (n + 1)
      /\ M[n + 1] = x
      /\ \A i \in 1 .. n : M[i] = L[i] /\ Ends(M, i) = Ends(L, i) /\ Ends(L, i) \in Nat
                           /\ i <= Ends(L, i)
      /\ Ends(M, n + 1) = n + 1 + Len(Calls(x.blocks))
      /\ Len(Calls(x.blocks)) \in Nat
  <2> HIDE DEF M
  <2>1. M = Append(L, x)
    BY DEF M
  <2>2. Longer(L, x, M)
    BY <2>1, LongerIs
  <2>3. QED
    BY <2>2 DEF Longer
<1> HIDE DEF M, n
<1>2. Cardinality({}) = 0
  BY FS_EmptySet
<1>3. ASSUME NEW i \in 1 .. n
      PROVE  Ends(L, i) <= n
  BY <1>1, <1>2 DEF Chained, n
<1>4. ASSUME NEW i \in 1 .. n
      PROVE  /\ \A j \in (i + 1) .. Ends(M, i) : j <= Len(M) => HasResult(M[j])
             /\ HasResult(M[i]) => \E k \in 1 .. (i - 1) : i \in (k + 1) .. Ends(M, k)
             /\ d # "ollama" => Given(M, i + 1, Ends(M, i)) = IdsOf(Calls(M[i].blocks))
             /\ Ends(M, i) <= Len(M)
  <2>1. M[i] = L[i] /\ Ends(M, i) = Ends(L, i) /\ Ends(L, i) <= n /\ Ends(L, i) \in Nat
    BY <1>1, <1>3
  <2>2. \A j \in (i + 1) .. Ends(M, i) : j \in 1 .. n
    BY <1>1, <2>1
  <2>3. \A j \in (i + 1) .. Ends(L, i) : j <= n => HasResult(L[j])
    BY <1>1 DEF Chained, n
  <2>4. \A j \in (i + 1) .. Ends(M, i) : HasResult(M[j])
    BY <1>1, <2>1, <2>2, <2>3
  <2>5. ASSUME HasResult(M[i])
        PROVE  \E k \in 1 .. (i - 1) : i \in (k + 1) .. Ends(M, k)
    <3>1. PICK k \in 1 .. (i - 1) : i \in (k + 1) .. Ends(L, k)
      BY <1>1, <2>1, <2>5 DEF Chained
    <3>2. k \in 1 .. n
      BY <1>1
    <3>3. QED
      BY <1>1, <3>1, <3>2
  <2>6. d # "ollama" => Given(L, i + 1, Ends(L, i)) = IdsOf(Calls(L[i].blocks))
    BY <1>1, <2>1 DEF Chained, n
  <2>7. Given(M, i + 1, Ends(L, i)) = Given(L, i + 1, Ends(L, i))
    <3>1. \A j \in (i + 1) .. Ends(L, i) : M[j] = L[j]
      BY <1>1, <2>1
    <3>2. QED
      BY <3>1, GivenStays
  <2>8. QED
    BY <1>1, <2>1, <2>4, <2>5, <2>6, <2>7
<1>5. Given(M, n + 2, n + 1) = {}
  <2>1. (n + 2) .. (n + 1) = {}
    BY <1>1
  <2>2. QED
    BY <2>1 DEF Given
<1>6. Len(Calls(x.blocks)) = 0 /\ d # "ollama" => IdsOf(Calls(x.blocks)) = {}
  BY FS_EmptySet
<1>7. ASSUME NEW i \in DOMAIN M
      PROVE  /\ \A j \in (i + 1) .. Ends(M, i) : j <= Len(M) => HasResult(M[j])
             /\ HasResult(M[i]) => \E k \in 1 .. (i - 1) : i \in (k + 1) .. Ends(M, k)
             /\ Ends(M, i) <= Len(M) /\ d # "ollama" =>
                    Given(M, i + 1, Ends(M, i)) = IdsOf(Calls(M[i].blocks))
             /\ Ends(M, i) > Len(M) =>
                    /\ Ends(M, i) = Len(M) + Cardinality(Q)
                    /\ d # "ollama" =>
                           Q \cup Given(M, i + 1, Len(M)) = IdsOf(Calls(M[i].blocks))
  <2>1. CASE i = n + 1
    <3>1. \A j \in (i + 1) .. Ends(M, i) : ~(j <= Len(M))
      BY <1>1, <2>1
    <3>2. ~HasResult(M[i])
      BY <1>1, <2>1
    <3>3. Ends(M, i) = Len(M) + Cardinality(Q)
      BY <1>1, <2>1
    <3>4. i + 1 = n + 2
      BY <1>1, <2>1
    <3>5. ASSUME Ends(M, i) <= Len(M), d # "ollama"
          PROVE  Given(M, i + 1, Ends(M, i)) = IdsOf(Calls(M[i].blocks))
      <4>1. Len(Calls(x.blocks)) = 0 /\ Ends(M, i) = n + 1
        BY <1>1, <2>1, <3>5
      <4>2. QED
        BY <1>1, <1>5, <1>6, <2>1, <3>4, <3>5, <4>1
    <3>6. d # "ollama" => Q \cup Given(M, i + 1, Len(M)) = IdsOf(Calls(M[i].blocks))
      BY <1>1, <1>5, <2>1, <3>4
    <3>7. QED
      BY <3>1, <3>2, <3>3, <3>5, <3>6
  <2>2. CASE i \in 1 .. n
    <3>1. Ends(M, i) <= Len(M) /\ Ends(M, i) \in Nat /\ Len(M) \in Nat
      BY <1>1, <1>4, <2>2
    <3>2. ~(Ends(M, i) > Len(M))
      BY <3>1
    <3>3. QED
      BY <1>4, <2>2, <3>2
  <2>3. QED
    BY <1>1, <2>1, <2>2
<1>8. Q # {} => \E i \in DOMAIN M : Ends(M, i) > Len(M)
  <2>1. SUFFICES ASSUME Q # {} PROVE \E i \in DOMAIN M : Ends(M, i) > Len(M)
    OBVIOUS
  <2>2. Cardinality(Q) # 0
    BY <2>1, FS_EmptySet
  <2>3. n + 1 \in DOMAIN M /\ Ends(M, n + 1) > Len(M)
    BY <1>1, <2>2
  <2>4. QED
    BY <2>3
<1>9. Chained(d, M, Q)
  BY <1>7, <1>8 DEF Chained
<1>10. QED
  BY <1>9 DEF M

\* A result, after which the others are to come.
LEMMA ChainResult ==
  ASSUME NEW d, NEW L, L \in Seq(AskedMessages), NEW P, Chained(d, L, P), NEW c \in P,
         NEW x, x \in AskedMessages, HasResult(x), Calls(x.blocks) = <<>>,
         d # "ollama" => ResultId(x) = c
  PROVE  Chained(d, Append(L, x), P \ {c})
<1> DEFINE M == Append(L, x)
           n == Len(L)
           Q == P \ {c}
           p == Cardinality(P)
<1>1. /\ n \in Nat /\ Len(M) = n + 1 /\ DOMAIN L = 1 .. n /\ DOMAIN M = 1 .. (n + 1)
      /\ M[n + 1] = x
      /\ \A i \in 1 .. n : M[i] = L[i] /\ Ends(M, i) = Ends(L, i) /\ Ends(L, i) \in Nat
                           /\ i <= Ends(L, i)
      /\ Ends(M, n + 1) = n + 1 + Len(Calls(x.blocks))
  <2> HIDE DEF M
  <2>1. M = Append(L, x)
    BY DEF M
  <2>2. Longer(L, x, M)
    BY <2>1, LongerIs
  <2>3. QED
    BY <2>2 DEF Longer
<1>2. IsFiniteSet(P) /\ IsFiniteSet(Q) /\ p \in Nat /\ Cardinality(Q) = p - 1 /\ p # 0
  <2>1. IsFiniteSet(P)
    BY DEF Chained
  <2>2. QED
    BY <2>1, FS_RemoveElement, FS_CardinalityType, FS_EmptySet
<1>3. Ends(M, n + 1) = n + 1 /\ IdsOf(Calls(x.blocks)) = {}
  <2>1. Len(<<>>) = 0 /\ ToSet(<<>>) = {}
    BY DEF ToSet
  <2>2. QED
    BY <1>1, <2>1 DEF IdsOf
<1>4. P = Q \cup {c} /\ (p = 1 => Q = {})
  <2>1. p = 1 => Q = {}
    <3>1. IsFiniteSet(Q) /\ (p = 1 => Cardinality(Q) = 0)
      BY <1>2
    <3> HIDE DEF Q
    <3>2. QED
      BY <3>1, FS_EmptySet
  <2>2. QED
    BY <2>1
<1> HIDE DEF M, n, Q, p
<1>5. PICK o \in 1 .. n : Ends(L, o) > n
  BY <1>1 DEF Chained, n
<1>6. n + 1 \in (o + 1) .. Ends(M, o) /\ o \in 1 .. (n + 1 - 1)
  BY <1>1, <1>5
<1>7. ASSUME NEW i \in 1 .. n
      PROVE  /\ \A j \in (i + 1) .. Ends(M, i) : j <= Len(M) => HasResult(M[j])
             /\ HasResult(M[i]) => \E k \in 1 .. (i - 1) : i \in (k + 1) .. Ends(M, k)
             /\ Ends(M, i) <= Len(M) /\ d # "ollama" =>
                    Given(M, i + 1, Ends(M, i)) = IdsOf(Calls(M[i].blocks))
             /\ Ends(M, i) > Len(M) =>
                    /\ Ends(M, i) = Len(M) + Cardinality(Q)
                    /\ d # "ollama" =>
                           Q \cup Given(M, i + 1, Len(M)) = IdsOf(Calls(M[i].blocks))
  <2>1. M[i] = L[i] /\ Ends(M, i) = Ends(L, i) /\ Ends(L, i) \in Nat /\ i \in Nat
        /\ Len(M) = n + 1 /\ n \in Nat
    BY <1>1
  <2>2. ASSUME NEW j \in (i + 1) .. Ends(M, i), j <= Len(M) PROVE HasResult(M[j])
    <3>1. CASE j = n + 1
      BY <1>1, <3>1
    <3>2. CASE j \in 1 .. n
      <4>1. \A k \in (i + 1) .. Ends(L, i) : k <= n => HasResult(L[k])
        BY <1>1 DEF Chained, n
      <4>2. j \in (i + 1) .. Ends(L, i) /\ j <= n
        BY <2>1, <3>2
      <4>3. QED
        BY <1>1, <3>2, <4>1, <4>2
    <3>3. QED
      BY <2>1, <2>2, <3>1, <3>2
  <2>3. ASSUME HasResult(M[i])
        PROVE  \E k \in 1 .. (i - 1) : i \in (k + 1) .. Ends(M, k)
    <3>1. PICK k \in 1 .. (i - 1) : i \in (k + 1) .. Ends(L, k)
      BY <1>1, <2>1, <2>3 DEF Chained
    <3>2. k \in 1 .. n
      BY <1>1
    <3>3. QED
      BY <1>1, <3>1, <3>2
  <2>4. i + 1 \in Nat /\ 1 <= i + 1 /\ i + 1 <= n + 1 /\ n <= n
    BY <2>1
  <2>5. ASSUME NEW b, b \in Nat, b <= n
        PROVE  Given(M, i + 1, b) = Given(L, i + 1, b)
    <3>1. \A j \in (i + 1) .. b : M[j] = L[j]
      BY <1>1, <2>1, <2>5
    <3>2. QED
      BY <3>1, GivenStays
  <2>6. d # "ollama" => Given(M, i + 1, n + 1) = Given(L, i + 1, n) \cup {c}
    <3>1. Given(M, i + 1, n + 1) = Given(M, i + 1, n) \cup {ResultId(M[n + 1])}
      BY <2>1, <2>4, GivenMore
    <3>2. QED
      BY <1>1, <2>1, <2>4, <2>5, <3>1
  <2>7. CASE Ends(L, i) <= n
    <3>1. d # "ollama" => Given(L, i + 1, Ends(L, i)) = IdsOf(Calls(L[i].blocks))
      BY <1>1, <2>7 DEF Chained, n
    <3>2. Given(M, i + 1, Ends(L, i)) = Given(L, i + 1, Ends(L, i))
      BY <2>1, <2>5, <2>7
    <3>3. ~(Ends(M, i) > Len(M))
      BY <2>1, <2>7
    <3>4. QED
      BY <2>1, <2>2, <2>3, <3>1, <3>2, <3>3
  <2>8. CASE Ends(L, i) > n
    <3>1. /\ Ends(L, i) = n + p
          /\ d # "ollama" => P \cup Given(L, i + 1, n) = IdsOf(Calls(L[i].blocks))
      BY <1>1, <2>8 DEF Chained, n, p
    <3>2. d # "ollama" => Q \cup Given(M, i + 1, n + 1) = IdsOf(Calls(M[i].blocks))
      BY <1>4, <2>1, <2>6, <3>1
    <3>3. Ends(M, i) = Len(M) + Cardinality(Q)
      BY <1>2, <2>1, <3>1
    <3>4. ASSUME Ends(M, i) <= Len(M), d # "ollama"
          PROVE  Given(M, i + 1, Ends(M, i)) = IdsOf(Calls(M[i].blocks))
      <4>1. p = 1 /\ Ends(M, i) = n + 1
        BY <1>2, <2>1, <3>1, <3>4
      <4>2. QED
        BY <1>4, <3>2, <3>4, <4>1
    <3>5. d # "ollama" => Q \cup Given(M, i + 1, Len(M)) = IdsOf(Calls(M[i].blocks))
      BY <2>1, <3>2
    <3>6. QED
      BY <2>2, <2>3, <3>3, <3>4, <3>5
  <2>9. QED
    BY <2>1, <2>7, <2>8
<1>8. /\ \A j \in (n + 1 + 1) .. Ends(M, n + 1) : j <= Len(M) => HasResult(M[j])
      /\ \E k \in 1 .. (n + 1 - 1) : n + 1 \in (k + 1) .. Ends(M, k)
      /\ Given(M, n + 1 + 1, Ends(M, n + 1)) = IdsOf(Calls(M[n + 1].blocks))
      /\ ~(Ends(M, n + 1) > Len(M))
  <2>1. (n + 1 + 1) .. Ends(M, n + 1) = {}
    BY <1>1, <1>3
  <2>2. Given(M, n + 1 + 1, Ends(M, n + 1)) = {}
    BY <2>1 DEF Given
  <2>3. ~(Ends(M, n + 1) > Len(M))
    BY <1>1, <1>3
  <2>4. QED
    BY <1>1, <1>3, <1>6, <2>1, <2>2, <2>3
<1>9. ASSUME NEW i \in DOMAIN M
      PROVE  /\ \A j \in (i + 1) .. Ends(M, i) : j <= Len(M) => HasResult(M[j])
             /\ HasResult(M[i]) => \E k \in 1 .. (i - 1) : i \in (k + 1) .. Ends(M, k)
             /\ Ends(M, i) <= Len(M) /\ d # "ollama" =>
                    Given(M, i + 1, Ends(M, i)) = IdsOf(Calls(M[i].blocks))
             /\ Ends(M, i) > Len(M) =>
                    /\ Ends(M, i) = Len(M) + Cardinality(Q)
                    /\ d # "ollama" =>
                           Q \cup Given(M, i + 1, Len(M)) = IdsOf(Calls(M[i].blocks))
  <2>1. CASE i = n + 1
    BY <1>8, <2>1
  <2>2. CASE i \in 1 .. n
    BY <1>7, <2>2
  <2>3. QED
    BY <1>1, <2>1, <2>2
<1>10. Q # {} => \E i \in DOMAIN M : Ends(M, i) > Len(M)
  <2>1. SUFFICES ASSUME Q # {} PROVE \E i \in DOMAIN M : Ends(M, i) > Len(M)
    OBVIOUS
  <2>2. p # 1
    BY <1>4, <2>1
  <2>3. Ends(L, o) = n + p
    BY <1>1, <1>5 DEF Chained, n, p
  <2>4. Ends(M, o) > Len(M) /\ o \in DOMAIN M
    BY <1>1, <1>2, <2>2, <2>3
  <2>5. QED
    BY <2>4
<1>11. Chained(d, M, Q)
  BY <1>2, <1>9, <1>10 DEF Chained
<1>12. QED
  BY <1>11 DEF M, Q

\* No two blocks have the same token.
Apart(s) == \A j, k \in DOMAIN s : s[j].token = s[k].token => j = k

\* The blocks of a kind are as many apart as all of them.
LEMMA ApartOfKind ==
  ASSUME NEW kind, NEW s, s \in Seq(Blocks), Apart(s)
  PROVE  Apart(OfKind(kind, s))
<1> DEFINE P == {t \in Seq(Blocks) : Apart(t) => Apart(OfKind(kind, t))}
           p == Keep(kind)
<1>1. p \in [Blocks -> Seq(Blocks)] /\ \A b \in Blocks : p[b] = IF b.kind = kind THEN <<b>> ELSE <<>>
  BY DEF Keep
<1>2. <<>> \in P
  <2> DEFINE none == <<>>
  <2>1. none \in Seq(Blocks) /\ \A i \in DOMAIN none : none[i].kind # kind
    OBVIOUS
  <2> HIDE DEF none
  <2>2. OfKind(kind, none) = <<>>
    BY <2>1, NoneOfKind
  <2>3. Apart(<<>>)
    BY DEF Apart
  <2>4. QED
    BY <2>1, <2>2, <2>3 DEF none
<1>3. ASSUME NEW t \in Seq(Blocks), NEW e \in Blocks, t \in P
      PROVE  Append(t, e) \in P
  <2> DEFINE v == Append(t, e)
             kept == OfKind(kind, t)
  <2>1. /\ v \in Seq(Blocks) /\ Len(t) \in Nat /\ DOMAIN t = 1 .. Len(t)
        /\ DOMAIN v = 1 .. (Len(t) + 1) /\ v[Len(t) + 1] = e
        /\ \A i \in 1 .. Len(t) : v[i] = t[i]
    OBVIOUS
  <2>2. Joint(p, v) = Joint(p, t) \o p[e]
    <3> HIDE DEF P, p
    <3>1. QED
      BY <1>1, JointAppend
  <2> HIDE DEF v
  <2>3. OfKind(kind, v) = kept \o p[e] /\ kept \in Seq(Blocks)
    BY <2>1, <2>2, OfKindIs
  <2>4. \A b : Elem(b, kept) <=> Elem(b, t) /\ b.kind = kind
    BY ElemOfKind
  <2> HIDE DEF kept, p
  <2>5. ASSUME Apart(v)
        PROVE  Apart(OfKind(kind, v))
    <3>1. Apart(t)
      <4>1. ASSUME NEW j \in DOMAIN t, NEW k \in DOMAIN t, t[j].token = t[k].token
            PROVE  j = k
        <5>1. j \in DOMAIN v /\ k \in DOMAIN v /\ v[j].token = v[k].token
          BY <2>1, <4>1
        <5>2. QED
          BY <2>5, <5>1 DEF Apart
      <4>2. QED
        BY <4>1 DEF Apart
    <3>2. Apart(kept)
      BY <1>3, <3>1 DEF kept
    <3>3. CASE p[e] = <<>>
      <4>1. kept \o <<>> = kept
        BY <2>3
      <4>2. QED
        BY <2>3, <3>2, <3>3, <4>1
    <3>4. CASE p[e] = <<e>>
      <4> DEFINE w == kept \o <<e>>
      <4>1. /\ Len(kept) \in Nat /\ DOMAIN kept = 1 .. Len(kept)
            /\ DOMAIN w = 1 .. (Len(kept) + 1) /\ w[Len(kept) + 1] = e
            /\ \A i \in 1 .. Len(kept) : w[i] = kept[i]
        BY <2>3
      <4>2. ASSUME NEW j \in DOMAIN kept
            PROVE  kept[j].token # e.token
        <5>1. Elem(kept[j], kept)
          BY DEF Elem
        <5>2. Elem(kept[j], t)
          BY <2>4, <5>1
        <5>3. PICK i \in DOMAIN t : t[i] = kept[j]
          BY <5>2 DEF Elem
        <5>4. i \in DOMAIN v /\ Len(t) + 1 \in DOMAIN v /\ i # Len(t) + 1 /\ v[i] = kept[j]
          BY <2>1, <5>3
        <5>5. QED
          BY <2>1, <2>5, <5>4 DEF Apart
      <4> HIDE DEF w
      <4>3. ASSUME NEW j \in DOMAIN w, NEW k \in DOMAIN w, w[j].token = w[k].token
            PROVE  j = k
        <5>1. CASE j \in DOMAIN kept /\ k \in DOMAIN kept
          <6>1. kept[j].token = kept[k].token
            BY <4>1, <4>3, <5>1
          <6>2. QED
            BY <3>2, <5>1, <6>1 DEF Apart
        <5>2. CASE j \notin DOMAIN kept /\ k \notin DOMAIN kept
          BY <4>1, <5>2
        <5>3. CASE j \in DOMAIN kept /\ k \notin DOMAIN kept
          <6>1. w[j] = kept[j] /\ w[k] = e
            BY <4>1, <5>3
          <6>2. QED
            BY <4>2, <4>3, <5>3, <6>1
        <5>4. CASE j \notin DOMAIN kept /\ k \in DOMAIN kept
          <6>1. w[k] = kept[k] /\ w[j] = e
            BY <4>1, <5>4
          <6>2. QED
            BY <4>2, <4>3, <5>4, <6>1
        <5>5. QED
          BY <5>1, <5>2, <5>3, <5>4
      <4>4. Apart(w)
        BY <4>3 DEF Apart
      <4>5. QED
        BY <2>3, <3>4, <4>4 DEF w
    <3>5. QED
      BY <1>1, <3>3, <3>4
  <2>6. v \in P
    BY <2>1, <2>5
  <2>7. QED
    BY <2>6 DEF v
<1>4. s \in P
  <2> HIDE DEF P
  <2>1. QED
    BY <1>2, <1>3, AllSequences
<1>5. QED
  BY <1>4

\* Calls apart have as many ids.
LEMMA IdsCounted ==
  ASSUME NEW cs, cs \in Seq(Blocks), Apart(cs), \A i \in DOMAIN cs : cs[i].id = cs[i].token
  PROVE  IsFiniteSet(IdsOf(cs)) /\ Cardinality(IdsOf(cs)) = Len(cs)
<1> DEFINE S == IdsOf(cs)
           f == [i \in 1 .. Len(cs) |-> cs[i].id]
<1>1. Len(cs) \in Nat /\ DOMAIN cs = 1 .. Len(cs)
  OBVIOUS
<1>2. S = {cs[i].id : i \in 1 .. Len(cs)}
  BY <1>1 DEF IdsOf, ToSet
<1> HIDE DEF S
<1>3. f \in [1 .. Len(cs) -> S] /\ \A y \in S : \E i \in 1 .. Len(cs) : f[i] = y
  BY <1>2
<1>4. \A i, j \in 1 .. Len(cs) : f[i] = f[j] => i = j
  BY <1>1 DEF Apart
<1> HIDE DEF f
<1>5. f \in Bijection(1 .. Len(cs), S)
  BY <1>3, <1>4 DEF Bijection, Injection, Surjection, IsInjective
<1>6. QED
  BY <1>1, <1>5, FS_CountingElements, FS_NatBijection DEF ExistsBijection, S

\* What a provider would be sent of the story.
Sent(d) == Joint(Twice(Sends(d), UnitOf(api)), story)

\* Whom the results are for.
Answered == {story[i].id : i \in DOMAIN story}

\* The results that are to come are those of the calls, and an upstream is
\* asked when there are none.
PInv ==
    /\ CInv
    /\ \A i \in DOMAIN story : story[i].id \in 0 .. FirstToken
    /\ state = "asked" => Pending = {}
    /\ \A d \in Providers : Chained(d, Sent(d), Pending)

\* What is said is sent after what was said before.
LEMMA SentGrows ==
  ASSUME CInv, NEW e, e \in Entries, story' = Append(story, e), api' = api, NEW d, d \in Providers
  PROVE  Sent(d) \in Seq(AskedMessages) /\ Sent(d)' = Sent(d) \o SentOf(d, e)
<1> DEFINE p == Sends(d)
           q == UnitOf(api)
           r == Twice(p, q)
<1>1. p \in [Messages -> Seq(AskedMessages)] /\ q \in [Entries -> Seq(Messages)]
  BY SendsTyped, UnitTyped
<1>2. story \in Seq(Entries)
  BY DEF CInv
<1>3. Sent(d)' = Joint(r, Append(story, e))
  BY DEF Sent
<1>4. Sent(d) = Joint(r, story)
  BY DEF Sent
<1>5. SentOf(d, e) = Joint(p, q[e])
  BY DEF SentOf
<1> HIDE DEF p, q
<1>6. r \in [Entries -> Seq(AskedMessages)]
  BY <1>1, <1>2, JointOfJoint
<1>7. r[e] = Joint(p, q[e])
  BY <1>1 DEF Twice
<1> HIDE DEF r
<1>8. Joint(r, story) \in Seq(AskedMessages)
  BY <1>2, <1>6, JointTyped
<1>9. Joint(r, Append(story, e)) = Joint(r, story) \o r[e]
  BY <1>2, <1>6, JointAppend
<1>10. QED
  BY <1>3, <1>4, <1>5, <1>7, <1>8, <1>9

\* A call of an entry is one of its calls.
LEMMA CallsOfEntry ==
  ASSUME NEW s, s \in Seq(Blocks)
  PROVE  ToSet(Calls(s)) = {b \in ToSet(s) : b.kind = "call"}
<1> DEFINE cs == Calls(s)
<1>1. \A b : Elem(b, cs) <=> Elem(b, s) /\ b.kind = "call"
  BY ElemOfKind DEF Calls
<1> HIDE DEF cs
<1>2. \A b : Elem(b, cs) <=> b \in ToSet(cs)
  BY DEF Elem, ToSet
<1>3. \A b : Elem(b, s) <=> b \in ToSet(s)
  BY DEF Elem, ToSet
<1>4. QED
  BY <1>1, <1>2, <1>3 DEF cs

\* What is said adds its calls to those that wait, and takes the one it is
\* the result of.
LEMMA PendingSaid ==
  ASSUME CInv, NEW e, e \in Entries, story' = Append(story, e)
  PROVE  /\ Pending = {b.id : b \in Made} \ Answered
         /\ Pending' = ({b.id : b \in Made} \cup IdsOf(Calls(e.blocks)))
                       \ (Answered \cup {e.id})
         /\ \A i \in DOMAIN story' : i = Len(story) + 1 \/ i \in DOMAIN story
         /\ \A i \in DOMAIN story : story'[i] = story[i]
         /\ story'[Len(story) + 1] = e
<1> DEFINE n == Len(story) + 1
<1>1. /\ story \in Seq(Entries) /\ e.blocks \in Seq(Blocks)
  BY DEF CInv, Entries
<1>2. /\ n \in DOMAIN story' /\ story'[n] = e
      /\ \A i \in DOMAIN story : i \in DOMAIN story' /\ story'[i] = story[i]
      /\ \A i \in DOMAIN story' : i = n \/ i \in DOMAIN story
  BY <1>1
<1> HIDE DEF n
<1>3. Made' = Made \cup ToSet(Calls(e.blocks))
  <2>1. ToSet(Calls(e.blocks)) = {b \in ToSet(e.blocks) : b.kind = "call"}
    BY <1>1, CallsOfEntry
  <2>2. \A b : b \in Made <=> b.kind = "call" /\ \E i \in DOMAIN story : b \in ToSet(story[i].blocks)
    BY DEF Made
  <2>3. \A b : b \in Made' <=> b.kind = "call" /\ \E i \in DOMAIN story' : b \in ToSet(story'[i].blocks)
    BY DEF Made
  <2>4. ASSUME NEW b
        PROVE  (\E i \in DOMAIN story' : b \in ToSet(story'[i].blocks))
               <=> (\E i \in DOMAIN story : b \in ToSet(story[i].blocks)) \/ b \in ToSet(e.blocks)
    BY <1>2
  <2>5. QED
    BY <2>1, <2>2, <2>3, <2>4
<1>4. Answered' = Answered \cup {e.id}
  BY <1>2 DEF Answered
<1>5. {b.id : b \in Made'} = {b.id : b \in Made} \cup IdsOf(Calls(e.blocks))
  BY <1>3 DEF IdsOf
<1>6. Pending' = {b.id : b \in Made'} \ Answered'
  BY DEF Pending, Answered
<1>7. QED
  BY <1>2, <1>4, <1>5, <1>6 DEF Pending, Answered, n

\* The story keeps the numbers of what results are for.
LEMMA AnsweredStays ==
  ASSUME PInv, NEW e, e \in Entries, story' = Append(story, e), e.id \in 0 .. FirstToken
  PROVE  \A i \in DOMAIN story' : story'[i].id \in 0 .. FirstToken'
<1>1. CInv
  BY DEF PInv
<1>2. FirstToken \in Nat /\ MaxBlocks \in Nat
  BY <1>1, FirstTokenIs, ConversationAssumption
<1>3. FirstToken' = FirstToken + MaxBlocks + 2
  <2>1. Len(story) \in Nat /\ Len(story') = Len(story) + 1
    BY <1>1 DEF CInv
  <2>2. QED
    BY <1>2, <2>1 DEF FirstToken
<1>4. ASSUME NEW i \in DOMAIN story' PROVE story'[i].id \in 0 .. FirstToken
  BY <1>1, PendingSaid DEF PInv
<1>5. 0 .. FirstToken \subseteq 0 .. FirstToken'
  BY <1>2, <1>3
<1>6. QED
  BY <1>4, <1>5

\* Nothing, or one message, at the end of others.
LEMMA AtTheEnd ==
  ASSUME NEW S, NEW L, L \in Seq(S), NEW x
  PROVE  L \o <<>> = L /\ L \o <<x>> = Append(L, x)
  OBVIOUS

\* The client says no calls.
LEMMA ClientCallsNothing ==
  ASSUME NEW a, NEW e, e \in Entries, SaidByClient(a, e)
  PROVE  Calls(e.blocks) = <<>>
<1>1. e.by # "assistant" /\ WellSaid(a, e) /\ e.blocks \in Seq(Blocks)
  BY DEF SaidByClient, WellSaid, Entries
<1>2. ASSUME NEW j \in DOMAIN e.blocks, e.blocks[j].kind = "call"
      PROVE  FALSE
  <2>1. SaidByAssistant(e)
    BY <1>1, <1>2, CallSaid
  <2>2. QED
    BY <1>1, <2>1 DEF SaidByAssistant
<1> DEFINE s == e.blocks
<1>3. s \in Seq(Blocks) /\ \A j \in DOMAIN s : s[j].kind # "call"
  BY <1>1, <1>2
<1> HIDE DEF s
<1>4. Calls(s) = <<>>
  BY <1>3, NoneOfKind DEF Calls
<1>5. QED
  BY <1>4 DEF s

\* Nobody waits for the results of no calls.
LEMMA NoIds ==
  IdsOf(<<>>) = {} /\ Len(<<>>) = 0 /\ IsFiniteSet({}) /\ Cardinality({}) = 0
<1>1. ToSet(<<>>) = {}
  BY DEF ToSet
<1>2. QED
  BY <1>1, FS_EmptySet DEF IdsOf

\* The invariant holds at first.
LEMMA PInvInit ==
  ASSUME Init
  PROVE  PInv
<1> DEFINE none == <<>>
<1>1. CInv
  BY CInvInit
<1>2. none \in Seq(Entries) /\ DOMAIN none = {} /\ Len(none) = 0
  OBVIOUS
<1>3. story = none /\ state # "asked"
  BY DEF Init
<1> HIDE DEF none
<1>4. Pending = {}
  BY <1>2, <1>3 DEF Pending, Made
<1>5. ASSUME NEW d \in Providers
      PROVE  Chained(d, Sent(d), Pending)
  <2> DEFINE r == Twice(Sends(d), UnitOf(api))
  <2>1. Sent(d) = Joint(r, none)
    BY <1>3 DEF Sent
  <2> HIDE DEF r
  <2>2. Sent(d) = none
    BY <2>1, JointEmpty DEF none
  <2>3. QED
    BY <1>2, <1>4, <2>2, NoIds DEF Chained
<1>6. QED
  BY <1>1, <1>2, <1>3, <1>4, <1>5 DEF PInv

\* What the client says keeps the invariant.
LEMMA PInvClientSays ==
  ASSUME PInv, NEW role \in {"system", "developer", "user"}, NEW content \in Sayings,
         ClientSays(role, content)
  PROVE  PInv'
<1>1. CInv /\ CInv' /\ api \in {"chat", "responses"}
  BY CInvClientSays DEF PInv, CInv
<1>2. PICK e \in Entries : /\ SaidByClient(api, e) /\ Following(e)
                           /\ Tells(e, <<ClientItem(api, e)>>) /\ ByClient
                           /\ e.by # "tool" /\ e.id = 0
  BY <1>1, SayingTells
<1>3. story' = Append(story, e) /\ api' = api /\ state' = "open" /\ Pending = {}
  BY <1>2 DEF Tells, ByClient, ClientSays
<1>4. FirstToken \in Nat
  BY <1>1, FirstTokenIs
<1>5. \A i \in DOMAIN story' : story'[i].id \in 0 .. FirstToken'
  <2>1. e.id \in 0 .. FirstToken
    BY <1>2, <1>4
  <2>2. QED
    BY <1>2, <1>3, <2>1, AnsweredStays
<1>6. Pending' = {}
  <2>1. Calls(e.blocks) = <<>>
    BY <1>2, ClientCallsNothing
  <2>2. /\ Pending = {b.id : b \in Made} \ Answered
        /\ Pending' = ({b.id : b \in Made} \cup IdsOf(Calls(e.blocks))) \ (Answered \cup {e.id})
    BY <1>1, <1>2, <1>3, PendingSaid
  <2>3. IdsOf(Calls(e.blocks)) = {}
    BY <2>1, NoIds
  <2>4. QED
    BY <1>3, <2>2, <2>3
<1>7. ASSUME NEW d \in Providers
      PROVE  Chained(d, Sent(d)', {})
  <2> DEFINE L == Sent(d)
  <2>1. L \in Seq(AskedMessages) /\ Sent(d)' = L \o SentOf(d, e)
    BY <1>1, <1>2, <1>3, SentGrows
  <2>2. Chained(d, L, {})
    BY <1>3 DEF PInv
  <2>3. SentOf(d, e) = <<>> \/ \E x \in AskedMessages : SentOf(d, e) = <<x>> /\ Plain(x)
    BY <1>1, <1>2, SayingSent
  <2> HIDE DEF L
  <2>4. CASE SentOf(d, e) = <<>>
    <3>1. L \o <<>> = L
      BY <2>1, AtTheEnd
    <3>2. QED
      BY <2>1, <2>2, <2>4, <3>1
  <2>5. ASSUME NEW x \in AskedMessages, SentOf(d, e) = <<x>>, Plain(x)
        PROVE  Chained(d, Sent(d)', {})
    <3>1. L \o <<x>> = Append(L, x)
      BY <2>1, AtTheEnd
    <3>2. ~HasResult(x) /\ Calls(x.blocks) = <<>>
      BY <2>5 DEF Plain
    <3> DEFINE none == {}
    <3>3. /\ IsFiniteSet(none) /\ Cardinality(none) = Len(Calls(x.blocks))
          /\ none = IdsOf(Calls(x.blocks))
      BY <3>2, NoIds
    <3>4. Chained(d, Append(L, x), none)
      BY <2>1, <2>2, <3>2, <3>3, ChainAnswered
    <3>5. QED
      BY <2>1, <2>5, <3>1, <3>4
  <2>6. QED
    BY <2>3, <2>4, <2>5
<1>8. QED
  BY <1>1, <1>3, <1>5, <1>6, <1>7 DEF PInv

\* A tool's result keeps the invariant.
LEMMA PInvClientRunsTool ==
  ASSUME PInv, NEW c \in Pending, NEW shape \in {"string", "parts"},
         ClientRunsTool(c, shape)
  PROVE  PInv'
<1>1. CInv /\ CInv' /\ api \in {"chat", "responses"}
  BY CInvClientRunsTool DEF PInv, CInv
<1>2. PICK e \in Entries : /\ SaidByClient(api, e) /\ Following(e)
                           /\ Tells(e, <<ClientItem(api, e)>>) /\ ByClient
                           /\ e.by = "tool" /\ e.id = c
  BY <1>1, ResultTells
<1>3. story' = Append(story, e) /\ api' = api /\ state' = "open"
  BY <1>2 DEF Tells, ByClient
<1>4. \A i \in DOMAIN story' : story'[i].id \in 0 .. FirstToken'
  <2>1. PICK b \in Made : c = b.id
    BY <1>1, PendingIs
  <2>2. PICK i \in DOMAIN story : b \in ToSet(story[i].blocks) /\ b.kind = "call"
    BY DEF Made
  <2>3. PICK j \in DOMAIN story[i].blocks : b = story[i].blocks[j]
    BY <2>2 DEF ToSet
  <2>4. WellSaid(api, story[i]) /\ b.token \in 1 .. FirstToken
    BY <1>1, <2>3 DEF CInv, Numbered
  <2>5. b \in CallBlocks
    BY <2>2, <2>3, <2>4, CallSaid
  <2>6. FirstToken \in Nat
    BY <1>1, FirstTokenIs
  <2>7. e.id \in 0 .. FirstToken
    BY <1>2, <2>1, <2>4, <2>5, <2>6 DEF CallBlocks
  <2>8. QED
    BY <1>2, <1>3, <2>7, AnsweredStays
<1>5. Pending' = Pending \ {c}
  <2>1. Calls(e.blocks) = <<>>
    BY <1>2, ClientCallsNothing
  <2>2. /\ Pending = {b.id : b \in Made} \ Answered
        /\ Pending' = ({b.id : b \in Made} \cup IdsOf(Calls(e.blocks))) \ (Answered \cup {e.id})
    BY <1>1, <1>2, <1>3, PendingSaid
  <2>3. IdsOf(Calls(e.blocks)) = {}
    BY <2>1, NoIds
  <2>4. QED
    BY <1>2, <2>2, <2>3
<1>6. ASSUME NEW d \in Providers
      PROVE  Chained(d, Sent(d)', Pending \ {c})
  <2> DEFINE L == Sent(d)
             P == Pending
  <2>1. L \in Seq(AskedMessages) /\ Sent(d)' = L \o SentOf(d, e)
    BY <1>1, <1>2, <1>3, SentGrows
  <2>2. Chained(d, L, P) /\ c \in P
    BY DEF PInv
  <2>3. PICK x \in AskedMessages : /\ SentOf(d, e) = <<x>>
                                   /\ HasResult(x) /\ Calls(x.blocks) = <<>>
                                   /\ d # "ollama" => ResultId(x) = e.id
    BY <1>1, <1>2, ResultSent
  <2> HIDE DEF L, P
  <2>4. L \o <<x>> = Append(L, x)
    BY <2>1, AtTheEnd
  <2>5. Chained(d, Append(L, x), P \ {c})
    <3>1. d # "ollama" => ResultId(x) = c
      BY <1>2, <2>3
    <3>2. QED
      BY <2>1, <2>2, <2>3, <3>1, ChainResult
  <2>6. QED
    BY <2>1, <2>3, <2>4, <2>5 DEF P
<1>7. QED
  BY <1>1, <1>3, <1>4, <1>5, <1>6 DEF PInv

\* After an answer its calls wait, and as many of them as it has.
LEMMA AnswerPending ==
  ASSUME PInv, Pending = {}, NEW e, e \in Entries, SaidByAssistant(e), Following(e),
         story' = Append(story, e)
  PROVE  /\ Pending' = IdsOf(Calls(e.blocks))
         /\ IsFiniteSet(Pending') /\ Cardinality(Pending') = Len(Calls(e.blocks))
<1>1. CInv /\ e.id = 0 /\ e.blocks \in Seq(Blocks)
  BY DEF PInv, SaidByAssistant, Entries
<1>2. FirstToken \in Nat /\ MaxBlocks \in Nat
  BY <1>1, FirstTokenIs, ConversationAssumption
<1> DEFINE cs == Calls(e.blocks)
<1>3. cs \in Seq(Blocks) /\ \A i \in DOMAIN cs : cs[i] \in CallBlocks
  BY AssistantParts
<1>4. Apart(e.blocks)
  BY DEF Following, Apart
<1>5. Apart(cs)
  BY <1>1, <1>4, ApartOfKind DEF Calls
<1>6. ASSUME NEW i \in DOMAIN cs
      PROVE  cs[i].id = cs[i].token /\ cs[i].token \in (FirstToken + 1) .. (FirstToken + MaxBlocks + 2)
  <2>1. Elem(cs[i], cs)
    BY DEF Elem
  <2>2. Elem(cs[i], e.blocks)
    BY <1>1, <2>1, ElemOfKind DEF Calls
  <2>3. PICK j \in DOMAIN e.blocks : e.blocks[j] = cs[i]
    BY <2>2 DEF Elem
  <2>4. cs[i].token \in (FirstToken + 1) .. (FirstToken + MaxBlocks + 2)
    BY <2>3 DEF Following
  <2> HIDE DEF cs
  <2>5. cs[i] \in CallBlocks
    BY <1>3
  <2>6. QED
    BY <2>4, <2>5 DEF CallBlocks
<1>7. /\ Pending = {b.id : b \in Made} \ Answered
      /\ Pending' = ({b.id : b \in Made} \cup IdsOf(cs)) \ (Answered \cup {0})
  BY <1>1, PendingSaid
<1> HIDE DEF cs
<1>8. ASSUME NEW c \in IdsOf(cs)
      PROVE  c \notin Answered \cup {0}
  <2>1. PICK i \in DOMAIN cs : c = cs[i].id
    BY DEF IdsOf, ToSet
  <2>2. c \in (FirstToken + 1) .. (FirstToken + MaxBlocks + 2)
    BY <1>6, <2>1
  <2>3. \A k \in DOMAIN story : story[k].id \in 0 .. FirstToken
    BY DEF PInv
  <2>4. QED
    BY <1>2, <2>2, <2>3 DEF Answered
<1>9. Pending' = IdsOf(cs)
  BY <1>7, <1>8
<1>10. IsFiniteSet(IdsOf(cs)) /\ Cardinality(IdsOf(cs)) = Len(cs)
  BY <1>3, <1>5, <1>6, IdsCounted
<1>11. QED
  BY <1>9, <1>10 DEF cs

\* An answer keeps the invariant.
LEMMA PInvAnswer ==
  ASSUME PInv, state = "asked", NEW blocks \in Answers(dialect), NEW raw,
         Answer(blocks, raw)
  PROVE  PInv'
<1>1. CInv /\ CInv' /\ Pending = {}
  BY CInvAnswer DEF PInv
<1> DEFINE e == AnswerEntry(blocks)
<1>2. /\ e \in Entries /\ SaidByAssistant(e) /\ Following(e)
      /\ Tells(e, ItemsOf(api, FromResponse(dialect, blocks, raw)))
  BY <1>1, AnswerTells
<1> HIDE DEF e
<1>3. story' = Append(story, e) /\ api' = api /\ state' = "answered" /\ e.id = 0
  BY <1>2 DEF Tells, Answer, SaidByAssistant
<1>4. \A i \in DOMAIN story' : story'[i].id \in 0 .. FirstToken'
  <2>1. e.id \in 0 .. FirstToken
    BY <1>1, <1>3, FirstTokenIs
  <2>2. QED
    BY <1>2, <1>3, <2>1, AnsweredStays
<1> DEFINE Q == Pending'
<1>5. /\ Q = IdsOf(Calls(e.blocks)) /\ IsFiniteSet(Q)
      /\ Cardinality(Q) = Len(Calls(e.blocks))
  BY <1>1, <1>2, <1>3, AnswerPending
<1> HIDE DEF Q
<1>6. ASSUME NEW d \in Providers
      PROVE  Chained(d, Sent(d)', Q)
  <2> DEFINE L == Sent(d)
  <2>1. L \in Seq(AskedMessages) /\ Sent(d)' = L \o SentOf(d, e)
    BY <1>1, <1>2, <1>3, SentGrows
  <2>2. Chained(d, L, {})
    BY <1>1 DEF PInv
  <2>3. \/ SentOf(d, e) = <<>> /\ Calls(e.blocks) = <<>>
        \/ \E x \in AskedMessages :
               /\ SentOf(d, e) = <<x>>
               /\ ~HasResult(x)
               /\ Len(Calls(x.blocks)) = Len(Calls(e.blocks))
               /\ d # "ollama" => IdsOf(Calls(x.blocks)) = IdsOf(Calls(e.blocks))
    BY <1>2, AnswerSent
  <2> HIDE DEF L
  <2>4. CASE SentOf(d, e) = <<>> /\ Calls(e.blocks) = <<>>
    <3>1. L \o <<>> = L
      BY <2>1, AtTheEnd
    <3>2. Q = {}
      BY <1>5, <2>4, NoIds
    <3>3. QED
      BY <2>1, <2>2, <2>4, <3>1, <3>2
  <2>5. ASSUME NEW x \in AskedMessages, SentOf(d, e) = <<x>>, ~HasResult(x),
               Len(Calls(x.blocks)) = Len(Calls(e.blocks)),
               d # "ollama" => IdsOf(Calls(x.blocks)) = IdsOf(Calls(e.blocks))
        PROVE  Chained(d, Sent(d)', Q)
    <3>1. L \o <<x>> = Append(L, x)
      BY <2>1, AtTheEnd
    <3>2. /\ Cardinality(Q) = Len(Calls(x.blocks))
          /\ d # "ollama" => Q = IdsOf(Calls(x.blocks))
      BY <1>5, <2>5
    <3>3. Chained(d, Append(L, x), Q)
      BY <1>5, <2>1, <2>2, <2>5, <3>2, ChainAnswered
    <3>4. QED
      BY <2>1, <2>5, <3>1, <3>3
  <2>6. QED
    BY <2>3, <2>4, <2>5
<1>7. QED
  BY <1>1, <1>3, <1>4, <1>6 DEF PInv, Q

\* Where nothing is said the invariant stays.
LEMMA PInvSame ==
  ASSUME PInv, CInv', UNCHANGED <<api, story>>, state' = "asked" => Pending = {}
  PROVE  PInv'
<1>1. FirstToken' = FirstToken /\ Pending' = Pending
  BY DEF FirstToken, Pending, Made
<1>2. ASSUME NEW d \in Providers
      PROVE  Sent(d)' = Sent(d)
  BY DEF Sent
<1>3. QED
  BY <1>1, <1>2 DEF PInv

\* The invariant always holds.
LEMMA PInvAlways == Spec => []PInv
<1>1. Init => PInv
  BY PInvInit
<1>2. PInv /\ [Next]_vars => PInv'
  <2>1. SUFFICES ASSUME PInv, [Next]_vars PROVE PInv'
    OBVIOUS
  <2>2. CInv'
    BY <2>1, CInvStep DEF PInv
  <2>3. CASE \E role \in {"system", "developer", "user"}, content \in Sayings :
                 ClientSays(role, content)
    BY <2>1, <2>3, PInvClientSays
  <2>4. CASE \E c \in Pending, shape \in {"string", "parts"} : ClientRunsTool(c, shape)
    BY <2>1, <2>4, PInvClientRunsTool
  <2>5. CASE \E d \in Dialects : Send(d)
    <3>1. UNCHANGED <<api, story>> /\ Pending = {}
      BY <2>5 DEF Send
    <3>2. QED
      BY <2>1, <2>2, <3>1, PInvSame
  <2>6. CASE /\ state = "asked"
             /\ \E blocks \in Answers(dialect) :
                    \E raw \in Endings(dialect, blocks) : Answer(blocks, raw)
    BY <2>1, <2>6, PInvAnswer
  <2>7. CASE UNCHANGED vars
    <3>1. UNCHANGED <<api, story>> /\ state' = state
      BY <2>7 DEF vars
    <3>2. state' = "asked" => Pending = {}
      BY <2>1, <3>1 DEF PInv
    <3>3. QED
      BY <2>1, <2>2, <3>1, <3>2, PInvSame
  <2>8. QED
    BY <2>1, <2>3, <2>4, <2>5, <2>6, <2>7 DEF Next
<1>3. QED
  BY <1>1, <1>2, PTL DEF Spec

\* When no results are to come, those of each message follow it.
LEMMA ChainComplete ==
  ASSUME NEW d, NEW L, L \in Seq(AskedMessages), Chained(d, L, {}), NEW i \in DOMAIN L
  PROVE  /\ (i + 1) .. Ends(L, i) \subseteq {j \in DOMAIN L : HasResult(L[j])}
         /\ d # "ollama" => Given(L, i + 1, Ends(L, i)) = IdsOf(Calls(L[i].blocks))
         /\ HasResult(L[i]) => \E k \in 1 .. (i - 1) : i \in (k + 1) .. Ends(L, k)
<1> DEFINE n == Len(L)
<1>1. n \in Nat /\ DOMAIN L = 1 .. n /\ i \in 1 .. n /\ L[i] \in AskedMessages
  OBVIOUS
<1> HIDE DEF n
<1>2. Ends(L, i) \in Nat
  <2>1. L[i].blocks \in Seq(Blocks)
    BY <1>1 DEF AskedMessages
  <2>2. Calls(L[i].blocks) \in Seq(Blocks)
    BY <2>1, OfKindIs DEF Calls
  <2>3. Len(Calls(L[i].blocks)) \in Nat
    BY <2>2
  <2>4. QED
    BY <1>1, <2>3 DEF Ends
<1>3. Ends(L, i) <= n
  <2>1. Ends(L, i) > n => Ends(L, i) = n + Cardinality({})
    BY <1>1 DEF Chained, n
  <2>2. QED
    BY <1>1, <1>2, <2>1, NoIds
<1>4. \A j \in (i + 1) .. Ends(L, i) : j \in 1 .. n
  BY <1>1, <1>2, <1>3
<1>5. \A j \in (i + 1) .. Ends(L, i) : j <= n => HasResult(L[j])
  BY <1>1 DEF Chained, n
<1>6. (i + 1) .. Ends(L, i) \subseteq {j \in DOMAIN L : HasResult(L[j])}
  BY <1>1, <1>4, <1>5
<1>7. d # "ollama" => Given(L, i + 1, Ends(L, i)) = IdsOf(Calls(L[i].blocks))
  BY <1>1, <1>3 DEF Chained, n
<1>8. HasResult(L[i]) => \E k \in 1 .. (i - 1) : i \in (k + 1) .. Ends(L, k)
  BY <1>1 DEF Chained
<1>9. QED
  BY <1>6, <1>7, <1>8

\* What an upstream is asked is what the story is sent as.
LEMMA AskedIsSent ==
  ASSUME CInv, state = "asked"
  PROVE  /\ dialect \in Providers
         /\ request.messages = Sent(dialect) /\ request.messages \in Seq(AskedMessages)
<1> DEFINE d == dialect
           p == Sends(d)
           q == UnitOf(api)
           u == UnifiedOf(api, history)
<1>1. /\ d \in Providers /\ request = ToRequest(d, u)
      /\ u = Joint(q, story) /\ u \in Seq(Messages) /\ story \in Seq(Entries)
  BY UnifiedIs, ConversationAssumption DEF CInv, Providers
<1>2. p \in [Messages -> Seq(AskedMessages)] /\ q \in [Entries -> Seq(Messages)]
  BY SendsTyped, UnitTyped
<1>3. request.messages = Joint(p, u)
  <2> HIDE DEF u
  <2>1. QED
    BY <1>1, MessagesAre DEF Providers
<1>4. Sent(d) = Joint(Twice(p, q), story)
  BY DEF Sent
<1> HIDE DEF p, q, u
<1>5. /\ Joint(p, Joint(q, story)) = Joint(Twice(p, q), story)
      /\ Twice(p, q) \in [Entries -> Seq(AskedMessages)]
  BY <1>1, <1>2, JointOfJoint
<1>6. Joint(p, u) \in Seq(AskedMessages)
  BY <1>1, <1>2, JointTyped
<1>7. QED
  BY <1>1, <1>3, <1>4, <1>5, <1>6

\* Theorem: whatever the client's endpoint makes of its turns, an assistant
\* message is followed by the results of its calls, and a result comes
\* nowhere else.
THEOREM ResultsStandBehindCalls == Spec => []ResultsFollowCalls
<1>1. PInv => ResultsFollowCalls
  <2>1. SUFFICES ASSUME PInv PROVE ResultsFollowCalls
    OBVIOUS
  <2>2. CASE state = "asked"
    <3> DEFINE L == request.messages
               d == dialect
    <3>1. d \in Providers /\ L = Sent(d) /\ L \in Seq(AskedMessages) /\ Pending = {}
      BY <2>1, <2>2, AskedIsSent DEF PInv
    <3>2. Chained(d, L, {})
      BY <2>1, <3>1 DEF PInv
    <3> HIDE DEF L, d
    <3>3. ASSUME NEW i \in DOMAIN L
          PROVE  /\ (i + 1) .. Ends(L, i) \subseteq {j \in DOMAIN L : HasResult(L[j])}
                 /\ d # "ollama" => Given(L, i + 1, Ends(L, i)) = IdsOf(Calls(L[i].blocks))
                 /\ HasResult(L[i]) => \E k \in 1 .. (i - 1) : i \in (k + 1) .. Ends(L, k)
      BY <3>1, <3>2, ChainComplete
    <3>4. QED
      BY <3>3 DEF ResultsFollowCalls, Ends, Given, IdsOf, L, d
  <2>3. CASE state # "asked"
    <3>1. request.messages = <<>>
      BY <2>1, <2>3 DEF PInv, CInv, NoRequest
    <3>2. DOMAIN request.messages = {}
      BY <3>1
    <3>3. QED
      BY <3>2 DEF ResultsFollowCalls
  <2>4. QED
    BY <2>2, <2>3
<1>2. QED
  BY <1>1, PInvAlways, PTL

===============================================================================
