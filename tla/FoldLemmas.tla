----------------------------- MODULE FoldLemmas -----------------------------
(* Induction on the natural numbers, and what folds over sequences compute:  *)
(* for the modules whose operators are folds.                                 *)
EXTENDS Naturals, SequencesExt, WellFoundedInduction, TLAPS

\* Induction, stated with the set of the numbers that have the property.
LEMMA NatInd ==
  ASSUME NEW S \in SUBSET Nat, 0 \in S, \A n \in S : n + 1 \in S
  PROVE  S = Nat
<1> SUFFICES ASSUME S # Nat PROVE FALSE
    OBVIOUS
<1> DEFINE B == Nat \ S
<1>1. B \subseteq Nat /\ B # {}
  OBVIOUS
<1>2. PICK m \in B : \A k \in B : <<k, m>> \notin OpToRel(<, Nat)
  BY <1>1, NatLessThanWellFounded, WFMin
<1>3. \A k \in B : ~(k < m)
  BY <1>1, <1>2 DEF OpToRel
<1>4. m # 0 /\ m - 1 \in Nat /\ m - 1 < m /\ (m - 1) + 1 = m
  OBVIOUS
<1> QED BY <1>3, <1>4

\* Induction up to a bound.
LEMMA UpTo ==
  ASSUME NEW n \in Nat, NEW S, 0 \in S, \A k \in 0 .. n : k < n /\ k \in S => k + 1 \in S
  PROVE  \A k \in 0 .. n : k \in S
<1> DEFINE T == {k \in Nat : k <= n => k \in S}
<1>1. 0 \in T
  OBVIOUS
<1>2. ASSUME NEW k \in T PROVE k + 1 \in T
  <2>1. k \in Nat /\ k + 1 \in Nat /\ (k + 1 <= n => k < n /\ k \in 0 .. n /\ k <= n)
    OBVIOUS
  <2> QED BY <2>1
<1>3. T = Nat
  <2> HIDE DEF T
  <2>1. T \in SUBSET Nat
    BY DEF T
  <2> QED BY <1>1, <1>2, <2>1, NatInd
<1> QED BY <1>3

\* A set of positions that is not empty has a greatest one.
LEMMA SubsetHasMax ==
  ASSUME NEW n \in Nat, NEW t \in SUBSET (1 .. n), t # {}
  PROVE  Max(t) \in t
<1> DEFINE S == {k \in Nat : \A u \in SUBSET (1 .. k) : u # {} =>
                   \E x \in u : \A y \in u : x >= y}
<1>1. 0 \in S
  <2>1. 1 .. 0 = {}
    OBVIOUS
  <2> QED BY <2>1
<1>2. ASSUME NEW k \in S PROVE k + 1 \in S
  <2> SUFFICES ASSUME NEW u \in SUBSET (1 .. k + 1), u # {}
               PROVE  \E x \in u : \A y \in u : x >= y
      OBVIOUS
  <2>1. CASE k + 1 \in u
    BY <2>1
  <2>2. CASE k + 1 \notin u
    <3>1. u \in SUBSET (1 .. k)
      BY <2>2
    <3> QED BY <1>2, <3>1
  <2> QED BY <2>1, <2>2
<1>3. S = Nat
  <2>1. S \in SUBSET Nat
    OBVIOUS
  <2> HIDE DEF S
  <2> QED BY <1>1, <1>2, <2>1, NatInd
<1> QED BY <1>3 DEF Max

\* The greatest number up to k.
LEMMA MaxUpTo ==
  ASSUME NEW k \in Nat, NEW t \in SUBSET (1 .. k + 1), k + 1 \in t
  PROVE  Max(t) = k + 1
<1>1. \A y \in t : k + 1 >= y
  OBVIOUS
<1>2. \A x \in t : (\A y \in t : x >= y) => x = k + 1
  <2> SUFFICES ASSUME NEW x \in t, \A y \in t : x >= y
               PROVE  x = k + 1
      OBVIOUS
  <2>1. x >= k + 1 /\ k + 1 >= x /\ x \in Nat
    BY <1>1
  <2> QED BY <2>1
<1> QED BY <1>1, <1>2 DEF Max

\* The recursive function by which the community modules define a fold exists: for
\* every prefix of the sequence, so for the sequence.
FoldsWith(f, base, step, s, t) ==
  f[t] = IF t = {} THEN base ELSE step[f[t \ {Max(t)}], s[Max(t)]]

\* There is such a function for every sequence: one for each prefix, by induction.
LEMMA FoldExists ==
  ASSUME NEW A, NEW E, NEW base \in A, NEW step \in [A \X E -> A], NEW s \in Seq(E)
  PROVE  \E f \in [SUBSET (1 .. Len(s)) -> A] :
           \A t \in SUBSET (1 .. Len(s)) : FoldsWith(f, base, step, s, t)
<1> DEFINE n == Len(s)
           Good(k) == \E f \in [SUBSET (1 .. k) -> A] :
                        \A t \in SUBSET (1 .. k) : FoldsWith(f, base, step, s, t)
           S == {k \in 0 .. n : Good(k)}
<1>1. n \in Nat
  OBVIOUS
<1>2. Good(0)
  <2>1. 1 .. 0 = {}
    OBVIOUS
  <2>2. [t \in SUBSET (1 .. 0) |-> base] \in [SUBSET (1 .. 0) -> A]
    OBVIOUS
  <2> QED BY <2>1, <2>2 DEF FoldsWith
<1>3. ASSUME NEW k \in 0 .. n, k < n, Good(k)
      PROVE  Good(k + 1)
  <2>1. PICK f \in [SUBSET (1 .. k) -> A] :
               \A t \in SUBSET (1 .. k) : FoldsWith(f, base, step, s, t)
    BY <1>3
  <2>2. k \in Nat /\ k + 1 \in 1 .. n /\ s[k + 1] \in E
    BY <1>1, <1>3
  <2> DEFINE g == [t \in SUBSET (1 .. k + 1) |->
                     IF k + 1 \in t THEN step[f[t \ {k + 1}], s[k + 1]] ELSE f[t]]
  <2>3. \A t \in SUBSET (1 .. k + 1) :
          /\ k + 1 \in t => t \ {k + 1} \in SUBSET (1 .. k) /\ k + 1 \notin t \ {k + 1}
          /\ k + 1 \notin t => t \in SUBSET (1 .. k)
    BY <2>2
  <2>4. g \in [SUBSET (1 .. k + 1) -> A]
    BY <2>2, <2>3
  <2>5. ASSUME NEW t \in SUBSET (1 .. k + 1)
        PROVE  FoldsWith(g, base, step, s, t)
    <3>1. CASE k + 1 \in t
      <4>1. Max(t) = k + 1
        BY <2>2, <3>1, MaxUpTo
      <4>2. g[t] = step[f[t \ {k + 1}], s[k + 1]] /\ g[t \ {k + 1}] = f[t \ {k + 1}]
        BY <2>3, <3>1
      <4> HIDE DEF g
      <4> QED BY <3>1, <4>1, <4>2 DEF FoldsWith
    <3>2. CASE k + 1 \notin t
      <4>1. t \in SUBSET (1 .. k) /\ g[t] = f[t]
        BY <2>3, <3>2
      <4>2. t # {} => t \ {Max(t)} \in SUBSET (1 .. k) /\ k + 1 \notin t \ {Max(t)}
        BY <4>1, <3>2
      <4>3. t # {} => g[t \ {Max(t)}] = f[t \ {Max(t)}]
        <5>1. SUBSET (1 .. k) \subseteq SUBSET (1 .. k + 1)
          BY <2>2
        <5> QED BY <4>2, <5>1
      <4>4. FoldsWith(f, base, step, s, t)
        BY <2>1, <4>1
      <4> HIDE DEF g
      <4> QED BY <4>1, <4>3, <4>4 DEF FoldsWith
    <3> QED BY <3>1, <3>2
  <2> QED BY <2>4, <2>5
<1>4. \A k \in 0 .. n : k \in S
  <2>1. 0 \in S /\ \A k \in 0 .. n : k < n /\ k \in S => k + 1 \in S
    <3> HIDE DEF Good
    <3> QED BY <1>1, <1>2, <1>3
  <2> HIDE DEF S
  <2> QED BY <1>1, <2>1, UpTo
<1>5. n \in S
  <2> HIDE DEF S
  <2> QED BY <1>1, <1>4
<1>6. Good(n)
  <2> HIDE DEF Good
  <2> QED BY <1>5
<1> QED BY <1>6

----------------------------------------------------------------------------
(* Joining: what FlattenSeq computes *)

\* Induction over sequences, stated with the set of the sequences that have the
\* property.
LEMMA SeqInd ==
  ASSUME NEW E, NEW T, << >> \in T,
         \A s \in Seq(E), x \in E : s \in T => Append(s, x) \in T
  PROVE  \A s \in Seq(E) : s \in T
<1> DEFINE S == {n \in Nat : \A s \in Seq(E) : Len(s) = n => s \in T}
<1>1. 0 \in S
  <2>1. \A s \in Seq(E) : Len(s) = 0 => s = << >>
    OBVIOUS
  <2> QED BY <2>1
<1>2. ASSUME NEW n \in S PROVE n + 1 \in S
  <2> SUFFICES ASSUME NEW s \in Seq(E), Len(s) = n + 1 PROVE s \in T
      OBVIOUS
  <2>1. n \in Nat /\ DOMAIN s = 1 .. n + 1
    OBVIOUS
  <2>2. PICK t \in Seq(E) : t = [k \in 1 .. n |-> s[k]]
    <3>1. [k \in 1 .. n |-> s[k]] \in Seq(E)
      BY <2>1
    <3> QED BY <3>1
  <2>3. Len(t) = n /\ t \in T
    BY <2>1, <2>2
  <2>4. PICK x \in E : x = s[n + 1]
    BY <2>1
  <2>5. s = Append(t, x)
    BY <2>1, <2>2, <2>3, <2>4
  <2> QED BY <2>3, <2>5
<1>3. S = Nat
  <2>1. S \in SUBSET Nat
    OBVIOUS
  <2> HIDE DEF S
  <2> QED BY <1>1, <1>2, <2>1, NatInd
<1> QED
  <2> SUFFICES ASSUME NEW s \in Seq(E) PROVE s \in T
      OBVIOUS
  <2>1. Len(s) \in S
    BY <1>3
  <2> QED BY <2>1

\* The recursive function by which the community modules join sequences.
JoinsUpTo(f, q, n) ==
  \A i \in 1 .. n : f[i] = IF i = 1 THEN q[i] ELSE f[i - 1] \o q[i]

\* There is such a function for every sequence of sequences.
LEMMA JoinExists ==
  ASSUME NEW A, NEW q \in Seq(Seq(A))
  PROVE  \E f \in [1 .. Len(q) -> Seq(A)] : JoinsUpTo(f, q, Len(q))
<1> DEFINE n == Len(q)
           Good(k) == \E f \in [1 .. k -> Seq(A)] : JoinsUpTo(f, q, k)
           S == {k \in 0 .. n : Good(k)}
<1>1. n \in Nat
  OBVIOUS
<1>2. Good(0)
  <2>1. 1 .. 0 = {}
    OBVIOUS
  <2>2. [i \in 1 .. 0 |-> << >>] \in [1 .. 0 -> Seq(A)]
    BY <2>1
  <2> QED BY <2>1, <2>2 DEF JoinsUpTo
<1>3. ASSUME NEW k \in 0 .. n, k < n, Good(k)
      PROVE  Good(k + 1)
  <2>1. PICK f \in [1 .. k -> Seq(A)] : JoinsUpTo(f, q, k)
    BY <1>3
  <2>2. k \in Nat /\ k + 1 \in 1 .. n /\ q[k + 1] \in Seq(A)
    BY <1>1, <1>3
  <2> DEFINE g == [i \in 1 .. k + 1 |->
                     IF i = k + 1 THEN IF k = 0 THEN q[k + 1] ELSE f[k] \o q[k + 1]
                     ELSE f[i]]
  <2>3. \A i \in 1 .. k + 1 : i = k + 1 \/ i \in 1 .. k
    BY <2>2
  <2>4. k # 0 => k \in 1 .. k
    BY <2>2
  <2>5. \A i \in 1 .. k : i \in 1 .. k + 1 /\ i # k + 1 /\ (i # 1 => i - 1 \in 1 .. k)
    BY <2>2
  <2>6. k # 0 => f[k] \o q[k + 1] \in Seq(A)
    <3>1. k # 0 => f[k] \in Seq(A)
      BY <2>4
    <3> QED BY <2>2, <3>1
  <2>7. g \in [1 .. k + 1 -> Seq(A)]
    BY <2>2, <2>3, <2>6
  <2>8. /\ \A i \in 1 .. k : g[i] = f[i]
        /\ g[k + 1] = IF k = 0 THEN q[k + 1] ELSE f[k] \o q[k + 1]
    <3>1. \A i \in 1 .. k : g[i] = f[i]
      BY <2>5
    <3>2. k + 1 \in 1 .. k + 1
      BY <2>2
    <3> QED BY <3>1, <3>2
  <2> HIDE DEF g
  <2>9. JoinsUpTo(g, q, k + 1)
    <3> SUFFICES ASSUME NEW i \in 1 .. k + 1
                 PROVE  g[i] = IF i = 1 THEN q[i] ELSE g[i - 1] \o q[i]
        BY DEF JoinsUpTo
    <3>1. CASE i = k + 1
      <4>1. (k = 0 <=> i = 1) /\ i - 1 = k
        BY <2>2, <3>1
      <4> QED BY <2>4, <2>8, <3>1, <4>1
    <3>2. CASE i \in 1 .. k
      BY <2>1, <2>5, <2>8, <3>2 DEF JoinsUpTo
    <3> QED BY <2>3, <3>1, <3>2
  <2> QED BY <2>7, <2>9
<1>4. n \in S
  <2>1. 0 \in S /\ \A k \in 0 .. n : k < n /\ k \in S => k + 1 \in S
    <3> HIDE DEF Good
    <3> QED BY <1>1, <1>2, <1>3
  <2>2. n \in 0 .. n
    BY <1>1
  <2> HIDE DEF S
  <2>3. \A k \in 0 .. n : k \in S
    BY <1>1, <2>1, UpTo
  <2> QED BY <2>2, <2>3
<1>5. Good(n)
  <2> HIDE DEF Good
  <2> QED BY <1>4
<1> QED BY <1>5

\* What has been joined, part by part.
LEMMA JoinSteps ==
  ASSUME NEW A, NEW q \in Seq(Seq(A))
  PROVE  \E g \in [0 .. Len(q) -> Seq(A)] :
           /\ g[0] = << >>
           /\ \A k \in 0 .. Len(q) : k < Len(q) => g[k + 1] = g[k] \o q[k + 1]
           /\ g[Len(q)] = FlattenSeq(q)
<1> DEFINE n == Len(q)
           F(f) == [i \in 1 .. n |-> IF i = 1 THEN q[i] ELSE f[i - 1] \o q[i]]
           join == CHOOSE f : f = F(f)
<1>1. n \in Nat
  OBVIOUS
<1>2. FlattenSeq(q) = IF n = 0 THEN << >> ELSE join[n]
  <2>1. n = 0 => q = << >>
    OBVIOUS
  <2> QED BY <2>1 DEF FlattenSeq
<1>3. join = F(join) /\ \A i \in 1 .. n : join[i] \in Seq(A)
  <2>1. PICK f \in [1 .. n -> Seq(A)] : JoinsUpTo(f, q, n)
    BY JoinExists
  <2>2. f = F(f)
    BY <2>1 DEF JoinsUpTo
  <2>3. join = F(join)
    <3> HIDE DEF F
    <3> QED BY <2>2
  <2> HIDE DEF join
  <2> DEFINE S == {i \in 0 .. n : i = 0 \/ join[i] \in Seq(A)}
  <2>4. \A i \in 1 .. n : join[i] = IF i = 1 THEN q[i] ELSE join[i - 1] \o q[i]
    BY <2>3
  <2>5. 0 \in S
    BY <1>1
  <2>6. ASSUME NEW k \in 0 .. n, k < n, k \in S PROVE k + 1 \in S
    <3>1. k + 1 \in 1 .. n /\ k + 1 \in 0 .. n /\ (k + 1) - 1 = k /\ (k = 0 <=> k + 1 = 1)
      BY <1>1, <2>6
    <3>2. q[k + 1] \in Seq(A)
      BY <3>1
    <3>3. join[k + 1] = IF k = 0 THEN q[k + 1] ELSE join[k] \o q[k + 1]
      BY <2>4, <3>1
    <3>4. k # 0 => join[k] \in Seq(A)
      BY <2>6
    <3>5. join[k + 1] \in Seq(A)
      BY <3>2, <3>3, <3>4
    <3> QED BY <3>1, <3>5
  <2>7. \A k \in 0 .. n : k \in S
    <3> HIDE DEF S
    <3> QED BY <1>1, <2>5, <2>6, UpTo
  <2>8. \A i \in 1 .. n : i \in 0 .. n /\ i # 0
    BY <1>1
  <2> QED BY <2>3, <2>7, <2>8
<1> DEFINE g == [k \in 0 .. n |-> IF k = 0 THEN << >> ELSE join[k]]
<1>4. \A i \in 1 .. n : join[i] = IF i = 1 THEN q[i] ELSE join[i - 1] \o q[i]
  <2>1. join = F(join)
    BY <1>3
  <2> HIDE DEF join
  <2> QED BY <2>1
<1> HIDE DEF join
<1>5. \A k \in 0 .. n : k = 0 \/ k \in 1 .. n
  BY <1>1
<1>6. g \in [0 .. n -> Seq(A)]
  <2>1. << >> \in Seq(A)
    OBVIOUS
  <2> QED BY <1>3, <1>5, <2>1
<1>7. g[0] = << >> /\ \A k \in 1 .. n : g[k] = join[k]
  BY <1>1
<1>8. ASSUME NEW k \in 0 .. n, k < n PROVE g[k + 1] = g[k] \o q[k + 1]
  <2>1. k + 1 \in 1 .. n /\ (k + 1) - 1 = k /\ (k = 0 <=> k + 1 = 1) /\ k \in Nat
    BY <1>1, <1>8
  <2>2. q[k + 1] \in Seq(A)
    BY <2>1
  <2>3. k # 0 => k \in 1 .. n
    BY <1>5
  <2>4. << >> \o q[k + 1] = q[k + 1]
    BY <2>2
  <2> HIDE DEF g
  <2> QED BY <1>4, <1>7, <2>1, <2>3, <2>4
<1>9. g[n] = FlattenSeq(q)
  <2>1. n # 0 => n \in 1 .. n
    BY <1>1
  <2> HIDE DEF g
  <2> QED BY <1>2, <1>7, <2>1
<1> QED BY <1>6, <1>7, <1>8, <1>9

\* Joining one sequence more.
LEMMA FlattenAppend ==
  ASSUME NEW A, NEW q \in Seq(Seq(A)), NEW x \in Seq(A)
  PROVE  /\ FlattenSeq(q) \in Seq(A)
         /\ FlattenSeq(Append(q, x)) = FlattenSeq(q) \o x
<1>1. PICK n \in Nat : n = Len(q)
  OBVIOUS
<1>2. PICK g \in [0 .. n -> Seq(A)] :
         /\ g[0] = << >>
         /\ \A k \in 0 .. n : k < n => g[k + 1] = g[k] \o q[k + 1]
         /\ g[n] = FlattenSeq(q)
  BY <1>1, JoinSteps
<1>3. PICK r \in Seq(Seq(A)) : r = Append(q, x)
  <2>1. Append(q, x) \in Seq(Seq(A))
    OBVIOUS
  <2> QED BY <2>1
<1>4. Len(r) = n + 1 /\ r[n + 1] = x /\ \A k \in 1 .. n : r[k] = q[k]
  BY <1>1, <1>3
<1>5. PICK h \in [0 .. n + 1 -> Seq(A)] :
         /\ h[0] = << >>
         /\ \A k \in 0 .. n + 1 : k < n + 1 => h[k + 1] = h[k] \o r[k + 1]
         /\ h[n + 1] = FlattenSeq(r)
  <2>1. \E h \in [0 .. Len(r) -> Seq(A)] :
         /\ h[0] = << >>
         /\ \A k \in 0 .. Len(r) : k < Len(r) => h[k + 1] = h[k] \o r[k + 1]
         /\ h[Len(r)] = FlattenSeq(r)
    BY JoinSteps
  <2>2. Len(r) = n + 1
    BY <1>4
  <2> QED BY <2>1, <2>2
<1> DEFINE S == {k \in 0 .. n : h[k] = g[k]}
<1>6. 0 \in S
  BY <1>2, <1>5
<1>7. ASSUME NEW k \in 0 .. n, k < n, k \in S PROVE k + 1 \in S
  <2>1. k + 1 \in 1 .. n /\ k + 1 \in 0 .. n /\ k \in 0 .. n + 1 /\ k < n + 1
    BY <1>7
  <2> QED BY <1>2, <1>4, <1>5, <1>7, <2>1
<1>8. h[n] = g[n]
  <2>1. n \in 0 .. n
    OBVIOUS
  <2> HIDE DEF S
  <2>2. \A k \in 0 .. n : k \in S
    BY <1>6, <1>7, UpTo
  <2> QED BY <2>1, <2>2 DEF S
<1>9. h[n + 1] = h[n] \o x
  <2>1. n \in 0 .. n + 1 /\ n < n + 1
    OBVIOUS
  <2> QED BY <1>4, <1>5, <2>1
<1>10. g[n] \in Seq(A)
  <2>1. n \in 0 .. n
    OBVIOUS
  <2> QED BY <2>1
<1> QED BY <1>2, <1>3, <1>5, <1>8, <1>9, <1>10

----------------------------------------------------------------------------
(* Flat maps: what is made of each element of a sequence, joined *)

\* What F makes of each element, joined in their order.
FlatMap(F, s) == FlattenSeq([k \in DOMAIN s |-> F[s[k]]])

\* F makes a sequence over A of each element of E.
Makes(F, E, A) == F \in [E -> Seq(A)]

Maps(h, E, A) == h \in [E -> A]

\* K keeps the elements in P, H makes of each of them what G makes (or the one element
\* that g makes of it).
Keeps(K, P, E)       == K = [x \in E |-> IF x \in P THEN <<x>> ELSE << >>]
KeepsMaking(H, G, P, E)  == H = [x \in E |-> IF x \in P THEN G[x] ELSE << >>]
KeepsMapping(H, g, P, E) == H = [x \in E |-> IF x \in P THEN <<g[x]>> ELSE << >>]

\* What h makes of each element, in their order.
Mapped(h, s) == [k \in DOMAIN s |-> h[s[k]]]

\* H makes of an element what G makes of what F makes of it.
Composes(H, G, F, E) == \A x \in E : H[x] = FlatMap(G, F[x])

\* F makes one element of each.
MakesOne(F, h, E) == \A x \in E : F[x] = <<h[x]>>

\* Nothing is made of nothing.
LEMMA FlatMapNone ==
  ASSUME NEW F
  PROVE  FlatMap(F, << >>) = << >>
<1>1. [k \in DOMAIN << >> |-> F[<< >>[k]]] = << >>
  OBVIOUS
<1>2. FlattenSeq(<< >>) = << >>
  BY DEF FlattenSeq
<1> QED BY <1>1, <1>2 DEF FlatMap

\* A flat map is a sequence over what is made.
LEMMA FlatMapType ==
  ASSUME NEW E, NEW A, NEW F, Makes(F, E, A), NEW s \in Seq(E)
  PROVE  FlatMap(F, s) \in Seq(A)
<1>1. [k \in DOMAIN s |-> F[s[k]]] \in Seq(Seq(A))
  <2>1. PICK n \in Nat : n = Len(s) /\ DOMAIN s = 1 .. n
    OBVIOUS
  <2>2. \A k \in 1 .. n : F[s[k]] \in Seq(A)
    BY <2>1 DEF Makes
  <2> QED BY <2>1, <2>2
<1>2. PICK q \in Seq(Seq(A)) : q = [k \in DOMAIN s |-> F[s[k]]]
  BY <1>1
<1>3. << >> \in Seq(A)
  OBVIOUS
<1>4. FlattenSeq(q) \in Seq(A)
  BY <1>3, FlattenAppend
<1> QED BY <1>2, <1>4 DEF FlatMap

\* A flat map, element by element.
LEMMA FlatMapAppend ==
  ASSUME NEW E, NEW A, NEW F, Makes(F, E, A), NEW s \in Seq(E), NEW x \in E
  PROVE  FlatMap(F, Append(s, x)) = FlatMap(F, s) \o F[x]
<1>2. PICK q : q = [k \in DOMAIN s |-> F[s[k]]]
  OBVIOUS
<1>3. q \in Seq(Seq(A)) /\ F[x] \in Seq(A)
  BY <1>2 DEF Makes
<1>4. [k \in DOMAIN Append(s, x) |-> F[Append(s, x)[k]]] = Append(q, F[x])
  <2>1. PICK n \in Nat : n = Len(s)
    OBVIOUS
  <2>2. PICK t : t = Append(s, x)
    OBVIOUS
  <2>3. /\ DOMAIN s = 1 .. n /\ DOMAIN t = 1 .. n + 1 /\ t[n + 1] = x
        /\ \A k \in 1 .. n : t[k] = s[k]
    BY <2>1, <2>2
  <2>4. PICK u : u = Append(q, F[x])
    OBVIOUS
  <2>5. Len(q) = n /\ DOMAIN q = 1 .. n /\ \A k \in 1 .. n : q[k] = F[s[k]]
    BY <1>2, <1>3, <2>1, <2>3
  <2>6. /\ u = [k \in 1 .. n + 1 |-> u[k]] /\ u[n + 1] = F[x]
        /\ \A k \in 1 .. n : u[k] = q[k]
    BY <1>3, <2>4, <2>5
  <2>7. \A k \in 1 .. n + 1 : k \in 1 .. n \/ k = n + 1
    OBVIOUS
  <2>8. \A k \in 1 .. n + 1 : u[k] = F[t[k]]
    BY <2>3, <2>5, <2>6, <2>7
  <2>9. u = [k \in 1 .. n + 1 |-> F[t[k]]]
    BY <2>6, <2>8
  <2> QED BY <2>2, <2>3, <2>4, <2>9
<1> QED BY <1>2, <1>3, <1>4, FlattenAppend DEF FlatMap

\* The flat map of one element.
LEMMA FlatMapOne ==
  ASSUME NEW E, NEW A, NEW F, Makes(F, E, A), NEW x \in E
  PROVE  FlatMap(F, <<x>>) = F[x]
<1>1. << >> \in Seq(E) /\ Append(<< >>, x) = <<x>> /\ F[x] \in Seq(A)
  BY DEF Makes
<1>2. << >> \o F[x] = F[x]
  BY <1>1
<1>3. FlatMap(F, Append(<< >>, x)) = FlatMap(F, << >>) \o F[x] /\ FlatMap(F, << >>) = << >>
  BY <1>1, FlatMapAppend, FlatMapNone
<1> QED BY <1>1, <1>2, <1>3

\* A flat map distributes over concatenation.
LEMMA FlatMapConcat ==
  ASSUME NEW E, NEW A, NEW F, Makes(F, E, A), NEW s \in Seq(E), NEW t \in Seq(E)
  PROVE  FlatMap(F, s \o t) = FlatMap(F, s) \o FlatMap(F, t)
<1> DEFINE T == {u \in Seq(E) : FlatMap(F, s \o u) = FlatMap(F, s) \o FlatMap(F, u)}
<1>1. << >> \in T
  <2>1. << >> \in Seq(E) /\ s \o << >> = s
    OBVIOUS
  <2>2. FlatMap(F, << >>) = << >>
    BY FlatMapNone
  <2>3. FlatMap(F, s) \in Seq(A)
    BY FlatMapType
  <2>4. FlatMap(F, s) \o << >> = FlatMap(F, s)
    BY <2>3
  <2> QED BY <2>1, <2>2, <2>4
<1>2. ASSUME NEW u \in Seq(E), NEW x \in E, u \in T
      PROVE  Append(u, x) \in T
  <2>1. PICK v \in Seq(E) : v = s \o u
    <3>1. s \o u \in Seq(E)
      OBVIOUS
    <3> QED BY <3>1
  <2>2. s \o Append(u, x) = Append(v, x) /\ Append(u, x) \in Seq(E)
    BY <2>1
  <2>3. FlatMap(F, Append(v, x)) = FlatMap(F, v) \o F[x]
    BY FlatMapAppend
  <2>4. FlatMap(F, Append(u, x)) = FlatMap(F, u) \o F[x]
    BY FlatMapAppend
  <2>5. PICK a \in Seq(A), b \in Seq(A), c \in Seq(A) :
          a = FlatMap(F, s) /\ b = FlatMap(F, u) /\ c = F[x]
    BY FlatMapType DEF Makes
  <2>6. (a \o b) \o c = a \o (b \o c)
    OBVIOUS
  <2>7. FlatMap(F, v) = a \o b
    BY <1>2, <2>1, <2>5
  <2> QED BY <2>2, <2>3, <2>4, <2>5, <2>6, <2>7
<1>3. t \in T
  <2> HIDE DEF T
  <2> QED BY <1>1, <1>2, SeqInd
<1> QED BY <1>3

\* The flat map of a flat map.
LEMMA FlatMapTwice ==
  ASSUME NEW E, NEW A, NEW B, NEW F, Makes(F, E, A), NEW G, Makes(G, A, B),
         NEW H, Makes(H, E, B), Composes(H, G, F, E),
         NEW s \in Seq(E)
  PROVE  FlatMap(G, FlatMap(F, s)) = FlatMap(H, s)
<1> DEFINE T == {u \in Seq(E) : FlatMap(G, FlatMap(F, u)) = FlatMap(H, u)}
<1>1. << >> \in T
  <2>1. << >> \in Seq(E)
    OBVIOUS
  <2> QED BY <2>1, FlatMapNone
<1>2. ASSUME NEW u \in Seq(E), NEW x \in E, u \in T
      PROVE  Append(u, x) \in T
  <2>1. Append(u, x) \in Seq(E)
    OBVIOUS
  <2>2. /\ FlatMap(F, u) \in Seq(A) /\ F[x] \in Seq(A)
        /\ FlatMap(F, Append(u, x)) = FlatMap(F, u) \o F[x]
    <3>1. FlatMap(F, u) \in Seq(A)
      BY FlatMapType
    <3>2. F[x] \in Seq(A)
      BY DEF Makes
    <3> QED BY <3>1, <3>2, FlatMapAppend
  <2>3. FlatMap(G, FlatMap(F, u) \o F[x]) = FlatMap(G, FlatMap(F, u)) \o FlatMap(G, F[x])
    <3>1. \A a, b \in Seq(A) : FlatMap(G, a \o b) = FlatMap(G, a) \o FlatMap(G, b)
      BY FlatMapConcat
    <3> QED BY <2>2, <3>1
  <2>4. FlatMap(H, Append(u, x)) = FlatMap(H, u) \o H[x]
    BY FlatMapAppend
  <2> QED BY <1>2, <2>1, <2>2, <2>3, <2>4 DEF Composes
<1>3. s \in T
  <2> HIDE DEF T
  <2> QED BY <1>1, <1>2, SeqInd
<1> QED BY <1>3

\* A flat map that makes one element of each is a map.
LEMMA FlatMapOnes ==
  ASSUME NEW E, NEW A, NEW h, Maps(h, E, A), NEW F, Makes(F, E, A),
         MakesOne(F, h, E), NEW s \in Seq(E)
  PROVE  FlatMap(F, s) = Mapped(h, s)
<1> DEFINE T == {u \in Seq(E) : FlatMap(F, u) = [k \in DOMAIN u |-> h[u[k]]]}
<1>1. << >> \in T
  <2>1. << >> \in Seq(E) /\ DOMAIN << >> = {}
    OBVIOUS
  <2>2. [k \in DOMAIN << >> |-> h[<< >>[k]]] = << >>
    OBVIOUS
  <2> QED BY <2>1, <2>2, FlatMapNone
<1>2. ASSUME NEW u \in Seq(E), NEW x \in E, u \in T
      PROVE  Append(u, x) \in T
  <2>1. PICK t \in Seq(E) : t = Append(u, x)
    <3>1. Append(u, x) \in Seq(E)
      OBVIOUS
    <3> QED BY <3>1
  <2>2. PICK n \in Nat : n = Len(u)
    OBVIOUS
  <2>3. /\ DOMAIN u = 1 .. n /\ DOMAIN t = 1 .. n + 1 /\ t[n + 1] = x
        /\ \A k \in 1 .. n : t[k] = u[k]
    BY <2>1, <2>2
  <2>4. PICK a \in Seq(A) : a = FlatMap(F, u)
    BY FlatMapType
  <2>5. Len(a) = n /\ \A k \in 1 .. n : a[k] = h[u[k]]
    <3>1. a = [k \in 1 .. n |-> h[u[k]]]
      BY <1>2, <2>3, <2>4
    <3>2. DOMAIN a = 1 .. n /\ DOMAIN a = 1 .. Len(a) /\ Len(a) \in Nat
      BY <3>1
    <3> QED BY <3>1, <3>2
  <2>6. h[x] \in A
    BY DEF Maps
  <2>7. PICK b : b = a \o <<h[x]>>
    OBVIOUS
  <2>8. /\ b = [k \in 1 .. n + 1 |-> b[k]] /\ b[n + 1] = h[x]
        /\ \A k \in 1 .. n : b[k] = a[k]
    BY <2>5, <2>6, <2>7
  <2>9. \A k \in 1 .. n + 1 : k \in 1 .. n \/ k = n + 1
    OBVIOUS
  <2>10. \A k \in 1 .. n + 1 : b[k] = h[t[k]]
    BY <2>3, <2>5, <2>8, <2>9
  <2>11. b = [k \in DOMAIN t |-> h[t[k]]]
    BY <2>3, <2>8, <2>10
  <2>12. FlatMap(F, t) = b
    <3>1. FlatMap(F, Append(u, x)) = FlatMap(F, u) \o F[x]
      BY FlatMapAppend
    <3> QED BY <2>1, <2>4, <2>7, <3>1 DEF MakesOne
  <2> QED BY <2>1, <2>11, <2>12
<1>3. s \in T
  <2> HIDE DEF T
  <2> QED BY <1>1, <1>2, SeqInd
<1> QED BY <1>3 DEF Mapped

\* A flat map is empty when it makes nothing of any element.
LEMMA FlatMapEmpty ==
  ASSUME NEW E, NEW A, NEW F, Makes(F, E, A), NEW s \in Seq(E)
  PROVE  FlatMap(F, s) = << >> <=> \A k \in DOMAIN s : F[s[k]] = << >>
<1> DEFINE T == {u \in Seq(E) : FlatMap(F, u) = << >> <=> \A k \in DOMAIN u : F[u[k]] = << >>}
<1>1. << >> \in T
  <2>1. << >> \in Seq(E) /\ DOMAIN << >> = {}
    OBVIOUS
  <2> QED BY <2>1, FlatMapNone
<1>2. ASSUME NEW u \in Seq(E), NEW x \in E, u \in T
      PROVE  Append(u, x) \in T
  <2>1. PICK t \in Seq(E) : t = Append(u, x)
    <3>1. Append(u, x) \in Seq(E)
      OBVIOUS
    <3> QED BY <3>1
  <2>2. PICK n \in Nat : n = Len(u)
    OBVIOUS
  <2>3. /\ DOMAIN u = 1 .. n /\ DOMAIN t = 1 .. n + 1 /\ t[n + 1] = x
        /\ \A k \in 1 .. n : t[k] = u[k]
    BY <2>1, <2>2
  <2>4. PICK a \in Seq(A), b \in Seq(A) : a = FlatMap(F, u) /\ b = F[x]
    BY FlatMapType DEF Makes
  <2>5. a \o b = << >> <=> a = << >> /\ b = << >>
    OBVIOUS
  <2>6. \A k \in 1 .. n + 1 : k \in 1 .. n \/ k = n + 1
    OBVIOUS
  <2>7. \A k \in 1 .. n : k \in 1 .. n + 1
    OBVIOUS
  <2>8. FlatMap(F, t) = a \o b
    <3>1. FlatMap(F, Append(u, x)) = FlatMap(F, u) \o F[x]
      BY FlatMapAppend
    <3> QED BY <2>1, <2>4, <3>1
  <2>9. n + 1 \in 1 .. n + 1
    OBVIOUS
  <2>10. (\A k \in DOMAIN t : F[t[k]] = << >>)
           <=> (\A k \in DOMAIN u : F[u[k]] = << >>) /\ b = << >>
    BY <2>3, <2>4, <2>6, <2>7, <2>9
  <2>11. a = << >> <=> \A k \in DOMAIN u : F[u[k]] = << >>
    BY <1>2, <2>4
  <2> QED BY <2>1, <2>5, <2>8, <2>10, <2>11
<1>3. s \in T
  <2> HIDE DEF T
  <2> QED BY <1>1, <1>2, SeqInd
<1> QED BY <1>3

\* Keeping some elements and making something of each of them is one pass.
LEMMA KeepThenMake ==
  ASSUME NEW E, NEW A, NEW P \in SUBSET E, NEW K, Keeps(K, P, E),
         NEW G, Makes(G, P, A), NEW H, KeepsMaking(H, G, P, E), NEW s \in Seq(E)
  PROVE  /\ FlatMap(K, s) \in Seq(P)
         /\ Makes(H, E, A)
         /\ FlatMap(G, FlatMap(K, s)) = FlatMap(H, s)
<1>1. Makes(K, E, P)
  <2>1. \A x \in P : <<x>> \in Seq(P)
    OBVIOUS
  <2>2. << >> \in Seq(P)
    OBVIOUS
  <2>3. \A x \in E : (IF x \in P THEN <<x>> ELSE << >>) \in Seq(P)
    BY <2>1, <2>2
  <2> QED BY <2>3 DEF Makes, Keeps
<1>2. Makes(H, E, A)
  <2>1. << >> \in Seq(A)
    OBVIOUS
  <2>2. \A x \in E : (IF x \in P THEN G[x] ELSE << >>) \in Seq(A)
    BY <2>1 DEF Makes
  <2> QED BY <2>2 DEF Makes, KeepsMaking
<1>3. Composes(H, G, K, E)
  <2> SUFFICES ASSUME NEW x \in E PROVE H[x] = FlatMap(G, K[x])
      BY DEF Composes
  <2>1. CASE x \in P
    <3>1. FlatMap(G, <<x>>) = G[x]
      BY <2>1, FlatMapOne
    <3> QED BY <2>1, <3>1 DEF Keeps, KeepsMaking
  <2>2. CASE x \notin P
    BY <2>2, FlatMapNone DEF Keeps, KeepsMaking
  <2> QED BY <2>1, <2>2
<1>4. FlatMap(K, s) \in Seq(P)
  BY <1>1, FlatMapType
<1>5. FlatMap(G, FlatMap(K, s)) = FlatMap(H, s)
  BY <1>1, <1>2, <1>3, FlatMapTwice
<1> QED BY <1>2, <1>4, <1>5

\* Keeping some elements and mapping each is the flat map that does both.
LEMMA KeepThenMap ==
  ASSUME NEW E, NEW A, NEW P \in SUBSET E, NEW K, Keeps(K, P, E),
         NEW g, Maps(g, P, A), NEW H, KeepsMapping(H, g, P, E), NEW s \in Seq(E)
  PROVE  /\ FlatMap(K, s) \in Seq(P)
         /\ Makes(H, E, A)
         /\ Mapped(g, FlatMap(K, s)) = FlatMap(H, s)
<1>1. PICK G : G = [x \in P |-> <<g[x]>>]
  OBVIOUS
<1>2. Makes(G, P, A)
  <2>1. \A x \in P : <<g[x]>> \in Seq(A)
    BY DEF Maps
  <2> QED BY <1>1, <2>1 DEF Makes
<1>3. KeepsMaking(H, G, P, E)
  BY <1>1 DEF KeepsMaking, KeepsMapping
<1>4. /\ FlatMap(K, s) \in Seq(P)
      /\ Makes(H, E, A)
      /\ FlatMap(G, FlatMap(K, s)) = FlatMap(H, s)
  BY <1>2, <1>3, KeepThenMake
<1>5. MakesOne(G, g, P)
  BY <1>1 DEF MakesOne
<1>6. FlatMap(G, FlatMap(K, s)) = Mapped(g, FlatMap(K, s))
  BY <1>2, <1>4, <1>5, FlatMapOnes
<1> QED BY <1>4, <1>6

\* Only what is made of the elements at hand matters.
LEMMA FlatMapSame ==
  ASSUME NEW F, NEW G, NEW s, \A k \in DOMAIN s : F[s[k]] = G[s[k]]
  PROVE  FlatMap(F, s) = FlatMap(G, s)
<1>1. [k \in DOMAIN s |-> F[s[k]]] = [k \in DOMAIN s |-> G[s[k]]]
  OBVIOUS
<1> QED BY <1>1 DEF FlatMap
=============================================================================
