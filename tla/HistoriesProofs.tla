--------------------------- MODULE HistoriesProofs ---------------------------
(* Theorems about Histories for every value of its constants. *)
EXTENDS Histories, FoldLemmas

----------------------------------------------------------------------------
(* What MergeMessages computes *)

\* A message more.
LEMMA AppendSet ==
  ASSUME NEW M, NEW h \in Seq(M), NEW m \in M
  PROVE  ToSet(Append(h, m)) = ToSet(h) \cup {m}
<1>1. PICK n \in Nat : n = Len(h)
  OBVIOUS
<1>2. PICK t : t = Append(h, m)
  OBVIOUS
<1>3. /\ DOMAIN h = 1 .. n /\ DOMAIN t = 1 .. n + 1 /\ t[n + 1] = m
      /\ \A k \in 1 .. n : t[k] = h[k]
  BY <1>1, <1>2
<1>4. 1 .. n + 1 = 1 .. n \cup {n + 1}
  OBVIOUS
<1>5. ToSet(t) = ToSet(h) \cup {m}
  BY <1>3, <1>4 DEF ToSet
<1> QED BY <1>2, <1>5

\* AddNew on sequences of messages.
LEMMA AddNewFacts ==
  ASSUME NEW M, NEW out \in Seq(M), NEW m \in M
  PROVE  /\ AddNew(out, m) \in Seq(M)
         /\ ToSet(AddNew(out, m)) = ToSet(out) \cup {m}
         /\ Len(out) <= Len(AddNew(out, m))
         /\ \A k \in DOMAIN out : k \in DOMAIN AddNew(out, m) /\ AddNew(out, m)[k] = out[k]
         /\ m \notin ToSet(out) => AddNew(out, m) = Append(out, m)
<1>1. CASE m \in ToSet(out)
  BY <1>1 DEF AddNew
<1>2. CASE m \notin ToSet(out)
  <2>1. AddNew(out, m) = Append(out, m)
    BY <1>2 DEF AddNew
  <2>2. /\ Len(Append(out, m)) = Len(out) + 1 /\ Append(out, m) \in Seq(M)
        /\ DOMAIN Append(out, m) = 1 .. Len(out) + 1 /\ DOMAIN out = 1 .. Len(out)
        /\ \A k \in 1 .. Len(out) : Append(out, m)[k] = out[k]
        /\ Append(out, m)[Len(out) + 1] = m /\ Len(out) \in Nat
    OBVIOUS
  <2>3. ToSet(Append(out, m)) = ToSet(out) \cup {m}
    BY AppendSet
  <2> QED BY <2>1, <2>2, <2>3
<1> QED BY <1>1, <1>2

\* The fold of a history, prefix by prefix.
LEMMA AddNewFold ==
  ASSUME NEW M, NEW s \in Seq(M)
  PROVE  \E g : /\ g[0] = << >>
                /\ \A k \in 0 .. Len(s) : k < Len(s) => g[k + 1] = AddNew(g[k], s[k + 1])
                /\ g[Len(s)] = FoldLeft(AddNew, << >>, s)
<1> DEFINE n == Len(s)
           F(f) == [t \in SUBSET (DOMAIN s) |->
                      IF t = {} THEN << >> ELSE AddNew(f[t \ {Max(t)}], s[Max(t)])]
           iter == CHOOSE f : f = F(f)
<1>1. n \in Nat /\ DOMAIN s = 1 .. n
  OBVIOUS
<1>2. FoldLeft(AddNew, << >>, s) = iter[DOMAIN s]
  BY DEF FoldLeft, MapThenFoldSet
<1>3. iter = F(iter)
  <2> DEFINE step == [p \in Seq(M) \X M |-> AddNew(p[1], p[2])]
  <2>1. step \in [Seq(M) \X M -> Seq(M)]
    BY AddNewFacts
  <2>2. \A out \in Seq(M), m \in M : step[out, m] = AddNew(out, m)
    OBVIOUS
  <2> HIDE DEF step
  <2>3. PICK f \in [SUBSET (1 .. n) -> Seq(M)] :
               \A t \in SUBSET (1 .. n) : FoldsWith(f, << >>, step, s, t)
    <3>1. << >> \in Seq(M)
      OBVIOUS
    <3> QED BY <2>1, <3>1, FoldExists
  <2>4. \A t \in SUBSET (1 .. n) :
          f[t] = IF t = {} THEN << >> ELSE AddNew(f[t \ {Max(t)}], s[Max(t)])
    <3> SUFFICES ASSUME NEW t \in SUBSET (1 .. n), t # {}
                 PROVE  f[t] = AddNew(f[t \ {Max(t)}], s[Max(t)])
        BY <2>3 DEF FoldsWith
    <3>1. f[t] = step[f[t \ {Max(t)}], s[Max(t)]]
      BY <2>3 DEF FoldsWith
    <3>2. Max(t) \in t
      BY <1>1, SubsetHasMax
    <3>3. s[Max(t)] \in M
      <4>1. PICK x \in 1 .. Len(s) : x = Max(t)
        BY <3>2
      <4> QED BY <4>1
    <3>4. f[t \ {Max(t)}] \in Seq(M)
      <4>1. t \ {Max(t)} \in SUBSET (1 .. n)
        OBVIOUS
      <4> QED BY <4>1
    <3> QED BY <2>2, <3>1, <3>3, <3>4
  <2>5. f = F(f)
    BY <1>1, <2>4
  <2> HIDE DEF F
  <2> QED BY <2>5
<1>4. ASSUME NEW k \in 0 .. n, k < n
      PROVE  iter[1 .. k + 1] = AddNew(iter[1 .. k], s[k + 1])
  <2>1. 1 .. k + 1 \in SUBSET (DOMAIN s) /\ 1 .. k + 1 # {} /\ (1 .. k + 1) \ {k + 1} = 1 .. k
    <3>1. k \in Nat /\ k + 1 <= n /\ k + 1 \in 1 .. k + 1
      BY <1>1, <1>4
    <3>2. 1 .. k + 1 \subseteq 1 .. n
      BY <1>1, <3>1
    <3>3. (1 .. k + 1) \ {k + 1} = 1 .. k
      BY <3>1
    <3> QED BY <1>1, <3>1, <3>2, <3>3
  <2>2. Max(1 .. k + 1) = k + 1
    BY MaxUpTo
  <2> HIDE DEF iter
  <2> QED BY <1>3, <2>1, <2>2
<1>5. iter[1 .. 0] = << >>
  <2>1. 1 .. 0 = {} /\ {} \in SUBSET (DOMAIN s)
    OBVIOUS
  <2> HIDE DEF iter
  <2> QED BY <1>3, <2>1
<1> DEFINE g == [k \in 0 .. n |-> iter[1 .. k]]
<1>6. /\ g[0] = << >>
      /\ \A k \in 0 .. n : k < n => g[k + 1] = AddNew(g[k], s[k + 1])
      /\ g[n] = FoldLeft(AddNew, << >>, s)
  <2> HIDE DEF iter
  <2>1. \A k \in 0 .. n : g[k] = iter[1 .. k]
    OBVIOUS
  <2>2. \A k \in 0 .. n : k < n => k + 1 \in 0 .. n
    OBVIOUS
  <2>3. 0 \in 0 .. n /\ n \in 0 .. n
    BY <1>1
  <2> HIDE DEF g
  <2> QED BY <1>1, <1>2, <1>4, <1>5, <2>1, <2>2, <2>3
<1> QED BY <1>6

\* No message twice.
Distinct(h) == \A i, j \in DOMAIN h : h[i] = h[j] => i = j

\* The messages before position k.
Before(h, k) == {h[i] : i \in 1 .. k - 1}

\* out holds the first k messages of s, each once, in the order in which they
\* first occur there.
FirstOnes(s, k, out) ==
  /\ ToSet(out) = Before(s, k + 1)
  /\ Distinct(out)
  /\ \A p \in DOMAIN out : \E j \in 1 .. k : s[j] = out[p] /\ Before(s, j) = Before(out, p)

\* One step of the loop: the first occurrences up to one element more.
LEMMA FirstOnesStep ==
  ASSUME NEW M, NEW s \in Seq(M), NEW k \in 0 .. Len(s), k < Len(s),
         NEW out \in Seq(M), FirstOnes(s, k, out)
  PROVE  FirstOnes(s, k + 1, AddNew(out, s[k + 1]))
<1>1. k + 1 \in 1 .. Len(s) /\ s[k + 1] \in M /\ k \in Nat
  OBVIOUS
<1>2. PICK m \in M : m = s[k + 1]
  BY <1>1
<1>3. Before(s, k + 2) = Before(s, k + 1) \cup {m}
  <2>1. 1 .. (k + 2) - 1 = (1 .. (k + 1) - 1) \cup {k + 1}
    BY <1>1
  <2> QED BY <1>2, <2>1 DEF Before
<1>4. ToSet(AddNew(out, m)) = Before(s, k + 2)
  <2>1. ToSet(AddNew(out, m)) = ToSet(out) \cup {m}
    BY AddNewFacts
  <2>2. ToSet(out) = Before(s, k + 1)
    BY DEF FirstOnes
  <2> QED BY <1>3, <2>1, <2>2
<1>5. CASE m \in ToSet(out)
  <2>1. AddNew(out, m) = out
    BY <1>5 DEF AddNew
  <2>2. \A j \in 1 .. k : j \in 1 .. k + 1
    BY <1>1
  <2>3. \A p \in DOMAIN out : \E j \in 1 .. k + 1 : s[j] = out[p] /\ Before(s, j) = Before(out, p)
    BY <2>2 DEF FirstOnes
  <2>4. (k + 1) + 1 = k + 2
    BY <1>1
  <2> QED BY <1>2, <1>4, <2>1, <2>3, <2>4 DEF FirstOnes
<1>6. CASE m \notin ToSet(out)
  <2>1. PICK n \in Nat : n = Len(out)
    OBVIOUS
  <2>2. PICK t : t = AddNew(out, m)
    OBVIOUS
  <2>3. /\ DOMAIN t = 1 .. n + 1 /\ DOMAIN out = 1 .. n
        /\ t[n + 1] = m /\ \A i \in 1 .. n : t[i] = out[i]
    <3>1. t = Append(out, m)
      BY <1>6, <2>2 DEF AddNew
    <3> QED BY <2>1, <3>1
  <2>4. Distinct(t)
    <3> SUFFICES ASSUME NEW i \in 1 .. n + 1, NEW j \in 1 .. n + 1, t[i] = t[j]
                 PROVE  i = j
        BY <2>3 DEF Distinct
    <3>1. \A x \in 1 .. n : t[x] # m
      BY <1>6, <2>3 DEF ToSet
    <3>2. CASE i = n + 1 \/ j = n + 1
      BY <2>3, <3>1, <3>2
    <3>3. CASE i # n + 1 /\ j # n + 1
      <4>1. i \in 1 .. n /\ j \in 1 .. n
        BY <3>3
      <4> QED BY <2>3, <4>1 DEF FirstOnes, Distinct
    <3> QED BY <3>2, <3>3
  <2>5. \A p \in 1 .. n + 1 : Before(t, p) = Before(out, p)
    <3> SUFFICES ASSUME NEW p \in 1 .. n + 1
                 PROVE  Before(t, p) = Before(out, p)
        OBVIOUS
    <3>1. \A i \in 1 .. p - 1 : i \in 1 .. n
      OBVIOUS
    <3> QED BY <2>3, <3>1 DEF Before
  <2>6. Before(out, n + 1) = Before(s, k + 1)
    <3>1. 1 .. (n + 1) - 1 = DOMAIN out
      BY <2>3
    <3> QED BY <3>1 DEF Before, FirstOnes, ToSet
  <2>7. ASSUME NEW p \in 1 .. n + 1
        PROVE  \E j \in 1 .. k + 1 : s[j] = t[p] /\ Before(s, j) = Before(t, p)
    <3>1. CASE p = n + 1
      BY <1>1, <1>2, <2>3, <2>5, <2>6, <3>1
    <3>2. CASE p # n + 1
      <4>1. p \in 1 .. n /\ \A j \in 1 .. k : j \in 1 .. k + 1
        BY <1>1, <3>2
      <4>2. PICK j \in 1 .. k : s[j] = out[p] /\ Before(s, j) = Before(out, p)
        BY <2>3, <4>1 DEF FirstOnes
      <4> QED BY <2>3, <2>5, <4>1, <4>2
    <3> QED BY <3>1, <3>2
  <2>8. (k + 1) + 1 = k + 2
    BY <1>1
  <2> QED BY <1>2, <1>4, <2>2, <2>3, <2>4, <2>7, <2>8 DEF FirstOnes
<1> QED BY <1>5, <1>6

\* Every message of the sequence once, in the order of its first occurrence.
LEMMA FoldIsFirstOnes ==
  ASSUME NEW M, NEW s \in Seq(M)
  PROVE  /\ FoldLeft(AddNew, << >>, s) \in Seq(M)
         /\ FirstOnes(s, Len(s), FoldLeft(AddNew, << >>, s))
<1> DEFINE n == Len(s)
<1>1. n \in Nat
  OBVIOUS
<1>2. PICK g : /\ g[0] = << >>
               /\ \A k \in 0 .. n : k < n => g[k + 1] = AddNew(g[k], s[k + 1])
               /\ g[n] = FoldLeft(AddNew, << >>, s)
  BY AddNewFold
<1> DEFINE S == {k \in 0 .. n : g[k] \in Seq(M) /\ FirstOnes(s, k, g[k])}
<1>3. 0 \in S
  <2>1. FirstOnes(s, 0, << >>)
    BY DEF FirstOnes, ToSet, Before, Distinct
  <2>2. 0 \in 0 .. n /\ << >> \in Seq(M)
    BY <1>1
  <2> QED BY <1>2, <2>1, <2>2
<1>4. \A k \in 0 .. n : k < n /\ k \in S => k + 1 \in S
  <2> SUFFICES ASSUME NEW k \in 0 .. n, k < n, g[k] \in Seq(M), FirstOnes(s, k, g[k])
               PROVE  g[k + 1] \in Seq(M) /\ FirstOnes(s, k + 1, g[k + 1])
      OBVIOUS
  <2>1. g[k + 1] = AddNew(g[k], s[k + 1]) /\ s[k + 1] \in M
    BY <1>2
  <2>2. AddNew(g[k], s[k + 1]) \in Seq(M)
    BY <2>1, AddNewFacts
  <2> QED BY <2>1, <2>2, FirstOnesStep
<1>5. n \in S
  <2>1. n \in 0 .. n
    BY <1>1
  <2> HIDE DEF S
  <2>2. \A k \in 0 .. n : k \in S
    BY <1>1, <1>3, <1>4, UpTo
  <2> QED BY <2>1, <2>2
<1> QED BY <1>2, <1>5

\* A history without repeated messages is the beginning of what is folded after it.
LEMMA FoldKeepsMine ==
  ASSUME NEW M, NEW mine \in Seq(M), NEW theirs \in Seq(M), Distinct(mine)
  PROVE  /\ Len(mine) <= Len(FoldLeft(AddNew, << >>, mine \o theirs))
         /\ \A i \in 1 .. Len(mine) : FoldLeft(AddNew, << >>, mine \o theirs)[i] = mine[i]
<1> DEFINE s == mine \o theirs
           n == Len(s)
           l == Len(mine)
<1>1. /\ s \in Seq(M) /\ n \in Nat /\ l \in Nat /\ l <= n
      /\ \A i \in 1 .. l : s[i] = mine[i]
  OBVIOUS
<1> HIDE DEF s
<1>2. PICK g : /\ g[0] = << >>
               /\ \A k \in 0 .. n : k < n => g[k + 1] = AddNew(g[k], s[k + 1])
               /\ g[n] = FoldLeft(AddNew, << >>, s)
  BY <1>1, AddNewFold
<1> DEFINE Mine(k, out) ==
             /\ out \in Seq(M)
             /\ k <= l => Len(out) = k
             /\ l <= k => l <= Len(out)
             /\ \A i \in 1 .. l : i <= k => out[i] = mine[i]
           S == {k \in 0 .. n : Mine(k, g[k])}
<1>3. 0 \in S
  <2>1. 0 \in 0 .. n /\ << >> \in Seq(M) /\ Len(<< >>) = 0
    BY <1>1
  <2>2. \A i \in 1 .. l : ~(i <= 0)
    BY <1>1
  <2>3. Mine(0, << >>)
    BY <1>1, <2>1, <2>2
  <2> HIDE DEF Mine
  <2> QED BY <1>2, <2>1, <2>3
<1>4. ASSUME NEW k \in 0 .. n, k < n, Mine(k, g[k])
      PROVE  Mine(k + 1, g[k + 1])
  <2>1. k \in Nat /\ n \in Nat /\ l \in Nat
    BY <1>1
  <2>2. PICK out \in Seq(M) : out = g[k]
    BY <1>4
  <2>3. PICK m \in M : m = s[k + 1]
    BY <1>1, <1>4
  <2>4. PICK t : t = AddNew(out, m)
    OBVIOUS
  <2>5. g[k + 1] = t
    BY <1>2, <1>4, <2>2, <2>3, <2>4
  <2>6. /\ t \in Seq(M) /\ Len(out) <= Len(t)
        /\ \A i \in DOMAIN out : t[i] = out[i]
    BY <2>4, AddNewFacts
  <2>7. Mine(k, out)
    BY <1>4, <2>2
  <2>8. CASE k < l
    <3>1. Len(out) = k /\ k + 1 \in 1 .. l /\ m = mine[k + 1] /\ DOMAIN out = 1 .. k
      BY <1>1, <2>1, <2>3, <2>7, <2>8
    <3>2. m \notin ToSet(out)
      <4> SUFFICES ASSUME NEW i \in 1 .. k, out[i] = m
                   PROVE  FALSE
          BY <3>1 DEF ToSet
      <4>1. i \in 1 .. l /\ i <= k /\ i # k + 1
        BY <2>1, <2>8
      <4>2. mine[i] = mine[k + 1]
        BY <2>7, <3>1, <4>1
      <4> QED BY <3>1, <4>1, <4>2 DEF Distinct
    <3>3. t = Append(out, m)
      BY <2>4, <3>2 DEF AddNew
    <3>4. Len(t) = k + 1 /\ t[k + 1] = m
      BY <3>1, <3>3
    <3>5. \A i \in 1 .. l : i <= k + 1 => t[i] = mine[i]
      <4> SUFFICES ASSUME NEW i \in 1 .. l, i <= k + 1
                   PROVE  t[i] = mine[i]
          OBVIOUS
      <4>1. CASE i = k + 1
        BY <3>1, <3>4, <4>1
      <4>2. CASE i # k + 1
        <5>1. i \in 1 .. k /\ i <= k
          BY <2>1, <4>2
        <5> QED BY <2>6, <2>7, <3>1, <5>1
      <4> QED BY <4>1, <4>2
    <3>6. l <= k + 1 => l <= Len(t)
      BY <2>1, <3>4
    <3> QED BY <2>5, <2>6, <3>4, <3>5, <3>6
  <2>9. CASE l <= k
    <3>1. ~(k + 1 <= l) /\ Len(out) \in Nat /\ Len(t) \in Nat
      BY <2>1, <2>6, <2>9
    <3>2. l <= Len(t)
      BY <2>1, <2>6, <2>7, <2>9, <3>1
    <3>3. \A i \in 1 .. l : t[i] = mine[i]
      <4> SUFFICES ASSUME NEW i \in 1 .. l
                   PROVE  t[i] = mine[i]
          OBVIOUS
      <4>1. i <= k /\ i \in 1 .. Len(out)
        BY <2>1, <2>7, <2>9, <3>1
      <4> QED BY <2>6, <2>7, <4>1
    <3> QED BY <2>5, <2>6, <3>1, <3>2, <3>3
  <2> QED BY <2>1, <2>8, <2>9
<1>5. n \in S
  <2>1. \A k \in 0 .. n : k < n /\ k \in S => k + 1 \in S
    <3> HIDE DEF Mine
    <3> QED BY <1>4
  <2>2. n \in 0 .. n
    BY <1>1
  <2> HIDE DEF S
  <2>3. \A k \in 0 .. n : k \in S
    BY <1>1, <1>3, <2>1, UpTo
  <2> QED BY <2>2, <2>3
<1>6. l <= Len(g[n]) /\ \A i \in 1 .. l : g[n][i] = mine[i]
  BY <1>1, <1>5
<1> QED BY <1>2, <1>6 DEF s

\* MergeMessages: nothing is lost, nothing is invented, nothing is there twice.
LEMMA MergeFacts ==
  ASSUME NEW M, NEW mine \in Seq(M), NEW theirs \in Seq(M)
  PROVE  /\ MergeMessages(mine, theirs) \in Seq(M)
         /\ ToSet(MergeMessages(mine, theirs)) = ToSet(mine) \cup ToSet(theirs)
         /\ Distinct(MergeMessages(mine, theirs))
<1>1. PICK s \in Seq(M) : s = mine \o theirs
  <2>1. mine \o theirs \in Seq(M)
    OBVIOUS
  <2> QED BY <2>1
<1>2. MergeMessages(mine, theirs) = FoldLeft(AddNew, << >>, s)
  BY <1>1 DEF MergeMessages
<1>3. /\ FoldLeft(AddNew, << >>, s) \in Seq(M)
      /\ FirstOnes(s, Len(s), FoldLeft(AddNew, << >>, s))
  BY FoldIsFirstOnes
<1>4. Before(s, Len(s) + 1) = ToSet(mine) \cup ToSet(theirs)
  <2>1. /\ Len(mine) \in Nat /\ Len(theirs) \in Nat /\ Len(s) = Len(mine) + Len(theirs)
        /\ \A i \in 1 .. Len(mine) : s[i] = mine[i]
        /\ \A i \in 1 .. Len(theirs) : s[Len(mine) + i] = theirs[i]
        /\ DOMAIN mine = 1 .. Len(mine) /\ DOMAIN theirs = 1 .. Len(theirs)
    BY <1>1
  <2> DEFINE l == Len(mine)
             r == Len(theirs)
  <2>2. l \in Nat /\ r \in Nat
    BY <2>1
  <2>3. Before(s, Len(s) + 1) = {s[i] : i \in 1 .. l + r}
    BY <2>1 DEF Before
  <2> HIDE DEF l, r
  <2>4. /\ \A i \in 1 .. l : i \in 1 .. l + r
        /\ \A i \in 1 .. r : l + i \in 1 .. l + r
        /\ \A i \in 1 .. l + r : i \in 1 .. l \/ \E j \in 1 .. r : i = l + j
    <3>1. ASSUME NEW i \in 1 .. l + r, i \notin 1 .. l
          PROVE  i - l \in 1 .. r /\ i = l + (i - l)
      BY <2>2, <3>1
    <3>2. \A i \in 1 .. l + r : i \in 1 .. l \/ \E j \in 1 .. r : i = l + j
      BY <3>1
    <3> QED BY <2>2, <3>2
  <2>5. /\ ToSet(mine) = {mine[i] : i \in 1 .. l} /\ \A i \in 1 .. l : s[i] = mine[i]
        /\ ToSet(theirs) = {theirs[i] : i \in 1 .. r} /\ \A i \in 1 .. r : s[l + i] = theirs[i]
    BY <2>1 DEF ToSet, l, r
  <2> QED BY <2>3, <2>4, <2>5
<1> QED BY <1>2, <1>3, <1>4 DEF FirstOnes

\* The local history is the beginning of the merged one.
LEMMA MergeExtends ==
  ASSUME NEW M, NEW mine \in Seq(M), NEW theirs \in Seq(M), Distinct(mine)
  PROVE  /\ Len(mine) <= Len(MergeMessages(mine, theirs))
         /\ \A i \in 1 .. Len(mine) : MergeMessages(mine, theirs)[i] = mine[i]
BY FoldKeepsMine DEF MergeMessages

\* In h every message that some write wrote comes after what the writer saw.
Causal(h) ==
  \A w \in DOMAIN writes, k \in DOMAIN h :
    h[k] = writes[w].msg => writes[w].seen \subseteq Before(h, k)

\* A merge does not put an answer before what it answers.
LEMMA MergeCausal ==
  ASSUME NEW M, NEW mine \in Seq(M), NEW theirs \in Seq(M), Causal(mine), Causal(theirs)
  PROVE  Causal(MergeMessages(mine, theirs))
<1>1. PICK s \in Seq(M) : s = mine \o theirs
  <2>1. mine \o theirs \in Seq(M)
    OBVIOUS
  <2> QED BY <2>1
<1>2. PICK out \in Seq(M) : out = MergeMessages(mine, theirs) /\ FirstOnes(s, Len(s), out)
  BY <1>1, FoldIsFirstOnes DEF MergeMessages
<1>3. PICK l \in Nat, r \in Nat :
         /\ l = Len(mine) /\ r = Len(theirs) /\ Len(s) = l + r
         /\ DOMAIN mine = 1 .. l /\ DOMAIN theirs = 1 .. r
         /\ \A i \in 1 .. l : s[i] = mine[i]
         /\ \A i \in 1 .. r : s[l + i] = theirs[i]
  <2>1. Len(mine) \in Nat /\ Len(theirs) \in Nat
    OBVIOUS
  <2>2. /\ Len(s) = Len(mine) + Len(theirs)
        /\ DOMAIN mine = 1 .. Len(mine) /\ DOMAIN theirs = 1 .. Len(theirs)
        /\ \A i \in 1 .. Len(mine) : s[i] = mine[i]
        /\ \A i \in 1 .. Len(theirs) : s[Len(mine) + i] = theirs[i]
    BY <1>1
  <2> QED BY <2>1, <2>2
<1>4. ASSUME NEW w \in DOMAIN writes, NEW j \in 1 .. l + r, s[j] = writes[w].msg
      PROVE  writes[w].seen \subseteq Before(s, j)
  <2>1. CASE j \in 1 .. l
    <3>1. writes[w].seen \subseteq Before(mine, j)
      BY <1>3, <1>4, <2>1 DEF Causal
    <3>2. \A i \in 1 .. j - 1 : i \in 1 .. l
      BY <1>3, <2>1
    <3> QED BY <1>3, <3>1, <3>2 DEF Before
  <2>2. CASE j \notin 1 .. l
    <3>1. PICK x \in 1 .. r : j = l + x
      <4>1. j - l \in 1 .. r /\ j = l + (j - l)
        BY <1>3, <2>2
      <4> QED BY <4>1
    <3>2. writes[w].seen \subseteq Before(theirs, x)
      BY <1>3, <1>4, <3>1 DEF Causal
    <3>3. \A i \in 1 .. x - 1 : i \in 1 .. r /\ l + i \in 1 .. j - 1
      BY <1>3, <3>1
    <3> QED BY <1>3, <3>2, <3>3 DEF Before
  <2> QED BY <2>1, <2>2
<1>5. ASSUME NEW w \in DOMAIN writes, NEW p \in DOMAIN out, out[p] = writes[w].msg
      PROVE  writes[w].seen \subseteq Before(out, p)
  <2>1. PICK j \in 1 .. l + r : s[j] = out[p] /\ Before(s, j) = Before(out, p)
    BY <1>2, <1>3 DEF FirstOnes
  <2> QED BY <1>4, <1>5, <2>1
<1> QED BY <1>2, <1>5 DEF Causal

----------------------------------------------------------------------------
(* What applyBlock leaves in the store *)

\* A device loses nothing by a block and gains nothing that is not in it.
LEMMA AppliedFacts ==
  ASSUME NEW M, NEW mine \in Seq(M), NEW theirs \in Seq(M)
  PROVE  /\ Applied(mine, theirs) \in Seq(M)
         /\ ToSet(mine) \subseteq ToSet(Applied(mine, theirs))
         /\ ToSet(Applied(mine, theirs)) \subseteq ToSet(mine) \cup ToSet(theirs)
<1>1. ToSet(<< >>) = {}
  BY DEF ToSet
<1>2. \/ Applied(mine, theirs) = mine
      \/ Applied(mine, theirs) = MergeMessages(mine, theirs)
      \/ mine = << >> /\ Applied(mine, theirs) = theirs
  BY DEF Applied
<1> QED BY <1>1, <1>2, MergeFacts

\* Comparing lengths is enough when the local history has no message twice.
LEMMA AppliedHolds ==
  ASSUME NEW M, NEW mine \in Seq(M), NEW theirs \in Seq(M), Distinct(mine), Distinct(theirs)
  PROVE  /\ Distinct(Applied(mine, theirs))
         /\ ToSet(theirs) \subseteq ToSet(Applied(mine, theirs))
         /\ Len(mine) <= Len(Applied(mine, theirs))
         /\ \A i \in 1 .. Len(mine) : Applied(mine, theirs)[i] = mine[i]
<1>1. CASE mine = << >>
  <2>1. Applied(mine, theirs) = theirs /\ Len(mine) = 0 /\ Len(theirs) \in Nat
    BY <1>1 DEF Applied
  <2> QED BY <2>1
<1>2. CASE mine # << >>
  <2>1. PICK out \in Seq(M) : out = MergeMessages(mine, theirs)
    BY MergeFacts
  <2>2. /\ Distinct(out) /\ ToSet(out) = ToSet(mine) \cup ToSet(theirs)
        /\ Len(mine) <= Len(out) /\ \A i \in 1 .. Len(mine) : out[i] = mine[i]
    BY <2>1, MergeFacts, MergeExtends
  <2>3. Len(out) = Len(mine) => out = mine
    BY <2>2
  <2>4. Applied(mine, theirs) = out
    BY <1>2, <2>1, <2>3 DEF Applied
  <2> QED BY <2>2, <2>4
<1> QED BY <1>1, <1>2

\* Whatever a block does to a history, answers stay behind what they answer.
LEMMA AppliedCausal ==
  ASSUME NEW M, NEW mine \in Seq(M), NEW theirs \in Seq(M), Causal(mine), Causal(theirs)
  PROVE  Causal(Applied(mine, theirs))
<1>1. \/ Applied(mine, theirs) = mine
      \/ Applied(mine, theirs) = MergeMessages(mine, theirs)
      \/ Applied(mine, theirs) = theirs
  BY DEF Applied
<1> QED BY <1>1, MergeCausal

----------------------------------------------------------------------------
(* Types, and the refinement of Conversation *)

\* Every device starts with nothing.
LEMMA InitTypes == Init => TypeOK
BY DEF Init, TypeOK

\* Every step keeps the types.
LEMMA StepTypes == TypeOK /\ [Next]_vars => TypeOK'
<1> SUFFICES ASSUME TypeOK, [Next]_vars PROVE TypeOK'
    OBVIOUS
<1> USE DEF TypeOK
<1>1. ASSUME NEW d \in Device, NEW m \in Message, Say(d, m) PROVE TypeOK'
  <2>1. Append(local[d], m) \in Seq(Message) /\ ToSet(local[d]) \in SUBSET Message
    BY DEF ToSet
  <2>2. Append(writes, [msg |-> m, seen |-> ToSet(local[d])])
          \in Seq([msg : Message, seen : SUBSET Message])
    BY <2>1
  <2> QED BY <1>1, <2>1, <2>2 DEF Say
<1>2. ASSUME NEW d \in Device, Push(d) PROVE TypeOK'
  <2>1. /\ blocks' \in Seq(Seq(Message)) /\ DOMAIN blocks = 1 .. Len(blocks)
        /\ DOMAIN blocks' = 1 .. Len(blocks) + 1 /\ Len(blocks) \in Nat
    BY <1>2 DEF Push
  <2>2. have' \in [Device -> SUBSET (DOMAIN blocks')]
    BY <1>2, <2>1 DEF Push
  <2> QED BY <1>2, <2>1, <2>2 DEF Push
<1>3. ASSUME NEW d \in Device, NEW n \in DOMAIN blocks, ApplyBlock(d, n) PROVE TypeOK'
  <2>1. Applied(local[d], blocks[n]) \in Seq(Message)
    BY AppliedFacts
  <2> QED BY <1>3, <2>1 DEF ApplyBlock
<1>4. ASSUME NEW d \in Device, Restart(d) PROVE TypeOK'
  BY <1>4 DEF Restart
<1>5. CASE UNCHANGED vars
  BY <1>5 DEF vars
<1> QED BY <1>1, <1>2, <1>3, <1>4, <1>5 DEF Next

\* Every variable keeps its type, with repeated messages or without.
THEOREM HistoryTypes == Spec => []TypeOK
BY InitTypes, StepTypes, PTL DEF Spec

\* What a block says, some device says.
BlocksKnown ==
  \A n \in DOMAIN blocks : \A m \in ToSet(blocks[n]) : \E d \in Device : m \in ToSet(local[d])

\* No step takes a message away from a device.
LEMMA LocalGrows ==
  ASSUME TypeOK, [Next]_vars, NEW d \in Device
  PROVE  ToSet(local[d]) \subseteq ToSet(local'[d])
<1> USE DEF TypeOK
<1>1. ASSUME NEW e \in Device, NEW m \in Message, Say(e, m)
      PROVE  ToSet(local[d]) \subseteq ToSet(local'[d])
  <2>1. \A h \in Seq(Message) : ToSet(h) \subseteq ToSet(Append(h, m))
    BY AppendSet
  <2>2. local'[d] = local[d] \/ local'[d] = Append(local[d], m)
    BY <1>1 DEF Say
  <2> QED BY <2>1, <2>2
<1>2. ASSUME NEW e \in Device, NEW n \in DOMAIN blocks, ApplyBlock(e, n)
      PROVE  ToSet(local[d]) \subseteq ToSet(local'[d])
  <2>1. local'[d] = local[d] \/ local'[d] = Applied(local[d], blocks[n])
    BY <1>2 DEF ApplyBlock
  <2> QED BY <2>1, AppliedFacts
<1>3. ASSUME NEW e \in Device, Push(e) \/ Restart(e)
      PROVE  ToSet(local[d]) \subseteq ToSet(local'[d])
  BY <1>3 DEF Push, Restart
<1>4. CASE UNCHANGED vars
  BY <1>4 DEF vars
<1> QED BY <1>1, <1>2, <1>3, <1>4 DEF Next

\* Blocks hold only what some device still has: no history ever shrinks.
LEMMA StepKnown ==
  ASSUME TypeOK, BlocksKnown, [Next]_vars
  PROVE  BlocksKnown'
<1>1. \A d \in Device : ToSet(local[d]) \subseteq ToSet(local'[d])
  BY LocalGrows
<1>2. CASE blocks' = blocks
  BY <1>1, <1>2 DEF BlocksKnown
<1>3. ASSUME NEW d \in Device, Push(d) PROVE BlocksKnown'
  <2>1. /\ blocks' = Append(blocks, local[d]) /\ local' = local
        /\ DOMAIN blocks = 1 .. Len(blocks) /\ Len(blocks) \in Nat
        /\ DOMAIN blocks' = 1 .. Len(blocks) + 1
        /\ \A n \in 1 .. Len(blocks) : blocks'[n] = blocks[n]
        /\ blocks'[Len(blocks) + 1] = local[d]
    BY <1>3 DEF Push, TypeOK
  <2> QED BY <2>1 DEF BlocksKnown
<1>4. blocks' = blocks \/ \E d \in Device : Push(d)
  BY DEF Next, Say, ApplyBlock, Restart, vars
<1> QED BY <1>2, <1>3, <1>4

\* A conversation of one item changes by what one device gains.
LEMMA HeldGains ==
  ASSUME NEW d \in Device, NEW news,
         \A e \in Device : ToSet(local'[e]) = IF e = d THEN ToSet(local[e]) \cup news
                                                       ELSE ToSet(local[e])
  PROVE  [e \in Device |-> [i \in {"session"} |-> ToSet(local[e])]]'
           = Chat!Gain(d, "session", news)
BY DEF Chat!Gain

\* One device gains at most what somebody has said: a step of Conversation.
LEMMA ConverseStep ==
  ASSUME TypeOK, BlocksKnown, [Next]_vars
  PROVE  [Chat!Next]_[d \in Device |-> [i \in {"session"} |-> ToSet(local[d])]]
<1> DEFINE H == [d \in Device |-> [i \in {"session"} |-> ToSet(local[d])]]
<1> USE DEF TypeOK
<1>1. ASSUME NEW d \in Device, NEW news \in SUBSET Message,
             \A e \in Device : ToSet(local'[e]) = IF e = d THEN ToSet(local[e]) \cup news
                                                           ELSE ToSet(local[e]),
             news \subseteq Chat!Known("session")
      PROVE  Chat!Next
  BY <1>1, HeldGains DEF Chat!Next, Chat!Learn
<1>2. \A m : m \in Chat!Known("session") <=> \E d \in Device : m \in ToSet(local[d])
  BY DEF Chat!Known
<1>3. ASSUME NEW d \in Device, NEW m \in Message, Say(d, m) PROVE Chat!Next
  <2>1. \A e \in Device : ToSet(local'[e]) = IF e = d THEN ToSet(local[e]) \cup {m}
                                                      ELSE ToSet(local[e])
    <3>1. /\ local'[d] = Append(local[d], m) /\ local[d] \in Seq(Message)
          /\ \A e \in Device \ {d} : local'[e] = local[e]
      BY <1>3 DEF Say
    <3>2. ToSet(Append(local[d], m)) = ToSet(local[d]) \cup {m}
      BY <3>1, AppendSet
    <3> QED BY <3>1, <3>2
  <2>2. CASE m \in Chat!Known("session")
    BY <1>1, <2>1, <2>2
  <2>3. CASE m \notin Chat!Known("session")
    <3>1. H' = Chat!Gain(d, "session", {m})
      BY <2>1, HeldGains
    <3>2. \A j \in {"session"} : m \notin Chat!Known(j)
      BY <2>3
    <3>3. Chat!Write(d, "session", m)
      BY <3>1, <3>2 DEF Chat!Write
    <3> QED BY <3>3 DEF Chat!Next
  <2> QED BY <2>2, <2>3
<1>4. ASSUME NEW d \in Device, NEW n \in DOMAIN blocks, ApplyBlock(d, n) PROVE Chat!Next
  <2>1. PICK out \in Seq(Message) : out = Applied(local[d], blocks[n])
    BY AppliedFacts
  <2>2. /\ local'[d] = out /\ \A e \in Device \ {d} : local'[e] = local[e]
    BY <1>4, <2>1 DEF ApplyBlock
  <2>3. ToSet(local[d]) \subseteq ToSet(out) /\ ToSet(out) \subseteq ToSet(local[d]) \cup ToSet(blocks[n])
    BY <2>1, AppliedFacts
  <2>4. ToSet(out) \in SUBSET Message
    BY DEF ToSet
  <2>5. ToSet(out) \subseteq Chat!Known("session")
    BY <1>2, <2>3 DEF BlocksKnown
  <2>6. \A e \in Device : ToSet(local'[e]) = IF e = d THEN ToSet(local[e]) \cup ToSet(out)
                                                      ELSE ToSet(local[e])
    BY <2>2, <2>3
  <2> QED BY <1>1, <2>4, <2>5, <2>6
<1>5. ASSUME UNCHANGED local PROVE UNCHANGED H
  BY <1>5
<1>6. \/ UNCHANGED local
      \/ \E d \in Device : \E m \in Message : Say(d, m)
      \/ \E d \in Device : \E n \in DOMAIN blocks : ApplyBlock(d, n)
  BY DEF Next, Push, Restart, vars
<1> QED BY <1>3, <1>4, <1>5, <1>6

\* Whatever order the blocks are applied in, however often they are applied again, and
\* whether messages repeat or not: the histories, their order forgotten, are replicas
\* of one append-only conversation.
THEOREM HistoriesRefine == Spec => ChatSpec
<1> DEFINE H == [d \in Device |-> [i \in {"session"} |-> ToSet(local[d])]]
<1>1. Init => BlocksKnown /\ Chat!Init
  BY DEF Init, BlocksKnown, Chat!Init, ToSet
<1>2. TypeOK /\ BlocksKnown /\ [Next]_vars => [Chat!Next]_H /\ BlocksKnown'
  BY ConverseStep, StepKnown
<1> QED BY <1>1, <1>2, HistoryTypes, PTL DEF Spec, ChatSpec, Chat!Spec

----------------------------------------------------------------------------
(* Order: the histories when no message is written twice *)

\* The messages written so far.
Said == {writes[w].msg : w \in DOMAIN writes}

\* h has each message once, only messages that somebody wrote, and none before what
\* its writer saw.
Written(h) ==
  /\ Distinct(h)
  /\ ToSet(h) \subseteq Said
  /\ Causal(h)

\* The inductive invariant.  It speaks of the blocks too: a history that is sound on
\* its device is only as good as what is merged into it, and a block may be older
\* than anything a device still has in memory.
HistInv ==
  /\ \A d \in Device : Written(local[d])
  /\ \A n \in DOMAIN blocks : Written(blocks[n])

\* A write of a new message concerns no history but the writer's.
LEMMA WrittenElsewhere ==
  ASSUME TypeOK, NEW seen \in SUBSET Message, NEW m \in Message, m \notin Said,
         writes' = Append(writes, [msg |-> m, seen |-> seen]),
         NEW h \in Seq(Message), Written(h)
  PROVE  /\ Said' = Said \cup {m}
         /\ \A w \in (DOMAIN writes)', k \in DOMAIN h :
              h[k] = writes'[w].msg => writes'[w].seen \subseteq Before(h, k)
<1>1. PICK n \in Nat : n = Len(writes)
  BY DEF TypeOK
<1>2. /\ DOMAIN writes = 1 .. n /\ DOMAIN writes' = 1 .. n + 1
      /\ \A w \in 1 .. n : writes'[w] = writes[w]
      /\ writes'[n + 1] = [msg |-> m, seen |-> seen]
  BY <1>1 DEF TypeOK
<1>3. 1 .. n + 1 = 1 .. n \cup {n + 1}
  OBVIOUS
<1>4. Said' = Said \cup {m}
  BY <1>2, <1>3 DEF Said
<1>5. ASSUME NEW w \in 1 .. n + 1, NEW k \in DOMAIN h, h[k] = writes'[w].msg
      PROVE  writes'[w].seen \subseteq Before(h, k)
  <2>1. h[k] \in Said
    BY DEF Written, ToSet
  <2>2. w \in 1 .. n
    BY <1>2, <1>3, <1>5, <2>1
  <2> QED BY <1>2, <1>5, <2>2 DEF Written, Causal
<1> QED BY <1>2, <1>4, <1>5

\* The writer's history with the new message at its end.
LEMMA WrittenHere ==
  ASSUME TypeOK, NEW h \in Seq(Message), Written(h), NEW m \in Message, m \notin Said,
         writes' = Append(writes, [msg |-> m, seen |-> ToSet(h)])
  PROVE  \A t : t = Append(h, m) =>
           /\ Distinct(t)
           /\ ToSet(t) \subseteq Said \cup {m}
           /\ \A w \in (DOMAIN writes)', k \in DOMAIN t :
                t[k] = writes'[w].msg => writes'[w].seen \subseteq Before(t, k)
<1> SUFFICES ASSUME NEW t, t = Append(h, m)
             PROVE  /\ Distinct(t)
                    /\ ToSet(t) \subseteq Said \cup {m}
                    /\ \A w \in (DOMAIN writes)', k \in DOMAIN t :
                         t[k] = writes'[w].msg => writes'[w].seen \subseteq Before(t, k)
    OBVIOUS
<1>1. PICK n \in Nat : n = Len(h)
  OBVIOUS
<1>2. /\ DOMAIN h = 1 .. n /\ DOMAIN t = 1 .. n + 1 /\ t[n + 1] = m
      /\ \A k \in 1 .. n : t[k] = h[k]
  BY <1>1
<1>3. ToSet(t) \subseteq Said \cup {m}
  BY AppendSet DEF Written
<1>4. \A k \in 1 .. n : h[k] \in Said /\ h[k] # m
  BY <1>2 DEF Written, ToSet
<1>5. \A k \in 1 .. n + 1 : k \in 1 .. n \/ k = n + 1
  OBVIOUS
<1>6. Distinct(t)
  <2> SUFFICES ASSUME NEW i \in 1 .. n + 1, NEW j \in 1 .. n + 1, t[i] = t[j]
               PROVE  i = j
      BY <1>2 DEF Distinct
  <2> QED BY <1>2, <1>4, <1>5 DEF Written, Distinct
<1>7. \A k \in 1 .. n + 1 : Before(t, k) = Before(h, k)
  <2> SUFFICES ASSUME NEW k \in 1 .. n + 1
               PROVE  Before(t, k) = Before(h, k)
      OBVIOUS
  <2>1. \A i \in 1 .. k - 1 : i \in 1 .. n
    OBVIOUS
  <2> QED BY <1>2, <2>1 DEF Before
<1>8. Before(h, n + 1) = ToSet(h)
  <2>1. 1 .. (n + 1) - 1 = DOMAIN h
    BY <1>2
  <2> QED BY <2>1 DEF Before, ToSet
<1>9. ASSUME NEW w \in (DOMAIN writes)', NEW k \in 1 .. n + 1, t[k] = writes'[w].msg
      PROVE  writes'[w].seen \subseteq Before(t, k)
  <2>1. CASE k \in 1 .. n
    <3>1. ToSet(h) \in SUBSET Message
      BY DEF ToSet
    <3>2. h[k] = writes'[w].msg => writes'[w].seen \subseteq Before(h, k)
      BY <1>2, <2>1, <3>1, WrittenElsewhere
    <3> QED BY <1>2, <1>7, <1>9, <2>1, <3>2
  <2>2. CASE k = n + 1
    <3>1. PICK l \in Nat : l = Len(writes)
      BY DEF TypeOK
    <3>2. /\ DOMAIN writes = 1 .. l /\ DOMAIN writes' = 1 .. l + 1
          /\ \A x \in 1 .. l : writes'[x] = writes[x]
          /\ writes'[l + 1] = [msg |-> m, seen |-> ToSet(h)]
      BY <3>1 DEF TypeOK
    <3>3. \A x \in 1 .. l : writes[x].msg # m
      BY <3>2 DEF Said
    <3>4. w \in 1 .. l \/ w = l + 1
      BY <3>2
    <3>5. w = l + 1
      BY <1>2, <1>9, <2>2, <3>2, <3>3, <3>4
    <3> QED BY <1>2, <1>7, <1>8, <2>2, <3>2, <3>5
  <2> QED BY <1>5, <2>1, <2>2
<1> QED BY <1>2, <1>3, <1>6, <1>9

\* With nothing written and no block pushed, there is nothing to violate.
LEMMA InitHist == Init => HistInv /\ AppliedIsHeld
BY DEF Init, HistInv, AppliedIsHeld, Written, Distinct, Causal, ToSet

\* Every step keeps the histories, on devices and in blocks, well written.
LEMMA StepHist ==
  ASSUME ~Repeats, TypeOK, HistInv, [Next]_vars
  PROVE  HistInv'
<1> USE DEF TypeOK
<1>1. ASSUME NEW d \in Device, NEW m \in Message, Say(d, m) PROVE HistInv'
  <2>1. /\ m \notin Said /\ blocks' = blocks
        /\ writes' = Append(writes, [msg |-> m, seen |-> ToSet(local[d])])
        /\ local'[d] = Append(local[d], m)
        /\ \A e \in Device : e # d => local'[e] = local[e]
    BY <1>1 DEF Say, Said
  <2>2. ToSet(local[d]) \in SUBSET Message
    BY DEF ToSet
  <2>3. \A h \in Seq(Message) : Written(h) =>
          /\ Said' = Said \cup {m}
          /\ \A w \in (DOMAIN writes)', k \in DOMAIN h :
               h[k] = writes'[w].msg => writes'[w].seen \subseteq Before(h, k)
    BY <2>1, <2>2, WrittenElsewhere
  <2>4. \A e \in Device : e # d => Written(local[e])'
    BY <2>1, <2>3 DEF Written, Causal, HistInv
  <2>5. Written(local[d])'
    <3>1. PICK t : t = local'[d]
      OBVIOUS
    <3>2. Written(local[d])
      BY DEF HistInv
    <3>3. local[d] \in Seq(Message) /\ t = Append(local[d], m)
      BY <2>1, <3>1
    <3>4. /\ Distinct(t)
          /\ ToSet(t) \subseteq Said \cup {m}
          /\ \A w \in (DOMAIN writes)', k \in DOMAIN t :
               t[k] = writes'[w].msg => writes'[w].seen \subseteq Before(t, k)
      <4>1. writes' = Append(writes, [msg |-> m, seen |-> ToSet(local[d])])
        BY <2>1
      <4> QED BY <2>1, <3>2, <3>3, <4>1, WrittenHere
    <3>5. Said' = Said \cup {m}
      BY <2>3, <3>2, <3>3
    <3>6. \A h : h = local[d]' => Written(h)'
      BY <3>1, <3>4, <3>5 DEF Written, Causal
    <3> QED BY <3>6
  <2>6. \A n \in DOMAIN blocks : Written(blocks[n])'
    <3>1. ASSUME NEW n \in DOMAIN blocks
          PROVE  \A h : h = blocks[n]' => Written(h)'
      <4>1. blocks[n] \in Seq(Message) /\ Written(blocks[n])
        BY DEF HistInv
      <4> QED BY <2>1, <2>3, <4>1 DEF Written, Causal
    <3> QED BY <3>1
  <2> QED BY <2>1, <2>4, <2>5, <2>6 DEF HistInv
<1>2. ASSUME NEW d \in Device, Push(d) PROVE HistInv'
  <2>1. /\ local' = local /\ writes' = writes /\ blocks' = Append(blocks, local[d])
    BY <1>2 DEF Push
  <2>2. PICK l \in Nat : l = Len(blocks)
    OBVIOUS
  <2>3. /\ DOMAIN blocks = 1 .. l /\ DOMAIN blocks' = 1 .. l + 1
        /\ \A n \in 1 .. l : blocks'[n] = blocks[n]
        /\ blocks'[l + 1] = local[d]
    BY <2>1, <2>2
  <2>4. \A n \in 1 .. l + 1 : n \in 1 .. l \/ n = l + 1
    OBVIOUS
  <2>5. \A e \in Device : Written(local[e])'
    BY <2>1 DEF HistInv, Written, Causal, Said
  <2>6. \A n \in 1 .. l + 1 : Written(blocks[n])'
    BY <2>1, <2>3, <2>4 DEF HistInv, Written, Causal, Said
  <2> QED BY <2>3, <2>5, <2>6 DEF HistInv
<1>3. ASSUME NEW d \in Device, NEW n \in DOMAIN blocks, ApplyBlock(d, n) PROVE HistInv'
  <2>1. PICK out : out = Applied(local[d], blocks[n])
    OBVIOUS
  <2>2. /\ local'[d] = out /\ writes' = writes /\ blocks' = blocks
        /\ \A e \in Device : e # d => local'[e] = local[e]
    BY <1>3, <2>1 DEF ApplyBlock
  <2>3. local[d] \in Seq(Message) /\ blocks[n] \in Seq(Message)
    OBVIOUS
  <2>4. Written(local[d]) /\ Written(blocks[n])
    BY DEF HistInv
  <2>5. Distinct(out) /\ ToSet(out) \subseteq ToSet(local[d]) \cup ToSet(blocks[n])
    BY <2>1, <2>3, <2>4, AppliedHolds, AppliedFacts DEF Written
  <2>6. Causal(out)
    BY <2>1, <2>3, <2>4, AppliedCausal DEF Written
  <2>7. Written(out)
    BY <2>4, <2>5, <2>6 DEF Written
  <2>8. \A h : Written(h) => Distinct(h) /\ ToSet(h) \subseteq Said' /\ Causal(h)
    BY <2>2 DEF Written, Said
  <2>9. \A e \in Device : Written(local[e])'
    BY <2>2, <2>7, <2>8 DEF HistInv, Written, Causal
  <2>10. \A k \in DOMAIN blocks : Written(blocks[k])'
    BY <2>2, <2>8 DEF HistInv, Written, Causal
  <2> QED BY <2>2, <2>9, <2>10 DEF HistInv
<1>4. ASSUME UNCHANGED <<local, blocks, writes>> PROVE HistInv'
  BY <1>4 DEF HistInv, Written, Causal, Said
<1> QED BY <1>1, <1>2, <1>3, <1>4 DEF Next, Restart, vars

\* Histories never shrink, and a block marked as had has just been applied.
LEMMA StepHeld ==
  ASSUME TypeOK, HistInv, AppliedIsHeld, [Next]_vars
  PROVE  AppliedIsHeld'
<1> USE DEF TypeOK
<1>1. \A d \in Device : ToSet(local[d]) \subseteq ToSet(local'[d])
  BY LocalGrows
<1>2. ASSUME \A d \in Device : have'[d] \subseteq have[d],
             \A n \in DOMAIN blocks : blocks'[n] = blocks[n]
      PROVE  AppliedIsHeld'
  BY <1>1, <1>2 DEF AppliedIsHeld
<1>3. ASSUME NEW d \in Device, NEW m \in Message, Say(d, m) PROVE AppliedIsHeld'
  BY <1>2, <1>3 DEF Say
<1>4. ASSUME NEW d \in Device, Push(d) PROVE AppliedIsHeld'
  <2>1. PICK l \in Nat : l = Len(blocks)
    OBVIOUS
  <2>2. /\ local' = local /\ DOMAIN blocks = 1 .. l
        /\ \A n \in 1 .. l : blocks'[n] = blocks[n]
        /\ blocks'[l + 1] = local[d]
        /\ have'[d] = have[d] \cup {l + 1}
        /\ \A e \in Device : e # d => have'[e] = have[e]
    BY <1>4, <2>1 DEF Push
  <2> QED BY <2>2 DEF AppliedIsHeld
<1>5. ASSUME NEW d \in Device, NEW n \in DOMAIN blocks, ApplyBlock(d, n)
      PROVE  AppliedIsHeld'
  <2>1. /\ local'[d] = Applied(local[d], blocks[n]) /\ blocks' = blocks
        /\ have'[d] = have[d] \cup {n}
        /\ \A e \in Device : e # d => have'[e] = have[e]
    BY <1>5 DEF ApplyBlock
  <2>2. ToSet(blocks[n]) \subseteq ToSet(local'[d])
    BY <2>1, AppliedHolds DEF HistInv, Written
  <2> QED BY <1>1, <2>1, <2>2 DEF AppliedIsHeld
<1>6. ASSUME NEW d \in Device, Restart(d) PROVE AppliedIsHeld'
  BY <1>2, <1>6 DEF Restart
<1>7. CASE UNCHANGED vars
  BY <1>2, <1>7 DEF vars
<1> QED BY <1>3, <1>4, <1>5, <1>6, <1>7 DEF Next

\* The invariants together.
LEMMA HistAlways ==
  ASSUME ~Repeats
  PROVE  Spec => [](TypeOK /\ HistInv /\ AppliedIsHeld)
<1>1. TypeOK /\ HistInv /\ AppliedIsHeld /\ [Next]_vars
        => (TypeOK /\ HistInv /\ AppliedIsHeld)'
  BY StepTypes, StepHist, StepHeld
<1> QED BY <1>1, InitTypes, InitHist, PTL DEF Spec

\* applyBlock decides by two lengths whether a merge brought anything.  As long as
\* nobody writes the same message twice that is enough: every block a device has
\* accepted is in its history, the block it only compared included.
THEOREM AppliedTheorem ==
  ASSUME ~Repeats
  PROVE  Spec => []AppliedIsHeld
BY HistAlways, PTL

\* As long as nobody writes the same message twice, no merge, in whatever order the
\* blocks arrive and however often, puts an answer before what its writer had read.
THEOREM CausalTheorem ==
  ASSUME ~Repeats
  PROVE  Spec => []CausalOrder
<1>1. HistInv => CausalOrder
  <2> SUFFICES ASSUME HistInv, NEW d \in Device, NEW w \in DOMAIN writes,
                      NEW k \in DOMAIN local[d], local[d][k] = writes[w].msg
               PROVE  \A m \in writes[w].seen : \E j \in 1 .. k - 1 : local[d][j] = m
      BY DEF CausalOrder
  <2>1. writes[w].seen \subseteq Before(local[d], k)
    BY DEF HistInv, Written, Causal
  <2> QED BY <2>1 DEF Before
<1> QED BY <1>1, HistAlways, PTL

\* Every step leaves what a device has where it has it.
LEMMA StepExtends ==
  ASSUME TypeOK, HistInv, [Next]_vars, NEW d \in Device
  PROVE  IsPrefix(local[d], local'[d])
<1> USE DEF TypeOK
<1> DEFINE h == local[d]
<1>1. h \in Seq(Message) /\ Len(h) \in Nat
  OBVIOUS
<1>2. ASSUME NEW t \in Seq(Message), Len(h) <= Len(t), \A i \in 1 .. Len(h) : t[i] = h[i]
      PROVE  IsPrefix(h, t)
  BY <1>1, <1>2 DEF IsPrefix
<1>3. IsPrefix(h, h)
  BY <1>1, <1>2
<1>4. ASSUME NEW m \in Message PROVE IsPrefix(h, Append(h, m))
  <2>1. /\ Append(h, m) \in Seq(Message) /\ Len(h) <= Len(Append(h, m))
        /\ \A i \in 1 .. Len(h) : Append(h, m)[i] = h[i]
    BY <1>1
  <2> QED BY <1>2, <2>1
<1>5. ASSUME NEW n \in DOMAIN blocks PROVE IsPrefix(h, Applied(h, blocks[n]))
  <2>1. blocks[n] \in Seq(Message) /\ Distinct(h) /\ Distinct(blocks[n])
    BY DEF HistInv, Written
  <2>2. Applied(h, blocks[n]) \in Seq(Message)
    BY <1>1, <2>1, AppliedFacts
  <2>3. /\ Len(h) <= Len(Applied(h, blocks[n]))
        /\ \A i \in 1 .. Len(h) : Applied(h, blocks[n])[i] = h[i]
    BY <1>1, <2>1, AppliedHolds
  <2> QED BY <1>2, <2>2, <2>3
<1>6. \/ local'[d] = h
      \/ \E m \in Message : local'[d] = Append(h, m)
      \/ \E n \in DOMAIN blocks : local'[d] = Applied(h, blocks[n])
  BY DEF Next, Say, Push, ApplyBlock, Restart, vars
<1> HIDE DEF h
<1> QED BY <1>3, <1>4, <1>5, <1>6 DEF h

\* As long as nobody writes the same message twice, every step of every device keeps
\* what its store has and where it has it: a merge adds at the end or changes nothing.
THEOREM ExtendsTheorem ==
  ASSUME ~Repeats
  PROVE  Spec => OnlyExtends
<1>1. TypeOK /\ HistInv /\ [Next]_vars => [\A d \in Device : IsPrefix(local[d], local'[d])]_vars
  BY StepExtends
<1> QED BY <1>1, HistAlways, PTL DEF Spec, OnlyExtends
=============================================================================
