--------------------------- MODULE AuditLogProofs ---------------------------
(* Proofs about AuditLog, for any number of callers, organizations and rows. *)
EXTENDS AuditLog, FiniteSetTheorems, TLAPS

\* What the append of a row does to a sequence of rows.
LEMMA AppendRow ==
  ASSUME NEW S, NEW T, S \subseteq T, NEW s \in Seq(S), NEW r \in T
  PROVE  /\ Append(s, r) \in Seq(T)
         /\ Len(Append(s, r)) = Len(s) + 1
         /\ Len(s) \in Nat
         /\ DOMAIN s = 1 .. Len(s)
         /\ DOMAIN Append(s, r) = 1 .. (Len(s) + 1)
         /\ \A k \in 1 .. Len(s) : Append(s, r)[k] = s[k]
         /\ Append(s, r)[Len(s) + 1] = r
<1>1. s \in Seq(T)
  OBVIOUS
<1> QED
  BY <1>1

\* A sequence over a set is one over any larger set.
LEMMA SeqMono ==
  ASSUME NEW S, NEW T, S \subseteq T, NEW s \in Seq(S)
  PROVE  s \in Seq(T)
OBVIOUS

\* The row that Log prepares is a row, hashed and linked.
LEMMA SuccessorFacts ==
  ASSUME TypeOK, LinkInv, NEW o \in Org, NEW data \in Data
  PROVE  /\ IsRow(Successor(o, data), o, Len(rows[o]) + 1)
         /\ Successor(o, data).data = data
         /\ Successor(o, data).org = o
         /\ Linked(Successor(o, data), data)
<1> DEFINE n == Len(rows[o])
<1>1. /\ n \in Nat
      /\ DOMAIN rows[o] = 1 .. n
  BY DEF TypeOK
<1>2. CASE n = 0
  BY <1>1, <1>2 DEF Successor, NewRow, Hashed, ComputeRowHash, IsRow, Linked, Genesis
<1>3. CASE n > 0
  <2>1. IsRow(rows[o][n], o, n) /\ Linked(rows[o][n], logged[o][n])
    BY <1>1, <1>3 DEF TypeOK, LinkInv
  <2> DEFINE h == rows[o][n].hash
             s == rows[o][n].seq
  <2>2. s \in 1 .. n /\ h # Genesis /\ h[1] = s
    BY <2>1 DEF IsRow, Linked, Genesis
  <2>3. Successor(o, data) = [org |-> o, data |-> data, seq |-> s + 1, prev |-> h,
                              hash |-> <<s + 1, o, data, h>>]
    BY <1>1, <1>3 DEF Successor, NewRow, Hashed, ComputeRowHash
  <2> HIDE DEF h, s
  <2> QED
    BY <1>1, <2>2, <2>3 DEF IsRow, Linked
<1> QED
  BY <1>1, <1>2, <1>3

----------------------------------------------------------------------------
(* The invariant *)

\* Empty chains and no call of Log under way.
LEMMA AuditInit == Init => TypeOK /\ LinkInv
BY AuditAssumption DEF Init, TypeOK, LinkInv, NoEntry

\* A call of Log prepares a well-formed, linked row, whatever the others do.
LEMMA BeginStep ==
  ASSUME TypeOK, LinkInv, NEW c \in Caller, NEW o \in Org, NEW data \in Data,
         BeginLog(c, o, data)
  PROVE  TypeOK' /\ LinkInv'
<1>1. UNCHANGED <<rows, logged, edits>> /\ AllRows' = AllRows
  BY DEF BeginLog, AllRows
<1>2. /\ IsRow(Successor(o, data), o, Len(rows[o]) + 1)
      /\ Linked(Successor(o, data), Successor(o, data).data)
  BY SuccessorFacts
<1>3. /\ DOMAIN entry' = Caller
      /\ \A d \in Caller : entry'[d] = IF d = c THEN Successor(o, data) ELSE entry[d]
  BY DEF BeginLog, TypeOK
<1> HIDE DEF BeginLog
<1>4. TypeOK'
  BY <1>1, <1>2, <1>3 DEF TypeOK, IsRow
<1>5. LinkInv'
  BY <1>1, <1>2, <1>3 DEF LinkInv, Linked
<1> QED
  BY <1>4, <1>5

\* Append adds the prepared row; rows already stored and entries of other callers
\* are as good as before.
LEMMA FinishStep ==
  ASSUME TypeOK, LinkInv, NEW c \in Caller, FinishLog(c)
  PROVE  TypeOK' /\ LinkInv'
<1> DEFINE e == entry[c]
<1>1. PICK o \in Org : IsRow(e, o, Len(rows[o]) + 1)
  BY DEF FinishLog, TypeOK
<1>2. /\ e.org = o /\ e.data \in Data /\ Linked(e, e.data)
  BY <1>1 DEF IsRow, LinkInv, FinishLog
<1>3. /\ rows' = [rows EXCEPT ![o] = Append(@, e)]
      /\ logged' = [logged EXCEPT ![o] = Append(@, e.data)]
      /\ entry' = [entry EXCEPT ![c] = NoEntry]
      /\ edits' = edits
  BY <1>2 DEF FinishLog
<1> DEFINE T == AllRows \cup {e}
<1>4. /\ rows[o] \in Seq(AllRows) /\ logged[o] \in Seq(Data)
      /\ rows'[o] = Append(rows[o], e) /\ logged'[o] = Append(logged[o], e.data)
      /\ DOMAIN rows' = Org /\ DOMAIN logged' = Org
      /\ \A q \in Org \ {o} : rows'[q] = rows[q] /\ logged'[q] = logged[q]
  BY <1>3 DEF TypeOK
<1>5. /\ rows'[o] \in Seq(T)
      /\ Len(rows'[o]) = Len(rows[o]) + 1
      /\ Len(rows[o]) \in Nat
      /\ DOMAIN rows[o] = 1 .. Len(rows[o])
      /\ DOMAIN rows'[o] = 1 .. (Len(rows[o]) + 1)
      /\ \A k \in 1 .. Len(rows[o]) : rows'[o][k] = rows[o][k]
      /\ rows'[o][Len(rows[o]) + 1] = e
  BY <1>4, AppendRow
<1>6. /\ logged'[o] \in Seq(Data)
      /\ Len(logged'[o]) = Len(rows[o]) + 1
      /\ \A k \in 1 .. Len(rows[o]) : logged'[o][k] = logged[o][k]
      /\ logged'[o][Len(rows[o]) + 1] = e.data
  BY <1>2, <1>4, AppendRow DEF TypeOK
<1>7. /\ DOMAIN entry' = Caller
      /\ \A d \in Caller : entry'[d] = IF d = c THEN NoEntry ELSE entry[d]
  BY <1>3 DEF TypeOK
<1> HIDE DEF e, T
<1>8. TypeOK'
  <2>1. rows' \in [Org -> Seq(AllRows')]
    <3>1. \A q \in Org : \A k \in DOMAIN rows'[q] : rows'[q][k] \in AllRows'
      BY DEF AllRows
    <3>2. \A q \in Org : rows'[q] \in Seq(T)
      <4>1. \A q \in Org \ {o} : rows'[q] \in Seq(AllRows)
        BY <1>4 DEF TypeOK
      <4>2. AllRows \subseteq T
        BY DEF T
      <4> QED
        BY <1>5, <4>1, <4>2, SeqMono
    <3>3. \A q \in Org : rows'[q] \in Seq(AllRows')
      BY <3>1, <3>2
    <3> QED
      BY <1>3, <3>3 DEF TypeOK
  <2>2. logged' \in [Org -> Seq(Data)]
    BY <1>3, <1>4, <1>6 DEF TypeOK
  <2>3. \A q \in Org :
          /\ Len(logged'[q]) = Len(rows'[q])
          /\ \A k \in DOMAIN rows'[q] : IsRow(rows'[q][k], q, k)
    <3>1. ASSUME NEW q \in Org \ {o}
          PROVE  /\ Len(logged'[q]) = Len(rows'[q])
                 /\ \A k \in DOMAIN rows'[q] : IsRow(rows'[q][k], q, k)
      BY <1>4 DEF TypeOK
    <3>2. \A k \in 1 .. Len(rows[o]) : IsRow(rows'[o][k], o, k)
      BY <1>5 DEF TypeOK
    <3>3. IsRow(rows'[o][Len(rows[o]) + 1], o, Len(rows[o]) + 1)
      BY <1>1, <1>5
    <3>4. \A k \in DOMAIN rows'[o] : IsRow(rows'[o][k], o, k)
      BY <1>5, <3>2, <3>3
    <3> QED
      BY <1>5, <1>6, <3>1, <3>4
  <2>4. \A d \in Caller :
          entry'[d] = NoEntry \/ \E q \in Org : IsRow(entry'[d], q, Len(rows'[q]) + 1)
    <3> SUFFICES ASSUME NEW d \in Caller, entry'[d] # NoEntry
                 PROVE  \E q \in Org : IsRow(entry'[d], q, Len(rows'[q]) + 1)
      OBVIOUS
    <3>1. PICK q \in Org : IsRow(entry[d], q, Len(rows[q]) + 1) /\ entry'[d] = entry[d]
      BY <1>7 DEF TypeOK
    <3>2. Len(rows[q]) \in Nat /\ Len(rows'[q]) \in {Len(rows[q]), Len(rows[q]) + 1}
      <4>1. rows[q] \in Seq(AllRows)
        BY DEF TypeOK
      <4>2. Len(rows[q]) \in Nat
        BY <4>1
      <4> QED
        BY <1>4, <1>5, <4>2
    <3>3. IsRow(entry'[d], q, Len(rows'[q]) + 1)
      BY <3>1, <3>2 DEF IsRow
    <3> QED
      BY <3>3
  <2> QED
    BY <1>3, <1>7, <2>1, <2>2, <2>3, <2>4 DEF TypeOK
<1>9. LinkInv'
  <2>1. \A q \in Org \ {o} : \A k \in DOMAIN rows'[q] : Linked(rows'[q][k], logged'[q][k])
    BY <1>4 DEF LinkInv
  <2>2. \A k \in 1 .. Len(rows[o]) : Linked(rows'[o][k], logged'[o][k])
    BY <1>5, <1>6 DEF LinkInv
  <2>3. \A k \in DOMAIN rows'[o] : Linked(rows'[o][k], logged'[o][k])
    BY <1>2, <1>5, <1>6, <2>2
  <2>4. \A d \in Caller : entry'[d] # NoEntry => Linked(entry'[d], entry'[d].data)
    BY <1>7 DEF LinkInv
  <2> QED
    BY <2>1, <2>3, <2>4 DEF LinkInv
<1> QED
  BY <1>8, <1>9

\* A change of what a row says leaves its number, its link and its hash alone.
LEMMA EditStep ==
  ASSUME TypeOK, LinkInv, NEW o \in Org, NEW data \in Data, NEW k \in DOMAIN rows[o],
         Edit(o, k, data)
  PROVE  TypeOK' /\ LinkInv'
<1> DEFINE r == [rows[o][k] EXCEPT !.data = data]
<1>1. /\ UNCHANGED <<entry, logged>>
      /\ rows' = [rows EXCEPT ![o] = [rows[o] EXCEPT ![k] = r]]
      /\ edits' = edits + 1
  <2>1. UNCHANGED <<entry, logged>> /\ edits' = edits + 1
    BY DEF Edit
  <2>2. rows' = [rows EXCEPT ![o] = [rows[o] EXCEPT ![k] = r]]
    BY Zenon DEF Edit
  <2> QED
    BY <2>1, <2>2
<1>2. /\ rows[o] \in Seq(AllRows) /\ Len(rows[o]) \in Nat
      /\ DOMAIN rows[o] = 1 .. Len(rows[o])
      /\ DOMAIN rows' = Org
      /\ \A q \in Org \ {o} : rows'[q] = rows[q]
      /\ rows'[o] = [rows[o] EXCEPT ![k] = r]
  BY <1>1 DEF TypeOK
<1>3. IsRow(rows[o][k], o, k) /\ Linked(rows[o][k], logged[o][k])
  BY DEF TypeOK, LinkInv
<1>4. IsRow(r, o, k) /\ Linked(r, logged[o][k])
  <2> DEFINE q == rows[o][k]
  <2>1. q = [org |-> o, data |-> q.data, seq |-> q.seq, prev |-> q.prev, hash |-> q.hash]
    BY <1>3 DEF IsRow
  <2>2. r = [org |-> o, data |-> data, seq |-> q.seq, prev |-> q.prev, hash |-> q.hash]
    BY <2>1
  <2> QED
    BY <1>3, <2>2 DEF IsRow, Linked
<1> HIDE DEF r
<1>5. /\ rows'[o] \in Seq(AllRows \cup {r}) /\ Len(rows'[o]) = Len(rows[o])
      /\ DOMAIN rows'[o] = DOMAIN rows[o]
      /\ \A j \in DOMAIN rows[o] : rows'[o][j] = IF j = k THEN r ELSE rows[o][j]
  BY <1>2
<1>6. TypeOK'
  <2>1. rows' \in [Org -> Seq(AllRows')]
    <3>1. \A q \in Org : \A j \in DOMAIN rows'[q] : rows'[q][j] \in AllRows'
      BY DEF AllRows
    <3>2. \A q \in Org : rows'[q] \in Seq(AllRows \cup {r})
      <4>1. \A q \in Org \ {o} : rows'[q] \in Seq(AllRows)
        BY <1>2 DEF TypeOK
      <4> QED
        BY <1>5, <4>1, SeqMono
    <3>3. \A q \in Org : rows'[q] \in Seq(AllRows')
      BY <3>1, <3>2
    <3> QED
      BY <1>1, <3>3 DEF TypeOK
  <2>2. \A q \in Org : Len(rows'[q]) = Len(rows[q])
    BY <1>2, <1>5
  <2>3. \A q \in Org : \A j \in DOMAIN rows'[q] : IsRow(rows'[q][j], q, j)
    BY <1>2, <1>4, <1>5 DEF TypeOK
  <2>4. edits' \in Nat
    BY <1>1 DEF TypeOK
  <2>5. \A q \in Org :
          /\ Len(logged'[q]) = Len(rows'[q])
          /\ \A j \in DOMAIN rows'[q] : IsRow(rows'[q][j], q, j)
    BY <1>1, <2>2, <2>3 DEF TypeOK
  <2>6. \A c \in Caller :
          entry'[c] = NoEntry \/ \E q \in Org : IsRow(entry'[c], q, Len(rows'[q]) + 1)
    BY <1>1, <2>2 DEF TypeOK
  <2>7. DOMAIN entry' = Caller /\ logged' \in [Org -> Seq(Data)]
    BY <1>1 DEF TypeOK
  <2> QED
    BY <2>1, <2>4, <2>5, <2>6, <2>7 DEF TypeOK
<1>7. LinkInv'
  BY <1>1, <1>2, <1>4, <1>5 DEF LinkInv
<1> QED
  BY <1>6, <1>7

\* Every step preserves the invariant.
LEMMA AuditStep ==
  ASSUME TypeOK, LinkInv, [Next]_vars
  PROVE  TypeOK' /\ LinkInv'
<1>1. CASE UNCHANGED vars
  BY <1>1 DEF vars, TypeOK, LinkInv, AllRows
<1>2. ASSUME NEW c \in Caller, FinishLog(c) PROVE TypeOK' /\ LinkInv'
  BY <1>2, FinishStep
<1>3. ASSUME NEW c \in Caller, NEW o \in Org, NEW data \in Data, BeginLog(c, o, data)
      PROVE  TypeOK' /\ LinkInv'
  BY <1>3, BeginStep
<1>4. ASSUME NEW o \in Org, NEW data \in Data, NEW k \in DOMAIN rows[o], Edit(o, k, data)
      PROVE  TypeOK' /\ LinkInv'
  BY <1>4, EditStep
<1> QED
  BY <1>1, <1>2, <1>3, <1>4 DEF Next

\* Every stored row and every row about to be stored is hashed over what it said
\* when it was logged and is linked to a row one number below it, however many
\* callers of Log overlap.
THEOREM AuditInvariant == Spec => [](TypeOK /\ LinkInv)
<1>1. TypeOK /\ LinkInv /\ [Next]_vars => (TypeOK /\ LinkInv)'
  BY AuditStep
<1> QED
  BY <1>1, AuditInit, PTL DEF Spec

\* Every stored row and every row that a call of Log is about to append is a row of its
\* organization, and there is one row for each entry that was logged.
THEOREM AuditTypes == Spec => []TypeOK
  BY AuditInvariant, PTL

----------------------------------------------------------------------------
(* What VerifyChain finds *)

\* A row that passes next to a row of the same number would have to be linked to
\* it, and it is linked to a row one number below.
LEMMA ForkFails ==
  ASSUME TypeOK, LinkInv, NEW o \in Org, Forked(o), NEW p \in Orders(o)
  PROVE  ~IsValid(o, p)
<1> DEFINE D == DOMAIN rows[o]
           seq == [x \in D |-> rows[o][p[x]].seq]
<1>1. /\ D = 1 .. Len(rows[o]) /\ Len(rows[o]) \in Nat
      /\ p \in [D -> D]
      /\ \A k \in D : \E x \in D : p[x] = k
      /\ \A x, y \in D : x < y => seq[x] <= seq[y]
  BY DEF TypeOK, Orders
<1>2. \A x \in D : seq[x] \in Nat
  <2> SUFFICES ASSUME NEW x \in D PROVE seq[x] \in Nat
    OBVIOUS
  <2>1. p[x] \in D
    BY <1>1
  <2>2. rows[o][p[x]].seq \in 1 .. p[x]
    BY <2>1 DEF TypeOK, IsRow
  <2> QED
    BY <2>2
<1>3. PICK x \in D, y \in D : x < y /\ seq[x] = seq[y]
  <2>1. PICK j \in D, k \in D : j # k /\ rows[o][j].seq = rows[o][k].seq
    BY DEF Forked
  <2>2. PICK v \in D, w \in D : p[v] = j /\ p[w] = k
    BY <1>1
  <2>3. v # w /\ seq[v] = seq[w]
    BY <2>1, <2>2
  <2>4. v < w \/ w < v
    BY <1>1, <2>3
  <2> QED
    BY <2>3, <2>4
<1>n. x \in 1 .. Len(rows[o]) /\ y \in 1 .. Len(rows[o])
  BY <1>1
<1>4. x + 1 \in D /\ seq[x + 1] = seq[x]
  <2> HIDE DEF seq, D
  <2>1. x \in D /\ y \in D /\ x \in Int /\ x < x + 1
    BY <1>1, <1>n
  <2>2. x + 1 \in D /\ (x + 1 < y \/ x + 1 = y)
    BY <1>1, <1>3, <1>n
  <2>3. seq[x] <= seq[x + 1] /\ (seq[x + 1] <= seq[y] \/ x + 1 = y)
    BY <1>1, <2>1, <2>2
  <2> QED
    BY <1>2, <1>3, <2>2, <2>3
<1> DEFINE q == rows[o][p[x]]
           r == rows[o][p[x + 1]]
<1>5. /\ Linked(q, logged[o][p[x]]) /\ Linked(r, logged[o][p[x + 1]])
      /\ q.seq \in Nat
  BY <1>1, <1>2, <1>3, <1>4 DEF LinkInv
<1>6. r.seq = q.seq
  BY <1>4
<1>7. IsValid(o, p) => r.prev = q.hash
  <2>1. x + 1 # 1 /\ (x + 1) - 1 = x
    BY <1>1, <1>n
  <2>2. ASSUME IsValid(o, p) PROVE Passes(o, p, x + 1)
    BY <1>4, <2>2 DEF IsValid
  <2> QED
    BY <2>1, <2>2 DEF Passes
<1> HIDE DEF q, r
<1>8. q.hash # Genesis /\ q.hash[1] = q.seq
  BY <1>5 DEF Linked, Genesis
<1>9. ASSUME r.prev = q.hash PROVE FALSE
  <2>1. r.seq = q.seq + 1
    BY <1>5, <1>8, <1>9 DEF Linked
  <2> QED
    BY <1>5, <1>6, <2>1
<1> QED
  BY <1>7, <1>9

\* Overlapping calls of Log never leave a chain that VerifyChain takes for valid.
THEOREM ForksAlwaysFound == Spec => []ForksFound
<1>1. TypeOK /\ LinkInv => ForksFound
  BY ForkFails DEF ForksFound
<1> QED
  BY <1>1, AuditInvariant, PTL

\* A changed row keeps the hash of what it said before.
LEMMA EditFails ==
  ASSUME TypeOK, LinkInv, NEW o \in Org, Edited(o) # {}, NEW p \in Orders(o)
  PROVE  ~IsValid(o, p)
<1>1. PICK k \in DOMAIN rows[o] : rows[o][k].data # logged[o][k]
  BY DEF Edited
<1>2. PICK x \in DOMAIN rows[o] : p[x] = k
  BY DEF Orders
<1> DEFINE r == rows[o][k]
<1>3. r.hash = <<r.seq, r.org, logged[o][k], r.prev>>
  BY DEF LinkInv, Linked
<1>4. r.hash # ComputeRowHash(r)
  BY <1>1, <1>3 DEF ComputeRowHash
<1> QED
  BY <1>2, <1>4 DEF IsValid, Passes

----------------------------------------------------------------------------
(* Chains without a fork *)

\* Row r was prepared when one of the first n rows of chain s was the last, or the chain
\* was empty.
Follows(r, s, n) ==
  \/ r.prev = Genesis /\ r.seq = 1
  \/ \E j \in 1 .. n : r.prev = s[j].hash /\ r.seq = s[j].seq + 1

ChainInv ==
  /\ \A o \in Org : \A k \in DOMAIN rows[o] : Follows(rows[o][k], rows[o], k - 1)
  /\ \A c \in Caller : entry[c] # NoEntry =>
       Follows(entry[c], rows[entry[c].org], Len(rows[entry[c].org]))
  /\ \A o \in Org : ~Forked(o) => \A k \in DOMAIN rows[o] : rows[o][k].seq = k

LEMMA ChainInit == Init => ChainInv
BY DEF Init, ChainInv, NoEntry

LEMMA ChainBegin ==
  ASSUME TypeOK, ChainInv, NEW c \in Caller, NEW o \in Org, NEW data \in Data,
         BeginLog(c, o, data)
  PROVE  ChainInv'
<1> DEFINE n == Len(rows[o])
           e == Successor(o, data)
<1>1. rows' = rows /\ DOMAIN entry' = Caller
      /\ \A d \in Caller : entry'[d] = IF d = c THEN e ELSE entry[d]
  BY DEF BeginLog, TypeOK
<1>2. n \in Nat /\ DOMAIN rows[o] = 1 .. n
  BY DEF TypeOK
<1>3. e.org = o /\ Follows(e, rows[o], n)
  BY <1>2 DEF Successor, NewRow, Hashed, Follows, Genesis
<1> HIDE DEF e, n
<1> QED BY <1>1, <1>3 DEF ChainInv, Follows, Forked, n

LEMMA ChainFinish ==
  ASSUME TypeOK, ChainInv, NEW c \in Caller, FinishLog(c)
  PROVE  ChainInv'
<1> DEFINE e == entry[c]
<1>1. PICK o \in Org : IsRow(e, o, Len(rows[o]) + 1)
  BY DEF FinishLog, TypeOK
<1>2. e.org = o /\ e.seq \in 1 .. Len(rows[o]) + 1 /\ Follows(e, rows[o], Len(rows[o]))
  BY <1>1 DEF IsRow, ChainInv, FinishLog
<1>3. PICK n \in Nat : n = Len(rows[o]) /\ DOMAIN rows[o] = 1 .. n /\ rows[o] \in Seq(AllRows)
  BY DEF TypeOK
<1>4. /\ rows' = [rows EXCEPT ![o] = Append(@, e)]
      /\ entry' = [entry EXCEPT ![c] = NoEntry]
  BY <1>2 DEF FinishLog
<1>5. /\ rows'[o] = Append(rows[o], e)
      /\ \A q \in Org \ {o} : rows'[q] = rows[q]
      /\ \A d \in Caller : entry'[d] = IF d = c THEN NoEntry ELSE entry[d]
  BY <1>4 DEF TypeOK
<1>6. /\ Len(rows'[o]) = n + 1 /\ DOMAIN rows'[o] = 1 .. n + 1
      /\ \A k \in 1 .. n : rows'[o][k] = rows[o][k]
      /\ rows'[o][n + 1] = e
  BY <1>3, <1>5, AppendRow
<1> HIDE DEF e
<1>7. ASSUME NEW q \in Org, NEW r, NEW m \in Nat, m <= Len(rows[q]), Follows(r, rows[q], m)
      PROVE  Follows(r, rows'[q], m)
  <2>1. CASE q # o
    BY <1>5, <1>7, <2>1
  <2>2. CASE q = o
    <3>1. \A j \in 1 .. m : rows'[q][j] = rows[q][j]
      BY <1>3, <1>6, <1>7, <2>2
    <3> QED BY <1>7, <3>1 DEF Follows
  <2> QED BY <2>1, <2>2
<1>8. \A q \in Org : \A k \in DOMAIN rows'[q] : Follows(rows'[q][k], rows'[q], k - 1)
  <2> SUFFICES ASSUME NEW q \in Org, NEW k \in DOMAIN rows'[q]
               PROVE  Follows(rows'[q][k], rows'[q], k - 1)
      OBVIOUS
  <2>1. CASE q # o
    <3>1. rows'[q] = rows[q] /\ k \in 1 .. Len(rows[q]) /\ Len(rows[q]) \in Nat
      BY <1>5, <2>1 DEF TypeOK
    <3>2. Follows(rows[q][k], rows[q], k - 1) /\ k - 1 \in Nat /\ k - 1 <= Len(rows[q])
      BY <3>1 DEF ChainInv
    <3> QED BY <1>7, <3>1, <3>2
  <2>2. CASE q = o /\ k # n + 1
    <3>1. k \in 1 .. n /\ k - 1 \in Nat /\ k - 1 <= n /\ rows'[q][k] = rows[q][k]
      BY <1>3, <1>6, <2>2
    <3>2. Follows(rows[q][k], rows[q], k - 1)
      BY <1>3, <2>2, <3>1 DEF ChainInv
    <3> QED BY <1>3, <1>7, <2>2, <3>1, <3>2
  <2>3. CASE q = o /\ k = n + 1
    <3>1. rows'[q][k] = e /\ k - 1 = n
      BY <1>6, <2>3
    <3> QED BY <1>2, <1>3, <1>7, <2>3, <3>1
  <2> QED BY <2>1, <2>2, <2>3
<1>9. ASSUME NEW d \in Caller, entry'[d] # NoEntry
      PROVE  Follows(entry'[d], rows'[entry'[d].org], Len(rows'[entry'[d].org]))
  <2>1. entry'[d] = entry[d] /\ entry[d] # NoEntry
    BY <1>5, <1>9
  <2>2. PICK q \in Org : q = entry[d].org
    BY <2>1 DEF TypeOK, IsRow
  <2>3. Follows(entry[d], rows[q], Len(rows[q]))
    BY <2>1, <2>2 DEF ChainInv
  <2>4. Len(rows[q]) \in Nat /\ (Len(rows'[q]) = Len(rows[q]) \/ Len(rows'[q]) = Len(rows[q]) + 1)
    <3>1. rows[q] \in Seq(AllRows)
      BY DEF TypeOK
    <3>2. Len(rows[q]) \in Nat
      BY <3>1
    <3> QED BY <1>3, <1>5, <1>6, <3>2
  <2>5. Follows(entry[d], rows'[q], Len(rows[q]))
    <3>1. PICK m \in Nat : m = Len(rows[q])
      BY <2>4
    <3>2. m <= Len(rows[q]) /\ Follows(entry[d], rows[q], m)
      BY <2>3, <3>1
    <3>3. Follows(entry[d], rows'[q], m)
      BY <1>7, <3>2
    <3> QED BY <3>1, <3>3
  <2>6. Follows(entry'[d], rows'[q], Len(rows'[q]))
    BY <2>1, <2>4, <2>5 DEF Follows
  <2> QED BY <2>1, <2>2, <2>6
<1>10. ASSUME NEW q \in Org, ~Forked(q)', NEW k \in DOMAIN rows'[q]
       PROVE  rows'[q][k].seq = k
  <2>1. CASE q # o
    BY <1>5, <1>10, <2>1 DEF ChainInv, Forked
  <2>2. CASE q = o
    <3>1. ~Forked(o)
      BY <1>3, <1>6, <1>10, <2>2 DEF Forked
    <3>2. \A j \in 1 .. n : rows'[o][j].seq = j
      BY <1>3, <1>6, <3>1 DEF ChainInv
    <3>3. ASSUME NEW j \in 1 .. n
          PROVE  e.seq # j
      <4>1. j \in 1 .. n + 1 /\ n + 1 \in 1 .. n + 1 /\ j # n + 1
        OBVIOUS
      <4>2. rows'[o][j].seq = j /\ rows'[o][n + 1].seq = e.seq
        BY <1>6, <3>2
      <4>3. rows'[o][j].seq # rows'[o][n + 1].seq
        <5>1. \A i, h \in DOMAIN rows'[o] : i # h => rows'[o][i].seq # rows'[o][h].seq
          BY <1>10, <2>2 DEF Forked
        <5> QED BY <1>6, <4>1, <5>1
      <4> QED BY <4>2, <4>3
    <3>4. e.seq = n + 1
      BY <1>2, <1>3, <3>3
    <3> QED BY <1>6, <2>2, <3>2, <3>4
  <2> QED BY <2>1, <2>2
<1> QED BY <1>8, <1>9, <1>10 DEF ChainInv

LEMMA ChainEdit ==
  ASSUME TypeOK, ChainInv, NEW o \in Org, NEW data \in Data, NEW k \in DOMAIN rows[o],
         Edit(o, k, data)
  PROVE  ChainInv'
<1> DEFINE r == [rows[o][k] EXCEPT !.data = data]
<1>1. entry' = entry /\ rows' = [rows EXCEPT ![o] = [rows[o] EXCEPT ![k] = r]]
  <2>1. entry' = entry
    BY DEF Edit
  <2>2. rows' = [rows EXCEPT ![o] = [rows[o] EXCEPT ![k] = r]]
    BY Zenon DEF Edit
  <2> QED BY <2>1, <2>2
<1>2. IsRow(rows[o][k], o, k)
  BY DEF TypeOK
<1>3. r.seq = rows[o][k].seq /\ r.prev = rows[o][k].prev /\ r.hash = rows[o][k].hash
  BY <1>2 DEF IsRow
<1> HIDE DEF r
<1>4. /\ \A q \in Org : DOMAIN rows'[q] = DOMAIN rows[q] /\ Len(rows'[q]) = Len(rows[q])
      /\ \A q \in Org : \A j \in DOMAIN rows[q] :
           /\ rows'[q][j].seq = rows[q][j].seq
           /\ rows'[q][j].prev = rows[q][j].prev
           /\ rows'[q][j].hash = rows[q][j].hash
  <2>1. rows[o] \in Seq(AllRows) /\ \A q \in Org \ {o} : rows'[q] = rows[q]
    BY <1>1 DEF TypeOK
  <2>2. rows'[o] = [rows[o] EXCEPT ![k] = r]
    BY <1>1 DEF TypeOK
  <2>3. DOMAIN rows'[o] = DOMAIN rows[o] /\ Len(rows'[o]) = Len(rows[o])
    BY <2>1, <2>2
  <2> QED BY <1>3, <2>1, <2>2, <2>3
<1>5. \A q \in Org : Len(rows[q]) \in Nat /\ DOMAIN rows[q] = 1 .. Len(rows[q])
  BY DEF TypeOK
<1>6. \A q \in Org : \A j \in DOMAIN rows'[q] : Follows(rows'[q][j], rows'[q], j - 1)
  <2> SUFFICES ASSUME NEW q \in Org, NEW j \in DOMAIN rows'[q]
               PROVE  Follows(rows'[q][j], rows'[q], j - 1)
      OBVIOUS
  <2>1. j \in 1 .. Len(rows[q]) /\ Follows(rows[q][j], rows[q], j - 1)
    BY <1>4, <1>5 DEF ChainInv
  <2>2. \A i \in 1 .. j - 1 : i \in DOMAIN rows[q]
    BY <1>5, <2>1
  <2> QED BY <1>4, <2>1, <2>2 DEF Follows
<1>7. ASSUME NEW d \in Caller, entry'[d] # NoEntry
      PROVE  Follows(entry'[d], rows'[entry'[d].org], Len(rows'[entry'[d].org]))
  <2>1. PICK q \in Org : q = entry[d].org
    BY <1>1, <1>7 DEF TypeOK, IsRow
  <2>2. Follows(entry[d], rows[q], Len(rows[q]))
    BY <1>1, <1>7, <2>1 DEF ChainInv
  <2>3. Follows(entry[d], rows'[q], Len(rows'[q]))
    BY <1>4, <1>5, <2>2 DEF Follows
  <2> QED BY <1>1, <2>1, <2>3
<1>8. \A q \in Org : ~Forked(q)' => \A j \in DOMAIN rows'[q] : rows'[q][j].seq = j
  <2> SUFFICES ASSUME NEW q \in Org, ~Forked(q)', NEW j \in DOMAIN rows'[q]
               PROVE  rows'[q][j].seq = j
      OBVIOUS
  <2>1. ~Forked(q)
    BY <1>4 DEF Forked
  <2> QED BY <1>4, <2>1 DEF ChainInv
<1> QED BY <1>6, <1>7, <1>8 DEF ChainInv

LEMMA ChainInvariance == Spec => []ChainInv
<1>1. TypeOK /\ ChainInv /\ [Next]_vars => ChainInv'
  <2> SUFFICES ASSUME TypeOK, ChainInv, [Next]_vars
               PROVE  ChainInv'
      OBVIOUS
  <2>1. CASE UNCHANGED vars
    BY <2>1 DEF vars, ChainInv, Follows, Forked
  <2> QED BY <2>1, ChainBegin, ChainFinish, ChainEdit DEF Next
<1> QED BY <1>1, ChainInit, AuditInvariant, PTL DEF Spec

\* In an unforked chain every row is linked to the row before it.
LEMMA LinkedToPrevious ==
  ASSUME TypeOK, ChainInv, NEW o \in Org, ~Forked(o), NEW k \in DOMAIN rows[o]
  PROVE  rows[o][k].prev = IF k = 1 THEN Genesis ELSE rows[o][k - 1].hash
<1>1. DOMAIN rows[o] = 1 .. Len(rows[o]) /\ Len(rows[o]) \in Nat
  BY DEF TypeOK
<1>2. \A j \in DOMAIN rows[o] : rows[o][j].seq = j
  BY DEF ChainInv
<1>3. Follows(rows[o][k], rows[o], k - 1)
  BY DEF ChainInv
<1>4. \A j \in 1 .. k - 1 : rows[o][j].seq = j
  BY <1>1, <1>2
<1> QED BY <1>1, <1>2, <1>3, <1>4 DEF Follows

LEMMA IntervalSize ==
  ASSUME NEW a \in Nat, NEW b \in Nat, a <= b
  PROVE  IsFiniteSet(a .. b) /\ Cardinality(a .. b) = b - a + 1
BY FS_Interval

\* A sort that respects a strict order leaves everything in its place.
LEMMA OnlyOrder ==
  ASSUME NEW n \in Nat, NEW p \in [1 .. n -> 1 .. n],
         \A k \in 1 .. n : \E x \in 1 .. n : p[x] = k,
         \A x, y \in 1 .. n : x < y => p[x] <= p[y]
  PROVE  \A x \in 1 .. n : p[x] = x
<1> SUFFICES ASSUME NEW x \in 1 .. n
             PROVE  p[x] = x
    OBVIOUS
<1> DEFINE k == p[x]
<1>1. k \in 1 .. n
  OBVIOUS
<1>2. k <= x
  <2> DEFINE g == [y \in 1 .. x |-> p[y]]
  <2>1. \A y \in 1 .. x : g[y] \in 1 .. k
    OBVIOUS
  <2>2. \A j \in 1 .. k : \E y \in 1 .. x : g[y] = j
    <3> SUFFICES ASSUME NEW j \in 1 .. k
                 PROVE  \E y \in 1 .. x : g[y] = j
        OBVIOUS
    <3>0. j \in 1 .. n
      BY <1>1
    <3>1. PICK y \in 1 .. n : p[y] = j
      BY <3>0
    <3>2. CASE y <= x
      BY <3>1, <3>2
    <3>3. CASE y > x
      BY <1>1, <3>1, <3>3
    <3> QED BY <3>2, <3>3
  <2>3. g \in [1 .. x -> 1 .. k]
    BY <2>1
  <2> HIDE DEF g, k
  <2>4. g \in Surjection(1 .. x, 1 .. k)
    BY <2>2, <2>3 DEF Surjection
  <2>5. IsFiniteSet(1 .. x) /\ Cardinality(1 .. x) = x /\ Cardinality(1 .. k) = k
    <3>1. 1 \in Nat /\ x \in Nat /\ k \in Nat /\ 1 <= x /\ 1 <= k
      BY <1>1
    <3>2. IsFiniteSet(1 .. x) /\ Cardinality(1 .. x) = x - 1 + 1
      BY <3>1, IntervalSize
    <3>3. Cardinality(1 .. k) = k - 1 + 1
      BY <3>1, IntervalSize
    <3> QED BY <3>1, <3>2, <3>3
  <2> QED BY <2>4, <2>5, FS_Surjection
<1>3. x <= k
  <2> DEFINE g == [y \in x .. n |-> p[y]]
  <2>1. \A y \in x .. n : g[y] \in k .. n
    OBVIOUS
  <2>2. \A j \in k .. n : \E y \in x .. n : g[y] = j
    <3> SUFFICES ASSUME NEW j \in k .. n
                 PROVE  \E y \in x .. n : g[y] = j
        OBVIOUS
    <3>0. j \in 1 .. n
      BY <1>1
    <3>1. PICK y \in 1 .. n : p[y] = j
      BY <3>0
    <3>2. CASE y >= x
      BY <3>1, <3>2
    <3>3. CASE y < x
      BY <1>1, <3>1, <3>3
    <3> QED BY <3>2, <3>3
  <2>3. g \in [x .. n -> k .. n]
    BY <2>1
  <2> HIDE DEF g, k
  <2>4. g \in Surjection(x .. n, k .. n)
    BY <2>2, <2>3 DEF Surjection
  <2>5. IsFiniteSet(x .. n) /\ Cardinality(x .. n) = n - x + 1 /\ Cardinality(k .. n) = n - k + 1
    <3>1. n \in Nat /\ x \in Nat /\ k \in Nat /\ x <= n /\ k <= n
      BY <1>1
    <3> QED BY <3>1, IntervalSize
  <2>6. Cardinality(k .. n) <= Cardinality(x .. n)
    BY <2>4, <2>5, FS_Surjection
  <2> QED BY <1>1, <2>5, <2>6
<1> QED BY <1>1, <1>2, <1>3

LEMMA SortedInPlace ==
  ASSUME TypeOK, ChainInv, NEW o \in Org, ~Forked(o), NEW p \in Orders(o)
  PROVE  \A x \in DOMAIN rows[o] : p[x] = x
<1>1. PICK n \in Nat : n = Len(rows[o]) /\ DOMAIN rows[o] = 1 .. n
  BY DEF TypeOK
<1>2. \A k \in 1 .. n : rows[o][k].seq = k
  BY <1>1 DEF ChainInv
<1>3. /\ p \in [1 .. n -> 1 .. n]
      /\ \A k \in 1 .. n : \E x \in 1 .. n : p[x] = k
      /\ \A x, y \in 1 .. n : x < y => rows[o][p[x]].seq <= rows[o][p[y]].seq
  BY <1>1 DEF Orders
<1>4. \A x, y \in 1 .. n : x < y => p[x] <= p[y]
  <2> SUFFICES ASSUME NEW x \in 1 .. n, NEW y \in 1 .. n, x < y
               PROVE  p[x] <= p[y]
      OBVIOUS
  <2>1. rows[o][p[x]].seq <= rows[o][p[y]].seq
    BY <1>3
  <2>2. rows[o][p[x]].seq = p[x] /\ rows[o][p[y]].seq = p[y]
    BY <1>2, <1>3
  <2> QED BY <2>1, <2>2
<1> QED BY <1>1, <1>3, <1>4, OnlyOrder

\* There VerifyChain stops at the changed rows and at no other.
LEMMA PassesUnlessEdited ==
  ASSUME TypeOK, LinkInv, ChainInv, NEW o \in Org, ~Forked(o), NEW p \in Orders(o),
         NEW x \in DOMAIN rows[o]
  PROVE  Passes(o, p, x) <=> x \notin Edited(o)
<1>1. DOMAIN rows[o] = 1 .. Len(rows[o]) /\ Len(rows[o]) \in Nat
  BY DEF TypeOK
<1>2. p[x] = x /\ (x # 1 => p[x - 1] = x - 1)
  BY <1>1, SortedInPlace
<1> DEFINE r == rows[o][x]
<1>3. r.prev = IF x = 1 THEN Genesis ELSE rows[o][p[x - 1]].hash
  BY <1>2, LinkedToPrevious
<1>4. r.hash = <<r.seq, r.org, logged[o][x], r.prev>>
  BY DEF LinkInv, Linked
<1>5. Passes(o, p, x) <=> r.hash = ComputeRowHash(r)
  BY <1>2, <1>3 DEF Passes
<1>6. r.hash = ComputeRowHash(r) <=> r.data = logged[o][x]
  BY <1>4 DEF ComputeRowHash
<1> QED BY <1>5, <1>6 DEF Edited

\* No false alarm, for chains of any length: rows that Log appended one after the other
\* and nobody changed verify.
THEOREM UntouchedAlwaysValid == Spec => []UntouchedIsValid
<1>1. TypeOK /\ LinkInv /\ ChainInv => UntouchedIsValid
  BY PassesUnlessEdited DEF UntouchedIsValid, IsValid
<1> QED
  BY <1>1, AuditInvariant, ChainInvariance, PTL

\* A changed row is never taken for a valid one, whenever the change came, and where
\* VerifyChain points to is the first changed row, not one next to it.
THEOREM EditsAlwaysLocated == Spec => []EditsLocated
<1>1. TypeOK /\ LinkInv /\ ChainInv => EditsLocated
  <2> SUFFICES ASSUME TypeOK, LinkInv, ChainInv,
                      NEW o \in Org, Edited(o) # {}, NEW p \in Orders(o), ~Forked(o)
               PROVE  FirstInvalid(o, p) = CHOOSE k \in Edited(o) : \A j \in Edited(o) : k <= j
      BY EditFails DEF EditsLocated
  <2> DEFINE D == DOMAIN rows[o]
             First(x) == x \in D /\ ~Passes(o, p, x) /\ \A y \in D : y < x => Passes(o, p, y)
             Least(x) == x \in Edited(o) /\ \A j \in Edited(o) : x <= j
  <2>1. \A x \in D : Passes(o, p, x) <=> x \notin Edited(o)
    BY PassesUnlessEdited
  <2>2. D \subseteq Nat /\ Edited(o) \subseteq D
    BY DEF TypeOK, Edited
  <2>3. \A x : First(x) <=> Least(x)
    <3> HIDE DEF D
    <3>1. \A x \in D : First(x) <=> Least(x)
      <4> SUFFICES ASSUME NEW x \in D
                   PROVE  First(x) <=> Least(x)
          OBVIOUS
      <4>1. (\A y \in D : y < x => Passes(o, p, y)) <=> \A y \in Edited(o) : ~(y < x)
        BY <2>1, <2>2
      <4>2. (\A y \in Edited(o) : ~(y < x)) <=> \A y \in Edited(o) : x <= y
        <5>1. x \in Nat /\ \A y \in Edited(o) : y \in Nat
          BY <2>2
        <5>2. \A y \in Nat : ~(y < x) <=> x <= y
          BY <5>1
        <5> QED BY <5>1, <5>2
      <4> QED BY <2>1, <4>1, <4>2
    <3>2. \A x : (First(x) => x \in D) /\ (Least(x) => x \in D)
      BY <2>2
    <3> QED BY <3>1, <3>2
  <2>4. FirstInvalid(o, p) = CHOOSE x : First(x)
    BY Zenon DEF FirstInvalid
  <2>5. (CHOOSE k \in Edited(o) : \A j \in Edited(o) : k <= j) = CHOOSE x : Least(x)
    BY Zenon
  <2> HIDE DEF First, Least
  <2>6. (CHOOSE x : First(x)) = CHOOSE x : Least(x)
    BY <2>3, Zenon
  <2> QED BY <2>4, <2>5, <2>6, Zenon
<1> QED
  BY <1>1, AuditInvariant, ChainInvariance, PTL
=============================================================================
