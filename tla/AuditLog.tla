------------------------------ MODULE AuditLog ------------------------------
(***************************************************************************)
(* The SDK-side audit log (audit.go): every organization has a chain of     *)
(* rows, each hashed together with its predecessor's hash, so that a row    *)
(* changed behind the log's back can be found by VerifyChain.               *)
(*                                                                         *)
(* Log reads the last row and appends its successor in two calls to the     *)
(* store.  Each is under the store's mutex; the pair is not.                *)
(*                                                                         *)
(* A row hash is the tuple of what it is computed from (SHA-256 does not    *)
(* collide here).  What an entry says is one value of Data.                 *)
(***************************************************************************)
EXTENDS Integers, Sequences

CONSTANTS
  Org,      \* organizations
  Data,     \* what an entry says: event, user, resource, payload, time
  Caller,   \* goroutines that call Log
  MaxRows,  \* bound: rows of an organization
  MaxEdits  \* bound: how many stored rows are changed behind the log's back

ASSUME AuditAssumption == MaxRows \in Nat /\ MaxEdits \in Nat

VARIABLES
  rows,    \* rows[o]: InMemoryAuditStore.byOrg[o]
  entry,   \* entry[c]: what caller c is about to append, or NoEntry
  logged,  \* logged[o][k]: what row k said when it was appended
  edits    \* changes so far

vars == <<rows, entry, logged, edits>>

Genesis == << >>
NoEntry == << >>

Init ==
  /\ rows = [o \in Org |-> << >>]
  /\ entry = [c \in Caller |-> NoEntry]
  /\ logged = [o \in Org |-> << >>]
  /\ edits = 0

\* computeRowHash covers everything but the hash itself, the signature and the id.
ComputeRowHash(r) == <<r.seq, r.org, r.data, r.prev>>

NewRow(o, data, seq, prev) ==
  [org |-> o, data |-> data, seq |-> seq, prev |-> prev, hash |-> Genesis]

Hashed(r) == [r EXCEPT !.hash = ComputeRowHash(r)]

\* Mutant: the row is hashed before it is linked.
HashedThenLinked(o, data) ==
  LET n == Len(rows[o])
  IN  IF n = 0 THEN Hashed(NewRow(o, data, 1, Genesis))
      ELSE [Hashed(NewRow(o, data, rows[o][n].seq + 1, Genesis))
              EXCEPT !.prev = rows[o][n].hash]

\* Mutant: the first sequence number is 0.
SuccessorFromZero(o, data) ==
  LET n == Len(rows[o])
  IN  IF n = 0 THEN Hashed(NewRow(o, data, 0, Genesis))
      ELSE Hashed(NewRow(o, data, rows[o][n].seq + 1, rows[o][n].hash))

\* The row that follows the store's last one.
Successor(o, data) ==
  LET n == Len(rows[o])
  IN  IF n = 0 THEN Hashed(NewRow(o, data, 1, Genesis))
      ELSE Hashed(NewRow(o, data, rows[o][n].seq + 1, rows[o][n].hash))

\* Log up to the call of Append.
BeginLog(c, o, data) ==
  /\ entry[c] = NoEntry
  /\ Len(rows[o]) < MaxRows
  /\ entry' = [entry EXCEPT ![c] = Successor(o, data)]
  /\ UNCHANGED <<rows, logged, edits>>

\* Append, and Log returns.
FinishLog(c) ==
  /\ entry[c] # NoEntry
  /\ LET o == entry[c].org IN
       /\ Len(rows[o]) < MaxRows
       /\ rows' = [rows EXCEPT ![o] = Append(@, entry[c])]
       /\ logged' = [logged EXCEPT ![o] = Append(@, entry[c].data)]
  /\ entry' = [entry EXCEPT ![c] = NoEntry]
  /\ UNCHANGED edits

\* Somebody changes what a stored row says.
Edit(o, k, data) ==
  /\ edits < MaxEdits
  /\ edits' = edits + 1
  /\ data # rows[o][k].data
  /\ rows' = [rows EXCEPT ![o] =
                 [rows[o] EXCEPT ![k] = [rows[o][k] EXCEPT !.data = data]]]
  /\ UNCHANGED <<entry, logged>>

Next ==
  \/ \E c \in Caller : FinishLog(c)
  \/ \E c \in Caller, o \in Org, data \in Data : BeginLog(c, o, data)
  \/ \E o \in Org, data \in Data : \E k \in DOMAIN rows[o] : Edit(o, k, data)

Spec == Init /\ [][Next]_vars

----------------------------------------------------------------------------
(* VerifyChain.  sort.Slice is not stable: rows with equal sequence numbers *)
(* come out in any order.                                                   *)

Orders(o) ==
  {p \in [DOMAIN rows[o] -> DOMAIN rows[o]] :
     /\ \A k \in DOMAIN rows[o] : \E x \in DOMAIN rows[o] : p[x] = k
     /\ \A x, y \in DOMAIN rows[o] : x < y => rows[o][p[x]].seq <= rows[o][p[y]].seq}

\* Mutant: the link to the previous row is not compared.
HashOnly(o, p, x) == rows[o][p[x]].hash = ComputeRowHash(rows[o][p[x]])

\* The row in place x of the sorted rows passes both tests of the loop.
Passes(o, p, x) ==
  LET r == rows[o][p[x]]
  IN  /\ r.prev = IF x = 1 THEN Genesis ELSE rows[o][p[x - 1]].hash
      /\ r.hash = ComputeRowHash(r)

\* VerifyChain's answer.
IsValid(o, p) == \A x \in DOMAIN rows[o] : Passes(o, p, x)

\* Mutant: the last failing position is reported.
LastInvalid(o, p) ==
  CHOOSE x \in DOMAIN rows[o] :
    /\ ~Passes(o, p, x)
    /\ \A y \in DOMAIN rows[o] : y > x => Passes(o, p, y)

\* The position VerifyChain reports when the answer is FALSE.
FirstInvalid(o, p) ==
  CHOOSE x \in DOMAIN rows[o] :
    /\ ~Passes(o, p, x)
    /\ \A y \in DOMAIN rows[o] : y < x => Passes(o, p, y)

----------------------------------------------------------------------------
(* Properties *)

\* Two calls of Log overlapped: both followed the same row.
Forked(o) == \E j, k \in DOMAIN rows[o] : j # k /\ rows[o][j].seq = rows[o][k].seq

Edited(o) == {k \in DOMAIN rows[o] : rows[o][k].data # logged[o][k]}

\* A row of organization o that has at most n - 1 predecessors.  Hashes are nested
\* tuples, which have no type: the record is compared with one of its fields.
IsRow(r, o, n) ==
  /\ r = [org |-> o, data |-> r.data, seq |-> r.seq, prev |-> r.prev, hash |-> r.hash]
  /\ r.data \in Data
  /\ r.seq \in 1 .. n

AllRows == UNION {{rows[o][k] : k \in DOMAIN rows[o]} : o \in Org}

TypeOK ==
  /\ rows \in [Org -> Seq(AllRows)]
  /\ logged \in [Org -> Seq(Data)]
  /\ \A o \in Org :
       /\ Len(logged[o]) = Len(rows[o])
       /\ \A k \in DOMAIN rows[o] : IsRow(rows[o][k], o, k)
  /\ DOMAIN entry = Caller
  /\ \A c \in Caller :
       entry[c] = NoEntry \/ \E o \in Org : IsRow(entry[c], o, Len(rows[o]) + 1)
  /\ edits \in Nat

\* A fork left by overlapping calls of Log is never taken for a valid chain, in
\* whatever order the sort leaves the rows.
ForksFound ==
  \A o \in Org : Forked(o) => \A p \in Orders(o) : ~IsValid(o, p)

\* No false alarm: without overlap and without a change the chain verifies.
UntouchedIsValid ==
  \A o \in Org : ~Forked(o) /\ Edited(o) = {} => \A p \in Orders(o) : IsValid(o, p)

\* A changed row is found, even when Log was between its two calls at the time or
\* has built on the row since; without a fork VerifyChain reports the position of the
\* first changed row.
EditsLocated ==
  \A o \in Org : Edited(o) # {} =>
    \A p \in Orders(o) :
      /\ ~IsValid(o, p)
      /\ ~Forked(o) =>
           FirstInvalid(o, p) = CHOOSE k \in Edited(o) : \A j \in Edited(o) : k <= j

----------------------------------------------------------------------------
(* The inductive invariant *)

\* Row r said said when it was hashed, and follows the row before it in number.
Linked(r, said) ==
  /\ r.hash = <<r.seq, r.org, said, r.prev>>
  /\ IF r.prev = Genesis THEN r.seq = 1 ELSE r.seq = r.prev[1] + 1

LinkInv ==
  /\ \A o \in Org : \A k \in DOMAIN rows[o] : Linked(rows[o][k], logged[o][k])
  /\ \A c \in Caller : entry[c] # NoEntry => Linked(entry[c], entry[c].data)
=============================================================================
