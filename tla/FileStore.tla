----------------------------- MODULE FileStore -----------------------------
(***************************************************************************)
(* One session file of the JSONL store (session/store.go) and the program   *)
(* that keeps saving its session into it.                                   *)
(*                                                                         *)
(* A file is a sequence of pieces: a header line, message lines and the     *)
(* newlines that end them.  A write may stop half-way (the disk is full, the*)
(* process dies), within a line or between a line and its newline.  Save    *)
(* decides from the number of newlines on disk whether to append or to      *)
(* rewrite, so what a torn write leaves behind is what the next Save builds *)
(* on.                                                                      *)
(***************************************************************************)
EXTENDS Integers, Sequences, FiniteSets

CONSTANTS
  Message,   \* contents of a message; the same one may be said twice
  Absent,    \* "no such file" / "no session in memory"
  MaxLen,    \* bound: messages of a history
  MaxFaults  \* bound: torn writes and crashes

Header == "header line"
NL   == "newline"
Part == "piece of a line"

History == UNION {[1 .. n -> Message] : n \in 0 .. MaxLen}

ASSUME FileStoreAssumption ==
  /\ MaxLen \in Nat /\ MaxFaults \in Nat
  /\ Message \cap {Header, NL, Part} = {}
  /\ Absent \notin Seq(Message \cup {Header, NL, Part})

VARIABLES
  file,    \* the pieces on disk, or Absent
  mine,    \* the history the program holds in memory, or Absent
  pc,      \* where the program is in Save
  onDisk,  \* what countMessages returned
  acked,   \* the history of the last Save that returned nil
  tried,   \* the history of the last Save that was called
  shrunk,  \* some Save has replaced the history by a shorter one
  faults   \* torn writes and crashes so far

vars == <<file, mine, pc, onDisk, acked, tried, shrunk, faults>>

Init ==
  /\ file = Absent
  /\ mine = Absent
  /\ pc = "idle"
  /\ onDisk = 0
  /\ acked = << >>
  /\ tried = << >>
  /\ shrunk = FALSE
  /\ faults = 0

----------------------------------------------------------------------------
(* Reading and writing the pieces *)

Newlines(f) == {k \in DOMAIN f : f[k] = NL}

\* countMessages: newlines less the header's; -1 without a file.
CountMessages(f) ==
  IF f = Absent THEN -1
  ELSE IF Newlines(f) = {} THEN 0
  ELSE Cardinality(Newlines(f)) - 1

\* writeMessage for each of msgs.
Lines(msgs) == [k \in 1 .. 2 * Len(msgs) |-> IF k % 2 = 1 THEN msgs[(k + 1) \div 2] ELSE NL]

\* What rewrite writes.
Whole(msgs) == <<Header, NL>> \o Lines(msgs)

\* Load succeeds: a header line, then whole message lines; the last newline may be
\* missing.
Readable(f) ==
  /\ f # Absent
  /\ f # << >>
  /\ \A k \in DOMAIN f :
       IF k = 1 THEN f[k] = Header
       ELSE IF k % 2 = 0 THEN f[k] = NL
       ELSE f[k] \in Message

\* Mutant: the header line is taken for a message.
LoadLines(f) == [k \in 1 .. (Len(f) + 1) \div 2 |-> f[2 * k - 1]]

\* What Load returns.
LoadMsgs(f) == [k \in 1 .. (Len(f) - 1) \div 2 |-> f[2 * k + 1]]

\* What may be left of a write that stopped half-way.
TornPrefixes(data) ==
  {SubSeq(data, 1, k) : k \in 0 .. Len(data) - 1} \cup
  {Append(SubSeq(data, 1, k), Part) : k \in {j \in 0 .. Len(data) - 1 : data[j + 1] # NL}}

----------------------------------------------------------------------------
(* The program *)

\* A program starts a session.
NewSession ==
  /\ pc = "idle"
  /\ mine = Absent
  /\ file = Absent
  /\ mine' = << >>
  /\ UNCHANGED <<file, pc, onDisk, acked, tried, shrunk, faults>>

\* Load succeeds.
LoadSession ==
  /\ pc = "idle"
  /\ Readable(file)
  /\ mine' = LoadMsgs(file)
  /\ UNCHANGED <<file, pc, onDisk, acked, tried, shrunk, faults>>

\* Mutant: only a missing file is rewritten.
RewriteIfMissing(count, msgs) == count < 0

MustRewrite(count, msgs) == count < 0 \/ count > Len(msgs)

\* Save is called and counts what is on disk.
BeginSave(h) ==
  /\ pc = "idle"
  /\ mine # Absent
  /\ mine' = h
  /\ tried' = h
  /\ shrunk' = (shrunk \/ Len(h) < Len(mine))
  /\ onDisk' = CountMessages(file)
  /\ pc' = IF MustRewrite(CountMessages(file), h) THEN "truncate" ELSE "append"
  /\ UNCHANGED <<file, acked, faults>>

\* Every change of the history is saved at once; a failed Save may be repeated.
SaveAgain == mine # Absent /\ BeginSave(mine)

SaveMore ==
  /\ mine # Absent
  /\ Len(mine) < MaxLen
  /\ \E m \in Message : BeginSave(Append(mine, m))

\* Compaction replaces the history by a shorter one.
SaveShrunk ==
  /\ mine # Absent
  /\ \E h \in History : Len(h) < Len(mine) /\ BeginSave(h)

\* rewrite opens the file with O_TRUNC.
Truncate ==
  /\ pc = "truncate"
  /\ file' = << >>
  /\ pc' = "write"
  /\ UNCHANGED <<mine, onDisk, acked, tried, shrunk, faults>>

\* What the call of Flush under way has to write.
Pending == IF pc = "write" THEN Whole(mine) ELSE Lines(SubSeq(mine, onDisk + 1, Len(mine)))

\* Mutant: the program saves its whole history after what is there.
WriteEverything ==
  /\ pc \in {"write", "append"}
  /\ file # Absent
  /\ file' = file \o (IF pc = "write" THEN Whole(mine) ELSE Lines(mine))
  /\ acked' = mine
  /\ pc' = "idle"
  /\ UNCHANGED <<mine, onDisk, tried, shrunk, faults>>

\* The write is complete and Save returns nil.
Write ==
  /\ pc \in {"write", "append"}
  /\ file' = file \o Pending
  /\ acked' = mine
  /\ pc' = "idle"
  /\ UNCHANGED <<mine, onDisk, tried, shrunk, faults>>

\* The write stops half-way and Save returns an error.
TornWrite ==
  /\ pc \in {"write", "append"}
  /\ faults < MaxFaults
  /\ \E part \in TornPrefixes(Pending) : file' = file \o part
  /\ pc' = "idle"
  /\ faults' = faults + 1
  /\ UNCHANGED <<mine, onDisk, acked, tried, shrunk>>

\* The process dies.
Crash ==
  /\ faults < MaxFaults
  /\ mine' = Absent
  /\ pc' = "idle"
  /\ faults' = faults + 1
  /\ UNCHANGED <<file, onDisk, acked, tried, shrunk>>

\* The session is deleted; a program that still holds it may save it again.
Delete ==
  /\ pc = "idle"
  /\ file # Absent
  /\ file' = Absent
  /\ acked' = << >>
  /\ tried' = << >>
  /\ UNCHANGED <<mine, pc, onDisk, shrunk, faults>>

Next ==
  \/ NewSession
  \/ LoadSession
  \/ SaveAgain
  \/ SaveMore
  \/ SaveShrunk
  \/ Truncate
  \/ Write
  \/ TornWrite
  \/ Crash
  \/ Delete

Spec == Init /\ [][Next]_vars

----------------------------------------------------------------------------
(* Properties *)

TypeOK ==
  /\ file = Absent \/ file \in Seq(Message \cup {Header, NL, Part})
  /\ mine \in History \cup {Absent}
  /\ pc \in {"idle", "truncate", "write", "append"}
  /\ onDisk \in Int
  /\ acked \in History /\ tried \in History
  /\ shrunk \in BOOLEAN
  /\ faults \in 0 .. MaxFaults

IsPrefix(s, t) == Len(s) <= Len(t) /\ \A k \in DOMAIN s : s[k] = t[k]

\* As long as no write is torn and no process dies, Load returns what the last
\* successful Save was given, although Save looks at a count only.
SavedLoads ==
  faults = 0 /\ pc = "idle" /\ file # Absent => Readable(file) /\ LoadMsgs(file) = acked

\* Of a session that was only ever extended, a file that still loads holds every
\* message of the last successful Save and nothing that no Save was given,
\* whatever torn writes, crashes and repeated Saves came between.
NothingLostSilently ==
  ~shrunk /\ Readable(file) => IsPrefix(acked, LoadMsgs(file)) /\ IsPrefix(LoadMsgs(file), tried)
=============================================================================
