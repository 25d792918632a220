------------------------------ MODULE SyncHub ------------------------------
(***************************************************************************)
(* Cross-device session sync through the blind hub:                        *)
(* session/synchub/sync.go and client.go over a session.Store.             *)
(*                                                                         *)
(* Each device keeps a local store of sessions ("items").  A Syncer uploads*)
(* every changed session as one encrypted block, tombstones the ids that   *)
(* left its store, then pulls the hub's manifest page by page and merges   *)
(* the blocks it does not possess.                                         *)
(*                                                                         *)
(* A history is the SET of its messages: messages of this model are        *)
(* pairwise distinct.  Histories models their order and repetitions.       *)
(* The plaintext content hash of a history is the history itself.  A block *)
(* hash is the position of the block in the hub's log, because every       *)
(* Encode draws a fresh nonce: equal plaintexts never share a block hash.  *)
(* The store is one that replaces a row atomically (SQLiteStore).          *)
(***************************************************************************)
EXTENDS Naturals, Sequences

CONSTANTS
  Device,     \* installations that share one namespace
  Item,       \* session ids
  Kept,       \* the items that no user ever deletes
  Message,    \* message contents, each written once
  Worker,     \* goroutines inside Sync: callers and background tickers
  Home,       \* Home[w]: the device whose Syncer w runs
  Absent,     \* "no such session" / "no such map entry"
  PageSize,   \* manifestLimit
  MaxSeq,     \* bound: length of the hub's log
  Faults,     \* the kinds of failure that may happen
  MaxFaults,  \* bound: how many failures happen
  SayAt       \* program counters at which the device's user may use the store

History == SUBSET Message
Row     == History \cup {Absent}
Entry   == [item: Item, msgs: History, tomb: BOOLEAN]

PC == {"idle", "push", "tomb", "pull", "page", "save"}

FaultKinds == {"put", "reply", "get", "save", "list", "unreadable", "load",
               "cursor", "crash"}

ASSUME ConstantsAssumption ==
  /\ Kept \subseteq Item
  /\ Home \in [Worker -> Device]
  /\ \A msgs \in History : Absent # msgs
  /\ PageSize \in Nat \ {0}
  /\ MaxSeq \in Nat
  /\ MaxFaults \in Nat
  /\ Faults \subseteq FaultKinds
  /\ SayAt \subseteq PC

VARIABLES
  log,      \* the hub's append-only manifest; the sequence number is the index
  said,     \* messages written so far, by any user
  store,    \* store[d][i]: the session row of item i on device d
  pushed,   \* pushed[d][i]: Syncer.pushed, in memory
  have,     \* have[d]: Syncer.have, in memory
  cursor,   \* cursor[d]: the persisted manifest cursor
  pc,       \* pc[w]: where worker w is
  snap,     \* snap[w]: what push's List returned
  queue,    \* queue[w]: items that push has still to upload or to tombstone
  at,       \* at[w]: pull's local cursor
  hi,       \* hi[w]: Next of the manifest page in hand
  todo,     \* todo[w]: entries of that page not yet processed
  failed,   \* failed[w]: some entry of that page failed
  block,    \* block[w]: the block whose merge is about to be saved
  merged,   \* merged[w]: the history about to be saved
  faults    \* failures so far

deviceVars == <<store, pushed, have, cursor>>
pushVars   == <<snap, queue>>
pullVars   == <<at, hi, todo, failed, block, merged>>
vars == <<log, said, store, pushed, have, cursor, pc, snap, queue,
          at, hi, todo, failed, block, merged, faults>>

NoRows == [i \in Item |-> Absent]

TypeOK ==
  /\ log \in Seq(Entry)
  /\ said \in SUBSET Message
  /\ store \in [Device -> [Item -> Row]]
  /\ pushed \in [Device -> [Item -> Row]]
  /\ have \in [Device -> SUBSET Nat]
  /\ cursor \in [Device -> Nat]
  /\ pc \in [Worker -> PC]
  /\ snap \in [Worker -> [Item -> Row]]
  /\ queue \in [Worker -> SUBSET Item]
  /\ at \in [Worker -> Nat]
  /\ hi \in [Worker -> Nat]
  /\ todo \in [Worker -> SUBSET Nat]
  /\ failed \in [Worker -> BOOLEAN]
  /\ block \in [Worker -> Nat]
  /\ merged \in [Worker -> History]
  /\ faults \in Nat

Init ==
  /\ log = << >>
  /\ said = {}
  /\ store = [d \in Device |-> NoRows]
  /\ pushed = [d \in Device |-> NoRows]
  /\ have = [d \in Device |-> {}]
  /\ cursor = [d \in Device |-> 0]
  /\ pc = [w \in Worker |-> "idle"]
  /\ snap = [w \in Worker |-> NoRows]
  /\ queue = [w \in Worker |-> {}]
  /\ at = [w \in Worker |-> 0]
  /\ hi = [w \in Worker |-> 0]
  /\ todo = [w \in Worker |-> {}]
  /\ failed = [w \in Worker |-> FALSE]
  /\ block = [w \in Worker |-> 0]
  /\ merged = [w \in Worker |-> {}]
  /\ faults = 0

----------------------------------------------------------------------------
(* Helpers *)

\* The messages of a row; a missing row has none.
Hist(row) == IF row = Absent THEN {} ELSE row

Block(i, msgs) == [item |-> i, msgs |-> msgs, tomb |-> FALSE]
Tomb(i)        == [item |-> i, msgs |-> {},   tomb |-> TRUE]

\* Mutant: the remote history replaces the local one.
RemoteWins(local, remote) == remote

\* MergeMessages on histories without repeated messages.
MergeMessages(local, remote) == local \cup remote

\* A failure of kind k happens now.
Fail(k) ==
  /\ k \in Faults
  /\ faults < MaxFaults
  /\ faults' = faults + 1

\* The hub accepts an entry.
Append1(e) ==
  /\ Len(log) < MaxSeq
  /\ log' = Append(log, e)

SetRow(f, d, i, row) == [f EXCEPT ![d] = [@ EXCEPT ![i] = row]]

----------------------------------------------------------------------------
(* The user of a device: the program that embeds the SDK reads a session,   *)
(* extends it and saves it, or deletes it.                                  *)

Workers(d) == {w \in Worker : Home[w] = d}

UserMayWrite(d) == \A w \in Workers(d) : pc[w] \in SayAt

Say(d, i, m) ==
  /\ UserMayWrite(d)
  /\ m \notin said
  /\ said' = said \cup {m}
  /\ store' = SetRow(store, d, i, Hist(store[d][i]) \cup {m})
  /\ UNCHANGED <<log, pushed, have, cursor, pc, pushVars, pullVars, faults>>

DeleteSession(d, i) ==
  /\ UserMayWrite(d)
  /\ i \notin Kept
  /\ store[d][i] # Absent
  /\ store' = SetRow(store, d, i, Absent)
  /\ UNCHANGED <<log, said, pushed, have, cursor, pc, pushVars, pullVars, faults>>

----------------------------------------------------------------------------
(* push *)

\* push starts: List takes a snapshot of the store.
StartSync(w) ==
  /\ pc[w] = "idle"
  /\ pc' = [pc EXCEPT ![w] = "push"]
  /\ snap' = [snap EXCEPT ![w] = store[Home[w]]]
  /\ queue' = [queue EXCEPT ![w] = {i \in Item : store[Home[w]][i] # Absent}]
  /\ UNCHANGED <<log, said, deviceVars, pullVars, faults>>

\* List skips a row it cannot read instead of failing.
ListSkips(w, i) ==
  /\ pc[w] = "idle"
  /\ Fail("unreadable")
  /\ store[Home[w]][i] # Absent
  /\ pc' = [pc EXCEPT ![w] = "push"]
  /\ snap' = [snap EXCEPT ![w] = [store[Home[w]] EXCEPT ![i] = Absent]]
  /\ queue' = [queue EXCEPT ![w] =
                 {j \in Item : store[Home[w]][j] # Absent} \ {i}]
  /\ UNCHANGED <<log, said, deviceVars, pullVars>>

\* Mutant: a failed List is taken for an empty store.
ListFailsAsEmpty(w) ==
  /\ pc[w] = "idle"
  /\ Fail("list")
  /\ pc' = [pc EXCEPT ![w] = "push"]
  /\ snap' = [snap EXCEPT ![w] = NoRows]
  /\ queue' = [queue EXCEPT ![w] = {}]
  /\ UNCHANGED <<log, said, deviceVars, pullVars>>

\* List fails: push returns at once, pull still runs.
ListFails(w) ==
  /\ pc[w] = "idle"
  /\ Fail("list")
  /\ pc' = [pc EXCEPT ![w] = "pull"]
  /\ at' = [at EXCEPT ![w] = cursor[Home[w]]]
  /\ UNCHANGED <<log, said, deviceVars, pushVars, hi, todo, failed, block, merged>>

\* The plaintext hash did not change since the session was last synced.
PushUnchanged(w, i) ==
  /\ pc[w] = "push"
  /\ i \in queue[w]
  /\ pushed[Home[w]][i] = snap[w][i]
  /\ queue' = [queue EXCEPT ![w] = @ \ {i}]
  /\ UNCHANGED <<log, said, deviceVars, pc, snap, pullVars, faults>>

MustPush(w, i) ==
  /\ pc[w] = "push"
  /\ i \in queue[w]
  /\ pushed[Home[w]][i] # snap[w][i]

PutBlock(w, i) ==
  /\ MustPush(w, i)
  /\ Append1(Block(i, Hist(snap[w][i])))
  /\ pushed' = SetRow(pushed, Home[w], i, snap[w][i])
  /\ have' = [have EXCEPT ![Home[w]] = @ \cup {Len(log) + 1}]
  /\ queue' = [queue EXCEPT ![w] = @ \ {i}]
  /\ UNCHANGED <<said, store, cursor, pc, snap, pullVars, faults>>

\* The hub stores the block but the reply is lost: the item is not marked.
PutReplyLost(w, i) ==
  /\ MustPush(w, i)
  /\ Fail("reply")
  /\ Append1(Block(i, Hist(snap[w][i])))
  /\ queue' = [queue EXCEPT ![w] = @ \ {i}]
  /\ UNCHANGED <<said, deviceVars, pc, snap, pullVars>>

PutFails(w, i) ==
  /\ MustPush(w, i)
  /\ Fail("put")
  /\ queue' = [queue EXCEPT ![w] = @ \ {i}]
  /\ UNCHANGED <<log, said, deviceVars, pc, snap, pullVars>>

\* Mutant: push goes on before every item was looked at.
StartTombstonesEarly(w) ==
  /\ pc[w] = "push"
  /\ pc' = [pc EXCEPT ![w] = "tomb"]
  /\ queue' = [queue EXCEPT ![w] =
                 {i \in Item : pushed[Home[w]][i] # Absent /\ snap[w][i] = Absent}]
  /\ snap' = [snap EXCEPT ![w] = NoRows]
  /\ UNCHANGED <<log, said, deviceVars, pullVars, faults>>

\* pushTombstones starts: the synced ids that List did not return are gone.
StartTombstones(w) ==
  /\ pc[w] = "push"
  /\ queue[w] = {}
  /\ pc' = [pc EXCEPT ![w] = "tomb"]
  /\ queue' = [queue EXCEPT ![w] =
                 {i \in Item : pushed[Home[w]][i] # Absent /\ snap[w][i] = Absent}]
  /\ snap' = [snap EXCEPT ![w] = NoRows]
  /\ UNCHANGED <<log, said, deviceVars, pullVars, faults>>

Tombstone(w, i) ==
  /\ pc[w] = "tomb"
  /\ i \in queue[w]
  /\ Append1(Tomb(i))
  /\ pushed' = SetRow(pushed, Home[w], i, Absent)
  /\ queue' = [queue EXCEPT ![w] = @ \ {i}]
  /\ UNCHANGED <<said, store, have, cursor, pc, snap, pullVars, faults>>

TombstoneReplyLost(w, i) ==
  /\ pc[w] = "tomb"
  /\ i \in queue[w]
  /\ Fail("reply")
  /\ Append1(Tomb(i))
  /\ queue' = [queue EXCEPT ![w] = @ \ {i}]
  /\ UNCHANGED <<said, deviceVars, pc, snap, pullVars>>

TombstoneFails(w, i) ==
  /\ pc[w] = "tomb"
  /\ i \in queue[w]
  /\ Fail("put")
  /\ queue' = [queue EXCEPT ![w] = @ \ {i}]
  /\ UNCHANGED <<log, said, deviceVars, pc, snap, pullVars>>

----------------------------------------------------------------------------
(* pull *)

\* pull returns, and its local variables go with it.
PullReturns(w) ==
  /\ pc' = [pc EXCEPT ![w] = "idle"]
  /\ at' = [at EXCEPT ![w] = 0]
  /\ hi' = [hi EXCEPT ![w] = 0]
  /\ failed' = [failed EXCEPT ![w] = FALSE]
  /\ UNCHANGED <<todo, block, merged>>

\* push returned; pull loads the cursor.
StartPull(w) ==
  /\ pc[w] = "tomb"
  /\ queue[w] = {}
  /\ pc' = [pc EXCEPT ![w] = "pull"]
  /\ at' = [at EXCEPT ![w] = cursor[Home[w]]]
  /\ UNCHANGED <<log, said, deviceVars, pushVars, hi, todo, failed, block,
                 merged, faults>>

\* Mutant: only the newest entry is fetched.
FetchNewest(w) ==
  /\ pc[w] = "pull"
  /\ at[w] < Len(log)
  /\ pc' = [pc EXCEPT ![w] = "page"]
  /\ hi' = [hi EXCEPT ![w] = Len(log)]
  /\ todo' = [todo EXCEPT ![w] = {Len(log)}]
  /\ failed' = [failed EXCEPT ![w] = FALSE]
  /\ UNCHANGED <<log, said, deviceVars, pushVars, at, block, merged, faults>>

PageEnd(w) == IF at[w] + PageSize < Len(log) THEN at[w] + PageSize ELSE Len(log)

FetchPage(w) ==
  /\ pc[w] = "pull"
  /\ at[w] < Len(log)
  /\ pc' = [pc EXCEPT ![w] = "page"]
  /\ hi' = [hi EXCEPT ![w] = PageEnd(w)]
  /\ todo' = [todo EXCEPT ![w] = (at[w] + 1) .. PageEnd(w)]
  /\ failed' = [failed EXCEPT ![w] = FALSE]
  /\ UNCHANGED <<log, said, deviceVars, pushVars, at, block, merged, faults>>

\* An empty page: this device has seen the whole log.
PullDone(w) ==
  /\ pc[w] = "pull"
  /\ at[w] >= Len(log)
  /\ PullReturns(w)
  /\ UNCHANGED <<log, said, deviceVars, pushVars, faults>>

ManifestFails(w) ==
  /\ pc[w] = "pull"
  /\ Fail("get")
  /\ PullReturns(w)
  /\ UNCHANGED <<log, said, deviceVars, pushVars>>

\* The item's latest entry within the page in hand is a tombstone.
Dead(w, i) ==
  \E n \in (at[w] + 1) .. hi[w] :
    /\ log[n].item = i
    /\ log[n].tomb
    /\ \A k \in (at[w] + 1) .. hi[w] : log[k].item = i => k <= n

\* Entry n is its item's next one in the page.  (The code takes the items in
\* the order of their ids; items do not share state, any order of them will do.)
NextEntry(w, n) ==
  /\ pc[w] = "page"
  /\ n \in todo[w]
  /\ \A k \in todo[w] : log[k].item = log[n].item => n <= k

NextBlock(w, n) ==
  /\ NextEntry(w, n)
  /\ ~Dead(w, log[n].item)
  /\ ~log[n].tomb
  /\ n \notin have[Home[w]]

Others(w, i) == {k \in todo[w] : log[k].item # i}

ApplyTombstone(w, n) ==
  /\ NextEntry(w, n)
  /\ Dead(w, log[n].item)
  /\ store' = SetRow(store, Home[w], log[n].item, Absent)
  /\ pushed' = SetRow(pushed, Home[w], log[n].item, Absent)
  /\ todo' = [todo EXCEPT ![w] = Others(w, log[n].item)]
  /\ UNCHANGED <<log, said, have, cursor, pc, pushVars, at, hi, failed, block,
                 merged, faults>>

\* Mutant: a failed Delete is logged but not counted.
DeleteFailsUncounted(w, n) ==
  /\ NextEntry(w, n)
  /\ Dead(w, log[n].item)
  /\ Fail("save")
  /\ todo' = [todo EXCEPT ![w] = Others(w, log[n].item)]
  /\ UNCHANGED <<log, said, deviceVars, pc, pushVars, at, hi, failed, block, merged>>

DeleteFails(w, n) ==
  /\ NextEntry(w, n)
  /\ Dead(w, log[n].item)
  /\ Fail("save")
  /\ failed' = [failed EXCEPT ![w] = TRUE]
  /\ todo' = [todo EXCEPT ![w] = Others(w, log[n].item)]
  /\ UNCHANGED <<log, said, deviceVars, pc, pushVars, at, hi, block, merged>>

\* An outlived tombstone, or a block this device already possesses.
SkipEntry(w, n) ==
  /\ NextEntry(w, n)
  /\ ~Dead(w, log[n].item)
  /\ log[n].tomb \/ n \in have[Home[w]]
  /\ todo' = [todo EXCEPT ![w] = @ \ {n}]
  /\ UNCHANGED <<log, said, deviceVars, pc, pushVars, at, hi, failed, block,
                 merged, faults>>

GetFails(w, n) ==
  /\ NextBlock(w, n)
  /\ Fail("get")
  /\ failed' = [failed EXCEPT ![w] = TRUE]
  /\ todo' = [todo EXCEPT ![w] = @ \ {n}]
  /\ UNCHANGED <<log, said, deviceVars, pc, pushVars, at, hi, block, merged>>

\* Device d has the session, and block n brings nothing new to it.
Contains(d, n) ==
  store[d][log[n].item] # Absent /\ log[n].msgs \subseteq store[d][log[n].item]

\* The block brings nothing new: the local history is recorded as synced.
BlockKnown(w, n) ==
  LET d == Home[w]
      i == log[n].item
  IN
  /\ NextBlock(w, n)
  /\ Contains(d, n)
  /\ have' = [have EXCEPT ![d] = @ \cup {n}]
  /\ pushed' = SetRow(pushed, d, i, store[d][i])
  /\ todo' = [todo EXCEPT ![w] = @ \ {n}]
  /\ UNCHANGED <<log, said, store, cursor, pc, pushVars, at, hi, failed, block,
                 merged, faults>>

\* The block is merged in memory; it counts as possessed from here on.
StartMerge(w, n, local) ==
  /\ have' = [have EXCEPT ![Home[w]] = @ \cup {n}]
  /\ block' = [block EXCEPT ![w] = n]
  /\ merged' = [merged EXCEPT ![w] = MergeMessages(local, log[n].msgs)]
  /\ todo' = [todo EXCEPT ![w] = @ \ {n}]
  /\ pc' = [pc EXCEPT ![w] = "save"]
  /\ UNCHANGED <<log, said, store, pushed, cursor, pushVars, at, hi, failed>>

BlockNew(w, n) ==
  /\ NextBlock(w, n)
  /\ ~Contains(Home[w], n)
  /\ StartMerge(w, n, Hist(store[Home[w]][log[n].item]))
  /\ UNCHANGED faults

\* Any error of Load is taken for "no local session".
LoadFails(w, n) ==
  /\ NextBlock(w, n)
  /\ Fail("load")
  /\ StartMerge(w, n, {})

\* Mutant: the merge is not recorded as synced.
SaveMergedUnmarked(w) ==
  LET d == Home[w]
      i == log[block[w]].item
  IN
  /\ pc[w] = "save"
  /\ store' = SetRow(store, d, i, merged[w])
  /\ pc' = [pc EXCEPT ![w] = "page"]
  /\ block' = [block EXCEPT ![w] = 0]
  /\ merged' = [merged EXCEPT ![w] = {}]
  /\ UNCHANGED <<log, said, pushed, have, cursor, pushVars, at, hi, todo, failed,
                 faults>>

SaveMerged(w) ==
  LET d == Home[w]
      i == log[block[w]].item
  IN
  /\ pc[w] = "save"
  /\ store' = SetRow(store, d, i, merged[w])
  /\ pushed' = SetRow(pushed, d, i, merged[w])
  /\ pc' = [pc EXCEPT ![w] = "page"]
  /\ block' = [block EXCEPT ![w] = 0]
  /\ merged' = [merged EXCEPT ![w] = {}]
  /\ UNCHANGED <<log, said, have, cursor, pushVars, at, hi, todo, failed, faults>>

SaveFails(w) ==
  /\ pc[w] = "save"
  /\ Fail("save")
  /\ failed' = [failed EXCEPT ![w] = TRUE]
  /\ pc' = [pc EXCEPT ![w] = "page"]
  /\ block' = [block EXCEPT ![w] = 0]
  /\ merged' = [merged EXCEPT ![w] = {}]
  /\ UNCHANGED <<log, said, deviceVars, pushVars, at, hi, todo>>

\* Mutant: the cursor advances although an entry failed.
PageDoneAnyway(w) ==
  /\ pc[w] = "page"
  /\ todo[w] = {}
  /\ cursor' = [cursor EXCEPT ![Home[w]] = hi[w]]
  /\ at' = [at EXCEPT ![w] = hi[w]]
  /\ hi' = [hi EXCEPT ![w] = 0]
  /\ pc' = [pc EXCEPT ![w] = "pull"]
  /\ UNCHANGED <<log, said, store, pushed, have, pushVars, todo, failed,
                 block, merged, faults>>

\* Every entry of the page was processed: the cursor advances.
PageDone(w) ==
  /\ pc[w] = "page"
  /\ todo[w] = {}
  /\ ~failed[w]
  /\ cursor' = [cursor EXCEPT ![Home[w]] = hi[w]]
  /\ at' = [at EXCEPT ![w] = hi[w]]
  /\ hi' = [hi EXCEPT ![w] = 0]
  /\ pc' = [pc EXCEPT ![w] = "pull"]
  /\ UNCHANGED <<log, said, store, pushed, have, pushVars, todo, failed,
                 block, merged, faults>>

\* Some entry failed: pull returns and the cursor stays.
PageFailed(w) ==
  /\ pc[w] = "page"
  /\ todo[w] = {}
  /\ failed[w]
  /\ PullReturns(w)
  /\ UNCHANGED <<log, said, deviceVars, pushVars, faults>>

\* The cursor file was truncated but not written; it reads as 0 from now on.
CursorLost(w) ==
  /\ pc[w] = "page"
  /\ todo[w] = {}
  /\ ~failed[w]
  /\ Fail("cursor")
  /\ cursor' = [cursor EXCEPT ![Home[w]] = 0]
  /\ PullReturns(w)
  /\ UNCHANGED <<log, said, store, pushed, have, pushVars>>

----------------------------------------------------------------------------
(* The process of a device dies and a new Syncer is built by New: the store *)
(* and the cursor file survive, the maps do not.                            *)

\* Mutant: the other devices' workers are dropped.
OnDeviceOnly(d, f, v) == [w \in Workers(d) |-> v]

OnDevice(d, f, v) == [w \in Worker |-> IF Home[w] = d THEN v ELSE f[w]]

Restart(d) ==
  /\ Fail("crash")
  /\ pushed' = [pushed EXCEPT ![d] = NoRows]
  /\ have' = [have EXCEPT ![d] = {}]
  /\ pc' = OnDevice(d, pc, "idle")
  /\ snap' = OnDevice(d, snap, NoRows)
  /\ queue' = OnDevice(d, queue, {})
  /\ at' = OnDevice(d, at, 0)
  /\ hi' = OnDevice(d, hi, 0)
  /\ todo' = OnDevice(d, todo, {})
  /\ failed' = OnDevice(d, failed, FALSE)
  /\ block' = OnDevice(d, block, 0)
  /\ merged' = OnDevice(d, merged, {})
  /\ UNCHANGED <<log, said, store, cursor>>

----------------------------------------------------------------------------
PushStep(w) ==
  \/ StartSync(w)
  \/ \E i \in Item : PushUnchanged(w, i) \/ PutBlock(w, i) \/ Tombstone(w, i)
  \/ StartTombstones(w)
  \/ StartPull(w)

PullStep(w) ==
  \/ FetchPage(w)
  \/ PullDone(w)
  \/ \E n \in todo[w] :
       ApplyTombstone(w, n) \/ SkipEntry(w, n) \/ BlockKnown(w, n) \/ BlockNew(w, n)
  \/ SaveMerged(w)
  \/ PageDone(w)
  \/ PageFailed(w)

PushFault(w) ==
  \/ ListFails(w)
  \/ \E i \in Item :
       \/ ListSkips(w, i)
       \/ PutFails(w, i)
       \/ PutReplyLost(w, i)
       \/ TombstoneFails(w, i)
       \/ TombstoneReplyLost(w, i)

PullFault(w) ==
  \/ ManifestFails(w)
  \/ \E n \in todo[w] : DeleteFails(w, n) \/ GetFails(w, n) \/ LoadFails(w, n)
  \/ SaveFails(w)
  \/ CursorLost(w)

UserStep(d) ==
  \E i \in Item :
    \/ \E m \in Message : Say(d, i, m)
    \/ DeleteSession(d, i)

Next ==
  \/ \E w \in Worker : PushStep(w) \/ PullStep(w) \/ PushFault(w) \/ PullFault(w)
  \/ \E d \in Device : UserStep(d) \/ Restart(d)

Spec == Init /\ [][Next]_vars

\* Run drives Sync on a ticker: a worker that can take a step takes one.
\* Failures and users are never forced.
FairSpec ==
  /\ Spec
  /\ \A w \in Worker : WF_vars(PushStep(w) \/ PullStep(w))

----------------------------------------------------------------------------
(* Properties *)

\* The messages of item i that some block on the hub holds.
OnHub(i) == UNION {log[n].msgs : n \in {k \in DOMAIN log : log[k].item = i}}

\* A session nobody deletes is never tombstoned on the hub, whatever fails and
\* whoever restarts: pushTombstones takes a synced id missing from List for a
\* deletion, so List must have returned it.
KeptNeverTombstoned ==
  \A n \in DOMAIN log : log[n].tomb => log[n].item \notin Kept

\* Everything below a device's persisted cursor is in its store: pull never
\* moves the cursor past a block whose messages it has not saved, although it
\* counts the block as possessed before saving it and forgets that on restart.
CursorCovers ==
  \A d \in Device : \A n \in DOMAIN log :
    n <= cursor[d] /\ log[n].item \in Kept
      => log[n].msgs \subseteq Hist(store[d][log[n].item])

\* What a device has recorded as synced is on the hub.  markSynced marks the
\* whole local history after a pull, so a message the push before it did not
\* upload would be recorded as synced and never be uploaded.
SyncedIsOnHub ==
  \A d \in Device, i \in Item : Hist(pushed[d][i]) \subseteq OnHub(i)

\* No push/pull ping-pong: a block is uploaded only to bring the hub a message it
\* does not have yet.
NoEcho ==
  [][\A n \in DOMAIN log' \ DOMAIN log :
       ~log'[n].tomb => ~(log'[n].msgs \subseteq OnHub(log'[n].item))]_vars

\* The conversations of the kept items, as the abstract specification sees them.
Held == [d \in Device |-> [i \in Kept |-> Hist(store[d][i])]]

Chat == INSTANCE Conversation WITH Item <- Kept, held <- Held

\* On the kept items the stores behave as a replicated conversation: a history
\* only grows, by a message its user writes or by messages others hold.
ChatSpec == Chat!Spec

\* Once users stop writing, all devices end up with the same kept histories.
Converged == \A d, e \in Device, i \in Kept : Hist(store[d][i]) = Hist(store[e][i])

Convergence == <>[]Converged

\* A tombstone that stays the hub's last word on an item removes the item from
\* every device.
LastWordIsTomb(i) ==
  \E n \in DOMAIN log :
    /\ log[n].item = i
    /\ log[n].tomb
    /\ \A k \in DOMAIN log : log[k].item = i => k <= n

DeletionSpreads ==
  \A i \in Item :
    LastWordIsTomb(i) ~> (~LastWordIsTomb(i) \/ \A d \in Device : store[d][i] = Absent)

----------------------------------------------------------------------------
(* The inductive invariant.  It holds when a device runs one Sync at a time, *)
(* its store reads and writes do not fail, and nobody writes between the     *)
(* Load and the Save of a merge.                                             *)

Regular ==
  /\ \A v, w \in Worker : Home[v] = Home[w] => v = w
  /\ Faults \cap {"unreadable", "load", "save"} = {}
  /\ "save" \notin SayAt

\* The store of device d holds what block n says of a kept item.
Covered(d, n) ==
  log[n].item \in Kept => log[n].msgs \subseteq Hist(store[d][log[n].item])

\* Worker w is between the Load and the Save of block n.
Saving(w, n) == pc[w] = "save" /\ block[w] = n

\* Positions in the log are positions in the log.
InLog ==
  /\ \A d \in Device : have[d] \subseteq 1 .. Len(log) /\ cursor[d] <= Len(log)
  /\ \A w \in Worker :
       /\ at[w] <= Len(log)
       /\ hi[w] <= Len(log)
       /\ todo[w] \subseteq 1 .. Len(log)
       /\ pc[w] = "save" => block[w] \in 1 .. Len(log)

\* Why a kept item is never tombstoned: a synced row is in the store, so it is
\* in the snapshot, so it is not among the missing ones.
PushedInStore ==
  \A d \in Device, i \in Kept : store[d][i] = Absent => pushed[d][i] = Absent

SnapHoldsPushed ==
  \A w \in Worker, i \in Kept :
    pc[w] = "push" /\ snap[w][i] = Absent => pushed[Home[w]][i] = Absent

GoneNotKept == \A w \in Worker : pc[w] = "tomb" => queue[w] \cap Kept = {}

TombInv == KeptNeverTombstoned /\ PushedInStore /\ SnapHoldsPushed /\ GoneNotKept

\* A snapshot is never ahead of the store.
SnapInv ==
  \A w \in Worker, i \in Kept :
    snap[w][i] # Absent =>
      /\ store[Home[w]][i] # Absent
      /\ snap[w][i] \subseteq store[Home[w]][i]

\* What is about to be saved extends the store by the block's messages.
MergeInv ==
  \A w \in Worker :
    pc[w] = "save" /\ log[block[w]].item \in Kept =>
      merged[w] = Hist(store[Home[w]][log[block[w]].item]) \cup log[block[w]].msgs

\* What a device possesses, has walked past, or has in hand, is in its store, on
\* its way there, or still to be processed.
PossessedCovered ==
  \A d \in Device : \A n \in have[d] :
    Covered(d, n) \/ \E w \in Workers(d) : Saving(w, n)

PassedCovered ==
  \A w \in Worker : pc[w] \in {"pull", "page", "save"} =>
    \A n \in DOMAIN log : n <= at[w] => Covered(Home[w], n)

PageCovered ==
  \A w \in Worker : pc[w] \in {"page", "save"} /\ ~failed[w] =>
    \A n \in DOMAIN log :
      n <= hi[w] => Covered(Home[w], n) \/ n \in todo[w] \/ Saving(w, n)

PullInv == PossessedCovered /\ PassedCovered /\ PageCovered

\* Everything on the hub about a kept item is held by some device, and whatever
\* a device holds has been said.
KnownInv ==
  /\ \A n \in DOMAIN log : log[n].item \in Kept =>
       \A m \in log[n].msgs : \E d \in Device : m \in Hist(store[d][log[n].item])
  /\ \A d \in Device, i \in Kept : Hist(store[d][i]) \subseteq said

SyncInv ==
  InLog /\ TombInv /\ SnapInv /\ MergeInv /\ PullInv /\ CursorCovers /\ KnownInv
=============================================================================
