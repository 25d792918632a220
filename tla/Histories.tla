----------------------------- MODULE Histories -----------------------------
(***************************************************************************)
(* One conversation on several devices, its histories with their order and *)
(* with repeated messages: what MergeMessages (session/record.go) and its   *)
(* caller applyBlock (session/synchub/sync.go) make of them.                *)
(*                                                                         *)
(* SyncHub models the protocol step by step over histories that are sets;  *)
(* this module models the histories, with push and applyBlock as one step  *)
(* each.  Blocks are applied in any order, because a block that could not  *)
(* be fetched is applied when its page is replayed, after later ones.      *)
(* Nobody deletes the session.                                             *)
(***************************************************************************)
EXTENDS Naturals, SequencesExt

CONSTANTS
  Device,      \* installations that share one namespace
  Message,     \* a role and content blocks; a message has no id and no time
  Repeats,     \* whether a message may be written again
  MaxSaid,     \* bound: messages written
  MaxBlocks,   \* bound: blocks on the hub
  MaxRestarts  \* bound: restarts

ASSUME HistoriesAssumption ==
  /\ Repeats \in BOOLEAN
  /\ {MaxSaid, MaxBlocks, MaxRestarts} \subseteq Nat

VARIABLES
  local,    \* local[d]: the history in the store of d; empty: no such session
  blocks,   \* the histories uploaded so far, in the order of the hub's log
  pushed,   \* pushed[d]: the history last recorded as synced
  have,     \* have[d]: the blocks d possesses
  writes,   \* messages written so far, each with what its writer saw before it
  restarts  \* restarts so far

vars == <<local, blocks, pushed, have, writes, restarts>>

TypeOK ==
  /\ local \in [Device -> Seq(Message)]
  /\ blocks \in Seq(Seq(Message))
  /\ pushed \in [Device -> Seq(Message)]
  /\ have \in [Device -> SUBSET (DOMAIN blocks)]
  /\ writes \in Seq([msg : Message, seen : SUBSET Message])
  /\ restarts \in Nat

Init ==
  /\ local = [d \in Device |-> << >>]
  /\ blocks = << >>
  /\ pushed = [d \in Device |-> << >>]
  /\ have = [d \in Device |-> {}]
  /\ writes = << >>
  /\ restarts = 0

----------------------------------------------------------------------------
(* MergeMessages *)

AddNew(out, m) == IF m \in ToSet(out) THEN out ELSE Append(out, m)

\* Mutant: the remote history comes first.
MergeRemoteFirst(mine, theirs) == FoldLeft(AddNew, << >>, theirs \o mine)

\* Mutant: the new messages of the remote history are taken from its end.
MergeFromEnd(mine, theirs) == FoldLeft(AddNew, << >>, mine \o Reverse(theirs))

\* Local messages first, then the remote ones not present yet; repeated messages,
\* the local ones too, are dropped.
MergeMessages(mine, theirs) == FoldLeft(AddNew, << >>, mine \o theirs)

\* Mutant: a remote history that is not longer is taken for a known one.
AppliedIfLonger(mine, theirs) ==
  IF Len(theirs) <= Len(mine) THEN mine ELSE MergeMessages(mine, theirs)

\* Mutant: the remote history replaces the local one.
AppliedReplaces(mine, theirs) == theirs

\* What applyBlock leaves in the store.  It compares lengths to see whether the
\* merge brought anything new.
Applied(mine, theirs) ==
  IF mine = << >> THEN theirs
  ELSE IF Len(MergeMessages(mine, theirs)) = Len(mine) THEN mine
  ELSE MergeMessages(mine, theirs)

----------------------------------------------------------------------------
\* The user of device d extends the session by a message and saves it.
Say(d, m) ==
  /\ Len(writes) < MaxSaid
  /\ Repeats \/ \A k \in DOMAIN writes : writes[k].msg # m
  /\ local' = [local EXCEPT ![d] = Append(@, m)]
  /\ writes' = Append(writes, [msg |-> m, seen |-> ToSet(local[d])])
  /\ UNCHANGED <<blocks, pushed, have, restarts>>

\* Mutant: the block counts as possessed before the hub has it.
PushMarked(d) ==
  /\ local[d] # << >>
  /\ local[d] # pushed[d]
  /\ Len(blocks) < MaxBlocks
  /\ have' = [have EXCEPT ![d] = @ \cup {Len(blocks) + 1}]
  /\ UNCHANGED <<local, blocks, pushed, writes, restarts>>

\* push uploads a session that changed since it was last synced.
Push(d) ==
  /\ local[d] # << >>
  /\ local[d] # pushed[d]
  /\ Len(blocks) < MaxBlocks
  /\ blocks' = Append(blocks, local[d])
  /\ pushed' = [pushed EXCEPT ![d] = local[d]]
  /\ have' = [have EXCEPT ![d] = @ \cup {Len(blocks) + 1}]
  /\ UNCHANGED <<local, writes, restarts>>

\* applyBlock merges a block this device does not possess.
ApplyBlock(d, n) ==
  /\ n \notin have[d]
  /\ have' = [have EXCEPT ![d] = @ \cup {n}]
  /\ local' = [local EXCEPT ![d] = Applied(@, blocks[n])]
  /\ pushed' = [pushed EXCEPT ![d] = Applied(local[d], blocks[n])]
  /\ UNCHANGED <<blocks, writes, restarts>>

\* The process of device d restarts and loses what it kept in memory.
Restart(d) ==
  /\ restarts < MaxRestarts
  /\ restarts' = restarts + 1
  /\ pushed' = [pushed EXCEPT ![d] = << >>]
  /\ have' = [have EXCEPT ![d] = {}]
  /\ UNCHANGED <<local, blocks, writes>>

Next ==
  \E d \in Device :
    \/ \E m \in Message : Say(d, m)
    \/ Push(d)
    \/ \E n \in DOMAIN blocks : ApplyBlock(d, n)
    \/ Restart(d)

Spec == Init /\ [][Next]_vars

----------------------------------------------------------------------------
(* Properties *)

\* A block that applyBlock has accepted is in the local history, every message of
\* it: "local already contains everything this block has" when it wrote nothing.
AppliedIsHeld ==
  \A d \in Device : \A n \in have[d] : ToSet(blocks[n]) \subseteq ToSet(local[d])

\* The result of a merge begins with the full local history: no step reorders,
\* drops or rewrites what a device has in its store.
OnlyExtends == [][\A d \in Device : IsPrefix(local[d], local'[d])]_vars

\* An answer never comes before what it answers: on every device a message comes
\* after everything that its writer saw when writing it, in whatever order the
\* blocks were merged and applied again.
CausalOrder ==
  \A d \in Device, w \in DOMAIN writes : \A k \in DOMAIN local[d] :
    local[d][k] = writes[w].msg =>
      \A m \in writes[w].seen : \E j \in 1 .. k - 1 : local[d][j] = m

\* The histories, their order forgotten, are the replicated conversation that the
\* sets of SyncHub implement too.
Chat == INSTANCE Conversation
          WITH Item <- {"session"},
               held <- [d \in Device |-> [i \in {"session"} |-> ToSet(local[d])]]

ChatSpec == Chat!Spec
=============================================================================
