------------------------------- MODULE Client -------------------------------
(***************************************************************************)
(* One call of the client, over a transport that loses requests and replies *)
(* and under a context that may end at any moment: RunTools, SolveAndWait   *)
(* or ChatStream with the consumer of its channel.                          *)
(***************************************************************************)
EXTENDS ToolLoop, SolveWait, Stream, Account

vars == <<ctx, request, pc, ret, registry, loopVars, solveVars, streamVars, accountVars>>

Programs == {"tools", "solve", "stream", "account"}

Init ==
  /\ RequestInit
  /\ ToolLoopInit
  /\ SolveInit
  /\ StreamInit
  /\ AccountInit
  /\ pc \in Programs
  /\ ret = "none"

----------------------------------------------------------------------------
(* The request in hand and its surroundings *)

\* Reading the reply belongs to the call, except in ChatStream, which hands an
\* open response on.
Reading == pc \notin {"opening", "raw"} /\ (ReadBody \/ BodyBroken \/ BodyAborted)

\* What carrying out a request does on the server is told for solve runs only.
CarriedOut == pc \notin {"ack", "poll"} /\ CarryOut

Requesting ==
  /\ \/ RequestStep
     \/ ServerStep
     \/ Reading
     \/ CarriedOut
     \/ TimeOut
  /\ UNCHANGED <<ctx, pc, ret, registry, loopVars, solveVars, streamVars, accountVars>>

\* Only ChatStream tells a context that was cancelled from one that has expired.
Ending ==
  /\ pc \notin {"account", "new", "with", "idle"}
  /\ EndContext
  /\ ctx' = "expired" => pc \in {"stream", "opening", "consume", "returned"}
  /\ UNCHANGED <<pc, ret, registry, loopVars, solveVars, streamVars, accountVars>>

----------------------------------------------------------------------------
(* The three calls *)

Registering ==
  /\ pc \in {"tools", "ask", "answer", "run"}
  /\ \E name \in Tool : Register(name)

Tools ==
  /\ ToolLoopStep \/ Registering
  /\ UNCHANGED <<solveVars, streamVars, accountVars>>

Solving ==
  /\ \/ SolveStep
     \/ StartJob
     \/ ReadJob
     \/ \E j \in DOMAIN jobs : JobEnds(j)
  /\ UNCHANGED <<registry, loopVars, streamVars, accountVars>>

Streaming ==
  /\ OpenStep \/ ReaderStep \/ ConsumerStep \/ StreamServer \/ Leave
  /\ UNCHANGED <<registry, loopVars, solveVars, accountVars>>

Accounting ==
  /\ AccountStep \/ \E c \in Which : Rotates(c)
  /\ UNCHANGED <<registry, loopVars, solveVars, streamVars>>

Next == Requesting \/ Ending \/ Tools \/ Solving \/ Streaming \/ Accounting

Spec == Init /\ [][Next]_vars

----------------------------------------------------------------------------
(* Fairness: goroutines are scheduled, http.Client has a timeout, and a solve *)
(* run ends.  Nothing is assumed of the server's replies, of the consumer's   *)
(* leaving, or of the context.                                                *)

Deadline == TimeOut /\ UNCHANGED <<ctx, pc, ret, registry, loopVars, solveVars, streamVars, accountVars>>

ClientStep ==
  /\ RequestStep \/ (pc \notin {"opening", "raw"} /\ (ReadBody \/ BodyAborted))
  /\ UNCHANGED <<ctx, pc, ret, registry, loopVars, solveVars, streamVars, accountVars>>

Goroutine == ReaderStep /\ UNCHANGED <<registry, loopVars, solveVars, accountVars>>

Consumer == ConsumerStep /\ UNCHANGED <<registry, loopVars, solveVars, accountVars>>

FairSpec ==
  /\ Spec
  /\ WF_vars(ClientStep)
  /\ WF_vars(Deadline)
  /\ WF_vars(ToolLoopStep /\ UNCHANGED <<solveVars, streamVars, accountVars>>)
  /\ WF_vars(SolveStep /\ UNCHANGED <<registry, loopVars, streamVars, accountVars>>)
  /\ WF_vars(OpenStep /\ UNCHANGED <<registry, loopVars, solveVars, accountVars>>)
  /\ WF_vars(AccountStep /\ UNCHANGED <<registry, loopVars, solveVars, streamVars>>)
  /\ WF_vars(Goroutine)
  /\ WF_vars(Consumer)
  /\ \A j \in 1 .. MaxRetries + 1 :
       WF_vars(j \in DOMAIN jobs /\ JobEnds(j)
                 /\ UNCHANGED <<registry, loopVars, streamVars, accountVars>>)

----------------------------------------------------------------------------
TypeOK ==
  /\ RequestTypeOK
  /\ ToolLoopTypeOK
  /\ SolveTypeOK
  /\ StreamTypeOK
  /\ AccountTypeOK
  /\ pc \in Programs \cup {"ask", "answer", "run", "ack", "wait", "poll",
                           "opening", "consume", "returned", "new", "with", "idle", "login",
                           "fetch", "leaving", "logout", "raw"}

\* Every call returns: RunTools, which MaxTurns bounds; ChatStream's consumer, who
\* reads until the channel is closed; and SolveAndWait, whose run ends.
CallReturns == <>(pc = "returned")
=============================================================================
