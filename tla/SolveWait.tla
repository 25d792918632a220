----------------------------- MODULE SolveWait -----------------------------
(***************************************************************************)
(* SolveAndWait (solve.go): start a search run on the server, which goes on *)
(* without the connection, then poll it at every tick until it has finished,*)
(* a poll fails, or the context ends.                                       *)
(*                                                                         *)
(* The server starts a run each time it carries out the POST: when the POST *)
(* is sent again after a lost reply there are runs that nobody follows.     *)
(***************************************************************************)
EXTENDS Transport, Sequences

VARIABLES
  jobs,   \* the status of each run on the server; a run's id is its position
  reply,  \* what the server said when it last carried the request out
  run     \* SolveAndWait's run: the last one decoded

solveVars == <<jobs, reply, run>>

JobStatus == {"running", "done", "error"}

\* The zero SolveRun: what an empty body leaves.
NoRun == [id |-> 0, status |-> ""]

Run(i, s) == [id |-> i, status |-> s]

SolveTypeOK ==
  /\ jobs \in Seq(JobStatus)
  /\ \A r \in {reply, run} : r = NoRun \/ (r.id \in DOMAIN jobs /\ r.status \in JobStatus)

SolveInit ==
  /\ jobs = << >>
  /\ reply = NoRun
  /\ run = NoRun

\* Mutant: whatever is not running has finished.
NotRunning(s) == s # "running"

\* Mutant: a run that ends in an error is polled on.
OnlyDone(s) == s = "done"

IsTerminalSolveStatus(s) == s \in {"done", "error"}

----------------------------------------------------------------------------
(* The server *)

\* The POST starts a run.
StartJob ==
  /\ pc = "ack"
  /\ CarryOut
  /\ jobs' = Append(jobs, "running")
  /\ reply' = Run(Len(jobs) + 1, "running")
  /\ UNCHANGED <<ctx, pc, ret, run>>

\* The GET reads one.
ReadJob ==
  /\ pc = "poll"
  /\ CarryOut
  /\ reply' = Run(run.id, jobs[run.id])
  /\ UNCHANGED <<ctx, pc, ret, jobs, run>>

JobEnds(j) ==
  /\ jobs[j] = "running"
  /\ jobs' \in {[jobs EXCEPT ![j] = s] : s \in {"done", "error"}}
  /\ UNCHANGED <<ctx, request, pc, ret, reply, run>>

----------------------------------------------------------------------------
(* SolveAndWait *)

Solve ==
  /\ pc = "solve"
  /\ Issue
  /\ pc' = "ack"
  /\ UNCHANGED <<ctx, ret, solveVars>>

Returns(how) == pc' = "returned" /\ ret' = how

\* Solve failed: there is no run to return.
SolveFailed ==
  /\ pc = "ack"
  /\ outcome # "ok"
  /\ Take
  /\ Returns("failed")
  /\ UNCHANGED <<ctx, solveVars>>

\* A run was decoded: it is returned when it has finished, else the next tick
\* is awaited.
Decoded(r) ==
  /\ pc \in {"ack", "poll"}
  /\ outcome = "ok"
  /\ Take
  /\ run' = r
  /\ IF IsTerminalSolveStatus(r.status) THEN Returns("finished")
                                        ELSE pc' = "wait" /\ UNCHANGED ret
  /\ UNCHANGED <<ctx, jobs, reply>>

Poll ==
  /\ pc = "wait"
  /\ run.id # 0
  /\ Issue
  /\ pc' = "poll"
  /\ UNCHANGED <<ctx, ret, solveVars>>

\* GetSolveRun refuses the id of a run that an empty body left.
PollRefused ==
  /\ pc = "wait"
  /\ run.id = 0
  /\ Returns("failed")
  /\ UNCHANGED <<ctx, request, solveVars>>

\* Mutant: after a failed poll the run is started anew.
StartAgain ==
  /\ pc = "poll"
  /\ outcome # "ok"
  /\ Take
  /\ pc' = "solve"
  /\ UNCHANGED <<ctx, ret, solveVars>>

\* A poll failed: the run is returned as it was polled before, with the error.
PollFailed ==
  /\ pc = "poll"
  /\ outcome # "ok"
  /\ Take
  /\ Returns("interrupted")
  /\ UNCHANGED <<ctx, solveVars>>

\* The context has ended; a tick that is due as well may come first.
WaitEnded ==
  /\ pc = "wait"
  /\ ctx # "live"
  /\ Returns("interrupted")
  /\ UNCHANGED <<ctx, request, solveVars>>

SolveStep ==
  \/ Solve
  \/ SolveFailed
  \/ \E r \in {reply, NoRun} : Decoded(r)
  \/ Poll
  \/ PollRefused
  \/ PollFailed
  \/ WaitEnded

----------------------------------------------------------------------------
(* Properties *)

\* SolveAndWait returns without an error only a run that this call has started
\* and that has finished on the server the way it says.
FinishedIsTrue ==
  ret = "finished" =>
    /\ run.id \in DOMAIN jobs
    /\ run.status = jobs[run.id]
    /\ run.status # "running"

\* However often requests are repeated and polls fail, one SolveAndWait starts at
\* most MaxRetries + 1 runs, all by its first request: without retries at most one.
JobsBounded == Len(jobs) <= MaxRetries + 1
=============================================================================
