------------------------------ MODULE ToolLoop ------------------------------
(***************************************************************************)
(* RunTools (toolrunner.go): the model is asked, the tools it calls are run *)
(* here, their results are sent with the next question, until the model     *)
(* answers without a call or MaxTurns questions were asked.                 *)
(*                                                                         *)
(* The registry (tools.go) is shared with other goroutines, which register  *)
(* tools at any time, one by one: RegisterMCPServer (mcp.go) holds its lock *)
(* for each tool of the server anew.  A tool is never taken out.            *)
(***************************************************************************)
EXTENDS Transport, Sequences

CONSTANTS
  Tool,      \* tool names, also ones that the model makes up
  MaxTurns,  \* RunToolsOptions.MaxTurns (5 by default)
  MaxCalls   \* bound: calls in one answer of the model

ASSUME ToolLoopAssumption ==
  /\ MaxTurns \in Nat \ {0}
  /\ MaxCalls \in Nat

VARIABLES
  registry,    \* names registered now
  advertised,  \* names in the schemas that RunTools sends
  msgs,        \* the conversation
  turn,        \* model turns taken
  next         \* which call of the last answer is to be run next

loopVars == <<advertised, msgs, turn, next>>

Calls == UNION {[1 .. n -> Tool] : n \in 0 .. MaxCalls}

User            == [role |-> "user",      calls |-> << >>, call |-> << >>, out |-> "none"]
Assistant(cs)   == [role |-> "assistant", calls |-> cs,    call |-> << >>, out |-> "none"]
ToolMsg(cl, out) == [role |-> "tool",     calls |-> << >>, call |-> cl,    out |-> out]

Outs == {"result", "failed", "missing"}

\* A call is named by the turn it was made in, its place there, and the tool.
Call(t, k, cs) == <<t, k, cs[k]>>

CallOf == {<<t, k, name>> : t \in 1 .. MaxTurns, k \in 1 .. MaxCalls, name \in Tool}

Msg ==
  {User} \cup {Assistant(cs) : cs \in Calls}
         \cup {ToolMsg(cl, out) : cl \in CallOf, out \in Outs}

ToolLoopTypeOK ==
  /\ registry \in SUBSET Tool
  /\ advertised \in SUBSET Tool
  /\ msgs \in Seq(Msg)
  /\ turn \in 0 .. MaxTurns
  /\ next \in Nat

ToolLoopInit ==
  /\ registry = {}
  /\ advertised = {}
  /\ msgs = << >>
  /\ turn = 0
  /\ next = 1

\* The calls of the last answer.
Requested == LET answers == {k \in DOMAIN msgs : msgs[k].role = "assistant"}
             IN  msgs[CHOOSE k \in answers : \A j \in answers : j <= k].calls

----------------------------------------------------------------------------
\* Mutant: the map of the tools is made anew.
RegisterAnew(name) ==
  /\ name \notin registry
  /\ registry' = {name}
  /\ UNCHANGED <<ctx, request, pc, ret, loopVars>>

\* Register, by any goroutine; also each step of RegisterMCPServer.
Register(name) ==
  /\ name \notin registry
  /\ registry' = registry \cup {name}
  /\ UNCHANGED <<ctx, request, pc, ret, loopVars>>

\* The schemas are rendered once, before the loop.
RunTools ==
  /\ pc = "tools"
  /\ pc' = "ask"
  /\ advertised' = registry
  /\ msgs' = <<User>>
  /\ UNCHANGED <<ctx, request, ret, registry, turn, next>>

\* ChatComplete with the conversation so far.
Ask ==
  /\ pc = "ask"
  /\ Issue
  /\ pc' = "answer"
  /\ turn' = turn + 1
  /\ UNCHANGED <<ctx, ret, registry, advertised, msgs, next>>

Answer(cs) ==
  /\ pc = "answer"
  /\ outcome = "ok"
  /\ Take
  /\ msgs' = Append(msgs, Assistant(cs))
  /\ next' = 1
  /\ IF cs = << >> THEN pc' = "returned" /\ ret' = "answer"
                   ELSE pc' = "run" /\ UNCHANGED ret
  /\ UNCHANGED <<ctx, registry, advertised, turn>>

\* The question failed: RunTools returns the error and nothing else.
AskFailed ==
  /\ pc = "answer"
  /\ outcome # "ok"
  /\ Take
  /\ pc' = "returned"
  /\ ret' = "error"
  /\ UNCHANGED <<ctx, registry, loopVars>>

\* The next call is answered.
Feed(out) ==
  /\ pc = "run"
  /\ next <= Len(Requested)
  /\ msgs' = Append(msgs, ToolMsg(Call(turn, next, Requested), out))
  /\ next' = next + 1
  /\ UNCHANGED <<ctx, request, pc, ret, registry, advertised, turn>>

\* Invoke: the tool's result, or its error, is fed back.
Invoke(out) == Feed(out) /\ Requested[next] \in registry

\* Mutant: a call of an unknown tool gets no answer.
SkipMissing ==
  /\ pc = "run"
  /\ next <= Len(Requested)
  /\ Requested[next] \notin registry
  /\ next' = next + 1
  /\ UNCHANGED <<ctx, request, pc, ret, registry, advertised, msgs, turn>>

\* Invoke does not find the tool: that is fed back like a tool's error.
InvokeMissing == Feed("missing") /\ Requested[next] \notin registry

\* Every call was answered: the next turn, or the end at MaxTurns.
TurnOver ==
  /\ pc = "run"
  /\ next > Len(Requested)
  /\ IF turn < MaxTurns THEN pc' = "ask" /\ UNCHANGED ret
                        ELSE pc' = "returned" /\ ret' = "max"
  /\ UNCHANGED <<ctx, request, registry, loopVars>>

ToolLoopStep ==
  \/ RunTools
  \/ Ask
  \/ \E cs \in Calls : Answer(cs)
  \/ AskFailed
  \/ \E out \in {"result", "failed"} : Invoke(out)
  \/ InvokeMissing
  \/ TurnOver

----------------------------------------------------------------------------
(* Properties *)

Answers(k) == msgs[k].role = "assistant"

\* Message m answers call j of message k.
AnswerOf(m, k, j) ==
  /\ m \in DOMAIN msgs
  /\ msgs[m].role = "tool"
  /\ msgs[m].call[2] = j
  /\ msgs[m].call[3] = msgs[k].calls[j]

\* Whenever the model is asked, and in what RunTools returns, the conversation is
\* well-formed: right after each answer of the model come the results of its
\* calls, one for each and in their order, whether the tool ran, failed or was
\* missing, and there is no result without its call.
AnsweredInOrder ==
  pc \in {"ask", "answer"} \/ ret \in {"answer", "max"} =>
    /\ \A k \in DOMAIN msgs : Answers(k) =>
         \A j \in DOMAIN msgs[k].calls : AnswerOf(k + j, k, j)
    /\ \A m \in DOMAIN msgs : msgs[m].role = "tool" =>
         \E k \in 1 .. m : Answers(k) /\ m - k \in DOMAIN msgs[k].calls

\* A tool whose schema was sent is found when the model calls it, although the
\* registry changes under the loop.
AdvertisedIsFound ==
  \A m \in DOMAIN msgs : msgs[m].out = "missing" => msgs[m].call[3] \notin advertised
=============================================================================
