----------------------------- MODULE Transport -----------------------------
(***************************************************************************)
(* One HTTP request of the client: client.go builds it and reads the reply, *)
(* retry.go sends it again after a failure that may pass.                   *)
(*                                                                         *)
(* The modules ToolLoop, SolveWait and Stream run on top of this one: each  *)
(* issues requests, one at a time, and takes their outcomes.  The variables *)
(* pc and ret belong to the call that does so.                              *)
(*                                                                         *)
(* The server may carry a request out and still not be heard: the reply is  *)
(* lost, or an error status follows the effect.                             *)
(***************************************************************************)
EXTENDS Integers

CONSTANT MaxRetries  \* the retries of a client without WithMaxRetries

\* retryDelay: 500ms << attempt in an int64 of nanoseconds, cut to 8s.  500ms is
\* 5^9 * 2^8 ns: shifted by a, what is left are the lowest 56 - a bits of 5^9,
\* the highest of them as the sign.  rand.Int63n panics on a negative bound.
DelayDefined(a) == a \in 32 .. 55 => 5^9 % 2^(56 - a) < 2^(55 - a)

\* The pause before each retry can be computed: so it is for at most 35 retries.
ASSUME RetriesAssumption ==
  /\ MaxRetries \in Nat
  /\ \A a \in 0 .. MaxRetries - 1 : DelayDefined(a)

VARIABLES
  ctx,      \* the caller's context
  due,      \* http.Client.Timeout has passed for the request in hand
  phase,    \* where the request is
  limit,    \* the retries of the http.Client that the request goes through
  attempt,  \* RoundTrip's attempt number
  hit,      \* the server has carried this attempt out
  done,     \* how many times the server has carried the request out
  lastErr,  \* RoundTrip's lastErr: some attempt got no reply
  status,   \* the class of the status that RoundTrip returned
  outcome,  \* what the caller of doRequest gets
  pc,       \* where the call that issues the requests is
  ret       \* how that call ended

request == <<due, phase, limit, attempt, hit, done, lastErr, status, outcome>>

Phases   == {"none", "ready", "flight", "backoff", "reading", "open", "over"}
Statuses == {"none", "ok", "retryable", "fatal"}
Sentinels == {"unauthorized", "notFound", "rateLimited", "server", "api"}
Outcomes  == {"none", "ok", "conn", "ctx", "read"} \cup Sentinels

RequestTypeOK ==
  /\ ctx \in {"live", "cancelled", "expired"}
  /\ due \in BOOLEAN
  /\ phase \in Phases
  /\ limit \in 0 .. MaxRetries
  /\ attempt \in 0 .. limit
  /\ hit \in BOOLEAN
  /\ done \in Nat
  /\ lastErr \in BOOLEAN
  /\ status \in Statuses
  /\ outcome \in Outcomes

RequestInit ==
  /\ ctx = "live"
  /\ due = FALSE
  /\ phase = "none"
  /\ limit = MaxRetries
  /\ attempt = 0
  /\ hit = FALSE
  /\ done = 0
  /\ lastErr = FALSE
  /\ status = "none"
  /\ outcome = "none"

\* The context of the request: the caller's, bounded by the client's timeout.
Ended == due \/ ctx # "live"

----------------------------------------------------------------------------
(* What the calls use: build and send a request, take its outcome.          *)

\* The request goes through an http.Client that retries n times.
IssueOver(n) ==
  /\ phase = "none"
  /\ phase' = "ready"
  /\ limit' = n
  /\ UNCHANGED <<due, attempt, hit, done, lastErr, status, outcome>>

Issue == IssueOver(MaxRetries)

\* Nothing is left of a request that is over.
Clear ==
  /\ phase' = "none"
  /\ limit' = MaxRetries
  /\ attempt' = 0
  /\ hit' = FALSE
  /\ done' = 0
  /\ due' = FALSE
  /\ lastErr' = FALSE
  /\ status' = "none"
  /\ outcome' = "none"

Take == phase = "over" /\ Clear

----------------------------------------------------------------------------
(* RoundTrip *)

\* Mutant: a failed attempt is answered with the client's error in any case.
EndsAnyhow(o) ==
  /\ phase' = "over"
  /\ outcome' = o

\* RoundTrip returns an error.  http.Client reports its own timeout as
\* DeadlineExceeded whatever the error was; wrapTransportError leaves the errors
\* of a context alone and calls the others connection errors.
EndsWith(o) ==
  /\ phase' = "over"
  /\ outcome' = IF due THEN "ctx" ELSE o

StartAttempt ==
  /\ phase = "ready"
  /\ ~Ended
  /\ phase' = "flight"
  /\ UNCHANGED <<due, limit, attempt, hit, done, lastErr, status, outcome>>

\* The base transport sends nothing when the context has ended.
StartEnded ==
  /\ phase = "ready"
  /\ Ended
  /\ EndsWith("ctx")
  /\ UNCHANGED <<due, limit, attempt, hit, done, lastErr, status>>

\* The server carries the request out.
CarryOut ==
  /\ phase = "flight"
  /\ ~hit
  /\ hit' = TRUE
  /\ done' = done + 1
  /\ UNCHANGED <<due, phase, limit, attempt, lastErr, status, outcome>>

\* The replies a server that has or has not carried the attempt out may send:
\* 2xx; 408, 409, 429 or 5xx; another 4xx.
MayAnswer(s) ==
  \/ s = "ok" /\ hit
  \/ s = "retryable"
  \/ s = "fatal" /\ ~hit

\* Mutant: the limit of the attempts is not looked at.
RetryEver(s) == s = "retryable"

\* isRetryableStatus, and an attempt is left.
RetryStatus(s) == s = "retryable" /\ attempt < limit

AnswerReturned(s) ==
  /\ phase = "flight"
  /\ MayAnswer(s)
  /\ ~RetryStatus(s)
  /\ status' = s
  /\ phase' = "reading"
  /\ UNCHANGED <<due, limit, attempt, hit, done, lastErr, outcome>>

AnswerRetried(s) ==
  /\ phase = "flight"
  /\ MayAnswer(s)
  /\ RetryStatus(s)
  /\ phase' = "backoff"
  /\ UNCHANGED <<due, limit, attempt, hit, done, lastErr, status, outcome>>

\* No reply: the request or the answer to it is lost.
Broken ==
  /\ phase = "flight"
  /\ lastErr' = TRUE
  /\ IF attempt >= limit \/ Ended
       THEN EndsWith("conn")
       ELSE phase' = "backoff" /\ UNCHANGED outcome
  /\ UNCHANGED <<due, limit, attempt, hit, done, status>>

\* The context ends while the attempt is under way.
Aborted ==
  /\ phase = "flight"
  /\ Ended
  /\ EndsWith("ctx")
  /\ UNCHANGED <<due, limit, attempt, hit, done, lastErr, status>>

\* Mutant: the attempt number is not increased.
BackoffOverUncounted ==
  /\ phase = "backoff"
  /\ phase' = "ready"
  /\ hit' = FALSE
  /\ UNCHANGED <<due, limit, attempt, done, lastErr, status, outcome>>

BackoffOver ==
  /\ phase = "backoff"
  /\ phase' = "ready"
  /\ attempt' = attempt + 1
  /\ hit' = FALSE
  /\ UNCHANGED <<due, limit, done, lastErr, status, outcome>>

\* The context ends during the pause: an error of an earlier attempt is
\* returned even when a later attempt was answered.
BackoffEnded ==
  /\ phase = "backoff"
  /\ Ended
  /\ EndsWith(IF lastErr THEN "conn" ELSE "ctx")
  /\ UNCHANGED <<due, limit, attempt, hit, done, lastErr, status>>

----------------------------------------------------------------------------
(* doRequest and genDecode: the reply is read, an error status becomes an   *)
(* APIError.                                                                *)

\* The status codes that differ in how the client takes them.
StatusCodes == {400, 401, 403, 404, 408, 409, 422, 429, 500, 503}

IsRetryableStatus(n) == n \in {408, 409, 429} \/ n >= 500

\* The codes of a class of statuses.
Codes(s) == {n \in StatusCodes : (s = "retryable") <=> IsRetryableStatus(n)}

\* What errors.Is and the Is functions find an APIError with this code to be.
Sentinel(n) ==
  CASE n \in {401, 403} -> "unauthorized"
    [] n = 404          -> "notFound"
    [] n = 429          -> "rateLimited"
    [] n >= 500         -> "server"
    [] OTHER            -> "api"

ReadBody ==
  /\ phase = "reading"
  /\ phase' = "over"
  /\ outcome' \in IF status = "ok" THEN {"ok"} ELSE {Sentinel(n) : n \in Codes(status)}
  /\ UNCHANGED <<due, limit, attempt, hit, done, lastErr, status>>

BodyUnread ==
  /\ phase' = "over"
  /\ outcome' = "read"
  /\ UNCHANGED <<due, limit, attempt, hit, done, lastErr, status>>

\* The body breaks off or is not JSON.
BodyBroken ==
  /\ phase = "reading"
  /\ BodyUnread

\* The context ends while the body is read.
BodyAborted ==
  /\ phase = "reading"
  /\ Ended
  /\ BodyUnread

----------------------------------------------------------------------------
(* The environment *)

EndContext ==
  /\ ctx = "live"
  /\ ctx' \in {"cancelled", "expired"}
  /\ UNCHANGED request

TimeOut ==
  /\ ~due
  /\ phase \in {"ready", "flight", "backoff", "reading", "open"}
  /\ due' = TRUE
  /\ UNCHANGED <<phase, limit, attempt, hit, done, lastErr, status, outcome>>

\* What the client does by itself.
RequestStep ==
  \/ StartAttempt
  \/ StartEnded
  \/ Aborted
  \/ BackoffOver
  \/ BackoffEnded

\* What the server and the network do.
ServerStep ==
  \/ \E s \in Statuses : AnswerReturned(s) \/ AnswerRetried(s)
  \/ Broken

----------------------------------------------------------------------------
(* Properties *)

\* A request takes effect at most once per attempt, so at most MaxRetries + 1
\* times, and at most once when retries are disabled; what is reported as a
\* success did happen.
EffectsBounded ==
  /\ done <= attempt + 1
  /\ attempt <= limit
  /\ outcome = "ok" => done > 0

\* An error names something that happened: a connection error that some attempt
\* got no reply, a context error that the context or the timeout ended, and a
\* request that the server has refused for good is not sent again.
ErrorsTold ==
  /\ outcome = "conn" => lastErr /\ ~due
  /\ outcome = "ctx" => Ended
  /\ outcome \in {"rateLimited", "server"} => status = "retryable"
  /\ outcome \in {"unauthorized", "notFound"} => status = "fatal" /\ ~hit
  /\ outcome = "api" => status \in {"retryable", "fatal"}
  /\ status = "retryable" => attempt = limit

=============================================================================
