------------------------------- MODULE Stream -------------------------------
(***************************************************************************)
(* ChatStream (llm.go, stream.go): a goroutine reads the answer's frames    *)
(* from the open response, decodes them and puts one event for each into a  *)
(* channel of BufferSize places; the caller takes the events out of it,     *)
(* with CollectStream or in a loop of its own that it may leave.            *)
(*                                                                         *)
(* The answer has Chunks content frames and the frame [DONE].  The server   *)
(* may stop early, the connection may break, and a frame may be unreadable. *)
(***************************************************************************)
EXTENDS Transport, Sequences

CONSTANTS
  Chunks,     \* content frames of the whole answer
  BufferSize  \* places in the channel (32)

ASSUME StreamAssumption == Chunks \in Nat /\ BufferSize \in Nat \ {0}

VARIABLES
  reader,  \* where the goroutine is; "ended": the channel is closed
  pos,     \* frames read so far
  hold,    \* the event that sendEvent is about to put into the channel
  sent,    \* everything that was put into the channel
  taken,   \* how many of these events the consumer has taken out
  cause    \* why the goroutine stopped reading

streamVars == <<reader, pos, hold, sent, taken, cause>>

Piece(n) == <<"content", n>>
Error    == <<"error", 0>>
Done     == <<"done", 0>>

Event == {Piece(n) : n \in 1 .. Chunks} \cup {Error, Done}

StreamTypeOK ==
  /\ reader \in {"none", "scan", "send", "final", "ended"}
  /\ pos \in 0 .. Chunks + 1
  /\ hold \in Event
  /\ sent \in Seq(Event)
  /\ taken \in 0 .. Len(sent)
  /\ cause \in {"none", "eof", "broken", "context"}

StreamInit ==
  /\ reader = "none"
  /\ pos = 0
  /\ hold = Error
  /\ sent = << >>
  /\ taken = 0
  /\ cause = "none"

\* What is in the channel.
Buffered == Len(sent) - taken
HasRoom  == Buffered < BufferSize

----------------------------------------------------------------------------
(* Opening: doRawRequest *)

OpenStream ==
  /\ pc = "stream"
  /\ Issue
  /\ pc' = "opening"
  /\ UNCHANGED <<ctx, ret, streamVars>>

\* A good status: the goroutine starts on the body.
Opened ==
  /\ pc = "opening"
  /\ phase = "reading"
  /\ status = "ok"
  /\ phase' = "open"
  /\ pc' = "consume"
  /\ reader' = "scan"
  /\ UNCHANGED <<ctx, due, limit, attempt, hit, done, lastErr, status, outcome, ret,
                 pos, hold, sent, taken, cause>>

\* An error status, or a 2xx other than 200.
OpenRefused ==
  /\ pc = "opening"
  /\ phase = "reading"
  /\ Clear
  /\ pc' = "returned"
  /\ ret' = "failed"
  /\ UNCHANGED <<ctx, streamVars>>

OpenFailed ==
  /\ pc = "opening"
  /\ Take
  /\ pc' = "returned"
  /\ ret' = "failed"
  /\ UNCHANGED <<ctx, streamVars>>

----------------------------------------------------------------------------
(* The goroutine: parseSSEStream *)

Reads(ev) ==
  /\ reader = "scan"
  /\ ctx = "live"
  /\ pos' = pos + 1
  /\ hold' = ev
  /\ reader' = "send"
  /\ UNCHANGED <<ctx, request, pc, ret, sent, taken, cause>>

\* The next frame: its content, or an error frame or one that cannot be decoded.
ReadFrame == pos < Chunks /\ (Reads(Piece(pos + 1)) \/ Reads(Error))

\* [DONE] is an event like the others: reading goes on until the body ends.
ReadDone == pos = Chunks /\ Reads(Done)

\* The goroutine ends and closes the channel; an error other than Canceled is
\* still to be told.
StopsReading(why, then) ==
  /\ cause' = why
  /\ reader' = then
  /\ UNCHANGED <<ctx, request, pc, ret, pos, hold, sent, taken>>

\* The server ends the response, early or not.
ReadEnd == reader = "scan" /\ StopsReading("eof", "ended")

\* The connection breaks, or the client's timeout passes, which covers the body.
ReadBroken == reader = "scan" /\ StopsReading("broken", "final")

TimedOut == due /\ ReadBroken

\* The context has ended: seen before the next frame, or while sendEvent waits.
ReadStopped ==
  /\ reader \in {"scan", "send"}
  /\ ctx # "live"
  /\ StopsReading("context", IF ctx = "cancelled" THEN "ended" ELSE "final")

\* Mutant: a full channel drops the event instead of blocking the goroutine.
SendOrDrop ==
  /\ reader = "send"
  /\ reader' = "scan"
  /\ sent' = IF HasRoom THEN Append(sent, hold) ELSE sent
  /\ UNCHANGED <<ctx, request, pc, ret, pos, hold, taken, cause>>

\* sendEvent; it blocks while the channel is full.
SendEvent ==
  /\ reader = "send"
  /\ HasRoom
  /\ sent' = Append(sent, hold)
  /\ reader' = "scan"
  /\ UNCHANGED <<ctx, request, pc, ret, pos, hold, taken, cause>>

\* The final error event, then the channel is closed.
SendFinal ==
  /\ reader = "final"
  /\ HasRoom
  /\ sent' = Append(sent, Error)
  /\ reader' = "ended"
  /\ UNCHANGED <<ctx, request, pc, ret, pos, hold, taken, cause>>

\* Mutant: the final error waits for room whatever becomes of the context.
FinalWaits == FALSE

\* Best effort only: with the context ended the error may be left out.
FinalSkipped ==
  /\ reader = "final"
  /\ ctx # "live"
  /\ reader' = "ended"
  /\ UNCHANGED <<ctx, request, pc, ret, pos, hold, sent, taken, cause>>

----------------------------------------------------------------------------
(* The consumer *)

Receive ==
  /\ pc = "consume"
  /\ Buffered > 0
  /\ taken' = taken + 1
  /\ UNCHANGED <<ctx, request, pc, ret, reader, pos, hold, sent, cause>>

\* Mutant: only the last event is looked at for an error.
ToldLast == sent # << >> /\ sent[Len(sent)] = Error

Told == \E k \in DOMAIN sent : sent[k] = Error

\* CollectStream: the channel is closed and empty.  An error event anywhere makes
\* it return an error.
Collected ==
  /\ pc = "consume"
  /\ Buffered = 0
  /\ reader = "ended"
  /\ pc' = "returned"
  /\ ret' = IF Told THEN "failed" ELSE "collected"
  /\ UNCHANGED <<ctx, request, streamVars>>

\* The caller stops reading, without ending the context.
Leave ==
  /\ pc = "consume"
  /\ pc' = "returned"
  /\ ret' = "left"
  /\ UNCHANGED <<ctx, request, streamVars>>

OpenStep     == OpenStream \/ Opened \/ OpenRefused \/ OpenFailed
ReaderStep   == TimedOut \/ ReadStopped \/ SendEvent \/ SendFinal \/ FinalSkipped
ConsumerStep == Receive \/ Collected
StreamServer == ReadFrame \/ ReadDone \/ ReadEnd \/ ReadBroken

----------------------------------------------------------------------------
(* Properties *)

\* What the channel carries is what Delivery promises: no piece is lost, doubled
\* or out of place, whatever breaks and however slow the consumer is.
Pieces == INSTANCE Delivery WITH events <- sent, open <- (reader # "ended")

DeliverySpec == Pieces!Spec

\* CollectStream returns no error for an answer that was cut short only when the
\* caller ended the context or the server itself ended the response early: a broken
\* connection, an unreadable frame and the client's timeout are always told.
CutIsTold ==
  ret = "collected" /\ ctx = "live" =>
    /\ cause = "eof"
    /\ \A n \in 1 .. pos : n \in 1 .. Chunks => sent[n] = Piece(n)

\* The goroutine ends, and the channel is closed, as long as the caller reads on or
\* ends the context.
ReaderEnds ==
  reader # "none" ~> (reader = "ended" \/ (ret = "left" /\ ctx = "live"))
=============================================================================
