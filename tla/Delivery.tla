------------------------------ MODULE Delivery ------------------------------
(***************************************************************************)
(* What the channel of ChatStream promises its consumer: the pieces of the  *)
(* answer in their order, one event for each, with none left out, then the  *)
(* end.  A piece that cannot be read is replaced by an error event; an error*)
(* event may also say that the stream broke off.                            *)
(***************************************************************************)
EXTENDS Naturals, Sequences

CONSTANT Chunks  \* pieces of the whole answer

VARIABLES
  events,  \* what was put into the channel so far
  open     \* the channel has not been closed

Piece(n) == <<"content", n>>
Error    == <<"error", 0>>
Done     == <<"done", 0>>

Init == events = << >> /\ open = TRUE

\* Piece number n comes at place n of the channel, or an error in its stead.
PutPiece ==
  /\ Len(events) < Chunks
  /\ events' \in {Append(events, Piece(Len(events) + 1)), Append(events, Error)}

PutDone == Len(events) = Chunks /\ events' = Append(events, Done)

PutLastError == events' = Append(events, Error)

Put == open = TRUE /\ UNCHANGED open /\ (PutPiece \/ PutDone)

Break == open = TRUE /\ PutLastError /\ open' = FALSE

Close == open = TRUE /\ open' = FALSE /\ UNCHANGED events

Next == Put \/ Break \/ Close

Spec == Init /\ [][Next]_<<events, open>>
=============================================================================
