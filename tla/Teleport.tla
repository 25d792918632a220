------------------------------ MODULE Teleport ------------------------------
(***************************************************************************)
(* One message on its way between the places a conversation is used in: the *)
(* flat Message that models are asked with (llm.go), the rich SessionMessage*)
(* that is stored and synced (session.go), and the JSON of both.  A message *)
(* starts as either and is converted back and forth, in any order.          *)
(*                                                                         *)
(* A text is a sequence of segments, so that joining texts is concatenation.*)
(* Raw and decoded tool input are "nil", "{}" (an empty object) or an object*)
(* with contents.                                                           *)
(***************************************************************************)
EXTENDS Naturals, Sequences, SequencesExt

CONSTANTS
  Segment,  \* pieces of text
  Object,   \* tool inputs with contents
  MaxParts, \* bound: parts of a flat message, blocks of a rich one
  MaxSteps  \* bound: conversions of the message

VARIABLES
  origin,   \* the message as it was written
  msg,      \* the message as it is now
  settled,  \* the messages that left ToMessage first; empty before that
  steps     \* conversions so far

vars == <<origin, msg, settled, steps>>

Texts  == {<< >>} \cup {<<s>> : s \in Segment}
Inputs == {"nil", "{}"} \cup Object

ToolCall == [name : {"f"}, input : Inputs]

\* ContentPart; url "" stands for a nil ImageURL.  "other" is a type that is
\* neither text nor image_url.
TextPart(t)     == [type |-> "text", text |-> t, url |-> "", detail |-> ""]
ImagePart(u)    == [type |-> "image_url", text |-> << >>, url |-> u, detail |-> ""]
ContentPart ==
  {TextPart(t) : t \in Texts}
    \cup {[ImagePart("u") EXCEPT !.detail = "low"], ImagePart("u"), ImagePart("")}
    \cup {[TextPart(t) EXCEPT !.type = "other"] : t \in Texts}

TextBlock(t)               == [kind |-> "text", text |-> t]
ImageBlock(u)              == [kind |-> "image", url |-> u]
ToolUseBlock(c)            == [kind |-> "tool_use", call |-> c]
ToolResultBlock(id, n, t, e) ==
  [kind |-> "tool_result", callId |-> id, name |-> n, text |-> t, isError |-> e]
\* A kind of block of a newer producer.
NewBlock                   == [kind |-> "new"]

Flat(role, name, id, content, parts, calls) ==
  [form |-> "flat", role |-> role, name |-> name, callId |-> id,
   content |-> content, parts |-> parts, calls |-> calls]

Rich(role, blocks) == [form |-> "rich", role |-> role, blocks |-> blocks]

SeqsUpTo(S, n) == UNION {[1 .. k -> S] : k \in 0 .. n}

\* Content and Parts exclude each other; a tool's result is text.
Message ==
  [form : {"flat"}, role : {"user", "assistant"}, name : {"", "n"}, callId : {""},
   content : Texts, parts : {<< >>}, calls : SeqsUpTo(ToolCall, 2)]
    \cup [form : {"flat"}, role : {"user"}, name : {""}, callId : {""},
          content : {<< >>}, parts : SeqsUpTo(ContentPart, MaxParts), calls : SeqsUpTo(ToolCall, 1)]
    \cup [form : {"flat"}, role : {"tool"}, name : {"", "n"}, callId : {"", "id"},
          content : Texts, parts : {<< >>}, calls : {<< >>}]

Block ==
  {TextBlock(t) : t \in Texts} \cup {ImageBlock("u"), NewBlock}
    \cup {ToolUseBlock(c) : c \in ToolCall}
    \cup [kind : {"tool_result"}, callId : {"id"}, name : {"", "n"}, text : Texts,
          isError : BOOLEAN]

SessionMessage ==
  [form : {"rich"}, role : {"user", "assistant"}, blocks : SeqsUpTo(Block, MaxParts)]

Init ==
  /\ origin \in Message \cup SessionMessage
  /\ msg = origin
  /\ settled = {}
  /\ steps = 0

\* The elements of s with P, in their order: what a loop with a condition collects.
Those(s, P(_)) == FlattenSeq([k \in DOMAIN s |-> IF P(s[k]) THEN <<s[k]>> ELSE << >>])

----------------------------------------------------------------------------
(* session.go: ToSessionMessage *)

PartBlocks(p) ==
  IF p.type # "image_url" THEN <<TextBlock(p.text)>>
  ELSE IF p.url = "" THEN << >> ELSE <<ImageBlock(p.url)>>

ContentBlocks(m) ==
  IF m.parts # << >> THEN FlattenSeq([k \in DOMAIN m.parts |-> PartBlocks(m.parts[k])])
  ELSE IF m.content # << >> THEN <<TextBlock(m.content)>> ELSE << >>

\* Mutant: a message with parts has its tool calls left out.
ToSessionMessageOneKind(m) ==
  IF m.role = "tool"
    THEN Rich("tool", <<ToolResultBlock(m.callId, m.name, m.content, FALSE)>>)
    ELSE Rich(m.role, IF m.parts # << >> THEN ContentBlocks(m)
                      ELSE ContentBlocks(m) \o [k \in DOMAIN m.calls |-> ToolUseBlock(m.calls[k])])

ToSessionMessage(m) ==
  IF m.role = "tool"
    THEN Rich("tool", <<ToolResultBlock(m.callId, m.name, m.content, FALSE)>>)
    ELSE Rich(m.role, ContentBlocks(m) \o [k \in DOMAIN m.calls |-> ToolUseBlock(m.calls[k])])

----------------------------------------------------------------------------
(* session.go: ToMessage *)

OfKind(kind, blocks) == Those(blocks, LAMBDA b : b.kind = kind)

JoinTexts(bs) == FlattenSeq([k \in DOMAIN bs |-> bs[k].text])

BlockPart(b) == IF b.kind = "text" THEN TextPart(b.text) ELSE ImagePart(b.url)

\* The parts are kept only with an image among them.
BlockParts(blocks) ==
  LET bs == Those(blocks, LAMBDA b : b.kind \in {"text", "image"})
  IN  IF OfKind("image", blocks) = << >> THEN << >>
      ELSE [k \in DOMAIN bs |-> BlockPart(bs[k])]

ToMessage(m) ==
  LET results == OfKind("tool_result", m.blocks)
      uses    == OfKind("tool_use", m.blocks)
  IN  IF results # << >>
        THEN Flat("tool", results[1].name, results[1].callId, results[1].text, << >>, << >>)
        ELSE Flat(m.role, "", "", JoinTexts(OfKind("text", m.blocks)), BlockParts(m.blocks),
                  [k \in DOMAIN uses |-> uses[k].call])

----------------------------------------------------------------------------
(* The JSON *)

\* SessionMessage.MarshalJSON and UnmarshalJSON: a newer kind of block is read as
\* nothing.  The program itself writes the four kinds it knows.
ThroughDTO(m) == Rich(m.role, Those(m.blocks, LAMBDA b : b.kind # "new"))

\* ToolCall: an empty input is omitted and read as nil.
CallThroughWire(c) == IF c.input = "{}" THEN [c EXCEPT !.input = "nil"] ELSE c

TextParts(m) == Those(m.parts, LAMBDA p : p.type = "text")

\* Mutant: the texts of the parts are added to the content.
ThroughWireAdding(m) ==
  [m EXCEPT !.calls = [k \in DOMAIN m.calls |-> CallThroughWire(m.calls[k])],
            !.content = m.content \o JoinTexts(TextParts(m))]

\* Message.MarshalJSON and UnmarshalJSON: the parts win over the content, which is
\* filled in anew from the parts of type text.
ThroughWire(m) ==
  [m EXCEPT !.calls = [k \in DOMAIN m.calls |-> CallThroughWire(m.calls[k])],
            !.content = IF m.parts = << >> THEN m.content ELSE JoinTexts(TextParts(m))]

----------------------------------------------------------------------------
Convert(result) ==
  /\ steps < MaxSteps
  /\ steps' = steps + 1
  /\ msg' = result
  /\ UNCHANGED origin

Up    == msg.form = "flat" /\ Convert(ToSessionMessage(msg)) /\ UNCHANGED settled
Send  == msg.form = "flat" /\ Convert(ThroughWire(msg)) /\ UNCHANGED settled
Store == msg.form = "rich" /\ Convert(ThroughDTO(msg)) /\ UNCHANGED settled

Down ==
  /\ msg.form = "rich"
  /\ Convert(ToMessage(msg))
  /\ settled' = IF settled = {} THEN {ToMessage(msg)} ELSE settled

Next == Up \/ Send \/ Store \/ Down

Spec == Init /\ [][Next]_vars

----------------------------------------------------------------------------
(* Properties *)

\* What a message says: the first tool result, or else the text, the images and the
\* calls, each in their order, with no difference between no input and an empty one.
Result(m) ==
  IF m.form = "rich"
    THEN LET rs == OfKind("tool_result", m.blocks)
         IN  IF rs = << >> THEN {} ELSE {<<rs[1].name, rs[1].callId, rs[1].text>>}
    ELSE IF m.role = "tool" THEN {<<m.name, m.callId, m.content>>} ELSE {}

TextOf(m) ==
  IF m.form = "rich" THEN JoinTexts(OfKind("text", m.blocks))
  ELSE IF m.parts = << >> THEN m.content
  ELSE JoinTexts(Those(m.parts, LAMBDA p : p.type # "image_url"))

ImagesOf(m) ==
  IF m.form = "rich"
    THEN [k \in DOMAIN OfKind("image", m.blocks) |-> OfKind("image", m.blocks)[k].url]
    ELSE LET ps == Those(m.parts, LAMBDA p : p.url # "")
         IN  [k \in DOMAIN ps |-> ps[k].url]

CallsOf(m) ==
  LET cs == IF m.form = "flat" THEN m.calls
            ELSE LET bs == OfKind("tool_use", m.blocks) IN [k \in DOMAIN bs |-> bs[k].call]
  IN  [k \in DOMAIN cs |-> CallThroughWire(cs[k])]

SaysTheSame(m, n) ==
  /\ Result(m) = Result(n)
  /\ Result(m) = {} => TextOf(m) = TextOf(n) /\ ImagesOf(m) = ImagesOf(n)
                         /\ CallsOf(m) = CallsOf(n)

\* However often and in whatever order a message is stored, synced, projected and
\* sent, it goes on saying what it said; what may be lost is how (the detail of an
\* image, the limits of the parts of a text, the place of a call in the text, a
\* name on a message that is no result, IsError, results after the first).
SaysTheSameEver == SaysTheSame(origin, msg)

\* What is lost is lost on the first projection: from then on a message does not
\* change any more when it goes round, so that its copies on other devices are equal
\* and a merge does not take them for different messages.  Only an empty tool input
\* may still become none.
ChangesOnce ==
  msg.form = "flat" => \A m \in settled : ThroughWire(msg) = ThroughWire(m)
=============================================================================
