--------------------------- MODULE TeleportProofs ---------------------------
(* What a message says survives every sequence of conversions, for texts and  *)
(* messages of any length.  The proof sees a message through flat maps: each  *)
(* view (text, images, calls, results, parts) is what each block or part      *)
(* contributes, joined.                                                       *)
EXTENDS Teleport, FoldLemmas

----------------------------------------------------------------------------
(* What a message is made of, after any number of conversions *)

\* Texts are joined, so they get longer than those a message starts with.
Str == Seq(Segment)

Part ==
  {p \in [type : {"text", "image_url", "other"}, text : Str, url : {"", "u"}, detail : {"", "low"}] :
     /\ p.type = "image_url" => p.text = << >>
     /\ p.type # "image_url" => p.url = ""}

Blk == UNION {[kind : {"text"}, text : Str],
              [kind : {"image"}, url : {"u"}],
              [kind : {"tool_use"}, call : ToolCall],
              [kind : {"tool_result"}, callId : {"", "id"}, name : {"", "n"}, text : Str,
               isError : BOOLEAN],
              [kind : {"new"}]}

\* What each block contributes.
TextsOf   == [b \in Blk |-> IF b.kind = "text" THEN b.text ELSE << >>]
UrlsOf    == [b \in Blk |-> IF b.kind = "image" THEN <<b.url>> ELSE << >>]
UsesOf    == [b \in Blk |-> IF b.kind = "tool_use" THEN <<b.call>> ELSE << >>]
ResultsOf == [b \in Blk |-> IF b.kind = "tool_result" THEN <<b>> ELSE << >>]
PartsOf   == [b \in Blk |-> IF b.kind \in {"text", "image"} THEN <<BlockPart(b)>> ELSE << >>]

BlkKind(kind) == {b \in Blk : b.kind = kind}

\* A block by its kind.
LEMMA BlkFacts ==
  ASSUME NEW b \in Blk
  PROVE  /\ b.kind \in {"text", "image", "tool_use", "tool_result", "new"}
         /\ b.kind = "text" => b.text \in Str /\ b = TextBlock(b.text)
         /\ b.kind = "image" => b = ImageBlock("u") /\ b.url = "u"
         /\ b.kind = "tool_use" => b.call \in ToolCall /\ b = ToolUseBlock(b.call)
         /\ b.kind = "tool_result" => b.callId \in {"", "id"} /\ b.name \in {"", "n"} /\ b.text \in Str
         /\ b.kind = "new" => b = NewBlock
<1>1. CASE b \in [kind : {"text"}, text : Str]
  BY <1>1 DEF TextBlock
<1>2. CASE b \in [kind : {"image"}, url : {"u"}]
  BY <1>2 DEF ImageBlock
<1>3. CASE b \in [kind : {"tool_use"}, call : ToolCall]
  BY <1>3 DEF ToolUseBlock
<1>4. CASE b \in [kind : {"tool_result"}, callId : {"", "id"}, name : {"", "n"}, text : Str,
                  isError : BOOLEAN]
  BY <1>4
<1>5. CASE b \in [kind : {"new"}]
  BY <1>5 DEF NewBlock
<1> QED BY <1>1, <1>2, <1>3, <1>4, <1>5 DEF Blk

\* A part by its type, and its blocks.
LEMMA PartFacts ==
  ASSUME NEW p \in Part
  PROVE  /\ p.text \in Str /\ p.url \in {"", "u"} /\ p.type \in {"text", "image_url", "other"}
         /\ p.type = "image_url" => p.text = << >>
         /\ p.type # "image_url" => p.url = ""
         /\ PartBlocks(p) \in Seq(Blk)
<1>1. /\ p.text \in Str /\ p.url \in {"", "u"} /\ p.type \in {"text", "image_url", "other"}
      /\ p.type = "image_url" => p.text = << >>
      /\ p.type # "image_url" => p.url = ""
  BY DEF Part
<1>2. TextBlock(p.text) \in Blk
  BY <1>1 DEF Blk, TextBlock
<1>3. p.url # "" => ImageBlock(p.url) \in Blk
  BY <1>1 DEF Blk, ImageBlock
<1>4. PartBlocks(p) \in Seq(Blk)
  <2>1. \A b \in Blk : <<b>> \in Seq(Blk)
    OBVIOUS
  <2>2. << >> \in Seq(Blk)
    OBVIOUS
  <2> QED BY <1>2, <1>3, <2>1, <2>2 DEF PartBlocks
<1> QED BY <1>1, <1>4

\* The part that a block of text or an image becomes.
LEMMA BlockPartFacts ==
  ASSUME NEW b \in Blk, b.kind \in {"text", "image"}
  PROVE  /\ BlockPart(b) \in Part
         /\ b.kind = "text" => BlockPart(b) = TextPart(b.text)
         /\ b.kind = "image" => BlockPart(b) = ImagePart("u")
<1>1. CASE b.kind = "text"
  <2>1. b.text \in Str
    BY <1>1, BlkFacts
  <2> QED BY <1>1, <2>1 DEF BlockPart, TextPart, Part
<1>2. CASE b.kind = "image"
  <2>1. b.url = "u"
    BY <1>2, BlkFacts
  <2>2. << >> \in Str
    BY DEF Str
  <2> QED BY <1>2, <2>1, <2>2 DEF BlockPart, ImagePart, Part
<1> QED BY <1>1, <1>2

\* The blocks of one kind, and what is made of each.
LEMMA OfKindFacts ==
  ASSUME NEW bs \in Seq(Blk), NEW kind, NEW A, NEW g, Maps(g, BlkKind(kind), A),
         NEW H, KeepsMapping(H, g, BlkKind(kind), Blk)
  PROVE  /\ OfKind(kind, bs) \in Seq(BlkKind(kind))
         /\ Makes(H, Blk, A)
         /\ Mapped(g, OfKind(kind, bs)) = FlatMap(H, bs)
<1>1. PICK K : Keeps(K, BlkKind(kind), Blk)
  BY DEF Keeps
<1>2. \A k \in DOMAIN bs : bs[k] \in Blk
  OBVIOUS
<1>3. [k \in DOMAIN bs |-> K[bs[k]]] = [k \in DOMAIN bs |-> IF bs[k].kind = kind THEN <<bs[k]>> ELSE << >>]
  BY <1>1, <1>2 DEF BlkKind, Keeps
<1>4. OfKind(kind, bs) = FlatMap(K, bs)
  BY <1>3 DEF OfKind, Those, FlatMap
<1>5. BlkKind(kind) \in SUBSET Blk
  BY DEF BlkKind
<1> QED BY <1>1, <1>4, <1>5, KeepThenMap

\* Joined texts.
LEMMA JoinFacts ==
  ASSUME NEW E, NEW G, Makes(G, E, Segment), \A x \in E : G[x] = x.text, NEW s \in Seq(E)
  PROVE  JoinTexts(s) = FlatMap(G, s)
<1>1. \A k \in DOMAIN s : s[k] \in E
  OBVIOUS
<1>2. [k \in DOMAIN s |-> G[s[k]]] = [k \in DOMAIN s |-> s[k].text]
  BY <1>1
<1> QED BY <1>2 DEF JoinTexts, FlatMap

\* The types of what the blocks contribute.
LEMMA MakeBlocks ==
  /\ Makes(TextsOf, Blk, Segment) /\ Makes(UrlsOf, Blk, {"u"}) /\ Makes(UsesOf, Blk, ToolCall)
  /\ Makes(ResultsOf, Blk, BlkKind("tool_result")) /\ Makes(PartsOf, Blk, Part)
<1>1. \A b \in Blk : TextsOf[b] \in Seq(Segment)
  <2>1. << >> \in Seq(Segment)
    OBVIOUS
  <2>2. \A b \in Blk : b.kind = "text" => b.text \in Seq(Segment)
    BY BlkFacts DEF Str
  <2> QED BY <2>1, <2>2 DEF TextsOf
<1> DEFINE Few(S) == {<< >>} \cup {<<x>> : x \in S}
<1>2. \A b \in Blk : UrlsOf[b] \in Few({"u"})
  BY BlkFacts DEF UrlsOf
<1>3. \A b \in Blk : UsesOf[b] \in Few(ToolCall)
  <2>1. \A b \in Blk : b.kind = "tool_use" => b.call \in ToolCall
    BY BlkFacts
  <2> QED BY <2>1 DEF UsesOf
<1>4. \A b \in Blk : ResultsOf[b] \in Few(BlkKind("tool_result"))
  BY DEF ResultsOf, BlkKind
<1>5. \A b \in Blk : PartsOf[b] \in Few(Part)
  BY BlockPartFacts DEF PartsOf
<1>6. ASSUME NEW S, NEW q \in Few(S) PROVE q \in Seq(S)
  <2>1. CASE q = << >>
    BY <2>1
  <2>2. CASE \E x \in S : q = <<x>>
    BY <2>2
  <2> QED BY <2>1, <2>2
<1> HIDE DEF Few
<1>7. /\ \A b \in Blk : UrlsOf[b] \in Seq({"u"})
      /\ \A b \in Blk : UsesOf[b] \in Seq(ToolCall)
      /\ \A b \in Blk : ResultsOf[b] \in Seq(BlkKind("tool_result"))
      /\ \A b \in Blk : PartsOf[b] \in Seq(Part)
  BY <1>2, <1>3, <1>4, <1>5, <1>6
<1> QED BY <1>1, <1>7 DEF Makes, TextsOf, UrlsOf, UsesOf, ResultsOf, PartsOf

\* The text of a rich message.
LEMMA ViewTexts ==
  ASSUME NEW bs \in Seq(Blk)
  PROVE  JoinTexts(OfKind("text", bs)) = FlatMap(TextsOf, bs)
<1> DEFINE P == BlkKind("text")
<1>1. PICK K : Keeps(K, P, Blk)
  BY DEF Keeps
<1>2. PICK G : G = [b \in P |-> b.text]
  OBVIOUS
<1>3. Makes(G, P, Segment) /\ \A b \in P : G[b] = b.text
  <2>1. \A b \in P : b.text \in Seq(Segment)
    BY BlkFacts DEF BlkKind, Str
  <2> QED BY <1>2, <2>1 DEF Makes
<1>4. \A k \in DOMAIN bs : bs[k] \in Blk
  OBVIOUS
<1>5. [k \in DOMAIN bs |-> K[bs[k]]] = [k \in DOMAIN bs |-> IF bs[k].kind = "text" THEN <<bs[k]>> ELSE << >>]
  BY <1>1, <1>4 DEF BlkKind, Keeps
<1>6. OfKind("text", bs) = FlatMap(K, bs)
  BY <1>5 DEF OfKind, Those, FlatMap
<1>7. KeepsMaking(TextsOf, G, P, Blk)
  BY <1>2 DEF TextsOf, BlkKind, KeepsMaking
<1>8. P \in SUBSET Blk
  BY DEF BlkKind
<1> HIDE DEF P
<1>9. FlatMap(K, bs) \in Seq(P) /\ FlatMap(G, FlatMap(K, bs)) = FlatMap(TextsOf, bs)
  BY <1>1, <1>3, <1>7, <1>8, KeepThenMake
<1> QED BY <1>3, <1>6, <1>9, JoinFacts

\* The images of a rich message.
LEMMA ViewUrls ==
  ASSUME NEW bs \in Seq(Blk)
  PROVE  /\ OfKind("image", bs) \in Seq(BlkKind("image"))
         /\ [k \in DOMAIN OfKind("image", bs) |-> OfKind("image", bs)[k].url] = FlatMap(UrlsOf, bs)
<1> DEFINE P == BlkKind("image")
<1>1. PICK g : g = [b \in P |-> b.url]
  OBVIOUS
<1>2. Maps(g, P, {"u"}) /\ \A b \in P : g[b] = b.url
  BY <1>1, BlkFacts DEF BlkKind, Maps
<1>3. KeepsMapping(UrlsOf, g, P, Blk)
  BY <1>1 DEF UrlsOf, BlkKind, KeepsMapping
<1>4. /\ OfKind("image", bs) \in Seq(P)
      /\ Mapped(g, OfKind("image", bs)) = FlatMap(UrlsOf, bs)
  BY <1>2, <1>3, OfKindFacts
<1>5. \A k \in DOMAIN OfKind("image", bs) : OfKind("image", bs)[k] \in P
  BY <1>4
<1> QED BY <1>2, <1>4, <1>5 DEF Mapped

\* The tool calls of a rich message.
LEMMA ViewUses ==
  ASSUME NEW bs \in Seq(Blk)
  PROVE  [k \in DOMAIN OfKind("tool_use", bs) |-> OfKind("tool_use", bs)[k].call] = FlatMap(UsesOf, bs)
<1> DEFINE P == BlkKind("tool_use")
<1>1. PICK g : g = [b \in P |-> b.call]
  OBVIOUS
<1>2. Maps(g, P, ToolCall) /\ \A b \in P : g[b] = b.call
  BY <1>1, BlkFacts DEF BlkKind, Maps
<1>3. KeepsMapping(UsesOf, g, P, Blk)
  BY <1>1 DEF UsesOf, BlkKind, KeepsMapping
<1>4. /\ OfKind("tool_use", bs) \in Seq(P)
      /\ Mapped(g, OfKind("tool_use", bs)) = FlatMap(UsesOf, bs)
  BY <1>2, <1>3, OfKindFacts
<1>5. \A k \in DOMAIN OfKind("tool_use", bs) : OfKind("tool_use", bs)[k] \in P
  BY <1>4
<1> QED BY <1>2, <1>4, <1>5 DEF Mapped

\* The tool results of a rich message.
LEMMA ViewResults ==
  ASSUME NEW bs \in Seq(Blk)
  PROVE  OfKind("tool_result", bs) = FlatMap(ResultsOf, bs)
<1>1. \A k \in DOMAIN bs : bs[k] \in Blk
  OBVIOUS
<1>2. [k \in DOMAIN bs |-> ResultsOf[bs[k]]]
        = [k \in DOMAIN bs |-> IF bs[k].kind = "tool_result" THEN <<bs[k]>> ELSE << >>]
  BY <1>1 DEF ResultsOf
<1> QED BY <1>2 DEF OfKind, Those, FlatMap

\* The parts that ToMessage collects.
LEMMA ViewParts ==
  ASSUME NEW bs \in Seq(Blk)
  PROVE  BlockParts(bs) = IF FlatMap(UrlsOf, bs) = << >> THEN << >> ELSE FlatMap(PartsOf, bs)
<1> DEFINE P == {b \in Blk : b.kind \in {"text", "image"}}
           those == Those(bs, LAMBDA b : b.kind \in {"text", "image"})
<1>1. PICK K : Keeps(K, P, Blk)
  BY DEF Keeps
<1>2. PICK g : g = [b \in P |-> BlockPart(b)]
  OBVIOUS
<1>3. Maps(g, P, Part) /\ \A b \in P : g[b] = BlockPart(b)
  BY <1>2, BlockPartFacts DEF Maps
<1>4. \A k \in DOMAIN bs : bs[k] \in Blk
  OBVIOUS
<1>5. [k \in DOMAIN bs |-> K[bs[k]]]
        = [k \in DOMAIN bs |-> IF bs[k].kind \in {"text", "image"} THEN <<bs[k]>> ELSE << >>]
  BY <1>1, <1>4 DEF Keeps
<1>6. those = FlatMap(K, bs)
  BY <1>5 DEF Those, FlatMap
<1>7. KeepsMapping(PartsOf, g, P, Blk)
  BY <1>2 DEF PartsOf, KeepsMapping
<1>8. P \in SUBSET Blk
  OBVIOUS
<1> HIDE DEF P
<1>9. /\ FlatMap(K, bs) \in Seq(P)
      /\ Mapped(g, FlatMap(K, bs)) = FlatMap(PartsOf, bs)
  BY <1>1, <1>3, <1>7, <1>8, KeepThenMap
<1>10. [k \in DOMAIN those |-> BlockPart(those[k])] = FlatMap(PartsOf, bs)
  <2> HIDE DEF those
  <2>1. \A k \in DOMAIN those : those[k] \in P
    BY <1>6, <1>9
  <2> QED BY <1>3, <1>6, <1>9, <2>1 DEF Mapped
<1>11. OfKind("image", bs) = << >> <=> FlatMap(UrlsOf, bs) = << >>
  <2>1. PICK q \in Seq(BlkKind("image")) : q = OfKind("image", bs)
    BY ViewUrls
  <2>2. FlatMap(UrlsOf, bs) = [k \in DOMAIN q |-> q[k].url]
    BY <2>1, ViewUrls
  <2>3. q = << >> <=> [k \in DOMAIN q |-> q[k].url] = << >>
    <3>1. q = << >> <=> DOMAIN q = {}
      OBVIOUS
    <3>2. [k \in DOMAIN q |-> q[k].url] = << >> => DOMAIN q = {}
      OBVIOUS
    <3>3. DOMAIN q = {} => [k \in DOMAIN q |-> q[k].url] = << >>
      OBVIOUS
    <3> QED BY <3>1, <3>2, <3>3
  <2> QED BY <2>1, <2>2, <2>3
<1> QED BY <1>10, <1>11 DEF BlockParts

----------------------------------------------------------------------------
(* Flat messages *)

\* What each part contributes: to what the message says, to its JSON, to its blocks.
PTexts  == [p \in Part |-> IF p.type # "image_url" THEN p.text ELSE << >>]
WTexts  == [p \in Part |-> IF p.type = "text" THEN p.text ELSE << >>]
PUrls   == [p \in Part |-> IF p.url # "" THEN <<p.url>> ELSE << >>]
PBlocks == [p \in Part |-> PartBlocks(p)]
PParts  == [p \in Part |-> IF p.type # "image_url" THEN <<TextPart(p.text)>>
                           ELSE IF p.url = "" THEN << >> ELSE <<ImagePart(p.url)>>]

\* The joined texts of the parts in P.
LEMMA KeptTexts ==
  ASSUME NEW P \in SUBSET Part, NEW K, Keeps(K, P, Part),
         NEW H, H = [p \in Part |-> IF p \in P THEN p.text ELSE << >>], NEW ps \in Seq(Part)
  PROVE  JoinTexts(FlatMap(K, ps)) = FlatMap(H, ps) /\ Makes(H, Part, Segment)
<1>1. PICK G : G = [p \in P |-> p.text]
  OBVIOUS
<1>2. Makes(G, P, Segment) /\ \A p \in P : G[p] = p.text
  <2>1. \A p \in P : p.text \in Seq(Segment)
    BY PartFacts DEF Str
  <2> QED BY <1>1, <2>1 DEF Makes
<1>3. KeepsMaking(H, G, P, Part)
  BY <1>1 DEF KeepsMaking
<1>4. /\ FlatMap(K, ps) \in Seq(P) /\ Makes(H, Part, Segment)
      /\ FlatMap(G, FlatMap(K, ps)) = FlatMap(H, ps)
  BY <1>2, <1>3, KeepThenMake
<1> QED BY <1>2, <1>4, JoinFacts

\* The text of the parts, and what the JSON has as content.
LEMMA ViewFlatTexts ==
  ASSUME NEW ps \in Seq(Part)
  PROVE  /\ JoinTexts(Those(ps, LAMBDA p : p.type # "image_url")) = FlatMap(PTexts, ps)
         /\ JoinTexts(Those(ps, LAMBDA p : p.type = "text")) = FlatMap(WTexts, ps)
<1>1. \A k \in DOMAIN ps : ps[k] \in Part
  OBVIOUS
<1>2. JoinTexts(Those(ps, LAMBDA p : p.type # "image_url")) = FlatMap(PTexts, ps)
  <2> DEFINE P == {p \in Part : p.type # "image_url"}
             K == [p \in Part |-> IF p \in P THEN <<p>> ELSE << >>]
  <2>1. [k \in DOMAIN ps |-> K[ps[k]]]
          = [k \in DOMAIN ps |-> IF ps[k].type # "image_url" THEN <<ps[k]>> ELSE << >>]
    BY <1>1
  <2>2. Those(ps, LAMBDA p : p.type # "image_url") = FlatMap(K, ps)
    <3> HIDE DEF K
    <3> QED BY <2>1 DEF Those, FlatMap
  <2>3. Keeps(K, P, Part) /\ P \in SUBSET Part
    BY DEF Keeps
  <2>4. PTexts = [p \in Part |-> IF p \in P THEN p.text ELSE << >>]
    BY DEF PTexts
  <2> HIDE DEF K, P
  <2> QED BY <2>2, <2>3, <2>4, KeptTexts
<1>3. JoinTexts(Those(ps, LAMBDA p : p.type = "text")) = FlatMap(WTexts, ps)
  <2> DEFINE P == {p \in Part : p.type = "text"}
             K == [p \in Part |-> IF p \in P THEN <<p>> ELSE << >>]
  <2>1. [k \in DOMAIN ps |-> K[ps[k]]]
          = [k \in DOMAIN ps |-> IF ps[k].type = "text" THEN <<ps[k]>> ELSE << >>]
    BY <1>1
  <2>2. Those(ps, LAMBDA p : p.type = "text") = FlatMap(K, ps)
    <3> HIDE DEF K
    <3> QED BY <2>1 DEF Those, FlatMap
  <2>3. Keeps(K, P, Part) /\ P \in SUBSET Part
    BY DEF Keeps
  <2>4. WTexts = [p \in Part |-> IF p \in P THEN p.text ELSE << >>]
    BY DEF WTexts
  <2> HIDE DEF K, P
  <2> QED BY <2>2, <2>3, <2>4, KeptTexts
<1> QED BY <1>2, <1>3

\* The images of the parts.
LEMMA ViewFlatUrls ==
  ASSUME NEW ps \in Seq(Part)
  PROVE  \A those : those = Those(ps, LAMBDA p : p.url # "") =>
           [k \in DOMAIN those |-> those[k].url] = FlatMap(PUrls, ps)
<1> DEFINE P == {p \in Part : p.url # ""}
           K == [p \in Part |-> IF p \in P THEN <<p>> ELSE << >>]
           g == [p \in P |-> p.url]
<1>1. \A k \in DOMAIN ps : ps[k] \in Part
  OBVIOUS
<1>2. [k \in DOMAIN ps |-> K[ps[k]]]
        = [k \in DOMAIN ps |-> IF ps[k].url # "" THEN <<ps[k]>> ELSE << >>]
  BY <1>1
<1>3. Those(ps, LAMBDA p : p.url # "") = FlatMap(K, ps)
  <2> HIDE DEF K
  <2> QED BY <1>2 DEF Those, FlatMap
<1>4. Keeps(K, P, Part) /\ P \in SUBSET Part
  BY DEF Keeps
<1>5. Maps(g, P, {"u"}) /\ \A p \in P : g[p] = p.url
  BY PartFacts DEF Maps
<1>6. KeepsMapping(PUrls, g, P, Part)
  BY DEF KeepsMapping, PUrls
<1> HIDE DEF K, P, g
<1>7. FlatMap(K, ps) \in Seq(P) /\ Mapped(g, FlatMap(K, ps)) = FlatMap(PUrls, ps)
  BY <1>4, <1>5, <1>6, KeepThenMap
<1>8. ASSUME NEW those, those = FlatMap(K, ps)
      PROVE  [k \in DOMAIN those |-> those[k].url] = FlatMap(PUrls, ps)
  <2>1. \A k \in DOMAIN those : those[k] \in P
    BY <1>7, <1>8
  <2> QED BY <1>5, <1>7, <1>8, <2>1 DEF Mapped
<1> QED BY <1>3, <1>8

\* The types of what the parts contribute.
LEMMA MakeParts ==
  /\ Makes(PTexts, Part, Segment) /\ Makes(WTexts, Part, Segment)
  /\ Makes(PUrls, Part, {"u"}) /\ Makes(PBlocks, Part, Blk) /\ Makes(PParts, Part, Part)
<1>1. ASSUME NEW p \in Part
      PROVE  /\ PTexts[p] \in Seq(Segment) /\ WTexts[p] \in Seq(Segment)
             /\ PUrls[p] \in Seq({"u"}) /\ PBlocks[p] \in Seq(Blk)
  <2>1. << >> \in Seq(Segment) /\ << >> \in Seq({"u"}) /\ <<"u">> \in Seq({"u"})
    OBVIOUS
  <2>2. p.text \in Seq(Segment) /\ p.url \in {"", "u"} /\ PartBlocks(p) \in Seq(Blk)
    BY PartFacts DEF Str
  <2> QED BY <2>1, <2>2 DEF PTexts, WTexts, PUrls, PBlocks
<1>2. ASSUME NEW p \in Part PROVE PParts[p] \in Seq(Part)
  <2>1. p.text \in Str /\ p.url \in {"", "u"} /\ << >> \in Str
    <3>1. << >> \in Str
      BY DEF Str
    <3> QED BY <3>1, PartFacts
  <2>2. TextPart(p.text) \in Part /\ ImagePart("u") \in Part
    BY <2>1 DEF TextPart, ImagePart, Part
  <2>3. << >> \in Seq(Part) /\ \A x \in Part : <<x>> \in Seq(Part)
    OBVIOUS
  <2>4. PParts[p] \in {<< >>, <<TextPart(p.text)>>, <<ImagePart("u")>>}
    BY <2>1 DEF PParts
  <2> QED BY <2>2, <2>3, <2>4
<1> QED BY <1>1, <1>2 DEF Makes, PTexts, WTexts, PUrls, PBlocks, PParts

----------------------------------------------------------------------------
(* Up *)

\* The blocks of the tool calls.
LEMMA CallBlocks ==
  ASSUME NEW cs \in Seq(ToolCall), NEW ub, ub = [k \in DOMAIN cs |-> ToolUseBlock(cs[k])]
  PROVE  /\ ub \in Seq(Blk)
         /\ FlatMap(TextsOf, ub) = << >> /\ FlatMap(UrlsOf, ub) = << >>
         /\ FlatMap(ResultsOf, ub) = << >> /\ FlatMap(PartsOf, ub) = << >>
         /\ FlatMap(UsesOf, ub) = cs
<1>1. \A c \in ToolCall : ToolUseBlock(c) \in Blk /\ ToolUseBlock(c).kind = "tool_use"
                          /\ ToolUseBlock(c).call = c
  BY DEF Blk, ToolUseBlock
<1>2. \A k \in DOMAIN cs : cs[k] \in ToolCall
  OBVIOUS
<1>3. ub \in Seq(Blk) /\ DOMAIN ub = DOMAIN cs
  <2>1. PICK n \in Nat : n = Len(cs) /\ DOMAIN cs = 1 .. n
    OBVIOUS
  <2> QED BY <1>1, <1>2, <2>1
<1>4. \A k \in DOMAIN ub : /\ TextsOf[ub[k]] = << >> /\ UrlsOf[ub[k]] = << >>
                           /\ ResultsOf[ub[k]] = << >> /\ PartsOf[ub[k]] = << >>
                           /\ UsesOf[ub[k]] = <<cs[k]>>
  BY <1>1, <1>2, <1>3 DEF TextsOf, UrlsOf, ResultsOf, PartsOf, UsesOf
<1>5. /\ FlatMap(TextsOf, ub) = << >> /\ FlatMap(UrlsOf, ub) = << >>
      /\ FlatMap(ResultsOf, ub) = << >> /\ FlatMap(PartsOf, ub) = << >>
  <2>1. FlatMap(TextsOf, ub) = << >>
    BY <1>3, <1>4, MakeBlocks, FlatMapEmpty
  <2>2. FlatMap(UrlsOf, ub) = << >>
    BY <1>3, <1>4, MakeBlocks, FlatMapEmpty
  <2>3. FlatMap(ResultsOf, ub) = << >>
    BY <1>3, <1>4, MakeBlocks, FlatMapEmpty
  <2>4. FlatMap(PartsOf, ub) = << >>
    BY <1>3, <1>4, MakeBlocks, FlatMapEmpty
  <2> QED BY <2>1, <2>2, <2>3, <2>4
<1>6. FlatMap(UsesOf, ub) = cs
  <2> DEFINE one == [c \in ToolCall |-> <<c>>]
             id  == [c \in ToolCall |-> c]
  <2>1. Makes(one, ToolCall, ToolCall)
    BY DEF Makes
  <2>2. Maps(id, ToolCall, ToolCall) /\ MakesOne(one, id, ToolCall)
    BY DEF Maps, MakesOne
  <2>3. [k \in DOMAIN ub |-> UsesOf[ub[k]]] = [k \in DOMAIN cs |-> one[cs[k]]]
    BY <1>2, <1>3, <1>4
  <2>4. Mapped(id, cs) = cs
    BY <1>2 DEF Mapped
  <2> HIDE DEF one, id
  <2>5. FlatMap(UsesOf, ub) = FlatMap(one, cs)
    BY <2>3 DEF FlatMap
  <2>6. FlatMap(one, cs) = Mapped(id, cs)
    BY <2>1, <2>2, FlatMapOnes
  <2> QED BY <2>4, <2>5, <2>6
<1> QED BY <1>3, <1>5, <1>6

\* The blocks of the parts, as a flat map.
LEMMA PartBlocksMap ==
  ASSUME NEW ps \in Seq(Part)
  PROVE  FlattenSeq([k \in DOMAIN ps |-> PartBlocks(ps[k])]) = FlatMap(PBlocks, ps)
<1>1. \A k \in DOMAIN ps : ps[k] \in Part
  OBVIOUS
<1>2. [k \in DOMAIN ps |-> PBlocks[ps[k]]] = [k \in DOMAIN ps |-> PartBlocks(ps[k])]
  BY <1>1 DEF PBlocks
<1> QED BY <1>2 DEF FlatMap

\* The blocks of the parts.
LEMMA PartsBlocks ==
  ASSUME NEW ps \in Seq(Part), NEW cb, cb = FlatMap(PBlocks, ps)
  PROVE  /\ cb \in Seq(Blk)
         /\ FlatMap(TextsOf, cb) = FlatMap(PTexts, ps)
         /\ FlatMap(UrlsOf, cb) = FlatMap(PUrls, ps)
         /\ FlatMap(PartsOf, cb) = FlatMap(PParts, ps)
         /\ FlatMap(ResultsOf, cb) = << >> /\ FlatMap(UsesOf, cb) = << >>
<1>1. cb \in Seq(Blk)
  BY MakeParts, FlatMapType
<1> DEFINE None == [p \in Part |-> << >>]
<1>2. ASSUME NEW p \in Part
      PROVE  /\ PTexts[p] = FlatMap(TextsOf, PBlocks[p])
             /\ PUrls[p] = FlatMap(UrlsOf, PBlocks[p])
             /\ PParts[p] = FlatMap(PartsOf, PBlocks[p])
             /\ None[p] = FlatMap(ResultsOf, PBlocks[p])
             /\ None[p] = FlatMap(UsesOf, PBlocks[p])
  <2>1. CASE p.type # "image_url"
    <3>1. PICK b \in Blk : b = TextBlock(p.text) /\ b.kind = "text" /\ b.text = p.text
      <4>1. TextBlock(p.text) \in Blk
        BY PartFacts DEF Blk, TextBlock
      <4> QED BY <4>1 DEF TextBlock
    <3>2. PBlocks[p] = <<b>> /\ p.url = ""
      BY <2>1, <3>1, PartFacts DEF PBlocks, PartBlocks
    <3>3. /\ FlatMap(TextsOf, <<b>>) = TextsOf[b] /\ FlatMap(UrlsOf, <<b>>) = UrlsOf[b]
          /\ FlatMap(PartsOf, <<b>>) = PartsOf[b] /\ FlatMap(ResultsOf, <<b>>) = ResultsOf[b]
          /\ FlatMap(UsesOf, <<b>>) = UsesOf[b]
      BY MakeBlocks, FlatMapOne
    <3>4. /\ TextsOf[b] = p.text /\ UrlsOf[b] = << >> /\ ResultsOf[b] = << >> /\ UsesOf[b] = << >>
          /\ PartsOf[b] = <<TextPart(p.text)>>
      BY <3>1 DEF TextsOf, UrlsOf, ResultsOf, UsesOf, PartsOf, BlockPart
    <3> QED BY <2>1, <3>2, <3>3, <3>4 DEF PTexts, PUrls, PParts
  <2>2. CASE p.type = "image_url" /\ p.url = ""
    <3>1. PBlocks[p] = << >>
      BY <2>2 DEF PBlocks, PartBlocks
    <3> QED BY <2>2, <3>1, FlatMapNone DEF PTexts, PUrls, PParts
  <2>3. CASE p.type = "image_url" /\ p.url # ""
    <3>1. PICK b \in Blk : b = ImageBlock(p.url) /\ b.kind = "image" /\ b.url = p.url
      <4>1. ImageBlock(p.url) \in Blk
        BY <2>3, PartFacts DEF Blk, ImageBlock
      <4> QED BY <4>1 DEF ImageBlock
    <3>2. PBlocks[p] = <<b>>
      BY <2>3, <3>1 DEF PBlocks, PartBlocks
    <3>3. /\ FlatMap(TextsOf, <<b>>) = TextsOf[b] /\ FlatMap(UrlsOf, <<b>>) = UrlsOf[b]
          /\ FlatMap(PartsOf, <<b>>) = PartsOf[b] /\ FlatMap(ResultsOf, <<b>>) = ResultsOf[b]
          /\ FlatMap(UsesOf, <<b>>) = UsesOf[b]
      BY MakeBlocks, FlatMapOne
    <3>4. /\ TextsOf[b] = << >> /\ UrlsOf[b] = <<p.url>> /\ ResultsOf[b] = << >>
          /\ UsesOf[b] = << >> /\ PartsOf[b] = <<ImagePart(p.url)>>
      BY <3>1 DEF TextsOf, UrlsOf, ResultsOf, UsesOf, PartsOf, BlockPart
    <3> QED BY <2>3, <3>2, <3>3, <3>4 DEF PTexts, PUrls, PParts
  <2> QED BY <2>1, <2>2, <2>3
<1>3. /\ Makes(None, Part, BlkKind("tool_result")) /\ Makes(None, Part, ToolCall)
  <2>1. \A S : << >> \in Seq(S)
    OBVIOUS
  <2> QED BY <2>1 DEF Makes
<1>4. FlatMap(None, ps) = << >>
  <2>1. \A k \in DOMAIN ps : None[ps[k]] = << >>
    OBVIOUS
  <2> HIDE DEF None
  <2> QED BY <1>3, <2>1, FlatMapEmpty
<1> HIDE DEF None
<1>5. /\ Composes(PTexts, TextsOf, PBlocks, Part) /\ Composes(PUrls, UrlsOf, PBlocks, Part)
      /\ Composes(PParts, PartsOf, PBlocks, Part)
      /\ Composes(None, ResultsOf, PBlocks, Part) /\ Composes(None, UsesOf, PBlocks, Part)
  BY <1>2 DEF Composes
<1>6. FlatMap(TextsOf, cb) = FlatMap(PTexts, ps)
  BY <1>5, MakeBlocks, MakeParts, FlatMapTwice
<1>7. FlatMap(UrlsOf, cb) = FlatMap(PUrls, ps)
  BY <1>5, MakeBlocks, MakeParts, FlatMapTwice
<1>8. FlatMap(PartsOf, cb) = FlatMap(PParts, ps)
  BY <1>5, MakeBlocks, MakeParts, FlatMapTwice
<1>9. FlatMap(ResultsOf, cb) = << >>
  BY <1>3, <1>4, <1>5, MakeBlocks, MakeParts, FlatMapTwice
<1>10. FlatMap(UsesOf, cb) = << >>
  BY <1>3, <1>4, <1>5, MakeBlocks, MakeParts, FlatMapTwice
<1> QED BY <1>1, <1>6, <1>7, <1>8, <1>9, <1>10

----------------------------------------------------------------------------
(* What a message says *)

Role == {"user", "assistant", "tool"}

FlatMsg == [form : {"flat"}, role : Role, name : {"", "n"}, callId : {"", "id"},
            content : Str, parts : Seq(Part), calls : Seq(ToolCall)]

RichMsg == [form : {"rich"}, role : Role, blocks : Seq(Blk)]

\* The messages that conversions lead to: a message with the role of a tool is nothing
\* but its result.
Well(m) ==
  \/ m \in FlatMsg /\ (m.role = "tool" => m.parts = << >> /\ m.calls = << >>)
  \/ m \in RichMsg /\ (m.role = "tool" => FlatMap(ResultsOf, m.blocks) # << >>)

Wired(cs) == [k \in DOMAIN cs |-> CallThroughWire(cs[k])]

\* The wire changes the calls once.
LEMMA WiredFacts ==
  ASSUME NEW cs \in Seq(ToolCall)
  PROVE  Wired(cs) \in Seq(ToolCall) /\ Wired(Wired(cs)) = Wired(cs)
<1>1. \A c \in ToolCall : /\ CallThroughWire(c) \in ToolCall
                          /\ CallThroughWire(CallThroughWire(c)) = CallThroughWire(c)
  BY DEF CallThroughWire, ToolCall, Inputs
<1>2. PICK n \in Nat : n = Len(cs) /\ DOMAIN cs = 1 .. n
  OBVIOUS
<1>3. \A k \in 1 .. n : cs[k] \in ToolCall
  BY <1>2
<1>4. Wired(cs) = [k \in 1 .. n |-> CallThroughWire(cs[k])]
  BY <1>2 DEF Wired
<1>5. Wired(cs) \in Seq(ToolCall)
  BY <1>1, <1>3, <1>4
<1>6. [k \in DOMAIN Wired(cs) |-> CallThroughWire(Wired(cs)[k])] = Wired(cs)
  BY <1>1, <1>3, <1>4
<1>7. \A s : Wired(s) = [k \in DOMAIN s |-> CallThroughWire(s[k])]
  BY DEF Wired
<1> QED BY <1>5, <1>6, <1>7

\* What a flat message says, by its parts.
LEMMA FlatSays ==
  ASSUME NEW m \in FlatMsg
  PROVE  /\ Result(m) = IF m.role = "tool" THEN {<<m.name, m.callId, m.content>>} ELSE {}
         /\ TextOf(m) = IF m.parts = << >> THEN m.content ELSE FlatMap(PTexts, m.parts)
         /\ ImagesOf(m) = FlatMap(PUrls, m.parts)
         /\ CallsOf(m) = Wired(m.calls)
<1>1. m.form = "flat" /\ m.parts \in Seq(Part)
  BY DEF FlatMsg
<1>2. Result(m) = IF m.role = "tool" THEN {<<m.name, m.callId, m.content>>} ELSE {}
  BY <1>1 DEF Result
<1>3. TextOf(m) = IF m.parts = << >> THEN m.content ELSE FlatMap(PTexts, m.parts)
  BY <1>1, ViewFlatTexts DEF TextOf
<1>4. ImagesOf(m) = FlatMap(PUrls, m.parts)
  BY <1>1, ViewFlatUrls DEF ImagesOf
<1>5. CallsOf(m) = Wired(m.calls)
  BY <1>1 DEF CallsOf, Wired
<1> QED BY <1>2, <1>3, <1>4, <1>5

\* What a rich message says, by its blocks.
LEMMA RichSays ==
  ASSUME NEW r \in RichMsg
  PROVE  /\ Result(r) = IF FlatMap(ResultsOf, r.blocks) = << >> THEN {}
                        ELSE {<<FlatMap(ResultsOf, r.blocks)[1].name,
                                FlatMap(ResultsOf, r.blocks)[1].callId,
                                FlatMap(ResultsOf, r.blocks)[1].text>>}
         /\ TextOf(r) = FlatMap(TextsOf, r.blocks)
         /\ ImagesOf(r) = FlatMap(UrlsOf, r.blocks)
         /\ CallsOf(r) = Wired(FlatMap(UsesOf, r.blocks))
<1>1. r.form = "rich" /\ r.blocks \in Seq(Blk)
  BY DEF RichMsg
<1>2. /\ OfKind("tool_result", r.blocks) = FlatMap(ResultsOf, r.blocks)
      /\ JoinTexts(OfKind("text", r.blocks)) = FlatMap(TextsOf, r.blocks)
      /\ [k \in DOMAIN OfKind("image", r.blocks) |-> OfKind("image", r.blocks)[k].url]
           = FlatMap(UrlsOf, r.blocks)
      /\ [k \in DOMAIN OfKind("tool_use", r.blocks) |-> OfKind("tool_use", r.blocks)[k].call]
           = FlatMap(UsesOf, r.blocks)
  BY <1>1, ViewResults, ViewTexts, ViewUrls, ViewUses
<1>3. TextOf(r) = FlatMap(TextsOf, r.blocks)
  BY <1>1, <1>2 DEF TextOf
<1>4. ImagesOf(r) = FlatMap(UrlsOf, r.blocks)
  BY <1>1, <1>2 DEF ImagesOf
<1>5. CallsOf(r) = Wired(FlatMap(UsesOf, r.blocks))
  BY <1>1, <1>2 DEF CallsOf, Wired
<1>6. Result(r) = IF FlatMap(ResultsOf, r.blocks) = << >> THEN {}
                  ELSE {<<FlatMap(ResultsOf, r.blocks)[1].name,
                          FlatMap(ResultsOf, r.blocks)[1].callId,
                          FlatMap(ResultsOf, r.blocks)[1].text>>}
  BY <1>1, <1>2 DEF Result
<1> QED BY <1>3, <1>4, <1>5, <1>6

----------------------------------------------------------------------------
(* The conversions *)

\* Every text that a settled message has as parts is a part of type text, the content
\* repeats them, and there is an image among the parts.
SettledPart == {TextPart(t) : t \in Str} \cup {ImagePart("u")}

Settled(m) ==
  \/ m.role = "tool"
  \/ /\ m.name = "" /\ m.callId = ""
     /\ m.parts \in Seq(SettledPart)
     /\ m.parts # << >> => /\ m.content = FlatMap(WTexts, m.parts)
                           /\ FlatMap(PUrls, m.parts) # << >>

\* A settled part is its own image under ToSessionMessage and ToMessage.
LEMMA SettledPartFacts ==
  ASSUME NEW p \in SettledPart
  PROVE  /\ p \in Part
         /\ PTexts[p] = WTexts[p]
         /\ PParts[p] = <<p>>
<1>1. CASE \E t \in Str : p = TextPart(t)
  <2>1. PICK t \in Str : p = TextPart(t)
    BY <1>1
  <2>2. p \in Part /\ p.type = "text" /\ p.text = t
    BY <2>1 DEF Part, TextPart
  <2> QED BY <2>1, <2>2 DEF PTexts, WTexts, PParts
<1>2. CASE p = ImagePart("u")
  <2>1. << >> \in Str
    BY DEF Str
  <2>2. p \in Part /\ p.type = "image_url" /\ p.url = "u"
    BY <1>2, <2>1 DEF Part, ImagePart
  <2> QED BY <1>2, <2>2 DEF PTexts, WTexts, PParts
<1> QED BY <1>1, <1>2 DEF SettledPart

\* What ToMessage makes of a rich message.
LEMMA DownIs ==
  ASSUME NEW r \in RichMsg
  PROVE  ToMessage(r) =
           IF FlatMap(ResultsOf, r.blocks) # << >>
             THEN Flat("tool", FlatMap(ResultsOf, r.blocks)[1].name,
                       FlatMap(ResultsOf, r.blocks)[1].callId,
                       FlatMap(ResultsOf, r.blocks)[1].text, << >>, << >>)
             ELSE Flat(r.role, "", "", FlatMap(TextsOf, r.blocks),
                       IF FlatMap(UrlsOf, r.blocks) = << >> THEN << >> ELSE FlatMap(PartsOf, r.blocks),
                       FlatMap(UsesOf, r.blocks))
<1>1. r.blocks \in Seq(Blk)
  BY DEF RichMsg
<1>2. /\ OfKind("tool_result", r.blocks) = FlatMap(ResultsOf, r.blocks)
      /\ JoinTexts(OfKind("text", r.blocks)) = FlatMap(TextsOf, r.blocks)
      /\ [k \in DOMAIN OfKind("tool_use", r.blocks) |-> OfKind("tool_use", r.blocks)[k].call]
           = FlatMap(UsesOf, r.blocks)
      /\ BlockParts(r.blocks)
           = IF FlatMap(UrlsOf, r.blocks) = << >> THEN << >> ELSE FlatMap(PartsOf, r.blocks)
  BY <1>1, ViewResults, ViewTexts, ViewUses, ViewParts
<1> QED BY <1>2 DEF ToMessage

\* The parts of a rich message say what its blocks say, and are settled.
LEMMA PartsOfBlocks ==
  ASSUME NEW bs \in Seq(Blk), NEW ps, ps = FlatMap(PartsOf, bs)
  PROVE  /\ ps \in Seq(SettledPart) /\ ps \in Seq(Part)
         /\ FlatMap(PTexts, ps) = FlatMap(TextsOf, bs)
         /\ FlatMap(WTexts, ps) = FlatMap(TextsOf, bs)
         /\ FlatMap(PUrls, ps) = FlatMap(UrlsOf, bs)
<1>1. ASSUME NEW b \in Blk
      PROVE  /\ PartsOf[b] \in Seq(SettledPart)
             /\ TextsOf[b] = FlatMap(PTexts, PartsOf[b])
             /\ TextsOf[b] = FlatMap(WTexts, PartsOf[b])
             /\ UrlsOf[b] = FlatMap(PUrls, PartsOf[b])
  <2>1. CASE b.kind = "text"
    <3>1. PICK p : p = TextPart(b.text)
      OBVIOUS
    <3>2. b.text \in Str
      BY <2>1, BlkFacts
    <3>3. p \in Part /\ p \in SettledPart /\ p.type = "text" /\ p.text = b.text /\ p.url = ""
      BY <3>1, <3>2 DEF TextPart, Part, SettledPart
    <3>4. PartsOf[b] = <<p>> /\ TextsOf[b] = b.text /\ UrlsOf[b] = << >>
      BY <2>1, <3>1 DEF PartsOf, TextsOf, UrlsOf, BlockPart
    <3>5. /\ FlatMap(PTexts, <<p>>) = PTexts[p] /\ FlatMap(WTexts, <<p>>) = WTexts[p]
          /\ FlatMap(PUrls, <<p>>) = PUrls[p]
      <4>1. p \in Part
        BY <3>3
      <4>2. FlatMap(PTexts, <<p>>) = PTexts[p]
        BY <4>1, MakeParts, FlatMapOne
      <4>3. FlatMap(WTexts, <<p>>) = WTexts[p]
        BY <4>1, MakeParts, FlatMapOne
      <4>4. FlatMap(PUrls, <<p>>) = PUrls[p]
        BY <4>1, MakeParts, FlatMapOne
      <4> QED BY <4>2, <4>3, <4>4
    <3>6. PTexts[p] = b.text /\ WTexts[p] = b.text /\ PUrls[p] = << >>
      BY <3>3 DEF PTexts, WTexts, PUrls
    <3>7. <<p>> \in Seq(SettledPart)
      <4>1. p \in SettledPart
        BY <3>3
      <4> QED BY <4>1
    <3> QED BY <3>4, <3>5, <3>6, <3>7
  <2>2. CASE b.kind = "image"
    <3>1. PICK p : p = ImagePart("u")
      OBVIOUS
    <3>2. << >> \in Str /\ b.url = "u"
      <4>1. << >> \in Str
        BY DEF Str
      <4> QED BY <2>2, <4>1, BlkFacts
    <3>3. p \in Part /\ p \in SettledPart /\ p.type = "image_url" /\ p.url = "u"
      BY <3>1, <3>2 DEF ImagePart, Part, SettledPart
    <3>4. PartsOf[b] = <<p>> /\ TextsOf[b] = << >> /\ UrlsOf[b] = <<"u">>
      BY <2>2, <3>1, <3>2 DEF PartsOf, TextsOf, UrlsOf, BlockPart
    <3>5. /\ FlatMap(PTexts, <<p>>) = PTexts[p] /\ FlatMap(WTexts, <<p>>) = WTexts[p]
          /\ FlatMap(PUrls, <<p>>) = PUrls[p]
      <4>1. p \in Part
        BY <3>3
      <4>2. FlatMap(PTexts, <<p>>) = PTexts[p]
        BY <4>1, MakeParts, FlatMapOne
      <4>3. FlatMap(WTexts, <<p>>) = WTexts[p]
        BY <4>1, MakeParts, FlatMapOne
      <4>4. FlatMap(PUrls, <<p>>) = PUrls[p]
        BY <4>1, MakeParts, FlatMapOne
      <4> QED BY <4>2, <4>3, <4>4
    <3>6. PTexts[p] = << >> /\ WTexts[p] = << >> /\ PUrls[p] = <<"u">>
      BY <3>3 DEF PTexts, WTexts, PUrls
    <3>7. <<p>> \in Seq(SettledPart)
      <4>1. p \in SettledPart
        BY <3>3
      <4> QED BY <4>1
    <3> QED BY <3>4, <3>5, <3>6, <3>7
  <2>3. CASE b.kind \notin {"text", "image"}
    <3>1. PartsOf[b] = << >> /\ TextsOf[b] = << >> /\ UrlsOf[b] = << >>
      BY <2>3 DEF PartsOf, TextsOf, UrlsOf
    <3>2. << >> \in Seq(SettledPart)
      OBVIOUS
    <3> QED BY <3>1, <3>2, FlatMapNone
  <2> QED BY <2>1, <2>2, <2>3
<1>2. Makes(PartsOf, Blk, SettledPart)
  BY <1>1 DEF Makes, PartsOf
<1>3. /\ Composes(TextsOf, PTexts, PartsOf, Blk) /\ Composes(TextsOf, WTexts, PartsOf, Blk)
      /\ Composes(UrlsOf, PUrls, PartsOf, Blk)
  BY <1>1 DEF Composes
<1>4. ps \in Seq(SettledPart) /\ ps \in Seq(Part)
  BY <1>2, MakeBlocks, FlatMapType
<1>5. FlatMap(PTexts, ps) = FlatMap(TextsOf, bs)
  BY <1>3, MakeBlocks, MakeParts, FlatMapTwice
<1>6. FlatMap(WTexts, ps) = FlatMap(TextsOf, bs)
  BY <1>3, MakeBlocks, MakeParts, FlatMapTwice
<1>7. FlatMap(PUrls, ps) = FlatMap(UrlsOf, bs)
  BY <1>3, MakeBlocks, MakeParts, FlatMapTwice
<1> QED BY <1>4, <1>5, <1>6, <1>7

\* Down: the flat message says what the rich one said, and is settled.
LEMMA DownSays ==
  ASSUME NEW r \in RichMsg, Well(r)
  PROVE  /\ ToMessage(r) \in FlatMsg /\ Well(ToMessage(r))
         /\ SaysTheSame(r, ToMessage(r))
         /\ Settled(ToMessage(r))
<1> DEFINE bs == r.blocks
           results == FlatMap(ResultsOf, bs)
<1>1. bs \in Seq(Blk) /\ r.role \in Role /\ r.form = "rich"
  BY DEF RichMsg
<1>2. CASE results # << >>
  <2>1. PICK x : x = results[1]
    OBVIOUS
  <2>2. x.name \in {"", "n"} /\ x.callId \in {"", "id"} /\ x.text \in Str
    <3>1. results \in Seq(BlkKind("tool_result"))
      BY <1>1, MakeBlocks, FlatMapType
    <3>2. x \in BlkKind("tool_result")
      BY <1>2, <2>1, <3>1
    <3> QED BY <3>2, BlkFacts DEF BlkKind
  <2>3. PICK m : m = Flat("tool", x.name, x.callId, x.text, << >>, << >>)
    OBVIOUS
  <2>4. ToMessage(r) = m
    BY <1>2, <2>1, <2>3, DownIs
  <2>5. /\ m \in FlatMsg /\ m.role = "tool" /\ m.parts = << >> /\ m.calls = << >>
        /\ m.name = x.name /\ m.callId = x.callId /\ m.content = x.text
    <3>1. << >> \in Seq(Part) /\ << >> \in Seq(ToolCall)
      OBVIOUS
    <3> QED BY <2>2, <2>3, <3>1 DEF Flat, FlatMsg, Role
  <2>6. Result(m) = {<<x.name, x.callId, x.text>>}
    BY <2>5, FlatSays
  <2>7. Result(r) = {<<x.name, x.callId, x.text>>}
    BY <1>2, <2>1, RichSays
  <2> QED BY <2>4, <2>5, <2>6, <2>7 DEF Well, SaysTheSame, Settled
<1>3. CASE results = << >>
  <2>1. PICK ps : ps = IF FlatMap(UrlsOf, bs) = << >> THEN << >> ELSE FlatMap(PartsOf, bs)
    OBVIOUS
  <2>2. /\ FlatMap(PartsOf, bs) \in Seq(SettledPart) /\ FlatMap(PartsOf, bs) \in Seq(Part)
        /\ FlatMap(PTexts, FlatMap(PartsOf, bs)) = FlatMap(TextsOf, bs)
        /\ FlatMap(WTexts, FlatMap(PartsOf, bs)) = FlatMap(TextsOf, bs)
        /\ FlatMap(PUrls, FlatMap(PartsOf, bs)) = FlatMap(UrlsOf, bs)
    BY <1>1, PartsOfBlocks
  <2>3. PICK m : m = Flat(r.role, "", "", FlatMap(TextsOf, bs), ps, FlatMap(UsesOf, bs))
    OBVIOUS
  <2>4. ToMessage(r) = m
    BY <1>3, <2>1, <2>3, DownIs
  <2>5. r.role # "tool"
    BY <1>3, <1>1 DEF Well, FlatMsg
  <2>6. /\ m \in FlatMsg /\ m.role = r.role /\ m.parts = ps /\ m.calls = FlatMap(UsesOf, bs)
        /\ m.name = "" /\ m.callId = "" /\ m.content = FlatMap(TextsOf, bs)
    <3>1. FlatMap(TextsOf, bs) \in Str
      BY <1>1, MakeBlocks, FlatMapType DEF Str
    <3>2. FlatMap(UsesOf, bs) \in Seq(ToolCall)
      BY <1>1, MakeBlocks, FlatMapType
    <3>3. << >> \in Seq(Part)
      OBVIOUS
    <3>4. ps \in Seq(Part)
      BY <2>1, <2>2, <3>3
    <3> QED BY <1>1, <2>3, <3>1, <3>2, <3>4 DEF Flat, FlatMsg
  <2>7. /\ ps = << >> \/ FlatMap(PTexts, ps) = FlatMap(TextsOf, bs)
        /\ ps # << >> => /\ FlatMap(WTexts, ps) = FlatMap(TextsOf, bs)
                         /\ FlatMap(PUrls, ps) # << >>
        /\ FlatMap(PUrls, ps) = FlatMap(UrlsOf, bs)
        /\ ps \in Seq(SettledPart)
    <3>1. << >> \in Seq(SettledPart)
      OBVIOUS
    <3> QED BY <2>1, <2>2, <3>1, FlatMapNone
  <2>8. /\ Result(m) = {} /\ TextOf(m) = FlatMap(TextsOf, bs) /\ ImagesOf(m) = FlatMap(UrlsOf, bs)
        /\ CallsOf(m) = Wired(FlatMap(UsesOf, bs))
    BY <2>5, <2>6, <2>7, FlatSays
  <2>9. /\ Result(r) = {} /\ TextOf(r) = FlatMap(TextsOf, bs) /\ ImagesOf(r) = FlatMap(UrlsOf, bs)
        /\ CallsOf(r) = Wired(FlatMap(UsesOf, bs))
    BY <1>3, RichSays
  <2>10. SaysTheSame(r, m)
    BY <2>8, <2>9 DEF SaysTheSame
  <2>11. Settled(m)
    BY <2>6, <2>7 DEF Settled
  <2>12. Well(m)
    BY <2>5, <2>6 DEF Well
  <2> QED BY <2>4, <2>6, <2>10, <2>11, <2>12
<1> QED BY <1>2, <1>3

\* The parts of a settled message come back from their blocks as they were.
LEMMA SettledParts ==
  ASSUME NEW ps \in Seq(SettledPart)
  PROVE  /\ FlatMap(PTexts, ps) = FlatMap(WTexts, ps)
         /\ FlatMap(PParts, ps) = ps
<1>1. \A k \in DOMAIN ps : ps[k] \in SettledPart
  OBVIOUS
<1>2. FlatMap(PTexts, ps) = FlatMap(WTexts, ps)
  BY <1>1, SettledPartFacts, FlatMapSame
<1> DEFINE id == [p \in SettledPart |-> p]
           one == [p \in SettledPart |-> <<p>>]
<1>3. Makes(one, SettledPart, SettledPart)
  BY DEF Makes
<1>4. Maps(id, SettledPart, SettledPart) /\ MakesOne(one, id, SettledPart)
  BY DEF Maps, MakesOne
<1>5. Mapped(id, ps) = ps
  BY <1>1 DEF Mapped
<1>6. \A k \in DOMAIN ps : PParts[ps[k]] = one[ps[k]]
  BY <1>1, SettledPartFacts
<1> HIDE DEF id, one
<1>7. FlatMap(PParts, ps) = FlatMap(one, ps)
  BY <1>6, FlatMapSame
<1>8. FlatMap(one, ps) = Mapped(id, ps)
  BY <1>3, <1>4, FlatMapOnes
<1> QED BY <1>2, <1>5, <1>7, <1>8

\* Up: the rich message says what the flat one said, and a settled message comes back
\* from it as it was.
LEMMA UpSays ==
  ASSUME NEW m \in FlatMsg, Well(m)
  PROVE  /\ ToSessionMessage(m) \in RichMsg /\ Well(ToSessionMessage(m))
         /\ SaysTheSame(m, ToSessionMessage(m))
         /\ Settled(m) => ToMessage(ToSessionMessage(m)) = m
<1>1. /\ m.form = "flat" /\ m.role \in Role /\ m.name \in {"", "n"} /\ m.callId \in {"", "id"}
      /\ m.content \in Str /\ m.parts \in Seq(Part) /\ m.calls \in Seq(ToolCall)
      /\ m = [form |-> "flat", role |-> m.role, name |-> m.name, callId |-> m.callId,
              content |-> m.content, parts |-> m.parts, calls |-> m.calls]
  BY DEF FlatMsg
<1>2. m.role = "tool" => m.parts = << >> /\ m.calls = << >>
  BY <1>1 DEF Well, RichMsg
<1>3. CASE m.role = "tool"
  <2>1. PICK b : b = ToolResultBlock(m.callId, m.name, m.content, FALSE)
    OBVIOUS
  <2>2. /\ b \in Blk /\ b.kind = "tool_result"
        /\ b.name = m.name /\ b.callId = m.callId /\ b.text = m.content
    BY <1>1, <2>1 DEF ToolResultBlock, Blk
  <2>3. PICK r : r = Rich("tool", <<b>>)
    OBVIOUS
  <2>4. ToSessionMessage(m) = r
    BY <1>3, <2>1, <2>3 DEF ToSessionMessage
  <2>5. r \in RichMsg /\ r.blocks = <<b>> /\ r.role = "tool"
    <3>1. <<b>> \in Seq(Blk)
      BY <2>2
    <3> QED BY <2>3, <3>1 DEF Rich, RichMsg, Role
  <2>6. FlatMap(ResultsOf, r.blocks) = <<b>>
    <3>1. FlatMap(ResultsOf, <<b>>) = ResultsOf[b]
      BY <2>2, MakeBlocks, FlatMapOne
    <3> QED BY <2>2, <2>5, <3>1 DEF ResultsOf
  <2>7. <<b>> # << >> /\ <<b>>[1] = b
    OBVIOUS
  <2>8. Result(r) = {<<m.name, m.callId, m.content>>}
    BY <2>2, <2>5, <2>6, <2>7, RichSays
  <2>9. Result(m) = {<<m.name, m.callId, m.content>>}
    BY <1>3, FlatSays
  <2>10. ToMessage(r) = Flat("tool", m.name, m.callId, m.content, << >>, << >>)
    BY <2>2, <2>5, <2>6, <2>7, DownIs
  <2>11. ToMessage(r) = m
    BY <1>1, <1>2, <1>3, <2>10 DEF Flat
  <2>12. Well(r)
    BY <2>5, <2>6, <2>7 DEF Well
  <2> QED BY <2>4, <2>5, <2>8, <2>9, <2>11, <2>12 DEF SaysTheSame
<1>4. CASE m.role # "tool"
  <2> DEFINE ps == m.parts
             cs == m.calls
  <2>1. PICK ub : ub = [k \in DOMAIN cs |-> ToolUseBlock(cs[k])]
    OBVIOUS
  <2>2. PICK cb : cb = ContentBlocks(m)
    OBVIOUS
  <2>3. PICK bs : bs = cb \o ub
    OBVIOUS
  <2>4. PICK r : r = Rich(m.role, bs)
    OBVIOUS
  <2>5. ToSessionMessage(m) = r
    BY <1>4, <2>1, <2>2, <2>3, <2>4 DEF ToSessionMessage
  <2>6. /\ ub \in Seq(Blk)
        /\ FlatMap(TextsOf, ub) = << >> /\ FlatMap(UrlsOf, ub) = << >>
        /\ FlatMap(ResultsOf, ub) = << >> /\ FlatMap(PartsOf, ub) = << >>
        /\ FlatMap(UsesOf, ub) = cs
    BY <1>1, <2>1, CallBlocks
  <2>7. /\ cb \in Seq(Blk)
        /\ FlatMap(TextsOf, cb) = IF ps = << >> THEN m.content ELSE FlatMap(PTexts, ps)
        /\ FlatMap(UrlsOf, cb) = FlatMap(PUrls, ps)
        /\ ps # << >> => FlatMap(PartsOf, cb) = FlatMap(PParts, ps)
        /\ FlatMap(ResultsOf, cb) = << >> /\ FlatMap(UsesOf, cb) = << >>
    <3>1. CASE ps # << >>
      <4>1. cb = FlattenSeq([k \in DOMAIN m.parts |-> PartBlocks(m.parts[k])])
        BY <2>2, <3>1 DEF ContentBlocks
      <4>2. cb = FlatMap(PBlocks, m.parts)
        BY <1>1, <4>1, PartBlocksMap
      <4>3. /\ cb \in Seq(Blk)
            /\ FlatMap(TextsOf, cb) = FlatMap(PTexts, ps)
            /\ FlatMap(UrlsOf, cb) = FlatMap(PUrls, ps)
            /\ FlatMap(PartsOf, cb) = FlatMap(PParts, ps)
            /\ FlatMap(ResultsOf, cb) = << >> /\ FlatMap(UsesOf, cb) = << >>
        BY <1>1, <4>2, PartsBlocks
      <4> QED BY <3>1, <4>3
    <3>2. CASE ps = << >> /\ m.content # << >>
      <4>1. PICK b : b = TextBlock(m.content)
        OBVIOUS
      <4>2. b \in Blk /\ b.kind = "text" /\ b.text = m.content
        BY <1>1, <4>1 DEF TextBlock, Blk
      <4>3. cb = <<b>>
        BY <2>2, <3>2, <4>1 DEF ContentBlocks
      <4>4. <<b>> \in Seq(Blk)
        BY <4>2
      <4>5. /\ FlatMap(TextsOf, <<b>>) = TextsOf[b] /\ FlatMap(UrlsOf, <<b>>) = UrlsOf[b]
            /\ FlatMap(ResultsOf, <<b>>) = ResultsOf[b] /\ FlatMap(UsesOf, <<b>>) = UsesOf[b]
        BY <4>2, MakeBlocks, FlatMapOne
      <4>6. TextsOf[b] = m.content /\ UrlsOf[b] = << >> /\ ResultsOf[b] = << >> /\ UsesOf[b] = << >>
        BY <4>2 DEF TextsOf, UrlsOf, ResultsOf, UsesOf
      <4> QED BY <3>2, <4>3, <4>4, <4>5, <4>6, FlatMapNone
    <3>3. CASE ps = << >> /\ m.content = << >>
      <4>1. cb = << >>
        BY <2>2, <3>3 DEF ContentBlocks
      <4>2. << >> \in Seq(Blk)
        OBVIOUS
      <4> QED BY <3>3, <4>1, <4>2, FlatMapNone
    <3> QED BY <3>1, <3>2, <3>3
  <2>8. bs \in Seq(Blk)
    BY <2>3, <2>6, <2>7
  <2>9. ASSUME NEW F, NEW A, Makes(F, Blk, A), FlatMap(F, ub) = << >>
        PROVE  FlatMap(F, bs) = FlatMap(F, cb)
    <3>1. FlatMap(F, cb) \in Seq(A)
      BY <2>7, <2>9, FlatMapType
    <3>2. FlatMap(F, cb) \o << >> = FlatMap(F, cb)
      BY <3>1
    <3>3. FlatMap(F, cb \o ub) = FlatMap(F, cb) \o FlatMap(F, ub)
      <4>1. \A c, u \in Seq(Blk) : FlatMap(F, c \o u) = FlatMap(F, c) \o FlatMap(F, u)
        BY <2>9, FlatMapConcat
      <4> QED BY <2>6, <2>7, <4>1
    <3> QED BY <2>3, <2>9, <3>2, <3>3
  <2>10. /\ FlatMap(TextsOf, bs) = FlatMap(TextsOf, cb) /\ FlatMap(UrlsOf, bs) = FlatMap(UrlsOf, cb)
         /\ FlatMap(ResultsOf, bs) = << >> /\ FlatMap(PartsOf, bs) = FlatMap(PartsOf, cb)
    BY <2>6, <2>7, <2>9, MakeBlocks
  <2>11. FlatMap(UsesOf, bs) = cs
    <3>1. FlatMap(UsesOf, cb \o ub) = FlatMap(UsesOf, cb) \o FlatMap(UsesOf, ub)
      <4>1. cb \in Seq(Blk) /\ ub \in Seq(Blk)
        BY <2>6, <2>7
      <4> QED BY <4>1, MakeBlocks, FlatMapConcat
    <3>2. \A s \in Seq(ToolCall) : << >> \o s = s
      OBVIOUS
    <3> QED BY <1>1, <2>3, <2>6, <2>7, <3>1, <3>2
  <2>12. r \in RichMsg /\ r.blocks = bs /\ r.role = m.role /\ Well(r)
    BY <1>1, <1>4, <2>4, <2>8 DEF Rich, RichMsg, Well
  <2>13. /\ Result(r) = {} /\ TextOf(r) = FlatMap(TextsOf, bs) /\ ImagesOf(r) = FlatMap(UrlsOf, bs)
         /\ CallsOf(r) = Wired(cs)
    BY <2>10, <2>11, <2>12, RichSays
  <2>14. /\ Result(m) = {} /\ ImagesOf(m) = FlatMap(PUrls, ps) /\ CallsOf(m) = Wired(cs)
         /\ TextOf(m) = IF ps = << >> THEN m.content ELSE FlatMap(PTexts, ps)
    BY <1>4, FlatSays
  <2>15. SaysTheSame(m, r)
    BY <2>7, <2>10, <2>13, <2>14 DEF SaysTheSame
  <2>16. ASSUME Settled(m) PROVE ToMessage(r) = m
    <3>1. /\ m.name = "" /\ m.callId = "" /\ ps \in Seq(SettledPart)
          /\ ps # << >> => m.content = FlatMap(WTexts, ps) /\ FlatMap(PUrls, ps) # << >>
      BY <1>4, <2>16 DEF Settled
    <3>3. FlatMap(PTexts, ps) = FlatMap(WTexts, ps) /\ FlatMap(PParts, ps) = ps
      BY <3>1, SettledParts
    <3>5. FlatMap(TextsOf, bs) = m.content
      BY <2>7, <2>10, <3>1, <3>3
    <3>6. (IF FlatMap(UrlsOf, bs) = << >> THEN << >> ELSE FlatMap(PartsOf, bs)) = ps
      <4>1. CASE ps = << >>
        BY <2>7, <2>10, <4>1, FlatMapNone
      <4>2. CASE ps # << >>
        BY <2>7, <2>10, <3>1, <3>3, <4>2
      <4> QED BY <4>1, <4>2
    <3>7. ToMessage(r) = Flat(m.role, "", "", m.content, ps, cs)
      BY <2>10, <2>11, <2>12, <3>5, <3>6, DownIs
    <3> QED BY <1>1, <3>1, <3>7 DEF Flat
  <2> QED BY <2>5, <2>12, <2>15, <2>16
<1> QED BY <1>3, <1>4

\* Sent and received again, a flat message says the same and does not change again.
LEMMA WireSays ==
  ASSUME NEW m \in FlatMsg, Well(m)
  PROVE  /\ ThroughWire(m) \in FlatMsg /\ Well(ThroughWire(m))
         /\ SaysTheSame(m, ThroughWire(m))
         /\ Settled(m) => Settled(ThroughWire(m))
         /\ ThroughWire(ThroughWire(m)) = ThroughWire(m)
<1>1. ASSUME NEW x \in FlatMsg
      PROVE  /\ ThroughWire(x) \in FlatMsg
             /\ ThroughWire(x) =
                  [x EXCEPT !.calls = Wired(x.calls),
                            !.content = IF x.parts = << >> THEN x.content ELSE FlatMap(WTexts, x.parts)]
  <2>1. x.parts \in Seq(Part) /\ x.calls \in Seq(ToolCall) /\ x.content \in Str
    BY DEF FlatMsg
  <2>2. JoinTexts(TextParts(x)) = FlatMap(WTexts, x.parts)
    BY <2>1, ViewFlatTexts DEF TextParts
  <2>3. ThroughWire(x) =
          [x EXCEPT !.calls = Wired(x.calls),
                    !.content = IF x.parts = << >> THEN x.content ELSE FlatMap(WTexts, x.parts)]
    BY <2>2 DEF ThroughWire, Wired
  <2>4. FlatMap(WTexts, x.parts) \in Str
    BY <2>1, MakeParts, FlatMapType DEF Str
  <2>5. Wired(x.calls) \in Seq(ToolCall)
    BY <2>1, WiredFacts
  <2> QED BY <2>1, <2>3, <2>4, <2>5 DEF FlatMsg
<1>2. PICK w \in FlatMsg : w = ThroughWire(m)
  BY <1>1
<1>3. /\ w.role = m.role /\ w.name = m.name /\ w.callId = m.callId /\ w.parts = m.parts
      /\ w.calls = Wired(m.calls)
      /\ w.content = IF m.parts = << >> THEN m.content ELSE FlatMap(WTexts, m.parts)
      /\ m.calls \in Seq(ToolCall)
  <2>1. w = [m EXCEPT !.calls = Wired(m.calls),
                      !.content = IF m.parts = << >> THEN m.content ELSE FlatMap(WTexts, m.parts)]
    BY <1>1, <1>2
  <2> QED BY <2>1 DEF FlatMsg
<1>4. m.role = "tool" => m.parts = << >> /\ m.calls = << >>
  BY DEF Well, RichMsg, FlatMsg
<1>5. Well(w)
  <2>1. Wired(<< >>) = << >>
    BY DEF Wired
  <2> QED BY <1>3, <1>4, <2>1 DEF Well
<1>6. SaysTheSame(m, w)
  <2>1. Wired(w.calls) = Wired(m.calls)
    BY <1>3, WiredFacts
  <2>2. /\ Result(w) = Result(m) /\ TextOf(w) = TextOf(m) /\ ImagesOf(w) = ImagesOf(m)
        /\ CallsOf(w) = CallsOf(m)
    BY <1>3, <1>4, <2>1, FlatSays
  <2> QED BY <2>2 DEF SaysTheSame
<1>7. Settled(m) => Settled(w)
  BY <1>3 DEF Settled
<1>8. ThroughWire(w) = w
  <2>1. Wired(w.calls) = w.calls
    BY <1>3, WiredFacts
  <2>2. (IF w.parts = << >> THEN w.content ELSE FlatMap(WTexts, w.parts)) = w.content
    BY <1>3
  <2>3. ThroughWire(w) = [w EXCEPT !.calls = w.calls, !.content = w.content]
    BY <1>1, <2>1, <2>2
  <2> QED BY <2>3 DEF FlatMsg
<1> QED BY <1>2, <1>5, <1>6, <1>7, <1>8

\* Stored and loaded again, a rich message says the same, and becomes the same flat one.
LEMMA StoreSays ==
  ASSUME NEW r \in RichMsg, Well(r)
  PROVE  /\ ThroughDTO(r) \in RichMsg /\ Well(ThroughDTO(r))
         /\ SaysTheSame(r, ThroughDTO(r))
         /\ ToMessage(ThroughDTO(r)) = ToMessage(r)
<1> DEFINE bs == r.blocks
           P == {b \in Blk : b.kind # "new"}
<1>1. bs \in Seq(Blk) /\ r.role \in Role
  BY DEF RichMsg
<1>2. PICK K : K = [b \in Blk |-> IF b.kind # "new" THEN <<b>> ELSE << >>]
  OBVIOUS
<1>3. Those(bs, LAMBDA b : b.kind # "new") = FlatMap(K, bs)
  <2>1. \A k \in DOMAIN bs : bs[k] \in Blk
    BY <1>1
  <2>2. [k \in DOMAIN bs |-> K[bs[k]]]
          = [k \in DOMAIN bs |-> IF bs[k].kind # "new" THEN <<bs[k]>> ELSE << >>]
    BY <1>2, <2>1
  <2> QED BY <2>2 DEF Those, FlatMap
<1>4. Makes(K, Blk, Blk)
  <2>1. << >> \in Seq(Blk) /\ \A b \in Blk : <<b>> \in Seq(Blk)
    OBVIOUS
  <2> QED BY <1>2, <2>1 DEF Makes
<1>5. PICK x : x = FlatMap(K, bs)
  OBVIOUS
<1>6. x \in Seq(Blk)
  BY <1>1, <1>4, <1>5, FlatMapType
<1>7. ASSUME NEW F, NEW A, Makes(F, Blk, A), \A b \in Blk : b.kind = "new" => F[b] = << >>
      PROVE  FlatMap(F, x) = FlatMap(F, bs)
  <2>1. ASSUME NEW b \in Blk PROVE F[b] = FlatMap(F, K[b])
    <3>1. CASE b.kind = "new"
      BY <1>2, <1>7, <3>1, FlatMapNone
    <3>2. CASE b.kind # "new"
      <4>1. FlatMap(F, <<b>>) = F[b]
        BY <1>7, FlatMapOne
      <4> QED BY <1>2, <3>2, <4>1
    <3> QED BY <3>1, <3>2
  <2>2. Composes(F, F, K, Blk)
    BY <2>1 DEF Composes
  <2> QED BY <1>1, <1>4, <1>5, <1>7, <2>2, FlatMapTwice
<1>8. \A b \in Blk : b.kind = "new" =>
        /\ TextsOf[b] = << >> /\ UrlsOf[b] = << >> /\ UsesOf[b] = << >>
        /\ ResultsOf[b] = << >> /\ PartsOf[b] = << >>
  BY DEF TextsOf, UrlsOf, UsesOf, ResultsOf, PartsOf
<1>9. /\ FlatMap(TextsOf, x) = FlatMap(TextsOf, bs) /\ FlatMap(UrlsOf, x) = FlatMap(UrlsOf, bs)
      /\ FlatMap(UsesOf, x) = FlatMap(UsesOf, bs) /\ FlatMap(ResultsOf, x) = FlatMap(ResultsOf, bs)
      /\ FlatMap(PartsOf, x) = FlatMap(PartsOf, bs)
  BY <1>7, <1>8, MakeBlocks
<1>10. PICK d : d = ThroughDTO(r)
  OBVIOUS
<1>11. d = Rich(r.role, x)
  BY <1>3, <1>5, <1>10 DEF ThroughDTO
<1>12. d \in RichMsg /\ d.role = r.role /\ d.blocks = x
  BY <1>1, <1>6, <1>11 DEF Rich, RichMsg
<1>13. Well(d)
  <2>1. r.role = "tool" => FlatMap(ResultsOf, bs) # << >>
    BY DEF Well, FlatMsg, RichMsg
  <2> QED BY <1>9, <1>12, <2>1 DEF Well
<1>14. SaysTheSame(r, d)
  <2>1. /\ Result(d) = Result(r) /\ TextOf(d) = TextOf(r) /\ ImagesOf(d) = ImagesOf(r)
        /\ CallsOf(d) = CallsOf(r)
    BY <1>9, <1>12, RichSays
  <2> QED BY <2>1 DEF SaysTheSame
<1>15. ToMessage(d) = ToMessage(r)
  BY <1>9, <1>12, DownIs
<1> QED BY <1>10, <1>12, <1>13, <1>14, <1>15

----------------------------------------------------------------------------
(* The invariant *)

\* What every step preserves: a message after its first projection is settled and goes
\* over the wire as that projection did; a rich one is projected to such a message.
ConvInv ==
  /\ Well(msg)
  /\ SaysTheSame(origin, msg)
  /\ \A s \in settled :
       /\ msg \in FlatMsg => Settled(msg) /\ ThroughWire(msg) = ThroughWire(s)
       /\ msg \in RichMsg => ThroughWire(ToMessage(msg)) = ThroughWire(s)

\* Flat and rich messages are told apart by their form.
LEMMA FormFacts ==
  ASSUME NEW m, Well(m)
  PROVE  /\ m.form = "flat" => m \in FlatMsg /\ m \notin RichMsg
         /\ m.form = "rich" => m \in RichMsg /\ m \notin FlatMsg
         /\ m \in FlatMsg => m.form = "flat"
         /\ m \in RichMsg => m.form = "rich"
BY DEF Well, FlatMsg, RichMsg

\* Two messages that say the same as a third say the same.
LEMMA SaysTransitive ==
  ASSUME NEW a, NEW b, NEW c, SaysTheSame(a, b), SaysTheSame(b, c)
  PROVE  SaysTheSame(a, c)
BY DEF SaysTheSame

\* Sequences of bounded length are sequences.
LEMMA BoundedSeqs ==
  ASSUME NEW S, NEW T, S \subseteq T, NEW n, NEW q \in SeqsUpTo(S, n)
  PROVE  q \in Seq(T)
<1>1. PICK k \in 0 .. n : q \in [1 .. k -> S]
  BY DEF SeqsUpTo
<1>2. \A i \in 1 .. k : q[i] \in T
  BY <1>1
<1>3. k \in Nat /\ q = [i \in 1 .. k |-> q[i]]
  BY <1>1
<1> QED BY <1>2, <1>3

\* The texts, parts and blocks that a message is written with.
LEMMA WrittenWith ==
  /\ \A t \in Texts : t \in Str
  /\ ContentPart \subseteq Part
  /\ Block \subseteq Blk
<1>1. ASSUME NEW t \in Texts PROVE t \in Str
  <2>1. << >> \in Seq(Segment) /\ \A x \in Segment : <<x>> \in Seq(Segment)
    OBVIOUS
  <2>2. t = << >> \/ \E x \in Segment : t = <<x>>
    BY DEF Texts
  <2> QED BY <2>1, <2>2 DEF Str
<1>2. << >> \in Str
  BY DEF Str
<1>3. ASSUME NEW p \in ContentPart PROVE p \in Part
  <2>1. CASE \E t \in Texts : p = TextPart(t)
    <3>1. PICK t \in Texts : p = TextPart(t)
      BY <2>1
    <3> QED BY <1>1, <3>1 DEF TextPart, Part
  <2>2. CASE p \in {[ImagePart("u") EXCEPT !.detail = "low"], ImagePart("u"), ImagePart("")}
    <3>1. \A u \in {"", "u"} : ImagePart(u) \in Part /\ [ImagePart(u) EXCEPT !.detail = "low"] \in Part
      BY <1>2 DEF ImagePart, Part
    <3> QED BY <2>2, <3>1
  <2>3. CASE \E t \in Texts : p = [TextPart(t) EXCEPT !.type = "other"]
    <3>1. PICK t \in Texts : p = [TextPart(t) EXCEPT !.type = "other"]
      BY <2>3
    <3> QED BY <1>1, <3>1 DEF TextPart, Part
  <2>4. \/ \E t \in Texts : p = TextPart(t)
        \/ p \in {[ImagePart("u") EXCEPT !.detail = "low"], ImagePart("u"), ImagePart("")}
        \/ \E t \in Texts : p = [TextPart(t) EXCEPT !.type = "other"]
    BY Zenon DEF ContentPart
  <2> QED BY <2>1, <2>2, <2>3, <2>4
<1>4. ASSUME NEW b \in Block PROVE b \in Blk
  <2>1. CASE b \in {TextBlock(t) : t \in Texts}
    <3>1. PICK t \in Texts : b = TextBlock(t)
      BY <2>1
    <3> QED BY <1>1, <3>1 DEF TextBlock, Blk
  <2>2. CASE b \in {ImageBlock("u"), NewBlock}
    <3>1. b \in [kind : {"image"}, url : {"u"}] \/ b \in [kind : {"new"}]
      BY <2>2 DEF ImageBlock, NewBlock
    <3> QED BY <3>1 DEF Blk
  <2>3. CASE b \in {ToolUseBlock(c) : c \in ToolCall}
    <3>1. b \in [kind : {"tool_use"}, call : ToolCall]
      BY <2>3 DEF ToolUseBlock
    <3> QED BY <3>1 DEF Blk
  <2>4. CASE b \in [kind : {"tool_result"}, callId : {"id"}, name : {"", "n"}, text : Texts,
                  isError : BOOLEAN]
    BY <1>1, <2>4 DEF Blk
  <2>5. \/ b \in {TextBlock(t) : t \in Texts}
        \/ b \in {ImageBlock("u"), NewBlock}
        \/ b \in {ToolUseBlock(c) : c \in ToolCall}
        \/ b \in [kind : {"tool_result"}, callId : {"id"}, name : {"", "n"}, text : Texts,
                  isError : BOOLEAN]
    BY DEF Block
  <2> QED BY <2>1, <2>2, <2>3, <2>4, <2>5
<1> QED BY <1>1, <1>3, <1>4

\* A message says what it says, and none has been projected.
LEMMA InitConv ==
  ASSUME Init
  PROVE  ConvInv
<1>1. msg = origin /\ origin \in Message \cup SessionMessage /\ settled = {}
  BY DEF Init
<1>2. << >> \in Str /\ << >> \in Seq(Part) /\ << >> \in Seq(ToolCall)
  BY DEF Str
<1>3. ASSUME origin \in Message PROVE Well(origin)
  <2>1. CASE origin \in [form : {"flat"}, role : {"user", "assistant"}, name : {"", "n"}, callId : {""},
                         content : Texts, parts : {<< >>}, calls : SeqsUpTo(ToolCall, 2)]
    <3>1. origin.calls \in Seq(ToolCall) /\ origin.content \in Str
      BY <2>1, BoundedSeqs, WrittenWith
    <3> QED BY <1>2, <2>1, <3>1 DEF Well, FlatMsg, Role
  <2>2. CASE origin \in [form : {"flat"}, role : {"user"}, name : {""}, callId : {""}, content : {<< >>},
                         parts : SeqsUpTo(ContentPart, MaxParts), calls : SeqsUpTo(ToolCall, 1)]
    <3>1. origin.calls \in Seq(ToolCall) /\ origin.parts \in Seq(Part)
      <4>1. origin.calls \in SeqsUpTo(ToolCall, 1) /\ origin.parts \in SeqsUpTo(ContentPart, MaxParts)
        BY <2>2
      <4>2. ToolCall \subseteq ToolCall /\ ContentPart \subseteq Part
        BY WrittenWith
      <4> QED BY <4>1, <4>2, BoundedSeqs
    <3> QED BY <1>2, <2>2, <3>1 DEF Well, FlatMsg, Role
  <2>3. CASE origin \in [form : {"flat"}, role : {"tool"}, name : {"", "n"}, callId : {"", "id"},
                         content : Texts, parts : {<< >>}, calls : {<< >>}]
    <3>1. origin.content \in Str
      BY <2>3, WrittenWith
    <3> QED BY <1>2, <2>3, <3>1 DEF Well, FlatMsg, Role
  <2> QED BY <1>3, <2>1, <2>2, <2>3 DEF Message
<1>4. ASSUME origin \in SessionMessage PROVE Well(origin)
  <2>1. origin \in [form : {"rich"}, role : {"user", "assistant"}, blocks : SeqsUpTo(Block, MaxParts)]
    BY <1>4 DEF SessionMessage
  <2>2. origin.blocks \in Seq(Blk)
    <3>1. origin.blocks \in SeqsUpTo(Block, MaxParts)
      BY <2>1
    <3> QED BY <3>1, WrittenWith, BoundedSeqs
  <2> QED BY <2>1, <2>2 DEF Well, RichMsg, Role
<1>5. SaysTheSame(origin, origin)
  BY DEF SaysTheSame
<1> QED BY <1>1, <1>3, <1>4, <1>5 DEF ConvInv

\* Each conversion, by what it does to a message.
LEMMA StepConv ==
  ASSUME ConvInv, Next
  PROVE  ConvInv'
<1>1. Well(msg) /\ SaysTheSame(origin, msg)
  BY DEF ConvInv
<1>2. CASE Up
  <2>1. msg.form = "flat" /\ msg' = ToSessionMessage(msg) /\ origin' = origin /\ settled' = settled
    BY <1>2 DEF Up, Convert
  <2>2. PICK m : m = msg
    OBVIOUS
  <2>3. PICK r : r = ToSessionMessage(m)
    OBVIOUS
  <2>4. m \in FlatMsg /\ m \notin RichMsg
    BY <1>1, <2>1, <2>2, FormFacts
  <2>5. r \in RichMsg /\ Well(r) /\ SaysTheSame(m, r) /\ (Settled(m) => ToMessage(r) = m)
    BY <1>1, <2>2, <2>3, <2>4, UpSays
  <2>6. SaysTheSame(origin, r)
    BY <1>1, <2>2, <2>5, SaysTransitive
  <2>7. r \notin FlatMsg
    BY <2>5, FormFacts
  <2>8. \A s \in settled : ThroughWire(ToMessage(r)) = ThroughWire(s)
    BY <2>2, <2>4, <2>5 DEF ConvInv
  <2>9. msg' = r
    BY <2>1, <2>2, <2>3
  <2> QED BY <2>1, <2>5, <2>6, <2>7, <2>8, <2>9 DEF ConvInv
<1>3. CASE Send
  <2>1. msg.form = "flat" /\ msg' = ThroughWire(msg) /\ origin' = origin /\ settled' = settled
    BY <1>3 DEF Send, Convert
  <2>2. PICK m : m = msg
    OBVIOUS
  <2>3. PICK w : w = ThroughWire(m)
    OBVIOUS
  <2>4. m \in FlatMsg /\ m \notin RichMsg
    BY <1>1, <2>1, <2>2, FormFacts
  <2>5. /\ w \in FlatMsg /\ Well(w) /\ SaysTheSame(m, w) /\ (Settled(m) => Settled(w))
        /\ ThroughWire(w) = w
    BY <1>1, <2>2, <2>3, <2>4, WireSays
  <2>6. SaysTheSame(origin, w)
    BY <1>1, <2>2, <2>5, SaysTransitive
  <2>7. w \notin RichMsg
    BY <2>5, FormFacts
  <2>8. \A s \in settled : Settled(w) /\ ThroughWire(w) = ThroughWire(s)
    BY <2>2, <2>3, <2>4, <2>5 DEF ConvInv
  <2>9. msg' = w
    BY <2>1, <2>2, <2>3
  <2> QED BY <2>1, <2>5, <2>6, <2>7, <2>8, <2>9 DEF ConvInv
<1>4. CASE Store
  <2>1. msg.form = "rich" /\ msg' = ThroughDTO(msg) /\ origin' = origin /\ settled' = settled
    BY <1>4 DEF Store, Convert
  <2>2. PICK r : r = msg
    OBVIOUS
  <2>3. PICK d : d = ThroughDTO(r)
    OBVIOUS
  <2>4. r \in RichMsg /\ r \notin FlatMsg
    BY <1>1, <2>1, <2>2, FormFacts
  <2>5. d \in RichMsg /\ Well(d) /\ SaysTheSame(r, d) /\ ToMessage(d) = ToMessage(r)
    BY <1>1, <2>2, <2>3, <2>4, StoreSays
  <2>6. SaysTheSame(origin, d)
    BY <1>1, <2>2, <2>5, SaysTransitive
  <2>7. d \notin FlatMsg
    BY <2>5, FormFacts
  <2>8. \A s \in settled : ThroughWire(ToMessage(d)) = ThroughWire(s)
    BY <2>2, <2>4, <2>5 DEF ConvInv
  <2>9. msg' = d
    BY <2>1, <2>2, <2>3
  <2> QED BY <2>1, <2>5, <2>6, <2>7, <2>8, <2>9 DEF ConvInv
<1>5. CASE Down
  <2>1. /\ msg.form = "rich" /\ msg' = ToMessage(msg) /\ origin' = origin
        /\ settled' = IF settled = {} THEN {ToMessage(msg)} ELSE settled
    BY <1>5 DEF Down, Convert
  <2>2. PICK r : r = msg
    OBVIOUS
  <2>3. PICK m : m = ToMessage(r)
    OBVIOUS
  <2>4. r \in RichMsg /\ r \notin FlatMsg
    BY <1>1, <2>1, <2>2, FormFacts
  <2>5. m \in FlatMsg /\ Well(m) /\ SaysTheSame(r, m) /\ Settled(m)
    BY <1>1, <2>2, <2>3, <2>4, DownSays
  <2>6. SaysTheSame(origin, m)
    BY <1>1, <2>2, <2>5, SaysTransitive
  <2>7. m \notin RichMsg
    BY <2>5, FormFacts
  <2>8. \A s \in settled : ThroughWire(m) = ThroughWire(s)
    BY <2>2, <2>3, <2>4 DEF ConvInv
  <2>9. \A s \in settled' : ThroughWire(m) = ThroughWire(s)
    BY <2>1, <2>2, <2>3, <2>8
  <2>10. msg' = m
    BY <2>1, <2>2, <2>3
  <2> QED BY <2>1, <2>5, <2>6, <2>7, <2>9, <2>10 DEF ConvInv
<1> QED BY <1>2, <1>3, <1>4, <1>5 DEF Next

\* The invariant of every conversation.
LEMMA ConvAlways == Spec => []ConvInv
<1>1. Init => ConvInv
  BY InitConv
<1>2. ConvInv /\ UNCHANGED vars => ConvInv'
  BY DEF ConvInv, vars
<1>3. ConvInv /\ [Next]_vars => ConvInv'
  BY <1>2, StepConv
<1> QED BY <1>1, <1>3, PTL DEF Spec

\* A message goes on saying what it said, through any number of projections, stores,
\* syncs and requests (ToSessionMessage, ToMessage and the JSON of both).
THEOREM SaysTheorem == Spec => []SaysTheSameEver
<1>1. ConvInv => SaysTheSameEver
  BY DEF ConvInv, SaysTheSameEver
<1> QED BY <1>1, ConvAlways, PTL

\* Whatever is lost is lost on the first projection (ToMessage): its result never
\* changes any more, but for an empty tool input that becomes none on the wire.
THEOREM ChangesTheorem == Spec => []ChangesOnce
<1>1. ConvInv => ChangesOnce
  <2> SUFFICES ASSUME ConvInv, msg.form = "flat", NEW s \in settled
               PROVE  ThroughWire(msg) = ThroughWire(s)
    BY DEF ChangesOnce
  <2>1. msg \in FlatMsg
    BY FormFacts DEF ConvInv
  <2> QED BY <2>1 DEF ConvInv
<1> QED BY <1>1, ConvAlways, PTL
=============================================================================
