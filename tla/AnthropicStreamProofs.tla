------------------------ MODULE AnthropicStreamProofs ------------------------
(***************************************************************************)
(* Theorems about the Anthropic adapter: of completions with any number of *)
(* blocks of any kind, any reasons, and any accident.                      *)
(***************************************************************************)
EXTENDS AnthropicStream, StreamedCompletionProofs, Foundations

(* What the events before the finish reason make ends no consumer.         *)
LEMMA EventsTame ==
  /\ \A t : Tame(MessageStartItems(t))
  /\ \A index, kind, id, name : Tame(BlockStartItems(index, kind, id, name))
  /\ \A p : Tame(TextDeltaItems(p)) /\ Tame(ThinkingDeltaItems(p))
  /\ \A s : Tame(SignatureDeltaItems(s))
  /\ \A index, p : Tame(InputDeltaItems(index, p))
<1>1. ASSUME NEW t
      PROVE  Tame(MessageStartItems(t))
  BY Single DEF MessageStartItems, UsageItem, Usage, ContentKind
<1>2. ASSUME NEW index, NEW kind, NEW id, NEW name
      PROVE  Tame(BlockStartItems(index, kind, id, name))
  BY IfTame DEF BlockStartItems, ToolCall, ContentKind
<1>3. ASSUME NEW p
      PROVE  Tame(TextDeltaItems(p)) /\ Tame(ThinkingDeltaItems(p))
  BY Single DEF TextDeltaItems, ThinkingDeltaItems, Text, Thought, ContentKind
<1>4. ASSUME NEW s
      PROVE  Tame(SignatureDeltaItems(s))
  BY Single DEF SignatureDeltaItems, ThinkingSignature, ContentKind
<1>5. ASSUME NEW index, NEW p
      PROVE  Tame(InputDeltaItems(index, p))
  BY Single DEF InputDeltaItems, ToolCall, ContentKind
<1> QED
  BY <1>1, <1>2, <1>3, <1>4, <1>5

(* The usage, and behind it a Stop if the adapter knows the reason.        *)
LEMMA MessageDeltaEnd ==
  ASSUME NEW reason, NEW input, NEW output
  PROVE  LET items == MessageDeltaItems(reason, input, output)
         IN  /\ reason \notin KnownReason => Tame(items)
             /\ reason \in KnownReason => EndsIn(items, "Stop")
<1> DEFINE usage == <<UsageItem(input, output)>>
           last == If(StopReason(reason) # None, Stop(StopReason(reason)))
<1>1. Tame(usage)
  BY Single DEF UsageItem, Usage, ContentKind
<1>2. MessageDeltaItems(reason, input, output) = usage \o last
  BY DEF MessageDeltaItems
<1> HIDE DEF usage
<1>3. CASE reason \notin KnownReason
  <2>1. last = <<>>
    BY <1>3 DEF If, StopReason
  <2> QED
    BY <1>1, <1>2, <1>3, <2>1, Nothing, TameThenTame
<1>4. CASE reason \in KnownReason
  <2>1. last = <<Stop(reason)>>
    BY <1>4, ReasonAssumption DEF If, StopReason
  <2>2. EndsIn(last, "Stop")
    BY <2>1, Single DEF Stop
  <2> QED
    BY <1>1, <1>2, <1>4, <2>2, TameThenEnd
<1> QED
  BY <1>3, <1>4

-----------------------------------------------------------------------------

(* The inductive invariant.  A reason that is not known is none, so that   *)
(* there may be none behind the message_delta either.                      *)
AnthropicInv ==
  /\ StreamInv
  /\ stage \in {"new", "blocks"} => said.finish = None
  /\ fault # "null"

(* An event before the finish reason, or behind it.                        *)
LEMMA TameKeeps ==
  ASSUME AnthropicInv, NEW items, Write(items), Tame(items), UNCHANGED <<fault, early>>,
         DOMAIN said' = SaidField, said'.finish = said.finish,
         stage' = stage \/ said.finish = None \/ stage' = "done"
  PROVE  AnthropicInv'
<1>1. IsItems(items)
  BY DEF Tame
<1>2. StreamInv'
  BY <1>1, WriteKeeps DEF AnthropicInv
<1> QED
  BY <1>2 DEF AnthropicInv

(* The invariant holds of every completion.                                *)
THEOREM Invariance == Spec => []AnthropicInv
<1>1. Init => AnthropicInv
  <2>1. DOMAIN NothingSaid = SaidField /\ NothingSaid.finish = None
    BY DEF NothingSaid, SaidField
  <2>2. Reading.tag # "err" /\ Reading # Collected
    BY DEF Reading, Collected
  <2> QED
    BY <2>1, <2>2, Nothing
    DEF Init, CompletionInit, StreamInit, AnthropicInv, StreamInv, Broken, Answering
<1>2. AnthropicInv /\ [Next]_vars => AnthropicInv'
  <2> SUFFICES ASSUME AnthropicInv, [Next]_vars
               PROVE  AnthropicInv'
    OBVIOUS
  <2>0. StreamInv /\ DOMAIN said = SaidField
    BY DEF AnthropicInv, StreamInv
  <2>1. CASE Consumption
    <3>1. Client /\ UNCHANGED <<said, stage, fault>>
      BY <2>1 DEF Consumption, Client, serverVars
    <3> QED
      BY <2>0, <3>1, ClientKeeps DEF AnthropicInv
  <2>2. CASE Accident
    <3>1. UNCHANGED <<said, stage>> /\ fault' # "null"
      BY <2>2 DEF Accident, Connection, Cut, EndOfBody, Heartbeat, ErrorEvent, MalformedEvent, Fails,
                  AnthropicInv
    <3>2. StreamInv'
      BY <2>0, <2>2, AccidentKeeps, ConnectionKeeps DEF Accident
    <3> QED
      BY <3>1, <3>2 DEF AnthropicInv
  <2>3. ASSUME NEW t \in Tokens, MessageStart(t)
        PROVE  AnthropicInv'
    <3>1. DOMAIN said' = SaidField /\ said'.finish = said.finish
      BY <2>0, <2>3 DEF MessageStart, SaidField
    <3>2. said.finish = None
      BY <2>3 DEF MessageStart, AnthropicInv
    <3> QED
      BY <2>3, <3>1, <3>2, EventsTame, TameKeeps DEF MessageStart
  <2>4. ASSUME NEW kind \in {"text", "thinking", "other"}, StartBlock(kind)
        PROVE  AnthropicInv'
    BY <2>0, <2>4, EventsTame, TameKeeps DEF StartBlock, Streams
  <2>5. ASSUME NEW id \in CallId, NEW name \in ToolName, StartToolUse(id, name)
        PROVE  AnthropicInv'
    <3>1. DOMAIN said' = SaidField /\ said'.finish = said.finish
      BY <2>0, <2>5 DEF StartToolUse, SaidField
    <3> QED
      BY <2>5, <3>1, EventsTame, TameKeeps DEF StartToolUse, Streams
  <2>6. ASSUME NEW p \in Piece, SayText(p)
        PROVE  AnthropicInv'
    <3>1. DOMAIN said' = SaidField /\ said'.finish = said.finish
      BY <2>0, <2>6 DEF SayText, SaidField
    <3> QED
      BY <2>6, <3>1, EventsTame, TameKeeps DEF SayText, Streams
  <2>7. ASSUME NEW p \in Piece, SayThought(p)
        PROVE  AnthropicInv'
    <3>1. DOMAIN said' = SaidField /\ said'.finish = said.finish
      BY <2>0, <2>7 DEF SayThought, SaidField
    <3> QED
      BY <2>7, <3>1, EventsTame, TameKeeps DEF SayThought, Streams
  <2>8. ASSUME NEW p \in Piece, SayArgs(p)
        PROVE  AnthropicInv'
    <3>1. DOMAIN said' = SaidField /\ said'.finish = said.finish
      BY <2>0, <2>8 DEF SayArgs, SaidField
    <3> QED
      BY <2>8, <3>1, EventsTame, TameKeeps DEF SayArgs, Streams
  <2>9. ASSUME NEW p \in Piece, SayOtherArgs(p)
        PROVE  AnthropicInv'
    BY <2>0, <2>9, EventsTame, TameKeeps DEF SayOtherArgs, Streams
  <2>10. ASSUME NEW s \in Signature, Sign(s)
         PROVE  AnthropicInv'
    BY <2>0, <2>10, EventsTame, TameKeeps DEF Sign, Streams
  <2>11. CASE StopBlock
    BY <2>0, <2>11, Nothing, TameKeeps DEF StopBlock
  <2>12. ASSUME NEW reason \in Reason \cup OddReason, NEW input \in Opt(Tokens), NEW output \in Tokens,
                MessageDelta(reason, input, output)
         PROVE  AnthropicInv'
    <3> DEFINE items == MessageDeltaItems(reason, input, output)
    <3>1. /\ Write(items)
          /\ UNCHANGED <<fault, early>>
          /\ stage = "blocks" /\ stage' = "finished"
      BY <2>12 DEF MessageDelta
    <3>2. /\ DOMAIN said' = SaidField
          /\ said'.finish = IF reason \in KnownReason THEN reason ELSE None
      BY <2>0, <2>12 DEF MessageDelta, SaidField
    <3>3. said.finish = None /\ fault # "null"
      BY <3>1 DEF AnthropicInv
    <3>4. /\ reason \notin KnownReason => Tame(items)
          /\ reason \in KnownReason => EndsIn(items, "Stop") /\ reason # None
      BY MessageDeltaEnd, ReasonAssumption
    <3> HIDE DEF items
    <3>5. IsItems(items)
      BY <3>4 DEF Tame, EndsIn
    <3>6. StreamInv'
      BY <2>0, <3>1, <3>2, <3>3, <3>4, <3>5, WriteKeeps
    <3> QED
      BY <3>1, <3>3, <3>6 DEF AnthropicInv
  <2>13. CASE MessageStop
    BY <2>0, <2>13, Nothing, TameKeeps DEF MessageStop, MessageStopItems
  <2>14. CASE UNCHANGED vars
    BY <2>14 DEF vars, streamVars, serverVars, AnthropicInv, StreamInv, Broken, Answering
  <2> QED
    BY <2>1, <2>2, <2>3, <2>4, <2>5, <2>6, <2>7, <2>8, <2>9, <2>10, <2>11, <2>12, <2>13, <2>14
    DEF Next, Server
<1> QED
  BY <1>1, <1>2, PTL DEF Spec

(* As for the OpenAI adapter: an error event, a malformed event and a      *)
(* broken connection before the finish reason never end in an answer,      *)
(* whatever blocks were open (parse_sse_stream, collect_response).         *)
THEOREM NoAnswerOfBrokenStream == Spec => []BrokenStreamIsNoAnswer
<1>1. AnthropicInv => BrokenStreamIsNoAnswer
  BY StreamInvSuffices DEF AnthropicInv
<1> QED
  BY <1>1, Invariance, PTL

(* Nothing that happens behind a known finish reason makes an error of the *)
(* answer: the Stop is taken from the message_delta.                       *)
THEOREM AnswerOutlivesLateFault == Spec => []LateFaultIsHarmless
<1>1. AnthropicInv => LateFaultIsHarmless
  BY StreamInvSuffices DEF AnthropicInv
<1> QED
  BY <1>1, Invariance, PTL

-----------------------------------------------------------------------------
(* The blocks *)

BlockType ==
  [type : {"text", "thinking", "other", "tool_use"}, text : Seq(Piece),
   signature : Opt(Signature), id : Opt(CallId), name : Opt(ToolName)]

(* A list of blocks, and one more of them begun; the last one with another *)
(* piece; the last one signed.                                             *)
Blocks(c) ==
  c \in Seq(BlockType) /\ Len(c) \in Nat /\ DOMAIN c = 1 .. Len(c)
    /\ \A n \in 1 .. Len(c) : c[n] \in BlockType
SameBut(c, d, last) == \A n \in 1 .. last - 1 : d[n] = c[n]
OneBegun(c, d, kind, id, name) ==
  /\ Blocks(c) /\ Blocks(d) /\ Len(d) = Len(c) + 1
  /\ SameBut(c, d, Len(d))
  /\ d[Len(d)].type = kind /\ d[Len(d)].text = <<>> /\ d[Len(d)].signature = None
  /\ d[Len(d)].id = id /\ d[Len(d)].name = name
OneSaid(c, d, kind, p) ==
  /\ Blocks(c) /\ Blocks(d) /\ Len(d) = Len(c) /\ Len(c) > 0
  /\ SameBut(c, d, Len(c))
  /\ c[Len(c)].type = kind
  /\ d[Len(c)].type = kind /\ d[Len(c)].text = Append(c[Len(c)].text, p)
  /\ d[Len(c)].signature = c[Len(c)].signature
  /\ d[Len(c)].id = c[Len(c)].id /\ d[Len(c)].name = c[Len(c)].name
OneSigned(c, d, s) ==
  /\ Blocks(c) /\ Blocks(d) /\ Len(d) = Len(c) /\ Len(c) > 0
  /\ SameBut(c, d, Len(c))
  /\ c[Len(c)].type = "thinking"
  /\ d[Len(c)].type = "thinking" /\ d[Len(c)].text = c[Len(c)].text
  /\ d[Len(c)].signature = s /\ s # None
  /\ d[Len(c)].id = c[Len(c)].id /\ d[Len(c)].name = c[Len(c)].name

(* Appending a new block begins one.                                       *)
LEMMA Begins ==
  ASSUME NEW c \in Seq(BlockType), NEW kind \in {"text", "thinking", "other", "tool_use"},
         NEW id \in Opt(CallId), NEW name \in Opt(ToolName), NEW d, d = Append(c, Block(kind, id, name))
  PROVE  OneBegun(c, d, kind, id, name)
<1> DEFINE b == Block(kind, id, name)
<1>0. <<>> \in Seq(Piece)
  OBVIOUS
<1>1. /\ b \in BlockType
      /\ b.type = kind /\ b.text = <<>> /\ b.signature = None /\ b.id = id /\ b.name = name
  BY <1>0 DEF Block, BlockType, Opt
<1> HIDE DEF b
<1>2. d = Append(c, b)
  BY DEF b
<1> HIDE DEF BlockType
<1>3. /\ d \in Seq(BlockType) /\ Len(c) \in Nat /\ Len(d) = Len(c) + 1 /\ d[Len(d)] = b
      /\ \A n \in 1 .. Len(c) : d[n] = c[n]
  BY <1>1, <1>2
<1>4. Blocks(c) /\ Blocks(d)
  BY <1>3 DEF Blocks
<1>5. \A n \in 1 .. Len(d) - 1 : d[n] = c[n]
  BY <1>3
<1> QED
  BY <1>1, <1>3, <1>4, <1>5 DEF OneBegun, SameBut

WithPiece(c, p) == [c EXCEPT ![Len(c)].text = Append(@, p)]

(* Appending a piece to the last block says it there.                      *)
LEMMA Says ==
  ASSUME NEW c \in Seq(BlockType), c # <<>>, NEW p \in Piece, NEW d, d = WithPiece(c, p)
  PROVE  OneSaid(c, d, c[Len(c)].type, p)
<1> DEFINE len == Len(c)
           old == c[len]
           new == [old EXCEPT !.text = Append(@, p)]
<1>1. len = Len(c) /\ c \in Seq(BlockType) /\ len \in Nat /\ len > 0 /\ len \in 1 .. len /\ old \in BlockType /\ DOMAIN c = 1 .. len
  OBVIOUS
<1>2. old.text \in Seq(Piece)
  BY <1>1 DEF BlockType
<1>3. Append(old.text, p) \in Seq(Piece)
  BY <1>2
<1>4. d = [c EXCEPT ![len] = new]
  BY DEF WithPiece
<1> HIDE DEF old, len
<1>5. /\ new \in BlockType /\ new.type = old.type /\ new.text = Append(old.text, p)
      /\ new.signature = old.signature /\ new.id = old.id /\ new.name = old.name
  BY <1>1, <1>3 DEF BlockType
<1> HIDE DEF new, BlockType
<1>6. /\ d \in Seq(BlockType) /\ Len(d) = len /\ d[len] = new
      /\ \A n \in 1 .. len - 1 : d[n] = c[n]
  BY <1>1, <1>4, <1>5, LastReplaced
<1>7. \A l \in Seq(BlockType) : Blocks(l)
  BY DEF Blocks
<1> QED
  BY <1>1, <1>5, <1>6, <1>7 DEF OneSaid, SameBut, len, old

(* Setting the signature of the last block signs it.                       *)
LEMMA Signs ==
  ASSUME NEW c \in Seq(BlockType), c # <<>>, c[Len(c)].type = "thinking", NEW s \in Signature, NEW d,
         d = [c EXCEPT ![Len(c)].signature = s]
  PROVE  OneSigned(c, d, s)
<1> DEFINE len == Len(c)
           old == c[len]
           new == [old EXCEPT !.signature = s]
<1>1. len \in Nat /\ len > 0 /\ len \in 1 .. len /\ old \in BlockType /\ DOMAIN c = 1 .. len
      /\ old.type = "thinking"
  OBVIOUS
<1>2. s \in Opt(Signature) /\ s # None
  BY NoneAssumption DEF Opt
<1>4. d = [c EXCEPT ![len] = new]
  OBVIOUS
<1> HIDE DEF old, len
<1>5. /\ new \in BlockType /\ new.type = old.type /\ new.text = old.text
      /\ new.signature = s /\ new.id = old.id /\ new.name = old.name
  BY <1>1, <1>2 DEF BlockType
<1> HIDE DEF new, BlockType
<1>6. /\ d \in Seq(BlockType) /\ Len(d) = len /\ d[len] = new
      /\ \A n \in 1 .. len - 1 : d[n] = c[n]
  BY <1>1, <1>4, <1>5, LastReplaced DEF len
<1>7. \A l \in Seq(BlockType) : Blocks(l)
  BY DEF Blocks
<1> QED
  BY <1>1, <1>2, <1>5, <1>6, <1>7 DEF OneSigned, SameBut, len, old

(* What the blocks say together.                                           *)
LEMMA TextBegun ==
  ASSUME NEW type, NEW c, NEW d, NEW kind, NEW id, NEW name, OneBegun(c, d, kind, id, name)
  PROVE  TextIn(type, d) = TextIn(type, c)
<1> DEFINE text(b) == IF b.type = type THEN b.text ELSE <<>>
           s == [n \in DOMAIN c |-> text(c[n])]
           t == [n \in DOMAIN d |-> text(d[n])]
           len == Len(c)
<1>0. <<>> \in Seq(Piece)
  OBVIOUS
<1>1. \A b \in BlockType : text(b) \in Seq(Piece)
  BY <1>0 DEF BlockType
<1>2. TextIn(type, c) = FlattenSeq(s) /\ TextIn(type, d) = FlattenSeq(t)
  BY DEF TextIn
<1>3. text(d[Len(d)]) = <<>>
  BY DEF OneBegun
<1> HIDE DEF text
<1>4. /\ len \in Nat /\ DOMAIN c = 1 .. len /\ DOMAIN d = 1 .. len + 1
      /\ \A n \in 1 .. len : c[n] \in BlockType
      /\ \A n \in 1 .. len + 1 : d[n] \in BlockType
      /\ \A n \in 1 .. len : d[n] = c[n]
      /\ text(d[len + 1]) = <<>>
  BY <1>3 DEF OneBegun, Blocks, SameBut
<1> HIDE DEF len
<1>5. /\ s \in [1 .. len -> Seq(Piece)] /\ t \in [1 .. len + 1 -> Seq(Piece)]
      /\ \A n \in 1 .. len : t[n] = s[n]
      /\ t[len + 1] = <<>>
  BY <1>1, <1>4
<1> HIDE DEF s, t
<1>6. s \in Seq(Seq(Piece)) /\ Len(s) = len /\ t \in Seq(Seq(Piece)) /\ Len(t) = len + 1
  BY <1>4, <1>5
<1>7. FlattenSeq(t) = FlattenSeq(s) \o t[len + 1] /\ FlattenSeq(s) \in Seq(Piece)
  BY <1>4, <1>5, <1>6, FlattenOneMore, FlattenType
<1>8. FlattenSeq(s) \o <<>> = FlattenSeq(s)
  BY <1>7
<1> QED
  BY <1>2, <1>5, <1>7, <1>8

(* A piece said is one more of its kind, and of no other.                  *)
LEMMA TextSaid ==
  ASSUME NEW c, NEW d, NEW kind, NEW p \in Piece, OneSaid(c, d, kind, p)
  PROVE  /\ TextIn(kind, d) = Append(TextIn(kind, c), p)
         /\ \A type : type # kind => TextIn(type, d) = TextIn(type, c)
<1> DEFINE len == Len(c)
<1>0. /\ len \in Nat /\ len > 0 /\ DOMAIN c = 1 .. len /\ DOMAIN d = 1 .. len
      /\ \A n \in 1 .. len : c[n] \in BlockType /\ d[n] \in BlockType
      /\ \A n \in 1 .. len - 1 : d[n] = c[n]
      /\ c[len].type = kind /\ d[len].type = kind /\ d[len].text = Append(c[len].text, p)
  BY DEF OneSaid, Blocks, SameBut
<1> HIDE DEF len
<1>1. ASSUME NEW type, type # kind
      PROVE  TextIn(type, d) = TextIn(type, c)
  <2>1. \A n \in 1 .. len : (IF d[n].type = type THEN d[n].text ELSE <<>>)
                              = IF c[n].type = type THEN c[n].text ELSE <<>>
    BY <1>0, <1>1
  <2> QED
    BY <1>0, <2>1 DEF TextIn
<1>2. TextIn(kind, d) = Append(TextIn(kind, c), p)
  <2> DEFINE text(b) == IF b.type = kind THEN b.text ELSE <<>>
             s == [n \in DOMAIN c |-> text(c[n])]
             t == [n \in DOMAIN d |-> text(d[n])]
  <2>0. <<>> \in Seq(Piece) /\ <<p>> \in Seq(Piece)
    OBVIOUS
  <2>1. \A b \in BlockType : text(b) \in Seq(Piece)
    BY <2>0 DEF BlockType
  <2>2. TextIn(kind, c) = FlattenSeq(s) /\ TextIn(kind, d) = FlattenSeq(t)
    BY DEF TextIn
  <2>3. /\ text(c[len]) \in Seq(Piece)
        /\ text(d[len]) = Append(text(c[len]), p)
    BY <1>0, <2>1
  <2>4. text(d[len]) = text(c[len]) \o <<p>>
    BY <2>3, SMTT(40)
  <2> HIDE DEF text
  <2>5. /\ s \in [1 .. len -> Seq(Piece)] /\ t \in [1 .. len -> Seq(Piece)]
        /\ \A n \in 1 .. len - 1 : t[n] = s[n]
        /\ t[len] = s[len] \o <<p>>
    BY <1>0, <2>1, <2>4, SMTT(40)
  <2> HIDE DEF s, t
  <2>6. s \in Seq(Seq(Piece)) /\ Len(s) = len /\ t \in Seq(Seq(Piece)) /\ Len(t) = len
    BY <1>0, <2>5, SeqOfPositions
  <2>7. s # <<>>
    BY <1>0, <2>6
  <2> DEFINE x == <<p>>
  <2>8. x \in Seq(Piece) /\ t[len] = s[len] \o x
    BY <2>0, <2>5
  <2> HIDE DEF x
  <2>9. Longer(s, t, x)
    BY <2>5, <2>6, <2>7, <2>8 DEF Longer
  <2>10. FlattenSeq(t) = FlattenSeq(s) \o x
    BY <2>6, <2>8, <2>9, FlattenLonger
  <2>11. FlattenSeq(s) \in Seq(Piece)
    BY <2>6, FlattenType
  <2>12. FlattenSeq(s) \o <<p>> = Append(FlattenSeq(s), p)
    BY <2>11
  <2> QED
    BY <2>2, <2>10, <2>12 DEF x
<1> QED
  BY <1>1, <1>2

(* A signature is no text.                                                 *)
LEMMA TextSigned ==
  ASSUME NEW type, NEW c, NEW d, NEW s, OneSigned(c, d, s)
  PROVE  TextIn(type, d) = TextIn(type, c)
<1> DEFINE len == Len(c)
<1>0. /\ len \in Nat /\ len > 0 /\ DOMAIN c = 1 .. len /\ DOMAIN d = 1 .. len
      /\ \A n \in 1 .. len - 1 : d[n] = c[n]
      /\ d[len].type = c[len].type /\ d[len].text = c[len].text
  BY DEF OneSigned, Blocks, SameBut
<1>1. \A n \in 1 .. len : (IF d[n].type = type THEN d[n].text ELSE <<>>)
                            = IF c[n].type = type THEN c[n].text ELSE <<>>
  BY <1>0
<1> QED
  BY <1>0, <1>1 DEF TextIn

(* The signature of the blocks.                                            *)
LEMMA SignatureStays ==
  ASSUME NEW c, NEW d, Blocks(c), Signed(d) = Signed(c),
         \A n \in Signed(c) : d[n].signature = c[n].signature
  PROVE  SignatureIn(d) = SignatureIn(c)
<1>1. CASE Signed(c) = {}
  BY <1>1 DEF SignatureIn
<1>2. CASE Signed(c) # {}
  <2>1. Len(c) \in Nat /\ Signed(c) \subseteq 1 .. Len(c)
    BY DEF Signed, Blocks
  <2>2. PICK k \in Signed(c) : \A m \in Signed(c) : m <= k
    BY <1>2, <2>1, GreatestExists
  <2>3. Max(Signed(c)) = k
    BY <2>1, <2>2, MaxIs
  <2> QED
    BY <2>2, <2>3 DEF SignatureIn
<1> QED
  BY <1>1, <1>2

(* The last signature is the one that signs.                               *)
LEMMA SignatureLast ==
  ASSUME NEW c, NEW d, NEW s, OneSigned(c, d, s)
  PROVE  SignatureIn(d) = s /\ Signed(d) = Signed(c) \cup {Len(c)}
<1>1. /\ Len(c) \in Nat /\ Len(c) > 0 /\ DOMAIN c = 1 .. Len(c) /\ DOMAIN d = 1 .. Len(c)
      /\ \A n \in 1 .. Len(c) - 1 : d[n] = c[n]
      /\ d[Len(c)].signature = s /\ s # None /\ d[Len(c)].type = "thinking"
  BY DEF OneSigned, Blocks, SameBut
<1>2. Signed(d) = Signed(c) \cup {Len(c)}
  BY <1>1 DEF Signed
<1>3. \A n \in Signed(d) : n \in Nat /\ n <= Len(c)
  BY <1>1 DEF Signed
<1>4. Max(Signed(d)) = Len(c)
  BY <1>2, <1>3, MaxIs
<1> QED
  BY <1>1, <1>2, <1>4 DEF SignatureIn

(* A new block has no signature yet.                                       *)
LEMMA SignedBegun ==
  ASSUME NEW c, NEW d, NEW kind, NEW id, NEW name, OneBegun(c, d, kind, id, name)
  PROVE  Signed(d) = Signed(c) /\ SignatureIn(d) = SignatureIn(c)
<1>1. /\ Len(c) \in Nat /\ DOMAIN c = 1 .. Len(c) /\ DOMAIN d = 1 .. Len(c) + 1
      /\ \A n \in 1 .. Len(c) : d[n] = c[n]
      /\ d[Len(c) + 1].signature = None
      /\ Blocks(c)
  BY DEF OneBegun, Blocks, SameBut
<1>2. Signed(d) = Signed(c) /\ \A n \in Signed(c) : d[n].signature = c[n].signature
  BY <1>1 DEF Signed
<1> QED
  BY <1>1, <1>2, SignatureStays

(* A piece signs nothing.                                                  *)
LEMMA SignedSaid ==
  ASSUME NEW c, NEW d, NEW kind, NEW p, OneSaid(c, d, kind, p)
  PROVE  Signed(d) = Signed(c) /\ SignatureIn(d) = SignatureIn(c)
<1>1. /\ Len(c) \in Nat /\ DOMAIN c = 1 .. Len(c) /\ DOMAIN d = 1 .. Len(c) /\ Len(c) > 0
      /\ \A n \in 1 .. Len(c) - 1 : d[n] = c[n]
      /\ d[Len(c)].signature = c[Len(c)].signature /\ d[Len(c)].type = c[Len(c)].type
      /\ Blocks(c)
  BY DEF OneSaid, Blocks, SameBut
<1>2. Signed(d) = Signed(c) /\ \A n \in Signed(c) : d[n].signature = c[n].signature
  BY <1>1 DEF Signed
<1> QED
  BY <1>1, <1>2, SignatureStays

-----------------------------------------------------------------------------
(* The blocks and what was said. *)

(* The tool calls are the tool_use blocks, each at its place.              *)
CallsAreBlocks(c, s) ==
  /\ \A i \in DOMAIN s.calls : /\ i \in Nat /\ i + 1 \in 1 .. Len(c)
                               /\ c[i + 1].type = "tool_use"
                               /\ c[i + 1].id = s.calls[i].id
                               /\ c[i + 1].name = s.calls[i].name
                               /\ c[i + 1].text = s.calls[i].args
  /\ \A n \in 1 .. Len(c) : c[n].type = "tool_use" => n - 1 \in DOMAIN s.calls

(* What the thinking blocks that are signed say is all that was thought.   *)
OneThought(b, c, s) ==
  /\ b = "thinking" => c[Len(c)].text = s.reasoning
  /\ \A n \in Signed(c) : c[n].text = s.reasoning /\ s.reasoning # <<>> /\ b # "thinking"

BlocksSay(b, c, s) ==
  /\ c \in Seq(BlockType)
  /\ b \in {"none", "text", "thinking", "signed", "tool_use", "other"}
  /\ b # "none" => c # <<>> /\ c[Len(c)].type = IF b = "signed" THEN "thinking" ELSE b
  /\ s.text = TextIn("text", c) /\ s.reasoning = TextIn("thinking", c)
  /\ CallsAreBlocks(c, s)
  /\ ~ Interleaved => OneThought(b, c, s)

(* A block is begun that says nothing of its own.                          *)
LEMMA BlocksBegin ==
  ASSUME NEW b, NEW c, NEW s, BlocksSay("none", c, s),
         b \in {"text", "thinking", "other"}, NEW d, d = Append(c, Block(b, None, None)),
         ~ Interleaved /\ b = "thinking" => s.reasoning = <<>>
  PROVE  BlocksSay(b, d, s) /\ SignatureIn(d) = SignatureIn(c)
<1>0. c \in Seq(BlockType) /\ None \in Opt(CallId) /\ None \in Opt(ToolName)
  BY DEF BlocksSay, Opt
<1>1. OneBegun(c, d, b, None, None)
  BY <1>0, Begins
<1>2. /\ Len(c) \in Nat /\ Len(d) = Len(c) + 1 /\ d \in Seq(BlockType)
      /\ \A n \in 1 .. Len(c) : d[n] = c[n]
      /\ d[Len(d)].type = b /\ d[Len(d)].text = <<>>
      /\ Signed(c) \subseteq 1 .. Len(c)
  BY <1>1 DEF OneBegun, Blocks, SameBut, Signed
<1>3. \A type : TextIn(type, d) = TextIn(type, c)
  BY <1>1, TextBegun
<1>4. Signed(d) = Signed(c) /\ SignatureIn(d) = SignatureIn(c)
  BY <1>1, SignedBegun
<1>5. CallsAreBlocks(d, s)
  <2>1. ASSUME NEW i \in DOMAIN s.calls
        PROVE  i \in Nat /\ i + 1 \in 1 .. Len(d) /\ i + 1 \in 1 .. Len(c) /\ d[i + 1] = c[i + 1]
    BY <1>2 DEF BlocksSay, CallsAreBlocks
  <2>2. ASSUME NEW n \in 1 .. Len(d), d[n].type = "tool_use"
        PROVE  n - 1 \in DOMAIN s.calls
    <3>1. n \in 1 .. Len(c)
      BY <1>2, <2>2
    <3> QED
      BY <1>2, <2>2, <3>1 DEF BlocksSay, CallsAreBlocks
  <2> QED
    BY <2>1, <2>2 DEF BlocksSay, CallsAreBlocks
<1>6. ~ Interleaved => OneThought(b, d, s)
  BY <1>2, <1>4 DEF BlocksSay, OneThought
<1>7. d # <<>>
  BY <1>2
<1> QED
  BY <1>2, <1>3, <1>4, <1>5, <1>6, <1>7 DEF BlocksSay

(* A tool call is begun.                                                   *)
CallBegins(c, s, id, name, d, t) ==
  /\ d = Append(c, Block("tool_use", id, name))
  /\ t.calls = Begun(s.calls, Len(c), id, name)
  /\ t.text = s.text /\ t.reasoning = s.reasoning

(* A block of a call has begun in the content and in what was said.        *)
LEMMA BlocksCall ==
  ASSUME NEW c, NEW s, BlocksSay("none", c, s), NEW id \in CallId, NEW name \in ToolName,
         NEW d, NEW t, CallBegins(c, s, id, name, d, t)
  PROVE  /\ BlocksSay("tool_use", d, t) /\ SignatureIn(d) = SignatureIn(c)
         /\ Len(c) \notin DOMAIN s.calls
<1>0. c \in Seq(BlockType) /\ id \in Opt(CallId) /\ name \in Opt(ToolName)
  BY DEF BlocksSay, Opt
<1>1. OneBegun(c, d, "tool_use", id, name)
  BY <1>0, Begins DEF CallBegins
<1>2. /\ Len(c) \in Nat /\ Len(d) = Len(c) + 1 /\ d \in Seq(BlockType)
      /\ \A n \in 1 .. Len(c) : d[n] = c[n]
      /\ d[Len(d)].type = "tool_use" /\ d[Len(d)].text = <<>>
      /\ d[Len(d)].id = id /\ d[Len(d)].name = name
      /\ Signed(c) \subseteq 1 .. Len(c)
  BY <1>1 DEF OneBegun, Blocks, SameBut, Signed
<1>3. \A type : TextIn(type, d) = TextIn(type, c)
  BY <1>1, TextBegun
<1>4. Signed(d) = Signed(c) /\ SignatureIn(d) = SignatureIn(c)
  BY <1>1, SignedBegun
<1> DEFINE len == Len(c)
<1>c. /\ DOMAIN t.calls = DOMAIN s.calls \cup {len}
      /\ t.calls[len] = [id |-> id, name |-> name, args |-> <<>>]
      /\ \A i \in DOMAIN s.calls : i # len => t.calls[i] = s.calls[i]
  BY DEF Begun, CallBegins
<1>n. len \notin DOMAIN s.calls
  BY <1>2 DEF BlocksSay, CallsAreBlocks
<1>5. CallsAreBlocks(d, t)
  <2>1. ASSUME NEW i \in DOMAIN s.calls
        PROVE  /\ i \in Nat /\ i + 1 \in 1 .. Len(d) /\ i + 1 \in 1 .. Len(c) /\ d[i + 1] = c[i + 1]
               /\ t.calls[i] = s.calls[i]
    BY <1>2, <1>c, <1>n DEF BlocksSay, CallsAreBlocks
  <2>2. ASSUME NEW n \in 1 .. Len(d), d[n].type = "tool_use"
        PROVE  n - 1 \in DOMAIN t.calls
    <3>1. CASE n \in 1 .. Len(c)
      BY <1>2, <1>c, <2>2, <3>1 DEF BlocksSay, CallsAreBlocks
    <3>2. CASE n \notin 1 .. Len(c)
      BY <1>2, <1>c, <3>2
    <3> QED
      BY <3>1, <3>2
  <2>3. /\ len \in Nat /\ len + 1 \in 1 .. Len(d) /\ d[len + 1].type = "tool_use"
        /\ d[len + 1].id = t.calls[len].id /\ d[len + 1].name = t.calls[len].name
        /\ d[len + 1].text = t.calls[len].args
    BY <1>2, <1>c
  <2> HIDE DEF len
  <2>4. ASSUME NEW i \in DOMAIN t.calls
        PROVE  /\ i \in Nat /\ i + 1 \in 1 .. Len(d)
               /\ d[i + 1].type = "tool_use"
               /\ d[i + 1].id = t.calls[i].id
               /\ d[i + 1].name = t.calls[i].name
               /\ d[i + 1].text = t.calls[i].args
    <3>1. CASE i = len
      BY <2>3, <3>1
    <3>2. CASE i \in DOMAIN s.calls
      BY <2>1, <3>2 DEF BlocksSay, CallsAreBlocks
    <3> QED
      BY <1>c, <3>1, <3>2
  <2> QED
    BY <2>2, <2>4 DEF CallsAreBlocks
<1>6. ~ Interleaved => OneThought("tool_use", d, t)
  BY <1>2, <1>4 DEF BlocksSay, OneThought, CallBegins
<1>7. d # <<>>
  BY <1>2
<1> QED
  BY <1>2, <1>3, <1>4, <1>5, <1>6, <1>7, <1>n DEF BlocksSay, CallBegins

(* The open block says more, text or thinking.                             *)
LEMMA BlocksUtter ==
  ASSUME NEW b \in {"text", "thinking"}, NEW c, NEW s, BlocksSay(b, c, s), NEW p \in Piece,
         NEW d, d = WithPiece(c, p), NEW t, t.calls = s.calls,
         b = "text" => t.text = Append(s.text, p) /\ t.reasoning = s.reasoning,
         b = "thinking" => t.text = s.text /\ t.reasoning = Append(s.reasoning, p)
  PROVE  BlocksSay(b, d, t) /\ SignatureIn(d) = SignatureIn(c)
<1>0. c \in Seq(BlockType) /\ c # <<>> /\ c[Len(c)].type = b
  BY DEF BlocksSay
<1>1. OneSaid(c, d, b, p)
  BY <1>0, Says
<1>2. /\ Len(c) \in Nat /\ Len(c) > 0 /\ Len(d) = Len(c) /\ d \in Seq(BlockType)
      /\ \A n \in 1 .. Len(c) - 1 : d[n] = c[n]
      /\ d[Len(c)].type = b /\ d[Len(c)].text = Append(c[Len(c)].text, p)
      /\ Signed(c) \subseteq 1 .. Len(c)
  BY <1>1 DEF OneSaid, Blocks, SameBut, Signed
<1>3. /\ TextIn(b, d) = Append(TextIn(b, c), p)
      /\ \A type : type # b => TextIn(type, d) = TextIn(type, c)
  BY <1>1, TextSaid
<1>4. Signed(d) = Signed(c) /\ SignatureIn(d) = SignatureIn(c)
  BY <1>1, SignedSaid
<1>5. CallsAreBlocks(d, t)
  <2>1. ASSUME NEW i \in DOMAIN s.calls
        PROVE  i \in Nat /\ i + 1 \in 1 .. Len(d) /\ d[i + 1] = c[i + 1]
    <3>1. i \in Nat /\ i + 1 \in 1 .. Len(c) /\ c[i + 1].type = "tool_use"
      BY DEF BlocksSay, CallsAreBlocks
    <3>2. i + 1 # Len(c)
      BY <1>0, <3>1
    <3> QED
      BY <1>2, <3>1, <3>2
  <2>2. ASSUME NEW n \in 1 .. Len(d), d[n].type = "tool_use"
        PROVE  n - 1 \in DOMAIN s.calls
    <3>1. n \in 1 .. Len(c) - 1
      BY <1>2, <2>2
    <3> QED
      BY <1>2, <2>2, <3>1 DEF BlocksSay, CallsAreBlocks
  <2> QED
    BY <2>1, <2>2 DEF BlocksSay, CallsAreBlocks
<1>6. ~ Interleaved => OneThought(b, d, t)
  <2>1. CASE b = "text"
    <3>1. \A n \in Signed(c) : n \in 1 .. Len(c) /\ n # Len(c)
      BY <1>0, <1>2, <2>1 DEF Signed
    <3>2. \A n \in Signed(c) : d[n] = c[n]
      BY <1>2, <3>1
    <3> QED
      BY <1>4, <2>1, <3>2 DEF BlocksSay, OneThought
  <2>2. CASE b = "thinking"
    BY <1>2, <1>4, <2>2 DEF BlocksSay, OneThought
  <2> QED
    BY <2>1, <2>2
<1>7. d # <<>>
  BY <1>2
<1> QED
  BY <1>2, <1>3, <1>4, <1>5, <1>6, <1>7 DEF BlocksSay

(* A piece of text is in a block and in what was said.                     *)
LEMMA BlocksSpeak ==
  ASSUME NEW c, NEW s, BlocksSay("text", c, s), NEW p \in Piece, NEW d, d = WithPiece(c, p),
         NEW t, t.calls = s.calls, t.text = Append(s.text, p), t.reasoning = s.reasoning
  PROVE  BlocksSay("text", d, t) /\ SignatureIn(d) = SignatureIn(c)
BY BlocksUtter

(* So is a piece of thinking.                                              *)
LEMMA BlocksThink ==
  ASSUME NEW c, NEW s, BlocksSay("thinking", c, s), NEW p \in Piece, NEW d, d = WithPiece(c, p),
         NEW t, t.calls = s.calls, t.text = s.text, t.reasoning = Append(s.reasoning, p)
  PROVE  BlocksSay("thinking", d, t) /\ SignatureIn(d) = SignatureIn(c)
BY BlocksUtter

(* The arguments of the open tool call.                                    *)
LEMMA BlocksArgue ==
  ASSUME NEW c, NEW s, BlocksSay("tool_use", c, s), NEW p \in Piece, NEW d, d = WithPiece(c, p),
         NEW t, t.text = s.text, t.reasoning = s.reasoning, DOMAIN t.calls = DOMAIN s.calls,
         \A i \in DOMAIN s.calls :
           /\ t.calls[i].id = s.calls[i].id /\ t.calls[i].name = s.calls[i].name
           /\ t.calls[i].args = IF i = Len(c) - 1 THEN Append(s.calls[i].args, p) ELSE s.calls[i].args
  PROVE  /\ BlocksSay("tool_use", d, t) /\ SignatureIn(d) = SignatureIn(c)
<1>0. c \in Seq(BlockType) /\ c # <<>> /\ c[Len(c)].type = "tool_use"
  BY DEF BlocksSay
<1>1. OneSaid(c, d, "tool_use", p)
  BY <1>0, Says
<1>2. /\ Len(c) \in Nat /\ Len(c) > 0 /\ Len(d) = Len(c) /\ d \in Seq(BlockType)
      /\ \A n \in 1 .. Len(c) - 1 : d[n] = c[n]
      /\ d[Len(c)].type = "tool_use" /\ d[Len(c)].text = Append(c[Len(c)].text, p)
      /\ d[Len(c)].id = c[Len(c)].id /\ d[Len(c)].name = c[Len(c)].name
      /\ Signed(c) \subseteq 1 .. Len(c)
  BY <1>1 DEF OneSaid, Blocks, SameBut, Signed
<1>3. \A type : type # "tool_use" => TextIn(type, d) = TextIn(type, c)
  BY <1>1, TextSaid
<1>4. Signed(d) = Signed(c) /\ SignatureIn(d) = SignatureIn(c)
  BY <1>1, SignedSaid
<1>5. CallsAreBlocks(d, t)
  <2>1. ASSUME NEW i \in DOMAIN s.calls
        PROVE  /\ i \in Nat /\ i + 1 \in 1 .. Len(d)
               /\ d[i + 1].type = "tool_use"
               /\ d[i + 1].id = t.calls[i].id
               /\ d[i + 1].name = t.calls[i].name
               /\ d[i + 1].text = t.calls[i].args
    <3>1. /\ i \in Nat /\ i + 1 \in 1 .. Len(c) /\ c[i + 1].type = "tool_use"
          /\ c[i + 1].id = s.calls[i].id /\ c[i + 1].name = s.calls[i].name
          /\ c[i + 1].text = s.calls[i].args
      BY DEF BlocksSay, CallsAreBlocks
    <3>2. CASE i + 1 = Len(c)
      <4>1. i = Len(c) - 1 /\ i + 1 \in 1 .. Len(d)
        BY <1>2, <3>1, <3>2
      <4>2. t.calls[i].id = c[i + 1].id /\ t.calls[i].name = c[i + 1].name
        BY <3>1
      <4>3. t.calls[i].args = Append(c[i + 1].text, p)
        BY <3>1, <4>1
      <4>4. /\ d[i + 1].type = "tool_use" /\ d[i + 1].text = Append(c[i + 1].text, p)
            /\ d[i + 1].id = c[i + 1].id /\ d[i + 1].name = c[i + 1].name
        BY <1>2, <3>2
      <4> QED
        BY <3>1, <4>1, <4>2, <4>3, <4>4
    <3>3. CASE i + 1 # Len(c)
      <4>1. i # Len(c) - 1 /\ i + 1 \in 1 .. Len(c) - 1
        BY <1>2, <3>1, <3>3
      <4> QED
        BY <1>2, <3>1, <4>1
    <3> QED
      BY <3>2, <3>3
  <2>2. ASSUME NEW n \in 1 .. Len(d), d[n].type = "tool_use"
        PROVE  n - 1 \in DOMAIN s.calls
    <3>1. n \in 1 .. Len(c) /\ c[n].type = "tool_use"
      BY <1>0, <1>2, <2>2
    <3> QED
      BY <3>1 DEF BlocksSay, CallsAreBlocks
  <2> QED
    BY <2>1, <2>2 DEF CallsAreBlocks
<1>6. ~ Interleaved => OneThought("tool_use", d, t)
  <2>1. \A n \in Signed(c) : n \in 1 .. Len(c) /\ n # Len(c)
    BY <1>0, <1>2 DEF Signed
  <2>2. \A n \in Signed(c) : d[n] = c[n]
    BY <1>2, <2>1
  <2> QED
    BY <1>4, <2>2 DEF BlocksSay, OneThought
<1>7. d # <<>>
  BY <1>2
<1> QED
  BY <1>2, <1>3, <1>4, <1>5, <1>6, <1>7 DEF BlocksSay

(* The thinking block is signed.                                           *)
LEMMA BlocksSign ==
  ASSUME NEW c, NEW s, BlocksSay("thinking", c, s), c[Len(c)].text # <<>>, NEW sig \in Signature,
         NEW d, d = [c EXCEPT ![Len(c)].signature = sig]
  PROVE  BlocksSay("signed", d, s) /\ SignatureIn(d) = sig
<1>0. c \in Seq(BlockType) /\ c # <<>> /\ c[Len(c)].type = "thinking"
  BY DEF BlocksSay
<1>1. OneSigned(c, d, sig)
  BY <1>0, Signs
<1>2. /\ Len(c) \in Nat /\ Len(c) > 0 /\ Len(d) = Len(c) /\ d \in Seq(BlockType)
      /\ \A n \in 1 .. Len(c) - 1 : d[n] = c[n]
      /\ d[Len(c)].type = "thinking" /\ d[Len(c)].text = c[Len(c)].text
      /\ Signed(c) \subseteq 1 .. Len(c)
  BY <1>1 DEF OneSigned, Blocks, SameBut, Signed
<1>3. \A type : TextIn(type, d) = TextIn(type, c)
  BY <1>1, TextSigned
<1>4. Signed(d) = Signed(c) \cup {Len(c)} /\ SignatureIn(d) = sig
  BY <1>1, SignatureLast
<1>5. CallsAreBlocks(d, s)
  <2>1. ASSUME NEW i \in DOMAIN s.calls
        PROVE  i \in Nat /\ i + 1 \in 1 .. Len(d) /\ d[i + 1] = c[i + 1]
    <3>1. i \in Nat /\ i + 1 \in 1 .. Len(c) /\ c[i + 1].type = "tool_use"
      BY DEF BlocksSay, CallsAreBlocks
    <3>2. i + 1 # Len(c)
      BY <1>0, <3>1
    <3> QED
      BY <1>2, <3>1, <3>2
  <2>2. ASSUME NEW n \in 1 .. Len(d), d[n].type = "tool_use"
        PROVE  n - 1 \in DOMAIN s.calls
    <3>1. n \in 1 .. Len(c) - 1
      BY <1>2, <2>2
    <3> QED
      BY <1>2, <2>2, <3>1 DEF BlocksSay, CallsAreBlocks
  <2> QED
    BY <2>1, <2>2 DEF BlocksSay, CallsAreBlocks
<1>6. ~ Interleaved => OneThought("signed", d, s)
  BY <1>2, <1>4 DEF BlocksSay, OneThought
<1>7. d # <<>>
  BY <1>2
<1> QED
  BY <1>2, <1>3, <1>4, <1>5, <1>6, <1>7 DEF BlocksSay

-----------------------------------------------------------------------------
(* The flow of items, with the signature of the last block that has one.   *)

AnthropicFlow ==
  /\ Flow(Whole, acc, queue, outcome, closed, said, SignatureIn(content))
  /\ BlocksSay(block, content, said)
  /\ said.finish \in KnownReason \cup {None}

(* An event before the finish reason, or with it, and one behind it.       *)
LEMMA EventFlows ==
  ASSUME AnthropicFlow, NEW items, Write(items), IsItems(items), said.finish = None,
         SaidTyped(said'), Grows(said, said'),
         Carries(Whole, items, said, SignatureIn(content), said', SignatureIn(content')),
         BlocksSay(block', content', said'), said'.finish \in KnownReason \cup {None}
  PROVE  AnthropicFlow'
<1>1. /\ ~ closed /\ queue' = queue \o items
      /\ UNCHANGED <<consumer, closed, acc, outcome>>
  BY DEF Write
<1>2. closed = FALSE \/ Flow(Whole, acc, queue, outcome, FALSE, said, SignatureIn(content))
  BY <1>1 DEF AnthropicFlow, Flow
<1>3. Flow(Whole, acc, queue, outcome, FALSE, said, SignatureIn(content))
  BY <1>1, <1>2 DEF AnthropicFlow, Flow
<1>4. Flow(Whole, acc, queue \o items, outcome, FALSE, said', SignatureIn(content'))
  BY <1>3, FlowOn
<1>5. Flow(Whole', acc', queue', outcome', closed', said', SignatureIn(content'))
  BY <1>1, <1>4 DEF Flow, Whole
<1> QED
  BY <1>5 DEF AnthropicFlow

(* Every step keeps the flow.                                              *)
LEMMA StepFlows ==
  ASSUME AnthropicInv, AnthropicFlow, [Next]_vars
  PROVE  AnthropicFlow'
<1> DEFINE sig == SignatureIn(content)
<1>0. /\ Flow(Whole, acc, queue, outcome, closed, said, sig)
      /\ BlocksSay(block, content, said)
      /\ said.finish \in KnownReason \cup {None}
      /\ SaidTyped(said) /\ DOMAIN said = SaidField
      /\ stage \in {"new", "blocks"} => said.finish = None
      /\ None \notin KnownReason
  BY ReasonAssumption DEF AnthropicFlow, AnthropicInv, Flow, SaidTyped
<1>1. CASE UNCHANGED vars
  BY <1>1 DEF vars, streamVars, serverVars, blockVars, AnthropicFlow, Whole
<1>2. CASE Consumption
  <2>1. Client /\ UNCHANGED <<said, block, content, consumer>>
    BY <1>2 DEF Consumption, Client, serverVars, blockVars, Consume, TakeErr, TakeContent, TakeErrorChunk,
                TakeStop, TakeEnd, Polls
  <2>2. Flow(Whole, acc', queue', outcome', closed, said, sig) /\ closed' = closed
    <3>1. Flow(Whole, acc, queue, outcome, closed, said, sig) /\ Client
      BY <1>0, <2>1
    <3> HIDE DEF sig
    <3>2. Flow(Whole, acc', queue', outcome', closed, said, sig)
      BY <3>1, ClientFlows
    <3>3. closed' = closed
      BY <2>1 DEF Client, Consume, TakeErr, TakeContent, TakeErrorChunk, TakeStop, TakeEnd, Polls
    <3> QED
      BY <3>2, <3>3
  <2> QED
    BY <1>0, <2>1, <2>2 DEF AnthropicFlow, Whole
<1>3. CASE Accident
  <2>1. UNCHANGED <<said, block, content>>
    BY <1>3 DEF Accident, blockVars, Connection, Cut, EndOfBody, Heartbeat, ErrorEvent, MalformedEvent, Fails
  <2>2. UNCHANGED <<consumer, acc, outcome>>
    BY <1>3 DEF Accident, Connection, Cut, EndOfBody, Heartbeat, ErrorEvent, MalformedEvent, Write
  <2>3. ASSUME NEW e, queue' = queue \o <<Err(e)>>, ~ closed
        PROVE  Flow(Whole, acc, queue', outcome, closed', said, sig)
    <3>1. Flow(Whole, acc, queue, outcome, FALSE, said, sig)
      BY <1>0, <2>3 DEF Flow
    <3>2. Flow(Whole, acc, queue', outcome, FALSE, said, sig)
      BY <2>3, <3>1, FlowFails
    <3> QED
      BY <3>2 DEF Flow
  <2>4. ASSUME queue' = queue \o <<>>, ~ closed
        PROVE  Flow(Whole, acc, queue', outcome, closed', said, sig)
    <3>0. IsItems(queue)
      BY <1>0 DEF Flow
    <3>1. queue' = queue
      BY <2>4, <3>0, Concatenation DEF IsItems
    <3> QED
      BY <1>0, <2>4, <3>1 DEF Flow
  <2>5. Flow(Whole, acc, queue', outcome, closed', said, sig)
    <3>1. CASE Heartbeat
      BY <2>4, <3>1 DEF Heartbeat, Write
    <3>2. CASE ErrorEvent
      BY <2>3, <3>2 DEF ErrorEvent, Write
    <3>3. CASE MalformedEvent
      BY <2>3, <3>3 DEF MalformedEvent, Write
    <3>4. CASE Cut
      <4>0. IsItems(queue)
        BY <1>0 DEF Flow
      <4>1. queue' = Append(queue, Err(StreamError)) /\ ~ closed
        BY <3>4 DEF Cut
      <4>2. queue' = queue \o <<Err(StreamError)>>
        BY <4>0, <4>1 DEF IsItems
      <4> QED
        BY <2>3, <4>1, <4>2
    <3>5. CASE EndOfBody
      <4>1. closed' = TRUE /\ queue' = queue
        BY <3>5 DEF EndOfBody
      <4> QED
        BY <1>0, <4>1, FlowCloses
    <3> QED
      BY <1>3, <3>1, <3>2, <3>3, <3>4, <3>5 DEF Accident, Connection
  <2> QED
    BY <1>0, <2>1, <2>2, <2>5 DEF AnthropicFlow, Whole
<1>4. ASSUME NEW t \in Tokens, MessageStart(t)
      PROVE  AnthropicFlow'
  <2> DEFINE u == [NoUsage EXCEPT !["prompt"] = t, !["completion"] = t]
  <2>1. /\ stage = "new" /\ Write(<<Usage(u)>>) /\ UNCHANGED <<block, content>>
        /\ said' = [said EXCEPT !.usage = [@ EXCEPT !["prompt"] = t, !["completion"] = t]]
    BY <1>4 DEF MessageStart, MessageStartItems, UsageItem, blockVars
  <2>2. said.finish = None
    BY <1>0, <2>1
  <2>3. t \in Nat /\ t # None
    BY TokensAssumption, NoneAssumption
  <2>4. u \in [UsageField -> Opt(Nat)]
    BY <2>3 DEF NoUsage, Opt
  <2>5. said.usage \in [UsageField -> Opt(Nat)]
    BY <1>0 DEF SaidTyped
  <2>6. MergeUsage(said.usage, u) = [said.usage EXCEPT !["prompt"] = t, !["completion"] = t]
    BY <2>3, <2>5 DEF MergeUsage, NoUsage, UsageField
  <2> HIDE DEF u
  <2>7. /\ DOMAIN said' = SaidField /\ said'.text = said.text /\ said'.reasoning = said.reasoning
        /\ said'.calls = said.calls /\ said'.usage = MergeUsage(said.usage, u) /\ said'.finish = None
    BY <1>0, <2>1, <2>2, <2>6 DEF SaidField
  <2>8. SaidTyped(said') /\ Grows(said, said') /\ Carries(Whole, <<Usage(u)>>, said, sig, said', sig)
    BY <1>0, <2>2, <2>4, <2>7, UsageCarried
  <2>9. BlocksSay(block', content', said')
    BY <1>0, <2>1, <2>7 DEF BlocksSay, CallsAreBlocks, OneThought
  <2> QED
    BY <2>1, <2>2, <2>7, <2>8, <2>9, Single, EventFlows
<1>5. ASSUME NEW kind \in {"text", "thinking", "other"}, StartBlock(kind)
      PROVE  AnthropicFlow'
  <2>1. /\ stage = "blocks" /\ block = "none" /\ said' = said /\ block' = kind
        /\ kind = "thinking" => Interleaved \/ said.reasoning = <<>>
        /\ content' = Append(content, Block(kind, None, None))
        /\ Write(<<>>)
    BY <1>5 DEF StartBlock, Streams, BlockStartItems, If
  <2>2. said.finish = None
    BY <1>0, <2>1
  <2>a. /\ BlocksSay("none", content, said)
        /\ content' = Append(content, Block(kind, None, None))
        /\ ~ Interleaved /\ kind = "thinking" => said.reasoning = <<>>
    BY <1>0, <2>1
  <2>3. BlocksSay(kind, content', said) /\ SignatureIn(content') = SignatureIn(content)
    BY <2>a, BlocksBegin
  <2>4. Carries(Whole, <<>>, said, sig, said', sig) /\ Grows(said, said')
    BY <1>0, <2>1, <2>2, CarryNothing DEF Grows
  <2> QED
    BY <1>0, <2>1, <2>2, <2>3, <2>4, Nothing, EventFlows
<1>6. ASSUME NEW id \in CallId, NEW name \in ToolName, StartToolUse(id, name)
      PROVE  AnthropicFlow'
  <2> DEFINE n == Len(content)
  <2>1. /\ stage = "blocks" /\ block = "none" /\ block' = "tool_use" /\ n \in Index
        /\ said' = [said EXCEPT !.calls = Begun(@, n, id, name)]
        /\ content' = Append(content, Block("tool_use", id, name))
        /\ Write(<<ToolCall(n, id, name, <<>>)>>)
    BY <1>6 DEF StartToolUse, Streams, BlockStartItems, If
  <2>2. said.finish = None
    BY <1>0, <2>1
  <2>3. /\ said'.text = said.text /\ said'.reasoning = said.reasoning
        /\ said'.calls = Begun(said.calls, n, id, name)
    BY <1>0, <2>1 DEF SaidField
  <2>a. BlocksSay("none", content, said) /\ CallBegins(content, said, id, name, content', said')
    BY <1>0, <2>1, <2>3 DEF CallBegins
  <2>4. /\ BlocksSay("tool_use", content', said') /\ SignatureIn(content') = SignatureIn(content)
        /\ Len(content) \notin DOMAIN said.calls
    BY <2>a, BlocksCall
  <2>b. said' = [said EXCEPT !.calls = Begun(@, n, id, name)] /\ n \notin DOMAIN said.calls /\ n \in Index
    BY <2>1, <2>4
  <2> HIDE DEF n, sig
  <2>5. /\ SaidTyped(said') /\ Grows(said, said') /\ said'.finish = None
        /\ Carries(Whole, <<ToolCall(n, id, name, <<>>)>>, said, sig, said', sig)
    BY <1>0, <2>2, <2>b, StartCarried
  <2> QED
    BY <2>1, <2>2, <2>4, <2>5, Single, EventFlows DEF n, sig
<1>7. ASSUME NEW p \in Piece, SayText(p)
      PROVE  AnthropicFlow'
  <2>1. /\ stage = "blocks" /\ block = "text" /\ block' = block
        /\ said' = [said EXCEPT !.text = Append(@, p)]
        /\ content' = WithPiece(content, p)
        /\ Write(<<Text(<<p>>)>>)
    BY <1>7 DEF SayText, Streams, BlockSays, TextDeltaItems, WithPiece
  <2>2. said.finish = None
    BY <1>0, <2>1
  <2>3. /\ DOMAIN said' = SaidField /\ said'.text = Append(said.text, p)
        /\ said'.reasoning = said.reasoning /\ said'.calls = said.calls
        /\ said'.usage = said.usage /\ said'.finish = None
    BY <1>0, <2>1, <2>2 DEF SaidField
  <2>a. BlocksSay("text", content, said) /\ content' = WithPiece(content, p)
    BY <1>0, <2>1
  <2>4. BlocksSay("text", content', said') /\ SignatureIn(content') = SignatureIn(content)
    BY <2>3, <2>a, BlocksSpeak
  <2>5. SaidTyped(said') /\ Grows(said, said') /\ Carries(Whole, <<Text(<<p>>)>>, said, sig, said', sig)
    BY <1>0, <2>2, <2>3, TextCarried
  <2> QED
    BY <2>1, <2>2, <2>3, <2>4, <2>5, Single, EventFlows
<1>8. ASSUME NEW p \in Piece, SayThought(p)
      PROVE  AnthropicFlow'
  <2>1. /\ stage = "blocks" /\ block = "thinking" /\ block' = block
        /\ said' = [said EXCEPT !.reasoning = Append(@, p)]
        /\ content' = WithPiece(content, p)
        /\ Write(<<Thought(<<p>>)>>)
    BY <1>8 DEF SayThought, Streams, BlockSays, ThinkingDeltaItems, WithPiece
  <2>2. said.finish = None
    BY <1>0, <2>1
  <2>3. /\ DOMAIN said' = SaidField /\ said'.text = said.text
        /\ said'.reasoning = Append(said.reasoning, p) /\ said'.calls = said.calls
        /\ said'.usage = said.usage /\ said'.finish = None
    BY <1>0, <2>1, <2>2 DEF SaidField
  <2>a. BlocksSay("thinking", content, said) /\ content' = WithPiece(content, p)
    BY <1>0, <2>1
  <2>4. BlocksSay("thinking", content', said') /\ SignatureIn(content') = SignatureIn(content)
    BY <2>3, <2>a, BlocksThink
  <2>5. SaidTyped(said') /\ Grows(said, said') /\ Carries(Whole, <<Thought(<<p>>)>>, said, sig, said', sig)
    BY <1>0, <2>2, <2>3, ThoughtCarried
  <2> QED
    BY <2>1, <2>2, <2>3, <2>4, <2>5, Single, EventFlows
<1>9. ASSUME NEW p \in Piece, SayArgs(p)
      PROVE  AnthropicFlow'
  <2> DEFINE n == Len(content) - 1
  <2>1. /\ stage = "blocks" /\ block = "tool_use" /\ block' = block
        /\ said' = [said EXCEPT !.calls[n].args = Append(@, p)]
        /\ content' = WithPiece(content, p)
        /\ Write(<<ToolCall(n, None, None, <<p>>)>>)
    BY <1>9 DEF SayArgs, Streams, BlockSays, InputDeltaItems, WithPiece, Open
  <2>2. said.finish = None
    BY <1>0, <2>1
  <2>3. n \in DOMAIN said.calls /\ n = Len(content) - 1
    <3>1. content \in Seq(BlockType) /\ content # <<>> /\ content[Len(content)].type = "tool_use"
      BY <1>0, <2>1 DEF BlocksSay
    <3>2. Len(content) \in 1 .. Len(content)
      BY <3>1
    <3> QED
      BY <1>0, <3>1, <3>2 DEF BlocksSay, CallsAreBlocks
  <2> HIDE DEF n
  <2>4. /\ SaidTyped(said') /\ Grows(said, said') /\ said'.finish = None
        /\ Carries(Whole, <<ToolCall(n, None, None, <<p>>)>>, said, sig, said', sig)
    BY <1>0, <2>1, <2>2, <2>3, ArgsCarried
  <2> DEFINE old == said.calls[n]
             new == [old EXCEPT !.args = Append(@, p)]
  <2>5. /\ said'.text = said.text /\ said'.reasoning = said.reasoning
        /\ said'.calls = [said.calls EXCEPT ![n] = new]
    BY <1>0, <2>1 DEF SaidField
  <2>6. \A i \in DOMAIN said.calls : said.calls[i] \in CallType
    BY <1>0 DEF SaidTyped
  <2>e. /\ new.id = old.id /\ new.name = old.name /\ new.args = Append(old.args, p)
    BY <2>3, <2>6 DEF CallType
  <2> HIDE DEF new
  <2>7. /\ DOMAIN said'.calls = DOMAIN said.calls
        /\ \A i \in DOMAIN said.calls :
             /\ said'.calls[i].id = said.calls[i].id /\ said'.calls[i].name = said.calls[i].name
             /\ said'.calls[i].args = IF i = Len(content) - 1 THEN Append(said.calls[i].args, p)
                                                              ELSE said.calls[i].args
    BY <2>3, <2>5, <2>e
  <2>8. BlocksSay(block', content', said') /\ SignatureIn(content') = sig
    <3>1. /\ BlocksSay("tool_use", content, said) /\ content' = WithPiece(content, p)
          /\ said'.text = said.text /\ said'.reasoning = said.reasoning
      BY <1>0, <2>1, <2>5
    <3>2. BlocksSay("tool_use", content', said') /\ SignatureIn(content') = SignatureIn(content)
      BY <2>7, <3>1, BlocksArgue
    <3> QED
      BY <2>1, <3>2
  <2> QED
    BY <2>1, <2>2, <2>4, <2>8, Single, EventFlows
<1>10. ASSUME NEW p \in Piece, SayOtherArgs(p)
       PROVE  AnthropicFlow'
  <2> DEFINE n == Len(content) - 1
  <2>1. /\ stage = "blocks" /\ block = "other" /\ UNCHANGED <<said, block, content>>
        /\ Write(<<ToolCall(n, None, None, <<p>>)>>)
    BY <1>10 DEF SayOtherArgs, Streams, InputDeltaItems, Open, blockVars
  <2>2. said.finish = None
    BY <1>0, <2>1
  <2>3. n \notin DOMAIN said.calls
    <3>1. content \in Seq(BlockType) /\ content[Len(content)].type = "other"
      BY <1>0, <2>1 DEF BlocksSay
    <3>2. Len(content) \in Nat
      BY <3>1
    <3>3. n + 1 = Len(content)
      BY <3>2
    <3> HIDE DEF n
    <3>4. \A i \in DOMAIN said.calls : content[i + 1].type = "tool_use"
      BY <1>0 DEF BlocksSay, CallsAreBlocks
    <3> QED
      BY <3>1, <3>3, <3>4
  <2> HIDE DEF n
  <2>4. /\ Grows(said, said)
        /\ Carries(Whole, <<ToolCall(n, None, None, <<p>>)>>, said, sig, said, sig)
    BY <1>0, <2>2, <2>3, StrayCarried
  <2> QED
    BY <1>0, <2>1, <2>2, <2>4, Single, EventFlows
<1>11. ASSUME NEW s \in Signature, Sign(s)
       PROVE  AnthropicFlow'
  <2>1. /\ stage = "blocks" /\ block = "thinking" /\ block' = "signed" /\ said' = said
        /\ Last(content).text # <<>>
        /\ content' = [content EXCEPT ![Len(content)].signature = s]
        /\ Write(<<ThinkingSignature(s)>>)
    BY <1>11 DEF Sign, Streams, SignatureDeltaItems
  <2>2. said.finish = None
    BY <1>0, <2>1
  <2>3. content[Len(content)].text # <<>>
    BY <2>1 DEF Last
  <2>4. BlocksSay(block', content', said') /\ SignatureIn(content') = s
    BY <1>0, <2>1, <2>3, BlocksSign
  <2>5. Grows(said, said) /\ Carries(Whole, <<ThinkingSignature(s)>>, said, sig, said, s)
    BY <1>0, <2>2, SignatureCarried
  <2> QED
    BY <1>0, <2>1, <2>2, <2>4, <2>5, Single, EventFlows
<1>12. CASE StopBlock
  <2>1. stage = "blocks" /\ block' = "none" /\ UNCHANGED <<said, content>> /\ Write(<<>>)
    BY <1>12 DEF StopBlock
  <2>2. said.finish = None
    BY <1>0, <2>1
  <2>3. BlocksSay(block', content', said')
    BY <1>0, <2>1 DEF BlocksSay, OneThought
  <2>4. Carries(Whole, <<>>, said, sig, said', sig) /\ Grows(said, said')
    BY <1>0, <2>1, <2>2, CarryNothing DEF Grows
  <2> QED
    BY <1>0, <2>1, <2>2, <2>3, <2>4, Nothing, EventFlows
<1>13. ASSUME NEW reason \in Reason \cup OddReason, NEW input \in Opt(Tokens), NEW output \in Tokens,
              MessageDelta(reason, input, output)
       PROVE  AnthropicFlow'
  <2> DEFINE u == [NoUsage EXCEPT !["prompt"] = input, !["completion"] = output]
             used == [said EXCEPT !.usage = MergeUsage(@, u)]
             end == If(StopReason(reason) # None, Stop(StopReason(reason)))
  <2>1. /\ stage = "blocks" /\ Write(<<Usage(u)>> \o end) /\ UNCHANGED <<block, content>>
        /\ said' = [said EXCEPT
             !.finish = IF reason \in KnownReason THEN reason ELSE None,
             !.usage = Counted(@, input, output)]
    BY <1>13 DEF MessageDelta, MessageDeltaItems, UsageItem, blockVars
  <2>2. said.finish = None
    BY <1>0, <2>1
  <2>3. output \in Nat /\ output # None /\ input \in Opt(Nat)
    BY TokensAssumption, NoneAssumption DEF Opt
  <2>4. u \in [UsageField -> Opt(Nat)]
    BY <2>3 DEF NoUsage, Opt
  <2>5. said.usage \in [UsageField -> Opt(Nat)]
    BY <1>0 DEF SaidTyped
  <2>6. MergeUsage(said.usage, u) = Counted(said.usage, input, output)
    BY <2>3, <2>5 DEF MergeUsage, NoUsage, UsageField, Counted
  <2> HIDE DEF u
  <2>7. /\ DOMAIN used = SaidField /\ used.text = said.text /\ used.reasoning = said.reasoning
        /\ used.calls = said.calls /\ used.usage = MergeUsage(said.usage, u) /\ used.finish = None
    BY <1>0, <2>2 DEF SaidField
  <2> HIDE DEF used
  <2>8. SaidTyped(used) /\ Grows(said, used) /\ Carries(Whole, <<Usage(u)>>, said, sig, used, sig)
    BY <1>0, <2>2, <2>4, <2>7, UsageCarried
  <2>9. /\ DOMAIN said' = SaidField /\ said'.text = used.text /\ said'.reasoning = used.reasoning
        /\ said'.calls = used.calls /\ said'.usage = used.usage
        /\ said'.finish = IF reason \in KnownReason THEN reason ELSE None
    <3>0. said'.usage = Counted(said.usage, input, output)
      BY <1>0, <2>1 DEF SaidField
    <3>1. said'.usage = MergeUsage(said.usage, u)
      BY <2>6, <3>0
    <3> QED
      BY <1>0, <2>1, <2>7, <3>1 DEF SaidField
  <2>10. /\ SaidTyped(said') /\ Grows(used, said') /\ IsItems(end)
         /\ Carries(Whole, end, used, sig, said', sig)
    <3>1. CASE reason \in KnownReason
      <4>1. end = <<Stop(reason)>> /\ reason # None /\ said'.finish = reason
        BY <1>0, <2>9, <3>1 DEF If, StopReason
      <4> HIDE DEF end
      <4> QED
        BY <2>8, <2>9, <4>1, CarryStop, Single
    <3>2. CASE reason \notin KnownReason
      <4>1. end = <<>> /\ said'.finish = None
        BY <2>9, <3>2 DEF If, StopReason
      <4> HIDE DEF end
      <4>2. SaidTyped(said') /\ Grows(used, said')
        BY <2>8, <2>9 DEF SaidTyped, Grows, Sound, WasSaid
      <4>3. Carries(Whole, <<>>, said', sig, said', sig)
        BY <4>1, <4>2, CarryNothing
      <4>4. \A a : Full(Whole, a, used, sig) => Full(Whole, a, said', sig)
        BY <2>9 DEF Full
      <4>5. Carries(Whole, <<>>, used, sig, said', sig)
        BY <4>3, <4>4 DEF Carries
      <4> QED
        BY <4>1, <4>2, <4>5, Nothing
    <3> QED
      BY <3>1, <3>2
  <2> HIDE DEF end
  <2>11. Grows(said, said')
    BY <2>8, <2>10 DEF Grows
  <2>12. IsItems(<<Usage(u)>>) /\ IsItems(<<Usage(u)>> \o end)
    BY <2>10, Single, Concatenation
  <2>13. Carries(Whole, <<Usage(u)>> \o end, said, sig, said', sig)
    BY <2>7, <2>8, <2>10, <2>12, CarryOn
  <2>14. BlocksSay(block', content', said')
    BY <1>0, <2>1, <2>7, <2>9 DEF BlocksSay, CallsAreBlocks, OneThought
  <2> QED
    BY <2>1, <2>2, <2>9, <2>10, <2>11, <2>12, <2>13, <2>14, EventFlows
<1>14. CASE MessageStop
  <2>1. Write(<<>>) /\ UNCHANGED <<said, block, content>>
    BY <1>14 DEF MessageStop, MessageStopItems, blockVars
  <2>2. CASE said.finish = None
    <3>1. Carries(Whole, <<>>, said, sig, said', sig) /\ Grows(said, said')
      BY <1>0, <2>1, <2>2, CarryNothing DEF Grows
    <3> QED
      BY <1>0, <2>1, <2>2, <3>1, Nothing, EventFlows
  <2>3. CASE said.finish # None
    <3>1. queue' = queue \o <<>> /\ UNCHANGED <<consumer, acc, outcome>>
      BY <2>1 DEF Write
    <3>2. Flow(Whole, acc, queue', outcome, closed', said', sig)
      BY <1>0, <2>1, <2>3, <3>1, Nothing, FlowBehind
    <3> QED
      BY <1>0, <2>1, <3>1, <3>2 DEF AnthropicFlow, Whole
  <2> QED
    BY <2>2, <2>3
<1> QED
  BY <1>1, <1>2, <1>3, <1>4, <1>5, <1>6, <1>7, <1>8, <1>9, <1>10, <1>11, <1>12, <1>13, <1>14
  DEF Next, Server

(* What has been collected and what is under way make up what was said,    *)
(* along every behaviour.                                                  *)
THEOREM FlowInvariance == Spec => []AnthropicFlow
<1>1. Init => AnthropicFlow
  <2> SUFFICES ASSUME Init
               PROVE  AnthropicFlow
    OBVIOUS
  <2>1. /\ acc = EmptyAcc /\ queue = <<>> /\ outcome = Reading /\ said = NothingSaid
        /\ block = "none" /\ content = <<>>
    BY DEF Init, CompletionInit, StreamInit
  <2>2. Flow(Whole, acc, queue, outcome, closed, said, None)
    BY <2>1, FlowStarts
  <2>3. DOMAIN content = {} /\ Len(content) = 0 /\ content \in Seq(BlockType)
    BY <2>1
  <2>4. SignatureIn(content) = None
    BY <2>3 DEF SignatureIn, Signed
  <2>5. \A type : TextIn(type, content) = <<>>
    <3> SUFFICES ASSUME NEW type
                 PROVE  TextIn(type, content) = <<>>
      OBVIOUS
    <3> DEFINE s == [n \in DOMAIN content |-> IF content[n].type = type THEN content[n].text ELSE <<>>]
    <3>1. s = <<>>
      BY <2>3
    <3>2. TextIn(type, content) = FlattenSeq(s)
      BY DEF TextIn
    <3> QED
      BY <3>1, <3>2, FlattenEmpty
  <2>6. CallsAreBlocks(content, said) /\ OneThought(block, content, said)
    BY <2>1, <2>3 DEF CallsAreBlocks, OneThought, Signed, NothingSaid
  <2>7. said.text = <<>> /\ said.reasoning = <<>> /\ said.finish = None
    BY <2>1 DEF NothingSaid
  <2>8. BlocksSay(block, content, said)
    BY <2>1, <2>3, <2>5, <2>6, <2>7 DEF BlocksSay
  <2> QED
    BY <2>2, <2>4, <2>7, <2>8 DEF AnthropicFlow
<1>2. AnthropicInv /\ AnthropicFlow /\ [Next]_vars => AnthropicFlow'
  BY StepFlows
<1> QED
  BY <1>1, <1>2, Invariance, PTL DEF Spec

(* What has been collected, at any moment and whoever collects it, is a    *)
(* beginning of what the server said: convert_event and the consumers lose *)
(* no piece in the middle, double none, invent none and put none into      *)
(* another call, whatever blocks came in whatever order.                   *)
THEOREM CollectedIsSaid == Spec => []CollectedWasSaid
<1>1. AnthropicFlow => CollectedWasSaid
  BY DEF AnthropicFlow, Flow, Sound, WasSaid, CollectedWasSaid
<1> QED
  BY <1>1, FlowInvariance, PTL

(* The flow of an answered request is its answer.                          *)
LEMMA AnsweredInFull ==
  ASSUME AnthropicFlow, Answered
  PROVE  Answer(Whole, acc, said, SignatureIn(content))
BY DEF AnthropicFlow, Flow, Answered

(* An answer is the whole completion: all text and, of collect_response,   *)
(* all thinking, every call with all its arguments, and the server's own   *)
(* reason, whatever failed behind it.                                      *)
THEOREM WholeAnswer == Spec => []AnswerIsWhole
<1>1. AnthropicFlow => AnswerIsWhole
  BY AnsweredInFull DEF AnswerIsWhole, Answer, Finished
<1> QED
  BY <1>1, FlowInvariance, PTL

(* The usage in an answer is the one of message_start with what            *)
(* message_delta said later put over it.                                   *)
THEOREM KeptUsage == Spec => []UsageIsKept
<1>1. AnthropicFlow => UsageIsKept
  BY AnsweredInFull DEF UsageIsKept, Answer
<1> QED
  BY <1>1, FlowInvariance, PTL

(* Where no second thinking block comes, the thinking text and the         *)
(* signature of an answer are those of one block, the one that the server  *)
(* signed: collect_response puts together what belongs together.  (Of      *)
(* several blocks it does not, as the interleaved run shows.)              *)
THEOREM SignatureFits ==
  ASSUME Interleaved = FALSE
  PROVE  Spec => []SignatureFitsThinking
<1>1. AnthropicFlow => SignatureFitsThinking
  <2> SUFFICES ASSUME AnthropicFlow, Answered, Whole, acc.signature # None
               PROVE  \E b \in ToSet(content) :
                        b.type = "thinking" /\ b.text = acc.reasoning /\ b.signature = acc.signature
    BY DEF SignatureFitsThinking
  <2>1. acc.signature = SignatureIn(content) /\ acc.reasoning = said.reasoning
    BY AnsweredInFull DEF Answer
  <2>2. Signed(content) # {} /\ Max(Signed(content)) \in Signed(content)
    <3>1. Signed(content) # {}
      BY <2>1 DEF SignatureIn
    <3>2. content \in Seq(BlockType)
      BY DEF AnthropicFlow, BlocksSay
    <3>3. Len(content) \in Nat /\ Signed(content) \subseteq 1 .. Len(content)
      BY <3>2 DEF Signed
    <3>4. PICK k \in Signed(content) : \A m \in Signed(content) : m <= k
      BY <3>1, <3>3, GreatestExists
    <3>5. Max(Signed(content)) = k
      BY <3>3, <3>4, MaxIs
    <3> QED
      BY <3>1, <3>5
  <2> DEFINE k == Max(Signed(content))
  <2>3. k \in DOMAIN content /\ content[k].type = "thinking" /\ content[k].text = said.reasoning
    BY <2>2 DEF AnthropicFlow, BlocksSay, OneThought, Signed
  <2>4. acc.signature = content[k].signature
    BY <2>1, <2>2 DEF SignatureIn
  <2>5. content[k] \in ToSet(content)
    BY <2>3 DEF ToSet
  <2> HIDE DEF k
  <2> QED
    BY <2>1, <2>3, <2>4, <2>5
<1> QED
  BY <1>1, FlowInvariance, PTL

-----------------------------------------------------------------------------
(* The two routes. *)

(* One tool_use block makes the same call on both.                         *)
LEMMA SameBlockSameCall ==
  ASSUME NEW c \in CallType, NEW b, b.id = c.id, b.name = c.name, b.text = c.args
  PROVE  SameCall(c, CallIn(b))
<1>1. c.id # None /\ c.name # None
  BY NoneAssumption DEF CallType
<1> QED
  BY <1>1 DEF SameCall, CallIn

(* The calls that were said are the blocks of calls in their order.        *)
LEMMA SameCalls ==
  ASSUME NEW c, c \in Seq(BlockType), NEW s, SaidTyped(s), CallsAreBlocks(c, s)
  PROVE  /\ Len(InOrder(s.calls)) = Len(CallsIn(c))
         /\ \A n \in DOMAIN CallsIn(c) : SameCall(InOrder(s.calls)[n], CallsIn(c)[n])
<1> DEFINE len == Len(c)
           U == {CallIn(b) : b \in BlockType}
           R == {r \in CallType \X U : SameCall(r[1], r[2])}
           said1 == Slots(s.calls, len)
           once(b) == IF b.type = "tool_use" THEN <<CallIn(b)>> ELSE <<>>
           once1 == [n \in DOMAIN c |-> once(c[n])]
<1>1. len \in Nat /\ DOMAIN c = 1 .. len /\ \A n \in 1 .. len : c[n] \in BlockType
  OBVIOUS
<1> HIDE DEF len
<1>2. /\ \A i \in DOMAIN s.calls : i \in 0 .. len - 1 /\ s.calls[i] \in CallType
      /\ DOMAIN s.calls \subseteq 0 .. len - 1
  <2>1. \A i \in DOMAIN s.calls : i \in Nat /\ i + 1 \in 1 .. len
    BY DEF CallsAreBlocks, len
  <2>2. \A i \in DOMAIN s.calls : i \in 0 .. len - 1
    BY <1>1, <2>1
  <2> QED
    BY <2>2 DEF SaidTyped
<1>3. /\ said1 \in Seq(Seq(CallType)) /\ Len(said1) = len
      /\ InOrder(s.calls) = FlattenSeq(said1) /\ InOrder(s.calls) \in Seq(CallType)
  BY <1>1, <1>2, InOrderIs
<1>4. CallsIn(c) = FlattenSeq(once1)
  BY DEF CallsIn
<1>5. once1 \in Seq(Seq(U)) /\ Len(once1) = len
  <2>1. \A b \in BlockType : once(b) \in Seq(U)
    <3> SUFFICES ASSUME NEW b \in BlockType
                 PROVE  once(b) \in Seq(U)
      OBVIOUS
    <3>1. CallIn(b) \in U
      OBVIOUS
    <3> HIDE DEF U
    <3>2. <<CallIn(b)>> \in Seq(U) /\ <<>> \in Seq(U)
      BY <3>1
    <3> QED
      BY <3>2
  <2> HIDE DEF once, U
  <2>2. once1 \in [1 .. len -> Seq(U)]
    BY <1>1, <2>1
  <2> HIDE DEF once1
  <2> QED
    BY <1>1, <2>2, SeqOfPositions
<1>6. \A n \in 1 .. len : Together(R, said1[n], once1[n])
  <2> SUFFICES ASSUME NEW n \in 1 .. len
               PROVE  Together(R, said1[n], once1[n])
    OBVIOUS
  <2>1. said1[n] = IF n - 1 \in DOMAIN s.calls THEN <<s.calls[n - 1]>> ELSE <<>>
    BY DEF Slots
  <2>2. once1[n] = once(c[n])
    BY <1>1
  <2>3. CASE n - 1 \in DOMAIN s.calls
    <3>1. (n - 1) + 1 = n
      BY <1>1
    <3>2. /\ c[n].type = "tool_use" /\ c[n].id = s.calls[n - 1].id
          /\ c[n].name = s.calls[n - 1].name /\ c[n].text = s.calls[n - 1].args
      BY <2>3, <3>1 DEF CallsAreBlocks
    <3> DEFINE x == s.calls[n - 1]
               y == CallIn(c[n])
    <3>3. x \in CallType /\ y \in U
      BY <1>1, <1>2, <2>3
    <3>4. SameCall(x, y)
      BY <3>2, <3>3, SameBlockSameCall
    <3>5. said1[n] = <<x>> /\ once1[n] = <<y>>
      BY <2>1, <2>2, <2>3, <3>2
    <3> HIDE DEF x, y, U, said1, once1
    <3>6. <<x, y>> \in R
      BY <3>3, <3>4
    <3> HIDE DEF R
    <3> QED
      BY <3>5, <3>6 DEF Together
  <2>4. CASE n - 1 \notin DOMAIN s.calls
    <3>1. c[n].type # "tool_use"
      BY <1>1, <2>4 DEF CallsAreBlocks, len
    <3>2. said1[n] = <<>> /\ once1[n] = <<>>
      BY <2>1, <2>2, <2>4, <3>1
    <3> HIDE DEF said1, once1, R
    <3> QED
      BY <3>2 DEF Together
  <2> QED
    BY <2>3, <2>4
<1> HIDE DEF said1, once1, U, once
<1>7. Together(R, InOrder(s.calls), CallsIn(c)) /\ CallsIn(c) \in Seq(U)
  <2> HIDE DEF R
  <2> QED
    BY <1>3, <1>4, <1>5, <1>6, FlattenTogether, FlattenType
<1>8. Len(CallsIn(c)) = Len(InOrder(s.calls)) /\ DOMAIN CallsIn(c) = 1 .. Len(InOrder(s.calls))
  BY <1>7 DEF Together
<1>9. \A n \in 1 .. Len(InOrder(s.calls)) : <<InOrder(s.calls)[n], CallsIn(c)[n]>> \in R
  BY <1>7 DEF Together
<1> QED
  BY <1>8, <1>9

(* FinishReason and the table of parse_anthropic_response.                 *)
LEMMA SameReason ==
  ASSUME NEW reason \in KnownReason
  PROVE  \/ FinishReason(reason) = OnceReason(reason)
         \/ <<FinishReason(reason), OnceReason(reason)>> \in Untranslated
<1>0. reason # None
  BY ReasonAssumption
<1>1. CASE reason = "end_turn"
  BY <1>1 DEF FinishReason, OnceReason
<1>2. CASE reason = "max_tokens"
  BY <1>0, <1>2 DEF FinishReason, OnceReason
<1>3. CASE reason = "tool_use"
  BY <1>0, <1>3 DEF FinishReason, OnceReason
<1>4. CASE reason = "stop_sequence"
  <2>1. FinishReason(reason) = "stop_sequence" /\ OnceReason(reason) = "Stop"
    BY <1>4 DEF FinishReason, OnceReason
  <2> QED
    BY <2>1 DEF Untranslated
<1>5. CASE reason = "pause_turn"
  <2>1. FinishReason(reason) = "pause_turn" /\ OnceReason(reason) = "Stop"
    BY <1>5 DEF FinishReason, OnceReason
  <2> QED
    BY <2>1 DEF Untranslated
<1>6. CASE reason = "refusal"
  <2>1. FinishReason(reason) = "refusal" /\ OnceReason(reason) = "ContentFilter"
    BY <1>0, <1>6 DEF FinishReason, OnceReason
  <2> QED
    BY <2>1 DEF Untranslated
<1> QED
  BY <1>1, <1>2, <1>3, <1>4, <1>5, <1>6 DEF KnownReason

(* A completion makes the same answer whether parse_sse_stream and         *)
(* collect_response make it of the events or parse_response of the one     *)
(* document: the same text, thinking, signature and usage, the same calls  *)
(* in the same order but for "{}", and the same reason but for the three   *)
(* that only the document route translates.                                *)
THEOREM RoutesMakeOneAnswer == Spec => []RoutesAgree
<1>1. AnthropicFlow => RoutesAgree
  <2> SUFFICES ASSUME AnthropicFlow, Answered, Whole, Finished
               PROVE  LET once == ParseAnthropicResponse(Document)
                      IN  /\ once.tag = "ok"
                          /\ acc.content = once.content
                          /\ acc.reasoning = once.reasoning
                          /\ acc.signature = once.signature
                          /\ Len(ToolCalls(acc)) = Len(once.calls)
                          /\ \A n \in DOMAIN once.calls : SameCall(ToolCalls(acc)[n], once.calls[n])
                          /\ acc.usage = once.usage
                          /\ acc.finish = once.finish \/ <<acc.finish, once.finish>> \in Untranslated
    BY DEF RoutesAgree
  <2> DEFINE once == ParseAnthropicResponse(Document)
  <2>1. /\ once.tag = "ok" /\ once.content = TextIn("text", content)
        /\ once.reasoning = TextIn("thinking", content) /\ once.signature = SignatureIn(content)
        /\ once.calls = CallsIn(content) /\ once.usage = said.usage
        /\ once.finish = OnceReason(said.finish)
    BY DEF ParseAnthropicResponse, Document, Response
  <2>2. /\ content \in Seq(BlockType) /\ CallsAreBlocks(content, said) /\ SaidTyped(said)
        /\ said.text = TextIn("text", content) /\ said.reasoning = TextIn("thinking", content)
        /\ said.finish \in KnownReason
    BY DEF AnthropicFlow, BlocksSay, Flow, Finished
  <2>3. /\ acc.content = said.text /\ acc.reasoning = said.reasoning
        /\ acc.calls = said.calls /\ acc.usage = said.usage
        /\ acc.signature = SignatureIn(content) /\ acc.finish = FinishReason(said.finish)
    BY AnsweredInFull DEF Answer, Finished
  <2>4. ToolCalls(acc) = InOrder(said.calls)
    BY <2>3 DEF ToolCalls
  <2> HIDE DEF once
  <2>5. /\ Len(ToolCalls(acc)) = Len(once.calls)
        /\ \A n \in DOMAIN once.calls : SameCall(ToolCalls(acc)[n], once.calls[n])
    BY <2>1, <2>2, <2>4, SameCalls
  <2>6. acc.finish = once.finish \/ <<acc.finish, once.finish>> \in Untranslated
    BY <2>1, <2>2, <2>3, SameReason
  <2>7. /\ once.tag = "ok" /\ acc.content = once.content /\ acc.reasoning = once.reasoning
        /\ acc.signature = once.signature /\ acc.usage = once.usage
    BY <2>1, <2>2, <2>3
  <2> QED
    BY <2>5, <2>6, <2>7 DEF once
<1> QED
  BY <1>1, FlowInvariance, PTL

==============================================================================
