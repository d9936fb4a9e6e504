----------------------- MODULE MessageConversionProofs -----------------------
(***************************************************************************)
(* Theorems about MessageConversion: what the merging of consecutive       *)
(* messages leaves, for histories of any length and messages of any shape, *)
(* with any number of calls and images; and that either request says what  *)
(* the history says.  Each of the lists compared is the concatenation of   *)
(* what the single messages say (FlatImage of a function, Foundations), so *)
(* it is enough that converting one message and merging two keep it.       *)
(***************************************************************************)
EXTENDS MessageConversion, Foundations

-----------------------------------------------------------------------------
(* The sets the lists are over. *)

ImageSet == [id : Nat \X Nat, form : {"url", "base64"}, detail : {None, "low"}]

SystemSet == [kind : {"System"}, text : TextSet]
UserSet == [kind : {"User"}, text : TextSet, images : Seq(ImageSet)]
AssistantSet ==
  [kind : {"Assistant"}, text : TextSet \cup {None}, reasoning : TextSet \cup {None},
   signature : Nat \cup {None}, calls : Seq(CallSet) \cup {None}]
ToolSet == [kind : {"Tool"}, id : Nat \X Nat, text : TextSet, images : Seq(ImageSet)]
MessageSet == SystemSet \cup UserSet \cup AssistantSet \cup ToolSet \cup {Custom}

OpenAiSet ==
  [role : {"system", "user", "assistant", "tool"},
   content : {None} \cup StringSet \cup PartsSet,
   tool_calls : {None} \cup Seq(CallSet), tool_call_id : {None} \cup (Nat \X Nat), note : BOOLEAN]

(* Only the user's messages have parts, and they always have a content;    *)
(* only the assistant's have calls.                                        *)
WellFormed(msg) ==
  /\ msg.role = "user" => msg.content \in StringSet \cup PartsSet
  /\ msg.role = "assistant" => msg.content \in {None} \cup StringSet
  /\ HasCalls(msg) => msg.role = "assistant"

TextBlockSet == [type : {"text"}, text : TextSet]
ImageBlockSet == [type : {"image"}, id : Nat \X Nat, form : {"url", "base64"}]
ThinkingBlockSet == [type : {"thinking"}, thinking : TextSet, signature : Nat]
ToolUseBlockSet == [type : {"tool_use"}, id : Nat \X Nat, input : {"object", "empty"}]
ResultBlockSet ==
  [type : {"tool_result"}, id : Nat \X Nat, text : TextSet, images : Seq(ImageBlockSet)]
BlockSet ==
  TextBlockSet \cup ImageBlockSet \cup ThinkingBlockSet \cup ToolUseBlockSet \cup ResultBlockSet
TurnSet == [role : {"user", "assistant"}, content : Seq(BlockSet)]

(* Neighbours that may stay neighbours.                                    *)
Apart(a, b) ==
  a.role = b.role => \/ a.role \in {"system", "tool"}
                     \/ a.role = "assistant" /\ ~(HasCalls(a) <=> HasCalls(b))

Merged(s) ==
  /\ s \in Seq(OpenAiSet)
  /\ \A n \in 1 .. Len(s) : WellFormed(s[n])
  /\ \A n \in 1 .. Len(s) - 1 : Apart(s[n], s[n + 1])

MergedTurns(s) ==
  /\ s \in Seq(TurnSet)
  /\ \A n \in 1 .. Len(s) - 1 : s[n].role # s[n + 1].role

(* The inductive invariant: the lists have the right elements, and no      *)
(* neighbours are left to merge.                                           *)
ConversionInv ==
  /\ history \in Seq(MessageSet)
  /\ Merged(openai)
  /\ MergedTurns(anthropic)

-----------------------------------------------------------------------------
(* What the conversion of one message is. *)

(* The kinds of messages are told apart by the field kind.                 *)
LEMMA KindsApart ==
  /\ \A m \in SystemSet : m.kind = "System"
  /\ \A m \in UserSet : m.kind = "User"
  /\ \A m \in AssistantSet : m.kind = "Assistant"
  /\ \A m \in ToolSet : m.kind = "Tool"
  /\ Custom.kind = "Custom"
BY DEF SystemSet, UserSet, AssistantSet, ToolSet, Custom

(* A field given another value.                                            *)
LEMMA WithCalls ==
  ASSUME NEW r \in OpenAiSet, NEW calls \in {None} \cup Seq(CallSet)
  PROVE  LET w == [r EXCEPT !.tool_calls = calls]
         IN  /\ w \in OpenAiSet
             /\ w.role = r.role /\ w.content = r.content /\ w.tool_calls = calls
BY DEF OpenAiSet

(* A new message of any role and content.                                  *)
LEMMA OpenAiType ==
  ASSUME NEW role \in {"system", "user", "assistant", "tool"},
         NEW c \in {None} \cup StringSet \cup PartsSet
  PROVE  LET r == OpenAi(role, c)
         IN  r \in OpenAiSet /\ r.role = role /\ r.content = c /\ r.tool_calls = None
BY DEF OpenAi, OpenAiSet

(* A text makes a string content.                                          *)
LEMMA StrType ==
  ASSUME NEW text \in TextSet
  PROVE  Str(text) \in StringSet
BY DEF Str, StringSet, TextSet

(* Images become parts.                                                    *)
LEMMA ImagePartsType ==
  ASSUME NEW images \in Seq(ImageSet)
  PROVE  [k \in DOMAIN images |-> ImagePart(images[k])] \in Seq(PartSet)
<1>1. ASSUME NEW k \in DOMAIN images
      PROVE  ImagePart(images[k]) \in PartSet
  <2> DEFINE i == images[k]
  <2>1. i \in ImageSet
    OBVIOUS
  <2> HIDE DEF i
  <2>2. ImagePart(i) \in ImagePartSet
    BY <2>1 DEF ImagePart, ImageSet, ImagePartSet
  <2> QED
    BY <2>2 DEF PartSet, i
<1> DEFINE f == [k \in DOMAIN images |-> ImagePart(images[k])]
<1>2. Len(images) \in Nat /\ DOMAIN images = 1 .. Len(images)
  OBVIOUS
<1>3. f \in [1 .. Len(images) -> PartSet]
  BY <1>1, <1>2
<1> QED
  BY <1>2, <1>3

(* The user's message always has a content, a string or parts.             *)
LEMMA OpenAiUserType ==
  ASSUME NEW m \in UserSet
  PROVE  /\ OpenAiUser(m) \in OpenAiSet
         /\ WellFormed(OpenAiUser(m))
         /\ OpenAiUser(m).role = "user"
         /\ OpenAiUser(m).content =
              IF m.images = <<>> THEN Str(m.text)
              ELSE Parts(<<TextPart(m.text)>> \o [k \in DOMAIN m.images |-> ImagePart(m.images[k])])
<1> DEFINE images == [k \in DOMAIN m.images |-> ImagePart(m.images[k])]
           c == IF m.images = <<>> THEN Str(m.text) ELSE Parts(<<TextPart(m.text)>> \o images)
<1>1. m.text \in TextSet /\ m.images \in Seq(ImageSet)
  BY DEF UserSet
<1>2. images \in Seq(PartSet)
  BY <1>1, ImagePartsType
<1> HIDE DEF images
<1>3. TextPart(m.text) \in PartSet
  BY <1>1 DEF TextPart, TextPartSet, PartSet
<1>4. <<TextPart(m.text)>> \o images \in Seq(PartSet)
  BY <1>2, <1>3
<1>5. c \in StringSet \cup PartsSet
  BY <1>1, <1>4, StrType DEF Parts, PartsSet
<1>6. OpenAiUser(m) = OpenAi("user", c)
  BY DEF OpenAiUser, images
<1> HIDE DEF c
<1>7. OpenAiUser(m) \in OpenAiSet /\ WellFormed(OpenAiUser(m)) /\ OpenAiUser(m).role = "user"
      /\ OpenAiUser(m).content = c
  BY <1>5, <1>6, OpenAiType DEF WellFormed, HasCalls
<1> QED
  BY <1>7 DEF c, images

(* The assistant's has the calls of its message and no parts.              *)
LEMMA OpenAiAssistantType ==
  ASSUME NEW m \in AssistantSet
  PROVE  /\ OpenAiAssistant(m) \in OpenAiSet
         /\ WellFormed(OpenAiAssistant(m))
         /\ OpenAiAssistant(m).role = "assistant"
         /\ OpenAiAssistant(m).tool_calls = m.calls
         /\ OpenAiAssistant(m).content = IF Said(m.text) THEN Str(m.text) ELSE None
<1> DEFINE c == IF Said(m.text) THEN Str(m.text) ELSE None
<1>1. m.calls \in {None} \cup Seq(CallSet) /\ m.text \in TextSet \cup {None}
  BY DEF AssistantSet
<1>2. c \in {None} \cup StringSet
  BY <1>1, StrType DEF Said
<1>3. OpenAiAssistant(m) = [OpenAi("assistant", c) EXCEPT !.tool_calls = m.calls]
  BY DEF OpenAiAssistant
<1> HIDE DEF c
<1>4. /\ OpenAiAssistant(m) \in OpenAiSet
      /\ OpenAiAssistant(m).role = "assistant"
      /\ OpenAiAssistant(m).content = c
      /\ OpenAiAssistant(m).tool_calls = m.calls
  <2>1. LET r == OpenAi("assistant", c)
        IN  r \in OpenAiSet /\ r.role = "assistant" /\ r.content = c /\ r.tool_calls = None
    BY <1>2, OpenAiType
  <2> QED
    BY <1>1, <1>3, <2>1, WithCalls
<1>5. WellFormed(OpenAiAssistant(m))
  BY <1>2, <1>4 DEF WellFormed
<1> QED
  BY <1>4, <1>5 DEF c

(* A result has no calls.                                                  *)
LEMMA OpenAiToolType ==
  ASSUME NEW m \in ToolSet
  PROVE  /\ OpenAiTool(m) \in OpenAiSet
         /\ WellFormed(OpenAiTool(m))
         /\ OpenAiTool(m).role = "tool"
         /\ OpenAiTool(m).content = Str(m.text)
         /\ OpenAiTool(m).tool_call_id = m.id
         /\ OpenAiTool(m).note = (m.images # <<>>)
<1> DEFINE r == OpenAi("tool", Str(m.text))
           note == (m.images # <<>>)
<1>1. m.id \in Nat \X Nat /\ m.text \in TextSet
  BY DEF ToolSet
<1>2. r \in OpenAiSet /\ r.role = "tool" /\ r.tool_calls = None /\ r.content = Str(m.text)
  BY <1>1, StrType, OpenAiType
<1>3. note \in BOOLEAN
  OBVIOUS
<1>4. OpenAiTool(m) = [r EXCEPT !.tool_call_id = m.id, !.note = note]
  BY DEF OpenAiTool
<1> HIDE DEF r, note
<1>5. OpenAiTool(m) \in OpenAiSet /\ OpenAiTool(m).role = "tool" /\ OpenAiTool(m).tool_calls = None
  BY <1>1, <1>2, <1>3, <1>4 DEF OpenAiSet
<1>6. OpenAiTool(m).content = Str(m.text) /\ OpenAiTool(m).tool_call_id = m.id /\ OpenAiTool(m).note = note
  BY <1>1, <1>2, <1>3, <1>4 DEF OpenAiSet
<1> QED
  BY <1>5, <1>6 DEF WellFormed, HasCalls, note

(* Neither has a system message.                                           *)
LEMMA OpenAiSystemType ==
  ASSUME NEW m \in SystemSet
  PROVE  /\ OpenAi("system", Str(m.text)) \in OpenAiSet
         /\ WellFormed(OpenAi("system", Str(m.text)))
         /\ OpenAi("system", Str(m.text)).role = "system"
         /\ OpenAi("system", Str(m.text)).content = Str(m.text)
<1>1. m.text \in TextSet
  BY DEF SystemSet
<1> QED
  BY <1>1, StrType, OpenAiType DEF WellFormed, HasCalls

(* A message becomes nothing or one well-formed message.                   *)
LEMMA OpenAiMessageType ==
  ASSUME NEW m \in MessageSet, OpenAiMessage(m) # <<>>
  PROVE  OpenAiMessage(m)[1] \in OpenAiSet /\ WellFormed(OpenAiMessage(m)[1])
<1>1. CASE m \in SystemSet
  <2>1. OpenAiMessage(m) = <<OpenAi("system", Str(m.text))>>
    BY <1>1, KindsApart DEF OpenAiMessage
  <2> QED
    BY <1>1, <2>1, OpenAiSystemType
<1>2. CASE m \in UserSet
  <2>1. OpenAiMessage(m) = <<OpenAiUser(m)>>
    BY <1>2, KindsApart DEF OpenAiMessage
  <2>2. OpenAiUser(m) \in OpenAiSet /\ WellFormed(OpenAiUser(m))
    BY <1>2, OpenAiUserType
  <2> QED
    BY <2>1, <2>2
<1>3. CASE m \in AssistantSet
  <2>1. OpenAiMessage(m) = <<OpenAiAssistant(m)>>
    BY <1>3, KindsApart DEF OpenAiMessage
  <2> QED
    BY <1>3, <2>1, OpenAiAssistantType
<1>4. CASE m \in ToolSet
  <2>1. OpenAiMessage(m) = <<OpenAiTool(m)>>
    BY <1>4, KindsApart DEF OpenAiMessage
  <2> QED
    BY <1>4, <2>1, OpenAiToolType
<1>5. CASE m = Custom
  <2>1. OpenAiMessage(m) = <<>>
    BY <1>5, KindsApart DEF OpenAiMessage
  <2> QED
    BY <2>1
<1> QED
  BY <1>1, <1>2, <1>3, <1>4, <1>5 DEF MessageSet

(* Images become blocks.                                                   *)
LEMMA ImageBlocksType ==
  ASSUME NEW images \in Seq(ImageSet)
  PROVE  ImageBlocks(images) \in Seq(ImageBlockSet)
<1>1. ASSUME NEW k \in DOMAIN images
      PROVE  ImageBlock(images[k]) \in ImageBlockSet
  <2> DEFINE i == images[k]
  <2>1. i \in ImageSet
    OBVIOUS
  <2> HIDE DEF i
  <2>2. ImageBlock(i) \in ImageBlockSet
    BY <2>1 DEF ImageBlock, ImageSet, ImageBlockSet
  <2> QED
    BY <2>2 DEF i
<1>2. Len(images) \in Nat /\ DOMAIN images = 1 .. Len(images)
  OBVIOUS
<1>3. ImageBlocks(images) \in [1 .. Len(images) -> ImageBlockSet]
  BY <1>1, <1>2 DEF ImageBlocks
<1> QED
  BY <1>2, <1>3

(* Calls become blocks, whatever their arguments are.                      *)
LEMMA ToolUseBlocksType ==
  ASSUME NEW calls \in Seq(CallSet)
  PROVE  [k \in DOMAIN calls |-> ToolUseBlock(calls[k])] \in Seq(BlockSet)
<1>1. ASSUME NEW k \in DOMAIN calls
      PROVE  ToolUseBlock(calls[k]) \in BlockSet
  <2> DEFINE c == calls[k]
  <2>1. c \in CallSet
    OBVIOUS
  <2> HIDE DEF c
  <2>2. ToolUseBlock(c) \in ToolUseBlockSet
    BY <2>1 DEF ToolUseBlock, CallSet, ToolUseBlockSet
  <2> QED
    BY <2>2 DEF BlockSet, c
<1> DEFINE f == [k \in DOMAIN calls |-> ToolUseBlock(calls[k])]
<1>2. Len(calls) \in Nat /\ DOMAIN calls = 1 .. Len(calls)
  OBVIOUS
<1>3. f \in [1 .. Len(calls) -> BlockSet]
  BY <1>1, <1>2
<1> QED
  BY <1>2, <1>3

(* A block or none.                                                        *)
LEMMA WhenType ==
  ASSUME NEW S, NEW cond, NEW block, cond => block \in S
  PROVE  When(cond, block) \in Seq(S)
<1>1. CASE cond
  BY <1>1 DEF When
<1>2. CASE ~cond
  BY <1>2 DEF When
<1> QED
  BY <1>1, <1>2

(* The blocks of an assistant's message.                                   *)
LEMMA AssistantBlocksType ==
  ASSUME NEW m \in AssistantSet
  PROVE  AssistantBlocks(m) \in Seq(BlockSet)
<1> DEFINE thinking == When(m.reasoning # None /\ m.signature # None,
                            ThinkingBlock(m.reasoning, m.signature))
           text == When(Said(m.text), TextBlock(m.text))
           uses == IF m.calls = None THEN <<>> ELSE [k \in DOMAIN m.calls |-> ToolUseBlock(m.calls[k])]
<1>0. /\ m.text \in TextSet \cup {None}
      /\ m.reasoning \in TextSet \cup {None}
      /\ m.signature \in Nat \cup {None}
      /\ m.calls \in Seq(CallSet) \cup {None}
  BY DEF AssistantSet
<1>1. thinking \in Seq(BlockSet)
  <2>1. ASSUME m.reasoning # None, m.signature # None
        PROVE  ThinkingBlock(m.reasoning, m.signature) \in BlockSet
    BY <1>0, <2>1 DEF ThinkingBlock, ThinkingBlockSet, BlockSet
  <2> QED
    BY <2>1, WhenType
<1>2. text \in Seq(BlockSet)
  <2>1. ASSUME Said(m.text)
        PROVE  TextBlock(m.text) \in BlockSet
    BY <1>0, <2>1 DEF Said, TextBlock, TextBlockSet, BlockSet
  <2> QED
    BY <2>1, WhenType
<1>3. uses \in Seq(BlockSet)
  BY <1>0, ToolUseBlocksType
<1> HIDE DEF thinking, text, uses
<1>4. thinking \o text \o uses \in Seq(BlockSet)
  BY <1>1, <1>2, <1>3
<1> QED
  BY <1>4 DEF AssistantBlocks, thinking, text, uses

(* A message becomes nothing or one turn.                                  *)
LEMMA AnthropicMessageType ==
  ASSUME NEW m \in MessageSet, AnthropicMessage(m) # <<>>
  PROVE  AnthropicMessage(m)[1] \in TurnSet
<1>1. CASE m \in SystemSet
  BY <1>1, KindsApart DEF AnthropicMessage
<1>2. CASE m \in UserSet
  <2>1. m.text \in TextSet /\ m.images \in Seq(ImageSet)
    BY <1>2 DEF UserSet
  <2>2. ImageBlocks(m.images) \in Seq(BlockSet)
    <3>1. ImageBlockSet \subseteq BlockSet
      BY DEF BlockSet
    <3>2. ImageBlocks(m.images) \in Seq(ImageBlockSet)
      BY <2>1, ImageBlocksType
    <3> QED
      BY <3>1, <3>2
  <2>3. TextBlock(m.text) \in BlockSet
    BY <2>1 DEF TextBlock, TextBlockSet, BlockSet
  <2>4. <<TextBlock(m.text)>> \o ImageBlocks(m.images) \in Seq(BlockSet)
    BY <2>2, <2>3
  <2>5. AnthropicMessage(m) = <<Turn("user", <<TextBlock(m.text)>> \o ImageBlocks(m.images))>>
    BY <1>2, KindsApart DEF AnthropicMessage
  <2> QED
    BY <2>4, <2>5 DEF Turn, TurnSet
<1>3. CASE m \in AssistantSet
  <2>1. AssistantBlocks(m) # <<>> /\ AnthropicMessage(m) = <<Turn("assistant", AssistantBlocks(m))>>
    BY <1>3, KindsApart DEF AnthropicMessage
  <2> QED
    BY <1>3, <2>1, AssistantBlocksType DEF Turn, TurnSet
<1>4. CASE m \in ToolSet
  <2>1. m.id \in Nat \X Nat /\ m.text \in TextSet /\ m.images \in Seq(ImageSet)
    BY <1>4 DEF ToolSet
  <2>2. ResultBlock(m) \in BlockSet
    BY <2>1, ImageBlocksType DEF ResultBlock, ResultBlockSet, BlockSet
  <2>3. AnthropicMessage(m) = <<Turn("user", <<ResultBlock(m)>>)>>
    BY <1>4, KindsApart DEF AnthropicMessage
  <2> QED
    BY <2>2, <2>3 DEF Turn, TurnSet
<1>5. CASE m = Custom
  BY <1>5, KindsApart DEF AnthropicMessage
<1> QED
  BY <1>1, <1>2, <1>3, <1>4, <1>5 DEF MessageSet

-----------------------------------------------------------------------------
(* Merging with the message before. *)

(* Replacing the last element leaves the others.                           *)
LEMMA ReplaceLastType ==
  ASSUME NEW S, NEW s \in Seq(S), s # <<>>, NEW e \in S
  PROVE  /\ ReplaceLast(s, e) \in Seq(S)
         /\ Len(ReplaceLast(s, e)) = Len(s)
         /\ ReplaceLast(s, e)[Len(s)] = e
         /\ \A n \in 1 .. Len(s) - 1 : ReplaceLast(s, e)[n] = s[n]
<1>1. Len(s) \in Nat /\ Len(s) > 0 /\ s \in [1 .. Len(s) -> S]
  OBVIOUS
<1>2. ReplaceLast(s, e) \in [1 .. Len(s) -> S]
  BY <1>1 DEF ReplaceLast
<1>3. ReplaceLast(s, e) \in Seq(S) /\ Len(ReplaceLast(s, e)) = Len(s)
  BY <1>1, <1>2
<1>4. DOMAIN s = 1 .. Len(s)
  OBVIOUS
<1>5. ReplaceLast(s, e)[Len(s)] = e
  BY <1>1, <1>4 DEF ReplaceLast
<1>6. ASSUME NEW n \in 1 .. Len(s) - 1
      PROVE  ReplaceLast(s, e)[n] = s[n]
  <2>0. Len(s) \in Nat
    OBVIOUS
  <2>1. n \in 1 .. Len(s) /\ n # Len(s)
    BY <2>0
  <2> QED
    BY <1>4, <2>1 DEF ReplaceLast
<1> QED
  BY <1>3, <1>5, <1>6

(* The content given another value.                                        *)
LEMMA WithContent ==
  ASSUME NEW r \in OpenAiSet, NEW c \in {None} \cup StringSet \cup PartsSet
  PROVE  LET w == [r EXCEPT !.content = c]
         IN  /\ w \in OpenAiSet
             /\ w.role = r.role /\ w.content = c /\ w.tool_calls = r.tool_calls
BY DEF OpenAiSet

(* Either content can be made parts.                                       *)
LEMMA PartsOfType ==
  ASSUME NEW c \in StringSet \cup PartsSet
  PROVE  PartsOf(c) \in Seq(PartSet)
<1>1. CASE c \in StringSet
  <2>1. c.tag = "string" /\ c.text \in TextSet
    BY <1>1 DEF StringSet, TextSet
  <2>2. TextPart(c.text) \in PartSet
    BY <2>1 DEF TextPart, TextPartSet, PartSet
  <2> QED
    BY <2>1, <2>2 DEF PartsOf
<1>2. CASE c \in PartsSet
  BY <1>2 DEF PartsSet, PartsOf
<1> QED
  BY <1>1, <1>2

(* Two messages of the user's make one, with strings or parts on either    *)
(* side.                                                                   *)
LEMMA MergeUsersType ==
  ASSUME NEW p \in OpenAiSet, NEW q \in OpenAiSet,
         p.role = "user", q.role = "user", WellFormed(p), WellFormed(q)
  PROVE  /\ MergeUsers(p, q) \in OpenAiSet
         /\ WellFormed(MergeUsers(p, q))
         /\ MergeUsers(p, q).role = "user"
<1> DEFINE c == IF "parts" \in {p.content.tag, q.content.tag}
                  THEN Parts(PartsOf(p.content) \o PartsOf(q.content))
                  ELSE Str(p.content.text \o q.content.text)
<1>1. p.content \in StringSet \cup PartsSet /\ q.content \in StringSet \cup PartsSet
  BY DEF WellFormed
<1>2. c \in StringSet \cup PartsSet
  <2>1. CASE "parts" \in {p.content.tag, q.content.tag}
    <3>1. PartsOf(p.content) \in Seq(PartSet) /\ PartsOf(q.content) \in Seq(PartSet)
      BY <1>1, PartsOfType
    <3>2. PartsOf(p.content) \o PartsOf(q.content) \in Seq(PartSet)
      BY <3>1
    <3> QED
      BY <2>1, <3>2 DEF Parts, PartsSet
  <2>2. CASE "parts" \notin {p.content.tag, q.content.tag}
    <3>1. p.content \in StringSet /\ q.content \in StringSet
      BY <1>1, <2>2 DEF PartsSet
    <3>2. p.content.text \in Seq(Nat) /\ q.content.text \in Seq(Nat)
      BY <3>1 DEF StringSet, TextSet
    <3>3. p.content.text \o q.content.text \in TextSet
      BY <3>2 DEF TextSet
    <3> QED
      BY <2>2, <3>3, StrType
  <2> QED
    BY <2>1, <2>2
<1>3. MergeUsers(p, q) = [p EXCEPT !.content = c]
  BY DEF MergeUsers
<1> HIDE DEF c
<1>4. /\ MergeUsers(p, q) \in OpenAiSet
      /\ MergeUsers(p, q).role = "user"
      /\ MergeUsers(p, q).content = c
      /\ MergeUsers(p, q).tool_calls = p.tool_calls
  BY <1>2, <1>3, WithContent
<1> QED
  BY <1>2, <1>4 DEF WellFormed, HasCalls

(* An absent content is the empty text.                                    *)
LEMMA StringOfType ==
  ASSUME NEW c \in {None} \cup StringSet
  PROVE  StringOf(c) \in TextSet
<1>1. CASE c = None
  BY <1>1 DEF StringOf, TextSet
<1>2. CASE c # None
  BY <1>2 DEF StringOf, StringSet, TextSet
<1> QED
  BY <1>1, <1>2

(* Of two messages of the assistant, both with calls or both without, the  *)
(* merged one has calls where they have; its text is theirs.               *)
LEMMA MergeAssistantsType ==
  ASSUME NEW p \in OpenAiSet, NEW q \in OpenAiSet,
         p.role = "assistant", q.role = "assistant", WellFormed(p), WellFormed(q),
         HasCalls(p) <=> HasCalls(q)
  PROVE  /\ MergeAssistants(p, q) \in OpenAiSet
         /\ WellFormed(MergeAssistants(p, q))
         /\ MergeAssistants(p, q).role = "assistant"
         /\ HasCalls(MergeAssistants(p, q)) <=> HasCalls(p)
         /\ StringOf(MergeAssistants(p, q).content) = StringOf(p.content) \o StringOf(q.content)
         /\ HasCalls(p) => MergeAssistants(p, q).tool_calls = p.tool_calls \o q.tool_calls
<1> DEFINE combined == StringOf(p.content) \o StringOf(q.content)
           c == IF combined = <<>> THEN p.content ELSE Str(combined)
           calls == IF HasCalls(q) THEN CallList(p) \o q.tool_calls ELSE p.tool_calls
<1>1. p.content \in {None} \cup StringSet /\ q.content \in {None} \cup StringSet
  BY DEF WellFormed
<1>2. StringOf(p.content) \in Seq(Nat) /\ StringOf(q.content) \in Seq(Nat)
  BY <1>1, StringOfType DEF TextSet
<1>3. combined \in TextSet
  BY <1>2 DEF TextSet
<1>4. c \in {None} \cup StringSet
  BY <1>1, <1>3, StrType
<1>5. calls \in {None} \cup Seq(CallSet) /\ (calls # None <=> HasCalls(p))
  <2>1. p.tool_calls \in {None} \cup Seq(CallSet) /\ q.tool_calls \in {None} \cup Seq(CallSet)
    BY DEF OpenAiSet
  <2>2. CASE HasCalls(q)
    <3>1. p.tool_calls \in Seq(CallSet) /\ q.tool_calls \in Seq(CallSet)
      BY <2>1, <2>2 DEF HasCalls
    <3>2. p.tool_calls \o q.tool_calls \in Seq(CallSet)
      BY <3>1
    <3> QED
      BY <2>2, <3>2, NoneAssumption DEF CallList
  <2>3. CASE ~HasCalls(q)
    BY <2>1, <2>3 DEF HasCalls
  <2> QED
    BY <2>2, <2>3
<1>5a. HasCalls(p) => calls = p.tool_calls \o q.tool_calls
  BY DEF CallList
<1>6. StringOf(c) = combined
  <2>1. CASE combined = <<>>
    <3>1. StringOf(p.content) = <<>>
      BY <1>2, <2>1
    <3> QED
      BY <2>1, <3>1
  <2>2. CASE combined # <<>>
    <3>1. Str(combined) # None
      BY <1>3, NoneAssumption, StrType
    <3> QED
      BY <2>2, <3>1 DEF StringOf, Str
  <2> QED
    BY <2>1, <2>2
<1>7. MergeAssistants(p, q) = [[p EXCEPT !.content = c] EXCEPT !.tool_calls = calls]
  BY DEF MergeAssistants
<1> DEFINE r == [p EXCEPT !.content = c]
<1> HIDE DEF combined, c, calls
<1>8. r \in OpenAiSet /\ r.role = p.role /\ r.content = c
  BY <1>4, WithContent
<1>8a. MergeAssistants(p, q) = [r EXCEPT !.tool_calls = calls]
  BY <1>7
<1> HIDE DEF r
<1>9. /\ MergeAssistants(p, q) \in OpenAiSet
      /\ MergeAssistants(p, q).role = "assistant"
      /\ MergeAssistants(p, q).content = c
      /\ MergeAssistants(p, q).tool_calls = calls
  <2>1. calls \in {None} \cup Seq(CallSet)
    BY <1>5
  <2>2. LET w == [r EXCEPT !.tool_calls = calls]
        IN  w \in OpenAiSet /\ w.role = r.role /\ w.content = r.content /\ w.tool_calls = calls
    BY <1>8, <2>1, WithCalls
  <2> QED
    BY <1>8, <1>8a, <2>2
<1> QED
  BY <1>4, <1>5, <1>5a, <1>6, <1>9 DEF WellFormed, HasCalls, combined

(* Merging keeps the list well formed and its neighbours apart.            *)
LEMMA MergeOpenAiKeeps ==
  ASSUME NEW s, Merged(s), NEW msg \in OpenAiSet, WellFormed(msg)
  PROVE  Merged(MergeOpenAi(s, msg))
<1>0. s \in Seq(OpenAiSet) /\ Len(s) \in Nat
  BY DEF Merged
<1>1. CASE s # <<>> /\ CanMerge(Last(s), msg)
  <2> DEFINE p == Last(s)
             e == IF msg.role = "user" THEN MergeUsers(p, msg) ELSE MergeAssistants(p, msg)
  <2>1. Len(s) > 0 /\ p = s[Len(s)] /\ p \in OpenAiSet
    BY <1>0, <1>1 DEF Last
  <2>2. WellFormed(p)
    BY <1>0, <2>1 DEF Merged
  <2>3. MergeOpenAi(s, msg) = ReplaceLast(s, e)
    BY <1>1 DEF MergeOpenAi
  <2>4. p.role = msg.role
    BY <1>1 DEF CanMerge
  <2> HIDE DEF p
  <2>5. e \in OpenAiSet /\ WellFormed(e) /\ e.role = p.role /\ (HasCalls(e) <=> HasCalls(p))
    <3>1. CASE msg.role = "user"
      <4>1. e = MergeUsers(p, msg)
        BY <3>1
      <4>2. e \in OpenAiSet /\ WellFormed(e) /\ e.role = "user"
        BY <2>1, <2>2, <2>4, <3>1, <4>1, MergeUsersType
      <4>3. ~HasCalls(e) /\ ~HasCalls(p)
        BY <2>2, <2>4, <3>1, <4>2 DEF WellFormed
      <4> QED
        BY <2>4, <3>1, <4>2, <4>3
    <3>2. CASE msg.role # "user"
      <4>1. e = MergeAssistants(p, msg)
        BY <3>2
      <4>2. msg.role = "assistant" /\ (HasCalls(p) <=> HasCalls(msg))
        BY <1>1, <3>2 DEF CanMerge, p
      <4> QED
        BY <2>1, <2>2, <2>4, <4>1, <4>2, MergeAssistantsType
    <3> QED
      BY <3>1, <3>2
  <2> HIDE DEF e
  <2>6. /\ ReplaceLast(s, e) \in Seq(OpenAiSet)
        /\ Len(ReplaceLast(s, e)) = Len(s)
        /\ ReplaceLast(s, e)[Len(s)] = e
        /\ \A n \in 1 .. Len(s) - 1 : ReplaceLast(s, e)[n] = s[n]
    BY <1>0, <1>1, <2>5, ReplaceLastType
  <2> DEFINE t == ReplaceLast(s, e)
  <2>7. t \in Seq(OpenAiSet) /\ Len(t) = Len(s) /\ t[Len(s)] = e
    BY <2>6
  <2>8. \A n \in 1 .. Len(s) - 1 : t[n] = s[n]
    BY <2>6
  <2> HIDE DEF t
  <2>9. ASSUME NEW n \in 1 .. Len(t)
        PROVE  WellFormed(t[n])
    <3>1. CASE n = Len(s)
      BY <2>5, <2>7, <3>1
    <3>2. CASE n # Len(s)
      <4>1. n \in 1 .. Len(s) - 1 /\ n \in 1 .. Len(s)
        BY <1>0, <2>7, <3>2
      <4> QED
        BY <2>8, <4>1 DEF Merged
    <3> QED
      BY <3>1, <3>2
  <2>10. ASSUME NEW n \in 1 .. Len(t) - 1
         PROVE  Apart(t[n], t[n + 1])
    <3>1. n \in 1 .. Len(s) - 1 /\ t[n] = s[n] /\ Apart(s[n], s[n + 1])
      BY <2>7, <2>8 DEF Merged
    <3>2. CASE n + 1 = Len(s)
      <4>1. t[n + 1] = e /\ s[n + 1] = p
        BY <2>1, <2>7, <3>2
      <4> QED
        BY <2>5, <3>1, <4>1 DEF Apart
    <3>3. CASE n + 1 # Len(s)
      <4>1. n + 1 \in 1 .. Len(s) - 1
        BY <1>0, <3>1, <3>3
      <4>2. t[n + 1] = s[n + 1]
        BY <2>8, <4>1
      <4> QED
        BY <3>1, <4>2
    <3> QED
      BY <3>2, <3>3
  <2> QED
    BY <2>3, <2>7, <2>9, <2>10 DEF Merged, t
<1>2. CASE ~(s # <<>> /\ CanMerge(Last(s), msg))
  <2> DEFINE t == Append(s, msg)
  <2>1. MergeOpenAi(s, msg) = t
    BY <1>2 DEF MergeOpenAi
  <2>2. /\ t \in Seq(OpenAiSet) /\ Len(t) = Len(s) + 1 /\ t[Len(s) + 1] = msg
        /\ \A n \in 1 .. Len(s) : t[n] = s[n]
    BY <1>0
  <2> HIDE DEF t
  <2>3. ASSUME NEW n \in 1 .. Len(t)
        PROVE  WellFormed(t[n])
    <3>1. CASE n = Len(s) + 1
      BY <2>2, <3>1
    <3>2. CASE n # Len(s) + 1
      <4>1. n \in 1 .. Len(s)
        BY <1>0, <2>2, <3>2
      <4> QED
        BY <2>2, <4>1 DEF Merged
    <3> QED
      BY <3>1, <3>2
  <2>4. ASSUME NEW n \in 1 .. Len(t) - 1
        PROVE  Apart(t[n], t[n + 1])
    <3>1. n \in 1 .. Len(s) /\ t[n] = s[n]
      BY <1>0, <2>2
    <3>2. CASE n = Len(s)
      <4>1. t[n] = Last(s) /\ t[n + 1] = msg /\ s # <<>>
        BY <1>0, <2>2, <3>1, <3>2 DEF Last
      <4>2. ~CanMerge(t[n], msg)
        BY <1>2, <4>1
      <4>3. t[n] \in OpenAiSet
        BY <1>0, <3>1
      <4>4. t[n].role \in {"system", "user", "assistant", "tool"}
        BY <4>3 DEF OpenAiSet
      <4> QED
        BY <4>1, <4>2, <4>4 DEF CanMerge, Apart
    <3>3. CASE n # Len(s)
      <4>1. n \in 1 .. Len(s) - 1 /\ n + 1 \in 1 .. Len(s)
        BY <1>0, <3>1, <3>3
      <4>2. t[n + 1] = s[n + 1]
        BY <2>2, <4>1
      <4> QED
        BY <3>1, <4>1, <4>2 DEF Merged
    <3> QED
      BY <3>2, <3>3
  <2> QED
    BY <2>1, <2>2, <2>3, <2>4 DEF Merged
<1> QED
  BY <1>1, <1>2

(* The same of turns.                                                      *)
LEMMA MergeAnthropicKeeps ==
  ASSUME NEW s, MergedTurns(s), NEW msg \in TurnSet
  PROVE  MergedTurns(MergeAnthropic(s, msg))
<1>0. s \in Seq(TurnSet) /\ Len(s) \in Nat
  BY DEF MergedTurns
<1>1. CASE s # <<>> /\ Last(s).role = msg.role
  <2> DEFINE p == Last(s)
             e == [p EXCEPT !.content = @ \o msg.content]
             t == ReplaceLast(s, e)
  <2>1. Len(s) > 0 /\ p = s[Len(s)] /\ p \in TurnSet
    BY <1>0, <1>1 DEF Last
  <2>2. MergeAnthropic(s, msg) = t
    BY <1>1 DEF MergeAnthropic
  <2> HIDE DEF p
  <2>3. e \in TurnSet /\ e.role = p.role
    <3>1. p.content \in Seq(BlockSet) /\ msg.content \in Seq(BlockSet)
      BY <2>1 DEF TurnSet
    <3>2. p.content \o msg.content \in Seq(BlockSet)
      BY <3>1
    <3> QED
      BY <2>1, <3>2 DEF TurnSet
  <2> HIDE DEF e
  <2>4. /\ t \in Seq(TurnSet) /\ Len(t) = Len(s) /\ t[Len(s)] = e
        /\ \A n \in 1 .. Len(s) - 1 : t[n] = s[n]
    BY <1>0, <1>1, <2>3, ReplaceLastType
  <2> HIDE DEF t
  <2>5. ASSUME NEW n \in 1 .. Len(t) - 1
        PROVE  t[n].role # t[n + 1].role
    <3>1. n \in 1 .. Len(s) - 1 /\ t[n] = s[n] /\ s[n].role # s[n + 1].role
      BY <2>4 DEF MergedTurns
    <3>2. CASE n + 1 = Len(s)
      <4>1. t[n + 1] = e /\ s[n + 1] = p
        BY <2>1, <2>4, <3>2
      <4> QED
        BY <2>3, <3>1, <4>1
    <3>3. CASE n + 1 # Len(s)
      <4>1. n + 1 \in 1 .. Len(s) - 1
        BY <1>0, <3>1, <3>3
      <4> QED
        BY <2>4, <3>1, <4>1
    <3> QED
      BY <3>2, <3>3
  <2> QED
    BY <2>2, <2>4, <2>5 DEF MergedTurns
<1>2. CASE ~(s # <<>> /\ Last(s).role = msg.role)
  <2> DEFINE t == Append(s, msg)
  <2>1. MergeAnthropic(s, msg) = t
    BY <1>2 DEF MergeAnthropic
  <2>2. /\ t \in Seq(TurnSet) /\ Len(t) = Len(s) + 1 /\ t[Len(s) + 1] = msg
        /\ \A n \in 1 .. Len(s) : t[n] = s[n]
    BY <1>0
  <2> HIDE DEF t
  <2>3. ASSUME NEW n \in 1 .. Len(t) - 1
        PROVE  t[n].role # t[n + 1].role
    <3>1. n \in 1 .. Len(s) /\ t[n] = s[n]
      BY <1>0, <2>2
    <3>2. CASE n = Len(s)
      <4>1. t[n] = Last(s) /\ t[n + 1] = msg /\ s # <<>>
        BY <1>0, <2>2, <3>1, <3>2 DEF Last
      <4> QED
        BY <1>2, <4>1
    <3>3. CASE n # Len(s)
      <4>1. n \in 1 .. Len(s) - 1 /\ n + 1 \in 1 .. Len(s)
        BY <1>0, <3>1, <3>3
      <4> QED
        BY <2>2, <3>1, <4>1 DEF MergedTurns
    <3> QED
      BY <3>2, <3>3
  <2> QED
    BY <2>1, <2>2, <2>3 DEF MergedTurns
<1> QED
  BY <1>1, <1>2

-----------------------------------------------------------------------------
(* One message more. *)

(* Any message more keeps the invariant.                                   *)
LEMMA TakeKeeps ==
  ASSUME ConversionInv, NEW m \in MessageSet, Take(m)
  PROVE  ConversionInv'
<1>1. history' \in Seq(MessageSet)
  BY DEF ConversionInv, Take
<1>2. Merged(openai')
  <2> DEFINE msgs == OpenAiMessage(m)
  <2>1. CASE msgs = <<>>
    BY <2>1 DEF Take, ConversionInv
  <2>2. CASE msgs # <<>>
    <3>1. openai' = MergeOpenAi(openai, msgs[1])
      BY <2>2 DEF Take
    <3>2. msgs[1] \in OpenAiSet /\ WellFormed(msgs[1])
      BY <2>2, OpenAiMessageType
    <3> HIDE DEF msgs
    <3> QED
      BY <3>1, <3>2, MergeOpenAiKeeps DEF ConversionInv
  <2> QED
    BY <2>1, <2>2
<1>3. MergedTurns(anthropic')
  <2> DEFINE msgs == AnthropicMessage(m)
  <2>1. CASE msgs = <<>>
    BY <2>1 DEF Take, ConversionInv
  <2>2. CASE msgs # <<>>
    <3>1. anthropic' = MergeAnthropic(anthropic, msgs[1])
      BY <2>2 DEF Take
    <3>2. msgs[1] \in TurnSet
      BY <2>2, AnthropicMessageType
    <3> HIDE DEF msgs
    <3> QED
      BY <3>1, <3>2, MergeAnthropicKeeps DEF ConversionInv
  <2> QED
    BY <2>1, <2>2
<1> QED
  BY <1>1, <1>2, <1>3 DEF ConversionInv

(* The images of a message of the model.                                   *)
LEMMA ImagesType ==
  ASSUME history \in Seq(MessageSet), NEW count \in Nat
  PROVE  Images(count) \in Seq(ImageSet)
<1>1. Len(history) + 1 \in Nat
  OBVIOUS
<1>2. ASSUME NEW k \in 1 .. count
      PROVE  Image(<<Number, k>>, IF k = 1 THEN "url" ELSE "base64",
                   IF k = 1 THEN None ELSE "low") \in ImageSet
  BY <1>1 DEF Image, ImageSet, Number
<1>3. Images(count) \in [1 .. count -> ImageSet]
  BY <1>2 DEF Images
<1> QED
  BY <1>3

(* Every step takes one message.                                           *)
LEMMA NextTakes ==
  ASSUME ConversionInv, Next
  PROVE  \E m \in MessageSet : Take(m)
<1>0. history \in Seq(MessageSet) /\ Number \in Nat
  BY DEF ConversionInv, Number
<1>0a. SomeText \in TextSet /\ <<>> \in TextSet
  BY <1>0 DEF SomeText, TextSet
<1>1. CASE TakeSystem
  <2>1. PICK text \in {<<>>, SomeText} : Take(System(text))
    BY <1>1 DEF TakeSystem
  <2>2. System(text) \in MessageSet
    BY <1>0a DEF System, SystemSet, MessageSet
  <2> QED
    BY <2>1, <2>2
<1>2. CASE TakeUser
  <2>1. PICK text \in {<<>>, SomeText}, count \in ImageCounts : Take(User(text, Images(count)))
    BY <1>2 DEF TakeUser
  <2>2. Images(count) \in Seq(ImageSet)
    BY <1>0, ConversionAssumption, ImagesType
  <2>3. User(text, Images(count)) \in MessageSet /\ User(text, Images(count)).kind = "User"
    BY <1>0a, <2>2 DEF User, UserSet, MessageSet
  <2> QED
    BY <2>1, <2>3
<1>3. CASE TakeAssistant
  <2>1. PICK shape \in AssistantShape :
          Take(Assistant(
            IF shape.text = "some" THEN SomeText ELSE IF shape.text = "empty" THEN <<>> ELSE None,
            IF shape.reasons THEN SomeText ELSE None,
            IF shape.signed THEN Number ELSE None,
            IF shape.calls = None THEN None
            ELSE [k \in DOMAIN shape.calls |-> Call(<<Number, k>>, shape.calls[k])]))
    BY <1>3 DEF TakeAssistant
  <2> DEFINE text == IF shape.text = "some" THEN SomeText
                     ELSE IF shape.text = "empty" THEN <<>> ELSE None
             reasoning == IF shape.reasons THEN SomeText ELSE None
             signature == IF shape.signed THEN Number ELSE None
             calls == IF shape.calls = None THEN None
                      ELSE [k \in DOMAIN shape.calls |-> Call(<<Number, k>>, shape.calls[k])]
             m == Assistant(text, reasoning, signature, calls)
  <2>2. text \in {None, <<>>, SomeText} /\ reasoning \in TextSet \cup {None} /\ signature \in Nat \cup {None}
    BY <1>0, <1>0a
  <2>3. calls \in Seq(CallSet) \cup {None}
    <3>1. CASE shape.calls = None
      BY <3>1
    <3>2. CASE shape.calls # None
      <4>1. shape.calls \in Seq({"object", "broken"})
        BY <3>2, ConversionAssumption
      <4>2. Len(shape.calls) \in Nat /\ DOMAIN shape.calls = 1 .. Len(shape.calls)
        BY <4>1
      <4>3. ASSUME NEW k \in 1 .. Len(shape.calls)
            PROVE  Call(<<Number, k>>, shape.calls[k]) \in CallSet
        <5>1. shape.calls[k] \in {"object", "broken"} /\ k \in Nat
          BY <4>1, <4>2, <4>3
        <5> QED
          BY <1>0, <5>1 DEF Call, CallSet
      <4>4. calls = [k \in 1 .. Len(shape.calls) |-> Call(<<Number, k>>, shape.calls[k])]
        BY <3>2, <4>2
      <4>5. calls \in [1 .. Len(shape.calls) -> CallSet]
        BY <4>3, <4>4
      <4> QED
        BY <4>2, <4>5
    <3> QED
      BY <3>1, <3>2
  <2>4. Take(m)
    BY <2>1
  <2> HIDE DEF text, reasoning, signature, calls
  <2>5. m \in AssistantSet /\ m.text = text
    BY <1>0a, <2>2, <2>3 DEF Assistant, AssistantSet
  <2> HIDE DEF m
  <2> QED
    BY <2>2, <2>4, <2>5 DEF MessageSet
<1>4. CASE TakeTool
  <2>1. PICK id \in CallIds, count \in ImageCounts : Take(Tool(id, SomeText, Images(count)))
    BY <1>4 DEF TakeTool
  <2>2. id \in Nat \X Nat
    <3>1. PICK m \in ToSet(history) : \E c \in ToSet(CallsOf(m)) : id = c.id
      BY <2>1 DEF CallIds
    <3>2. m \in MessageSet
      BY <1>0, <3>1 DEF ToSet
    <3>3. CallsOf(m) \in Seq(CallSet)
      <4>1. CASE m.kind = "Assistant" /\ m.calls # None
        <5>1. m \in AssistantSet
          BY <3>2, <4>1, KindsApart DEF MessageSet
        <5> QED
          BY <4>1, <5>1 DEF CallsOf, AssistantSet
      <4>2. CASE ~(m.kind = "Assistant" /\ m.calls # None)
        BY <4>2 DEF CallsOf
      <4> QED
        BY <4>1, <4>2
    <3>4. \A c \in ToSet(CallsOf(m)) : c \in CallSet
      BY <3>3 DEF ToSet
    <3> QED
      BY <3>1, <3>4 DEF CallSet
  <2>3. Images(count) \in Seq(ImageSet)
    BY <1>0, ConversionAssumption, ImagesType
  <2> DEFINE m == Tool(id, SomeText, Images(count))
  <2>4. m \in MessageSet /\ m.kind = "Tool"
    BY <1>0a, <2>2, <2>3 DEF Tool, ToolSet, MessageSet
  <2>5. Take(m)
    BY <2>1
  <2> HIDE DEF m
  <2> QED
    BY <2>4, <2>5
<1>5. CASE TakeCustom
  <2>1. Custom \in MessageSet /\ Custom.kind = "Custom"
    BY KindsApart DEF MessageSet
  <2> QED
    BY <1>5, <2>1 DEF TakeCustom
<1> QED
  BY <1>1, <1>2, <1>3, <1>4, <1>5 DEF Next

(* The invariant holds of every history.                                   *)
THEOREM Invariance == Spec => []ConversionInv
<1>1. Init => ConversionInv
  BY DEF Init, ConversionInv, Merged, MergedTurns
<1>2. ConversionInv /\ [Next]_vars => ConversionInv'
  <2>1. ASSUME ConversionInv, Next
        PROVE  ConversionInv'
    <3>1. PICK m \in MessageSet : Take(m)
      BY <2>1, NextTakes
    <3> QED
      BY <2>1, <3>1, TakeKeeps
  <2>2. ASSUME ConversionInv, UNCHANGED vars
        PROVE  ConversionInv'
    BY <2>2 DEF vars, ConversionInv
  <2> QED
    BY <2>1, <2>2
<1> QED
  BY <1>1, <1>2, PTL DEF Spec

(* After any history no two turns of one role stand side by side in the    *)
(* Anthropic request, nor in the OpenAI request two of the user's, or two  *)
(* of the assistant's that both have calls or both have none: the merging  *)
(* of convert_messages leaves nothing to merge.                            *)
THEOREM Alternation == Spec => []TurnsAlternate
<1>1. ConversionInv => AnthropicTakesTurns
  <2> SUFFICES ASSUME ConversionInv, NEW n \in 1 .. Len(anthropic) - 1
               PROVE  anthropic[n].role # anthropic[n + 1].role
    BY DEF AnthropicTakesTurns, Neighbours
  <2> QED
    BY DEF ConversionInv, MergedTurns
<1>2. ConversionInv => OpenAiTakesTurns
  <2> SUFFICES ASSUME ConversionInv, NEW n \in 1 .. Len(openai) - 1,
                      openai[n].role = openai[n + 1].role
               PROVE  \/ openai[n].role \in {"system", "tool"}
                      \/ openai[n].role = "assistant" /\ HasCalls(openai[n]) # HasCalls(openai[n + 1])
    BY DEF OpenAiTakesTurns, Neighbours
  <2>1. Apart(openai[n], openai[n + 1])
    BY DEF ConversionInv, Merged
  <2> QED
    BY <2>1 DEF Apart, HasCalls
<1> QED
  BY <1>1, <1>2, Invariance, PTL DEF TurnsAlternate

-----------------------------------------------------------------------------
(* F gives what a message of the OpenAI request says, G what a message of  *)
(* the history does: converting and merging leave it as it was.            *)
JoinOf(p, msg) == IF msg.role = "user" THEN MergeUsers(p, msg) ELSE MergeAssistants(p, msg)

Joins(F) ==
  \A p, msg \in OpenAiSet :
    WellFormed(p) /\ WellFormed(msg) /\ CanMerge(p, msg) => F[JoinOf(p, msg)] = F[p] \o F[msg]

Converts(F, G) ==
  \A m \in MessageSet :
    G[m] = IF OpenAiMessage(m) = <<>> THEN <<>> ELSE F[OpenAiMessage(m)[1]]

(* Two messages that can merge make one of the request's messages.         *)
LEMMA JoinOfType ==
  ASSUME NEW p \in OpenAiSet, NEW msg \in OpenAiSet, WellFormed(p), WellFormed(msg), CanMerge(p, msg)
  PROVE  JoinOf(p, msg) \in OpenAiSet
<1>1. p.role = msg.role
  BY DEF CanMerge
<1>2. CASE msg.role = "user"
  BY <1>1, <1>2, MergeUsersType DEF JoinOf
<1>3. CASE msg.role # "user"
  BY <1>1, <1>3, MergeAssistantsType DEF JoinOf, CanMerge
<1> QED
  BY <1>2, <1>3

(* Merging a message into a request adds what it says at the end, whether  *)
(* it becomes a message of its own or part of the last one.                *)
LEMMA MergeOpenAiSays ==
  ASSUME NEW s, Merged(s), NEW msg \in OpenAiSet, WellFormed(msg),
         NEW T, NEW F \in [OpenAiSet -> Seq(T)], Joins(F)
  PROVE  FlatImage(F, MergeOpenAi(s, msg)) = FlatImage(F, s) \o F[msg]
<1>0. s \in Seq(OpenAiSet) /\ Len(s) \in Nat /\ F[msg] \in Seq(T)
  BY DEF Merged
<1>1. CASE s # <<>> /\ CanMerge(Last(s), msg)
  <2> DEFINE p == Last(s)
             e == JoinOf(p, msg)
             x == F[msg]
  <2>1. Len(s) > 0 /\ p = s[Len(s)] /\ p \in OpenAiSet /\ Len(s) \in 1 .. Len(s)
    BY <1>0, <1>1 DEF Last
  <2>2. WellFormed(p) /\ CanMerge(p, msg)
    BY <1>1, <2>1 DEF Merged
  <2>3. MergeOpenAi(s, msg) = ReplaceAt(s, Len(s), e)
    BY <1>1 DEF MergeOpenAi, JoinOf, ReplaceLast, ReplaceAt
  <2> HIDE DEF p
  <2>4. e \in OpenAiSet /\ F[e] = F[p] \o x
    BY <2>1, <2>2, JoinOfType DEF Joins
  <2> HIDE DEF e, x
  <2>5. s # <<>> /\ MakesMore(F, Last(s), e, x) /\ x \in Seq(T)
    BY <1>0, <1>1, <2>1, <2>4 DEF x, p, MakesMore
  <2>6. FlatImage(F, ReplaceAt(s, Len(s), e)) = FlatImage(F, s) \o x
    BY <1>0, <2>4, <2>5, FlatImageLonger, SMTT(40)
  <2> QED
    BY <2>3, <2>6 DEF x
<1>2. CASE ~(s # <<>> /\ CanMerge(Last(s), msg))
  <2>1. MergeOpenAi(s, msg) = Append(s, msg)
    BY <1>2 DEF MergeOpenAi
  <2> QED
    BY <1>0, <2>1, FlatImageAppend
<1> QED
  BY <1>1, <1>2

(* One message more says in the request what it says in the history.       *)
LEMMA OpenAiTakesAll ==
  ASSUME ConversionInv, NEW m \in MessageSet, Take(m),
         NEW T, NEW F \in [OpenAiSet -> Seq(T)], NEW G \in [MessageSet -> Seq(T)],
         Joins(F), Converts(F, G), FlatImage(F, openai) = FlatImage(G, history)
  PROVE  FlatImage(F, openai') = FlatImage(G, history')
<1>1. history \in Seq(MessageSet) /\ history' = Append(history, m)
  BY DEF ConversionInv, Take
<1>2. FlatImage(G, Append(history, m)) = FlatImage(G, history) \o G[m]
  BY <1>1, FlatImageAppend
<1> DEFINE msgs == OpenAiMessage(m)
<1>3. CASE msgs = <<>>
  <2>1. openai' = openai /\ G[m] = <<>>
    BY <1>3 DEF Take, Converts
  <2>2. FlatImage(G, history) \in Seq(T)
    BY <1>1, FlatImageType
  <2>3. FlatImage(G, history) \o <<>> = FlatImage(G, history)
    BY <2>2
  <2> QED
    BY <1>1, <1>2, <2>1, <2>3
<1>4. CASE msgs # <<>>
  <2>1. openai' = MergeOpenAi(openai, msgs[1]) /\ G[m] = F[msgs[1]]
    BY <1>4 DEF Take, Converts
  <2>2. msgs[1] \in OpenAiSet /\ WellFormed(msgs[1])
    BY <1>4, OpenAiMessageType
  <2>3. Merged(openai)
    BY DEF ConversionInv
  <2> DEFINE msg == msgs[1]
  <2>4. msg \in OpenAiSet /\ WellFormed(msg)
    BY <2>2
  <2> HIDE DEF msg
  <2>5. FlatImage(F, MergeOpenAi(openai, msg)) = FlatImage(F, openai) \o F[msg]
    BY <2>3, <2>4, MergeOpenAiSays
  <2> QED
    BY <1>1, <1>2, <2>1, <2>5 DEF msg
<1> QED
  BY <1>3, <1>4

JoinsTurns(F) ==
  \A p, msg \in TurnSet :
    p.role = msg.role => F[[p EXCEPT !.content = @ \o msg.content]] = F[p] \o F[msg]

ConvertsToTurns(F, G) ==
  \A m \in MessageSet :
    G[m] = IF AnthropicMessage(m) = <<>> THEN <<>> ELSE F[AnthropicMessage(m)[1]]

(* A turn with another's blocks behind its own is a turn of its role.      *)
LEMMA LongerTurn ==
  ASSUME NEW p \in TurnSet, NEW msg \in TurnSet
  PROVE  LET e == [p EXCEPT !.content = @ \o msg.content]
         IN  e \in TurnSet /\ e.role = p.role /\ e.content = p.content \o msg.content
<1>1. p.content \in Seq(BlockSet) /\ msg.content \in Seq(BlockSet)
  BY DEF TurnSet
<1>2. p.content \o msg.content \in Seq(BlockSet)
  BY <1>1
<1> QED
  BY <1>2 DEF TurnSet

(* The same of a turn and the turns before.                                *)
LEMMA MergeAnthropicSays ==
  ASSUME NEW s, MergedTurns(s), NEW msg \in TurnSet,
         NEW T, NEW F \in [TurnSet -> Seq(T)], JoinsTurns(F)
  PROVE  FlatImage(F, MergeAnthropic(s, msg)) = FlatImage(F, s) \o F[msg]
<1>0. s \in Seq(TurnSet) /\ Len(s) \in Nat /\ F[msg] \in Seq(T)
  BY DEF MergedTurns
<1>1. CASE s # <<>> /\ Last(s).role = msg.role
  <2> DEFINE p == Last(s)
             e == [p EXCEPT !.content = @ \o msg.content]
             x == F[msg]
  <2>1. Len(s) > 0 /\ p = s[Len(s)] /\ p \in TurnSet
    BY <1>0, <1>1 DEF Last
  <2>3. MergeAnthropic(s, msg) = ReplaceAt(s, Len(s), e)
    BY <1>1 DEF MergeAnthropic, ReplaceLast, ReplaceAt
  <2>2. p.role = msg.role
    BY <1>1
  <2> HIDE DEF p
  <2>4. e \in TurnSet /\ F[e] = F[p] \o x
    BY <2>1, <2>2, LongerTurn DEF JoinsTurns
  <2> HIDE DEF e, x
  <2>5. s # <<>> /\ MakesMore(F, Last(s), e, x) /\ x \in Seq(T)
    BY <1>0, <1>1, <2>1, <2>4 DEF x, p, MakesMore
  <2>6. FlatImage(F, ReplaceAt(s, Len(s), e)) = FlatImage(F, s) \o x
    BY <1>0, <2>4, <2>5, FlatImageLonger, SMTT(40)
  <2> QED
    BY <2>3, <2>6 DEF x
<1>2. CASE ~(s # <<>> /\ Last(s).role = msg.role)
  <2>1. MergeAnthropic(s, msg) = Append(s, msg)
    BY <1>2 DEF MergeAnthropic
  <2> QED
    BY <1>0, <2>1, FlatImageAppend
<1> QED
  BY <1>1, <1>2

(* One message more says in the turns what it says in the history.         *)
LEMMA AnthropicTakesAll ==
  ASSUME ConversionInv, NEW m \in MessageSet, Take(m),
         NEW T, NEW F \in [TurnSet -> Seq(T)], NEW G \in [MessageSet -> Seq(T)],
         JoinsTurns(F), ConvertsToTurns(F, G), FlatImage(F, anthropic) = FlatImage(G, history)
  PROVE  FlatImage(F, anthropic') = FlatImage(G, history')
<1>1. history \in Seq(MessageSet) /\ history' = Append(history, m)
  BY DEF ConversionInv, Take
<1>2. FlatImage(G, Append(history, m)) = FlatImage(G, history) \o G[m]
  BY <1>1, FlatImageAppend
<1> DEFINE msgs == AnthropicMessage(m)
<1>3. CASE msgs = <<>>
  <2>1. anthropic' = anthropic /\ G[m] = <<>>
    BY <1>3 DEF Take, ConvertsToTurns
  <2>2. FlatImage(G, history) \in Seq(T)
    BY <1>1, FlatImageType
  <2>3. FlatImage(G, history) \o <<>> = FlatImage(G, history)
    BY <2>2
  <2> QED
    BY <1>1, <1>2, <2>1, <2>3
<1>4. CASE msgs # <<>>
  <2>1. anthropic' = MergeAnthropic(anthropic, msgs[1]) /\ G[m] = F[msgs[1]]
    BY <1>4 DEF Take, ConvertsToTurns
  <2>3. MergedTurns(anthropic)
    BY DEF ConversionInv
  <2> DEFINE msg == msgs[1]
  <2>4. msg \in TurnSet
    BY <1>4, AnthropicMessageType
  <2> HIDE DEF msg
  <2>5. FlatImage(F, MergeAnthropic(anthropic, msg)) = FlatImage(F, anthropic) \o F[msg]
    BY <2>3, <2>4, MergeAnthropicSays
  <2> QED
    BY <1>1, <1>2, <2>1, <2>5 DEF msg
<1> QED
  BY <1>3, <1>4

-----------------------------------------------------------------------------
(* What a content says. *)

PartTexts == [p \in PartSet |-> PartText(p)]
PartImages == [p \in PartSet |-> PartImage(p)]

(* What a part says is a text, and images by their ids.                    *)
LEMMA PartFunctions ==
  /\ PartTexts \in [PartSet -> Seq(Nat)]
  /\ PartImages \in [PartSet -> Seq(Nat \X Nat)]
<1>1. ASSUME NEW p \in TextPartSet
      PROVE  PartText(p) \in Seq(Nat) /\ PartImage(p) = <<>>
  BY DEF TextPartSet, TextSet, PartText, PartImage
<1>2. ASSUME NEW p \in ImagePartSet
      PROVE  PartText(p) = <<>> /\ PartImage(p) \in Seq(Nat \X Nat)
  BY DEF ImagePartSet, PartText, PartImage
<1>3. ASSUME NEW p \in PartSet
      PROVE  PartText(p) \in Seq(Nat) /\ PartImage(p) \in Seq(Nat \X Nat)
  <2>1. <<>> \in Seq(Nat) /\ <<>> \in Seq(Nat \X Nat)
    OBVIOUS
  <2>2. CASE p \in TextPartSet
    BY <1>1, <2>1, <2>2
  <2>3. CASE p \in ImagePartSet
    BY <1>2, <2>1, <2>3
  <2> QED
    BY <2>2, <2>3 DEF PartSet
<1> QED
  BY <1>3 DEF PartTexts, PartImages

TextsIn(c) == IF c = None THEN <<>> ELSE IF c.tag = "parts" THEN FlatImage(PartTexts, c.parts) ELSE c.text
ImagesIn(c) == IF c # None /\ c.tag = "parts" THEN FlatImage(PartImages, c.parts) ELSE <<>>

(* What a message says is what its content says.                           *)
LEMMA ContentSays ==
  ASSUME NEW msg \in OpenAiSet
  PROVE  OpenAiTexts(msg) = TextsIn(msg.content) /\ OpenAiImages(msg) = ImagesIn(msg.content)
<1> DEFINE c == msg.content
<1>1. c \in {None} \cup StringSet \cup PartsSet
  BY DEF OpenAiSet
<1> HIDE DEF c
<1>2. CASE c # None /\ c.tag = "parts"
  <2>1. c.parts \in Seq(PartSet)
    BY <1>1, <1>2 DEF StringSet, PartsSet
  <2> DEFINE s == c.parts
  <2>2. s \in Seq(PartSet)
    BY <2>1
  <2> HIDE DEF s
  <2>3. FlatMap(PartText, s) = FlatImage(PartTexts, s)
    <3>1. [n \in DOMAIN s |-> PartText(s[n])] = Mapped(PartTexts, s)
      BY <2>2 DEF Mapped, PartTexts
    <3> QED
      BY <3>1 DEF FlatMap, FlatImage
  <2>4. FlatMap(PartImage, s) = FlatImage(PartImages, s)
    <3>1. [n \in DOMAIN s |-> PartImage(s[n])] = Mapped(PartImages, s)
      BY <2>2 DEF Mapped, PartImages
    <3> QED
      BY <3>1 DEF FlatMap, FlatImage
  <2>5. OpenAiTexts(msg) = FlatMap(PartText, s) /\ OpenAiImages(msg) = FlatMap(PartImage, s)
    BY <1>2 DEF OpenAiTexts, OpenAiImages, IsParts, c, s
  <2> QED
    BY <1>2, <2>3, <2>4, <2>5 DEF TextsIn, ImagesIn, c, s
<1>3. CASE ~(c # None /\ c.tag = "parts")
  BY <1>3 DEF OpenAiTexts, OpenAiImages, IsParts, TextsIn, ImagesIn, c
<1> QED
  BY <1>2, <1>3

(* A content made parts says the same.                                     *)
LEMMA PartsSay ==
  ASSUME NEW c \in StringSet \cup PartsSet
  PROVE  /\ FlatImage(PartTexts, PartsOf(c)) = TextsIn(c)
         /\ FlatImage(PartImages, PartsOf(c)) = ImagesIn(c)
         /\ TextsIn(c) \in Seq(Nat) /\ ImagesIn(c) \in Seq(Nat \X Nat)
<1>0. c # None
  BY NoneAssumption
<1>1. CASE c \in StringSet
  <2>1. c.tag = "string" /\ c.text \in Seq(Nat)
    BY <1>1 DEF StringSet, TextSet
  <2>2. TextsIn(c) = c.text /\ ImagesIn(c) = <<>>
    BY <1>0, <2>1 DEF TextsIn, ImagesIn
  <2>3. CASE c.text = <<>>
    <3>1. PartsOf(c) = <<>>
      BY <2>1, <2>3 DEF PartsOf
    <3> QED
      BY <2>1, <2>2, <2>3, <3>1, FlatImageEmpty
  <2>4. CASE c.text # <<>>
    <3> DEFINE p == TextPart(c.text)
    <3>1. PartsOf(c) = <<p>>
      BY <2>1, <2>4 DEF PartsOf
    <3>2. p \in PartSet /\ PartTexts[p] = c.text /\ PartImages[p] = <<>>
      <4>1. p \in TextPartSet /\ p.type = "text" /\ p.text = c.text
        BY <2>1 DEF TextPart, TextPartSet, TextSet
      <4> HIDE DEF p
      <4> QED
        BY <4>1 DEF PartSet, PartTexts, PartImages, PartText, PartImage
    <3> HIDE DEF p
    <3>3. FlatImage(PartTexts, <<p>>) = PartTexts[p] /\ FlatImage(PartImages, <<p>>) = PartImages[p]
      BY <3>2, PartFunctions, FlatImageOne, ZenonT(40)
    <3> QED
      BY <2>1, <2>2, <3>1, <3>2, <3>3
  <2> QED
    BY <2>3, <2>4
<1>2. CASE c \in PartsSet
  <2>1. c.tag = "parts" /\ c.parts \in Seq(PartSet)
    BY <1>2 DEF PartsSet
  <2>2. PartsOf(c) = c.parts /\ TextsIn(c) = FlatImage(PartTexts, c.parts) /\ ImagesIn(c) = FlatImage(PartImages, c.parts)
    BY <1>0, <2>1 DEF PartsOf, TextsIn, ImagesIn
  <2> DEFINE s == c.parts
  <2>3. s \in Seq(PartSet)
    BY <2>1
  <2> HIDE DEF s
  <2>4. FlatImage(PartTexts, s) \in Seq(Nat)
    BY <2>3, PartFunctions, FlatImageType
  <2>5. FlatImage(PartImages, s) \in Seq(Nat \X Nat)
    BY <2>3, PartFunctions, FlatImageType
  <2> QED
    BY <2>2, <2>4, <2>5 DEF s
<1> QED
  BY <1>1, <1>2

(* Users' contents together say what either says.                          *)
LEMMA UsersSay ==
  ASSUME NEW p \in OpenAiSet, NEW q \in OpenAiSet,
         p.role = "user", q.role = "user", WellFormed(p), WellFormed(q)
  PROVE  /\ OpenAiTexts(MergeUsers(p, q)) = OpenAiTexts(p) \o OpenAiTexts(q)
         /\ OpenAiImages(MergeUsers(p, q)) = OpenAiImages(p) \o OpenAiImages(q)
<1> DEFINE a == p.content
           b == q.content
           c == MergeUsers(p, q).content
<1>1. a \in StringSet \cup PartsSet /\ b \in StringSet \cup PartsSet
  BY DEF WellFormed
<1>2. MergeUsers(p, q) \in OpenAiSet
  BY MergeUsersType
<1>3. c = IF "parts" \in {a.tag, b.tag} THEN Parts(PartsOf(a) \o PartsOf(b)) ELSE Str(a.text \o b.text)
  BY DEF MergeUsers, OpenAiSet
<1>4. /\ OpenAiTexts(MergeUsers(p, q)) = TextsIn(c) /\ OpenAiTexts(p) = TextsIn(a) /\ OpenAiTexts(q) = TextsIn(b)
      /\ OpenAiImages(MergeUsers(p, q)) = ImagesIn(c) /\ OpenAiImages(p) = ImagesIn(a) /\ OpenAiImages(q) = ImagesIn(b)
  BY <1>2, ContentSays
<1>5. c # None
  BY <1>2, MergeUsersType, NoneAssumption DEF WellFormed
<1> HIDE DEF a, b, c
<1>6. CASE "parts" \in {a.tag, b.tag}
  <2> DEFINE s == PartsOf(a)
             t == PartsOf(b)
  <2>1. s \in Seq(PartSet) /\ t \in Seq(PartSet)
    BY <1>1, PartsOfType
  <2>2. /\ FlatImage(PartTexts, s) = TextsIn(a) /\ FlatImage(PartImages, s) = ImagesIn(a)
        /\ FlatImage(PartTexts, t) = TextsIn(b) /\ FlatImage(PartImages, t) = ImagesIn(b)
    BY <1>1, PartsSay
  <2>3. TextsIn(c) = FlatImage(PartTexts, s \o t) /\ ImagesIn(c) = FlatImage(PartImages, s \o t)
    BY <1>3, <1>5, <1>6 DEF Parts, TextsIn, ImagesIn
  <2> HIDE DEF s, t
  <2>4. /\ FlatImage(PartTexts, s \o t) = FlatImage(PartTexts, s) \o FlatImage(PartTexts, t)
        /\ FlatImage(PartImages, s \o t) = FlatImage(PartImages, s) \o FlatImage(PartImages, t)
    <3>1. MakesBoth(PartTexts, s, t) /\ MakesBoth(PartImages, s, t)
      BY <2>1, PartFunctions, FlatImageConcat
    <3> QED
      BY <3>1 DEF MakesBoth
  <2> QED
    BY <1>4, <2>2, <2>3, <2>4
<1>7. CASE "parts" \notin {a.tag, b.tag}
  <2>1. a # None /\ b # None
    BY <1>1, NoneAssumption
  <2>2. TextsIn(a) = a.text /\ TextsIn(b) = b.text /\ ImagesIn(a) = <<>> /\ ImagesIn(b) = <<>>
    BY <1>7, <2>1 DEF TextsIn, ImagesIn
  <2>3. TextsIn(c) = a.text \o b.text /\ ImagesIn(c) = <<>>
    BY <1>3, <1>5, <1>7 DEF TextsIn, ImagesIn, Str
  <2>4. <<>> \o <<>> = <<>>
    OBVIOUS
  <2> QED
    BY <1>4, <2>2, <2>3, <2>4
<1> QED
  BY <1>6, <1>7

(* The assistant's content is a text alone.                                *)
LEMMA AssistantSays ==
  ASSUME NEW msg \in OpenAiSet, msg.role = "assistant", WellFormed(msg)
  PROVE  OpenAiTexts(msg) = StringOf(msg.content) /\ OpenAiImages(msg) = <<>>
<1>1. msg.content # None => msg.content.tag = "string"
  BY DEF WellFormed, StringSet
<1> QED
  BY <1>1 DEF OpenAiTexts, OpenAiImages, IsParts, StringOf

-----------------------------------------------------------------------------
(* What an OpenAI message and a message of the history say, as functions.  *)

TextsBy(role) == [msg \in OpenAiSet |-> IF msg.role = role THEN OpenAiTexts(msg) ELSE <<>>]
ImagesBy == [msg \in OpenAiSet |-> OpenAiImages(msg)]
CallsBy == [msg \in OpenAiSet |-> OpenAiCalls(msg)]
ResultsBy == [msg \in OpenAiSet |-> OpenAiResult(msg)]

TextsFrom(kind) ==
  [m \in MessageSet |-> IF m.kind = kind /\ Said(m.text) THEN m.text ELSE <<>>]
ImagesFrom == [m \in MessageSet |-> IF m.kind = "User" THEN ImageIds(m.images) ELSE <<>>]
CallsFrom == [m \in MessageSet |-> Ids(CallsOf(m))]
NotedFrom == [m \in MessageSet |-> IF m.kind = "Tool" THEN <<NotedResult(m.id, m.images)>> ELSE <<>>]

IdSet == Nat \X Nat
NotedSet == [id : {None} \cup IdSet, note : BOOLEAN]

(* The ids of calls are one for each, in their order.                      *)
LEMMA IdsType ==
  ASSUME NEW calls \in Seq(CallSet)
  PROVE  Ids(calls) \in Seq(IdSet) /\ Len(Ids(calls)) = Len(calls)
         /\ \A k \in 1 .. Len(calls) : Ids(calls)[k] = calls[k].id
<1>1. Len(calls) \in Nat /\ DOMAIN calls = 1 .. Len(calls)
  OBVIOUS
<1>2. \A k \in 1 .. Len(calls) : calls[k].id \in IdSet
  <2>1. \A k \in 1 .. Len(calls) : calls[k] \in CallSet
    OBVIOUS
  <2> QED
    BY <2>1 DEF CallSet, IdSet
<1>3. Ids(calls) \in [1 .. Len(calls) -> IdSet] /\ \A k \in 1 .. Len(calls) : Ids(calls)[k] = calls[k].id
  BY <1>1, <1>2 DEF Ids
<1> QED
  BY <1>1, <1>3, SeqOfPositions

(* The ids of calls put together are their ids put together.               *)
LEMMA IdsJoin ==
  ASSUME NEW a \in Seq(CallSet), NEW b \in Seq(CallSet)
  PROVE  Ids(a \o b) = Ids(a) \o Ids(b)
<1> DEFINE c == a \o b
           d == Ids(a) \o Ids(b)
<1>1. /\ c \in Seq(CallSet) /\ Len(a) \in Nat /\ Len(b) \in Nat /\ Len(c) = Len(a) + Len(b)
      /\ \A k \in 1 .. Len(c) : c[k] = IF k <= Len(a) THEN a[k] ELSE b[k - Len(a)]
  OBVIOUS
<1>2. /\ Ids(a) \in Seq(IdSet) /\ Len(Ids(a)) = Len(a) /\ \A k \in 1 .. Len(a) : Ids(a)[k] = a[k].id
      /\ Ids(b) \in Seq(IdSet) /\ Len(Ids(b)) = Len(b) /\ \A k \in 1 .. Len(b) : Ids(b)[k] = b[k].id
  BY IdsType
<1>3. /\ d \in Seq(IdSet) /\ Len(d) = Len(a) + Len(b)
      /\ \A k \in 1 .. Len(d) : d[k] = IF k <= Len(a) THEN Ids(a)[k] ELSE Ids(b)[k - Len(a)]
  <2> DEFINE p == Ids(a)
             q == Ids(b)
  <2>1. p \in Seq(IdSet) /\ q \in Seq(IdSet) /\ Len(p) = Len(a) /\ Len(q) = Len(b)
    BY <1>2
  <2> HIDE DEF p, q
  <2>2. /\ p \o q \in Seq(IdSet) /\ Len(p \o q) = Len(p) + Len(q)
        /\ \A k \in 1 .. Len(p \o q) : (p \o q)[k] = IF k <= Len(p) THEN p[k] ELSE q[k - Len(p)]
    BY <2>1
  <2> QED
    BY <2>1, <2>2 DEF p, q
<1> HIDE DEF c, d
<1>4. Ids(c) \in Seq(IdSet) /\ Len(Ids(c)) = Len(c) /\ \A k \in 1 .. Len(c) : Ids(c)[k] = c[k].id
  BY <1>1, IdsType
<1>5. ASSUME NEW k \in 1 .. Len(c)
      PROVE  Ids(c)[k] = d[k]
  <2>1. CASE k <= Len(a)
    <3>1. k \in 1 .. Len(a)
      BY <1>1, <2>1
    <3> QED
      BY <1>1, <1>2, <1>3, <1>4, <2>1, <3>1
  <2>2. CASE ~ k <= Len(a)
    <3>1. k - Len(a) \in 1 .. Len(b)
      BY <1>1, <2>2
    <3> QED
      BY <1>1, <1>2, <1>3, <1>4, <2>2, <3>1
  <2> QED
    BY <2>1, <2>2
<1>6. Len(Ids(c)) = Len(d)
  BY <1>1, <1>3, <1>4
<1>7. Ids(c) = d
  BY <1>3, <1>4, <1>5, <1>6
<1> QED
  BY <1>7 DEF c, d

(* The ids of images are one for each, in their order.                     *)
LEMMA ImageIdsType ==
  ASSUME NEW images \in Seq(ImageSet)
  PROVE  ImageIds(images) \in Seq(IdSet) /\ Len(ImageIds(images)) = Len(images)
         /\ \A k \in 1 .. Len(images) : ImageIds(images)[k] = images[k].id
<1>1. Len(images) \in Nat /\ DOMAIN images = 1 .. Len(images)
  OBVIOUS
<1>2. \A k \in 1 .. Len(images) : images[k].id \in IdSet
  <2>1. \A k \in 1 .. Len(images) : images[k] \in ImageSet
    OBVIOUS
  <2> QED
    BY <2>1 DEF ImageSet, IdSet
<1>3. ImageIds(images) \in [1 .. Len(images) -> IdSet] /\ \A k \in 1 .. Len(images) : ImageIds(images)[k] = images[k].id
  BY <1>1, <1>2 DEF ImageIds
<1> QED
  BY <1>1, <1>3, SeqOfPositions

(* The calls of a message, none of them for Option::None, are calls.       *)
LEMMA CallsOfType ==
  ASSUME NEW m \in MessageSet
  PROVE  CallsOf(m) \in Seq(CallSet)
<1>1. CASE m.kind = "Assistant" /\ m.calls # None
  <2>1. m \in AssistantSet
    BY <1>1, KindsApart DEF MessageSet
  <2> QED
    BY <1>1, <2>1 DEF CallsOf, AssistantSet
<1>2. CASE ~(m.kind = "Assistant" /\ m.calls # None)
  BY <1>2 DEF CallsOf
<1> QED
  BY <1>1, <1>2

(* What a message of the request says is a list, of each kind.             *)
LEMMA OpenAiFunctions ==
  /\ \A role : TextsBy(role) \in [OpenAiSet -> Seq(Nat)]
  /\ ImagesBy \in [OpenAiSet -> Seq(IdSet)]
  /\ CallsBy \in [OpenAiSet -> Seq(IdSet)]
  /\ ResultsBy \in [OpenAiSet -> Seq(NotedSet)]
<1>1. ASSUME NEW msg \in OpenAiSet
      PROVE  OpenAiTexts(msg) \in Seq(Nat) /\ OpenAiImages(msg) \in Seq(IdSet)
  <2> DEFINE c == msg.content
  <2>1. c \in {None} \cup StringSet \cup PartsSet
    BY DEF OpenAiSet
  <2>2. OpenAiTexts(msg) = TextsIn(c) /\ OpenAiImages(msg) = ImagesIn(c)
    BY ContentSays
  <2> HIDE DEF c
  <2>3. CASE c = None
    <3>1. TextsIn(c) = <<>> /\ ImagesIn(c) = <<>>
      BY <2>3 DEF TextsIn, ImagesIn
    <3> QED
      BY <2>2, <3>1
  <2>4. CASE c # None
    <3>1. TextsIn(c) \in Seq(Nat) /\ ImagesIn(c) \in Seq(Nat \X Nat)
      BY <2>1, <2>4, PartsSay
    <3> QED
      BY <2>2, <3>1 DEF IdSet
  <2> QED
    BY <2>3, <2>4
<1>2. ASSUME NEW msg \in OpenAiSet
      PROVE  OpenAiCalls(msg) \in Seq(IdSet)
  <2>1. CASE HasCalls(msg)
    <3>1. msg.tool_calls \in Seq(CallSet)
      BY <2>1 DEF OpenAiSet, HasCalls
    <3> QED
      BY <2>1, <3>1, IdsType DEF OpenAiCalls
  <2>2. CASE ~HasCalls(msg)
    BY <2>2 DEF OpenAiCalls
  <2> QED
    BY <2>1, <2>2
<1>3. ASSUME NEW msg \in OpenAiSet
      PROVE  OpenAiResult(msg) \in Seq(NotedSet)
  <2> DEFINE r == [id |-> msg.tool_call_id, note |-> msg.note]
  <2>1. r \in NotedSet
    BY DEF OpenAiSet, NotedSet, IdSet
  <2>2. OpenAiResult(msg) = IF msg.role = "tool" THEN <<r>> ELSE <<>>
    BY DEF OpenAiResult
  <2> HIDE DEF r
  <2> QED
    BY <2>1, <2>2
<1>4. ASSUME NEW role
      PROVE  TextsBy(role) \in [OpenAiSet -> Seq(Nat)]
  <2>1. <<>> \in Seq(Nat)
    OBVIOUS
  <2> QED
    BY <1>1, <2>1 DEF TextsBy
<1> QED
  BY <1>1, <1>2, <1>3, <1>4 DEF ImagesBy, CallsBy, ResultsBy

(* So is what a message of the history says.                               *)
LEMMA HistoryFunctions ==
  /\ \A kind : kind # "Custom" => TextsFrom(kind) \in [MessageSet -> Seq(Nat)]
  /\ ImagesFrom \in [MessageSet -> Seq(IdSet)]
  /\ CallsFrom \in [MessageSet -> Seq(IdSet)]
  /\ NotedFrom \in [MessageSet -> Seq(NotedSet)]
<1>0. <<>> \in Seq(Nat) /\ <<>> \in Seq(IdSet) /\ <<>> \in Seq(NotedSet)
  OBVIOUS
<1>1. ASSUME NEW m \in MessageSet, m.kind # "Custom", Said(m.text)
      PROVE  m.text \in Seq(Nat)
  BY <1>1, KindsApart DEF MessageSet, SystemSet, UserSet, AssistantSet, ToolSet, TextSet, Said
<1>2. ASSUME NEW m \in MessageSet, m.kind = "User"
      PROVE  ImageIds(m.images) \in Seq(IdSet)
  <2>1. m \in UserSet
    BY <1>2, KindsApart DEF MessageSet
  <2>2. m.images \in Seq(ImageSet)
    BY <2>1 DEF UserSet
  <2> QED
    BY <2>2, ImageIdsType
<1>3. ASSUME NEW m \in MessageSet, m.kind = "Tool"
      PROVE  <<NotedResult(m.id, m.images)>> \in Seq(NotedSet)
  <2>1. m \in ToolSet
    BY <1>3, KindsApart DEF MessageSet
  <2>2. NotedResult(m.id, m.images) \in NotedSet
    BY <2>1 DEF ToolSet, NotedResult, NotedSet, IdSet
  <2> QED
    BY <2>2
<1>4. \A m \in MessageSet : Ids(CallsOf(m)) \in Seq(IdSet)
  BY CallsOfType, IdsType
<1>5. ASSUME NEW kind, kind # "Custom"
      PROVE  TextsFrom(kind) \in [MessageSet -> Seq(Nat)]
  BY <1>0, <1>1, <1>5 DEF TextsFrom
<1>6. ImagesFrom \in [MessageSet -> Seq(IdSet)]
  BY <1>0, <1>2 DEF ImagesFrom
<1>7. CallsFrom \in [MessageSet -> Seq(IdSet)]
  BY <1>4 DEF CallsFrom
<1>8. NotedFrom \in [MessageSet -> Seq(NotedSet)]
  BY <1>0, <1>3 DEF NotedFrom
<1> QED
  BY <1>5, <1>6, <1>7, <1>8

(* The request and the history say the same, list by list.                 *)
LEMMA TextsJoin ==
  ASSUME NEW role
  PROVE  Joins(TextsBy(role))
<1> SUFFICES ASSUME NEW p \in OpenAiSet, NEW msg \in OpenAiSet,
                    WellFormed(p), WellFormed(msg), CanMerge(p, msg)
             PROVE  TextsBy(role)[JoinOf(p, msg)] = TextsBy(role)[p] \o TextsBy(role)[msg]
  BY DEF Joins
<1> DEFINE e == JoinOf(p, msg)
<1>1. e \in OpenAiSet /\ p.role = msg.role /\ msg.role \in {"user", "assistant"}
  BY JoinOfType DEF CanMerge
<1>2. e.role = msg.role /\ OpenAiTexts(e) = OpenAiTexts(p) \o OpenAiTexts(msg)
  <2>1. CASE msg.role = "user"
    BY <1>1, <2>1, MergeUsersType, UsersSay, ZenonT(40) DEF JoinOf
  <2>2. CASE msg.role = "assistant"
    <3>1. HasCalls(p) <=> HasCalls(msg)
      BY <2>2 DEF CanMerge
    <3>2. e = MergeAssistants(p, msg)
      BY <2>2 DEF JoinOf
    <3>r. p.role = "assistant" /\ msg.role = "assistant"
      BY <1>1, <2>2
    <3> HIDE DEF e
    <3>3. /\ e.role = "assistant" /\ WellFormed(e)
          /\ StringOf(e.content) = StringOf(p.content) \o StringOf(msg.content)
      BY <3>1, <3>2, <3>r, MergeAssistantsType
    <3>4. /\ OpenAiTexts(e) = StringOf(e.content) /\ OpenAiTexts(p) = StringOf(p.content)
          /\ OpenAiTexts(msg) = StringOf(msg.content)
      BY <1>1, <2>2, <3>3, AssistantSays
    <3> QED
      BY <2>2, <3>3, <3>4
  <2> QED
    BY <1>1, <2>1, <2>2
<1> HIDE DEF e
<1>3. <<>> \o <<>> = <<>>
  OBVIOUS
<1> QED
  BY <1>1, <1>2, <1>3 DEF TextsBy, e

(* Merged messages have the images of both: only a user's have any.        *)
LEMMA ImagesJoin == Joins(ImagesBy)
<1> SUFFICES ASSUME NEW p \in OpenAiSet, NEW msg \in OpenAiSet,
                    WellFormed(p), WellFormed(msg), CanMerge(p, msg)
             PROVE  ImagesBy[JoinOf(p, msg)] = ImagesBy[p] \o ImagesBy[msg]
  BY DEF Joins
<1> DEFINE e == JoinOf(p, msg)
<1>1. e \in OpenAiSet /\ p.role = msg.role /\ msg.role \in {"user", "assistant"}
  BY JoinOfType DEF CanMerge
<1>2. OpenAiImages(e) = OpenAiImages(p) \o OpenAiImages(msg)
  <2>1. CASE msg.role = "user"
    BY <1>1, <2>1, UsersSay DEF JoinOf
  <2>2. CASE msg.role = "assistant"
    <3>1. e.role = "assistant" /\ WellFormed(e)
      BY <1>1, <2>2, MergeAssistantsType DEF JoinOf, CanMerge
    <3> HIDE DEF e
    <3>2. OpenAiImages(e) = <<>> /\ OpenAiImages(p) = <<>> /\ OpenAiImages(msg) = <<>>
      BY <1>1, <2>2, <3>1, AssistantSays
    <3>3. <<>> \o <<>> = <<>>
      OBVIOUS
    <3> QED
      BY <3>2, <3>3
  <2> QED
    BY <1>1, <2>1, <2>2
<1> HIDE DEF e
<1> QED
  BY <1>1, <1>2 DEF ImagesBy, e

(* Merged messages have the calls of both: only an assistant's have any,   *)
(* and Option::None is no call.                                            *)
LEMMA CallsJoin == Joins(CallsBy)
<1> SUFFICES ASSUME NEW p \in OpenAiSet, NEW msg \in OpenAiSet,
                    WellFormed(p), WellFormed(msg), CanMerge(p, msg)
             PROVE  CallsBy[JoinOf(p, msg)] = CallsBy[p] \o CallsBy[msg]
  BY DEF Joins
<1> DEFINE e == JoinOf(p, msg)
<1>1. e \in OpenAiSet /\ p.role = msg.role /\ msg.role \in {"user", "assistant"}
  BY JoinOfType DEF CanMerge
<1>0. <<>> \o <<>> = <<>>
  OBVIOUS
<1>2. OpenAiCalls(e) = OpenAiCalls(p) \o OpenAiCalls(msg)
  <2>1. CASE msg.role = "user"
    <3>1. e.role = "user" /\ WellFormed(e)
      BY <1>1, <2>1, MergeUsersType DEF JoinOf
    <3> HIDE DEF e
    <3>2. ~HasCalls(e) /\ ~HasCalls(p) /\ ~HasCalls(msg)
      BY <1>1, <2>1, <3>1 DEF WellFormed
    <3> QED
      BY <1>0, <3>2 DEF OpenAiCalls
  <2>2. CASE msg.role = "assistant"
    <3>1. HasCalls(p) <=> HasCalls(msg)
      BY <2>2 DEF CanMerge
    <3>2. e = MergeAssistants(p, msg)
      BY <2>2 DEF JoinOf
    <3>r. p.role = "assistant" /\ msg.role = "assistant"
      BY <1>1, <2>2
    <3> HIDE DEF e
    <3>3. /\ HasCalls(e) <=> HasCalls(p)
          /\ HasCalls(p) => e.tool_calls = p.tool_calls \o msg.tool_calls
      BY <3>1, <3>2, <3>r, MergeAssistantsType
    <3>4. CASE HasCalls(p)
      <4>1. p.tool_calls \in Seq(CallSet) /\ msg.tool_calls \in Seq(CallSet)
        BY <3>1, <3>4 DEF OpenAiSet, HasCalls
      <4>2. Ids(e.tool_calls) = Ids(p.tool_calls) \o Ids(msg.tool_calls)
        BY <3>3, <3>4, <4>1, IdsJoin
      <4> QED
        BY <3>1, <3>3, <3>4, <4>2 DEF OpenAiCalls
    <3>5. CASE ~HasCalls(p)
      BY <1>0, <3>1, <3>3, <3>5 DEF OpenAiCalls
    <3> QED
      BY <3>4, <3>5
  <2> QED
    BY <1>1, <2>1, <2>2
<1> HIDE DEF e
<1> QED
  BY <1>1, <1>2 DEF CallsBy, e

(* Merged messages are no results: a tool's message is never merged.       *)
LEMMA ResultsJoin == Joins(ResultsBy)
<1> SUFFICES ASSUME NEW p \in OpenAiSet, NEW msg \in OpenAiSet,
                    WellFormed(p), WellFormed(msg), CanMerge(p, msg)
             PROVE  ResultsBy[JoinOf(p, msg)] = ResultsBy[p] \o ResultsBy[msg]
  BY DEF Joins
<1> DEFINE e == JoinOf(p, msg)
<1>1. e \in OpenAiSet /\ p.role = msg.role /\ msg.role \in {"user", "assistant"}
  BY JoinOfType DEF CanMerge
<1>2. e.role = msg.role
  <2>1. CASE msg.role = "user"
    BY <1>1, <2>1, MergeUsersType DEF JoinOf
  <2>2. CASE msg.role = "assistant"
    BY <1>1, <2>2, MergeAssistantsType, ZenonT(40) DEF JoinOf, CanMerge
  <2> QED
    BY <1>1, <2>1, <2>2
<1> HIDE DEF e
<1>3. <<>> \o <<>> = <<>>
  OBVIOUS
<1> QED
  BY <1>1, <1>2, <1>3 DEF ResultsBy, OpenAiResult, e

(* What a message is converted to says what it says.                       *)
Saying(msg, role, texts, images, calls) ==
  /\ msg \in OpenAiSet /\ msg.role = role
  /\ OpenAiTexts(msg) = texts /\ OpenAiImages(msg) = images /\ OpenAiCalls(msg) = calls

(* A content that is a string says that text and no image.                 *)
LEMMA StrSays ==
  ASSUME NEW msg \in OpenAiSet, NEW text \in TextSet, msg.content = Str(text)
  PROVE  OpenAiTexts(msg) = text /\ OpenAiImages(msg) = <<>>
<1>1. Str(text) # None
  BY StrType, NoneAssumption
<1> QED
  BY <1>1 DEF OpenAiTexts, OpenAiImages, IsParts, Str

(* A user's message says its text and its images, as a string if it has    *)
(* none.                                                                   *)
LEMMA UserSays ==
  ASSUME NEW m \in UserSet
  PROVE  Saying(OpenAiUser(m), "user", m.text, ImageIds(m.images), <<>>)
<1> DEFINE images == m.images
           parts == [k \in DOMAIN m.images |-> ImagePart(m.images[k])]
           msg == OpenAiUser(m)
           text == m.text
<1>1. text \in TextSet /\ images \in Seq(ImageSet) /\ text \in Seq(Nat)
  BY DEF UserSet, TextSet
<1>2. msg \in OpenAiSet /\ WellFormed(msg) /\ msg.role = "user"
      /\ msg.content = IF images = <<>> THEN Str(text) ELSE Parts(<<TextPart(text)>> \o parts)
  BY OpenAiUserType
<1>3. OpenAiCalls(msg) = <<>>
  BY <1>2 DEF WellFormed, OpenAiCalls
<1>4. parts \in Seq(PartSet)
  BY <1>1, ImagePartsType
<1>4a. Len(parts) = Len(images) /\ \A k \in 1 .. Len(images) : parts[k] = ImagePart(images[k])
  BY <1>1
<1>5. ImageIds(images) \in Seq(IdSet) /\ Len(ImageIds(images)) = Len(images)
      /\ \A k \in 1 .. Len(images) : ImageIds(images)[k] = images[k].id
  BY <1>1, ImageIdsType
<1> HIDE DEF msg, parts, images, text
<1>6. CASE images = <<>>
  <2>1. OpenAiTexts(msg) = text /\ OpenAiImages(msg) = <<>>
    BY <1>1, <1>2, <1>6, StrSays
  <2>2. ImageIds(images) = <<>>
    BY <1>5, <1>6
  <2> QED
    BY <1>2, <1>3, <2>1, <2>2 DEF Saying, msg, images, text
<1>7. CASE images # <<>>
  <2> DEFINE t == TextPart(text)
             s == <<t>>
             ids == ImageIds(images)
  <2>1. t \in TextPartSet /\ t \in PartSet /\ t.type = "text" /\ t.text = text
    BY <1>1 DEF TextPart, TextPartSet, TextSet, PartSet
  <2>2. PartTexts[t] = text /\ PartImages[t] = <<>>
    <3> HIDE DEF t
    <3> QED
      BY <2>1 DEF PartTexts, PartImages, PartText, PartImage
  <2>3. ASSUME NEW k \in 1 .. Len(parts)
        PROVE  PartTexts[parts[k]] = <<>> /\ PartImages[parts[k]] = <<ids[k]>>
    <3> DEFINE i == images[k]
    <3>1. i \in ImageSet /\ parts[k] = ImagePart(i) /\ ids[k] = i.id /\ k \in 1 .. Len(images)
      BY <1>1, <1>4a, <1>5
    <3> HIDE DEF i
    <3>2. ImagePart(i) \in PartSet
      BY <1>4, <2>3, <3>1
    <3>3. ImagePart(i).type = "image_url" /\ ImagePart(i).id = i.id
      BY DEF ImagePart
    <3> QED
      BY <3>1, <3>2, <3>3 DEF PartTexts, PartImages, PartText, PartImage
  <2> HIDE DEF t, ids
  <2>4. FlatImage(PartTexts, parts) = <<>>
    <3>1. MakesNone(PartTexts, parts)
      BY <2>3 DEF MakesNone
    <3> QED
      BY <1>4, <3>1, PartFunctions, FlatImageNone
  <2>5. ids \in Seq(Nat \X Nat) /\ Len(ids) = Len(parts)
    BY <1>4a, <1>5 DEF ids, IdSet
  <2>6. FlatImage(PartImages, parts) = ids
    <3>1. MakesEach(PartImages, parts, ids)
      BY <2>3, <2>5 DEF MakesEach
    <3> QED
      BY <1>4, <2>5, <3>1, PartFunctions, FlatImageSingles, SMTT(40)
  <2>7. FlatImage(PartTexts, s) = text /\ FlatImage(PartImages, s) = <<>>
    BY <2>1, <2>2, PartFunctions, FlatImageOne, ZenonT(40)
  <2>8. s \in Seq(PartSet)
    BY <2>1
  <2> HIDE DEF s
  <2>9. MakesBoth(PartTexts, s, parts) /\ MakesBoth(PartImages, s, parts)
    BY <1>4, <2>8, PartFunctions, FlatImageConcat
  <2>10. FlatImage(PartTexts, s \o parts) = text /\ FlatImage(PartImages, s \o parts) = ids
    <3>1. text \o <<>> = text /\ <<>> \o ids = ids
      BY <1>1, <2>5
    <3> QED
      BY <2>4, <2>6, <2>7, <2>9, <3>1 DEF MakesBoth
  <2>11. msg.content = Parts(s \o parts) /\ msg.content # None
    BY <1>2, <1>7, NoneAssumption DEF s, t, WellFormed
  <2>12. OpenAiTexts(msg) = text /\ OpenAiImages(msg) = ids
    <3> DEFINE c == msg.content
               list == s \o parts
    <3>1. c = Parts(list) /\ c # None
      BY <2>11
    <3>2. OpenAiTexts(msg) = TextsIn(c) /\ OpenAiImages(msg) = ImagesIn(c)
      BY <1>2, ContentSays
    <3>3. FlatImage(PartTexts, list) = text /\ FlatImage(PartImages, list) = ids
      BY <2>10
    <3> HIDE DEF c, list
    <3>4. c.tag = "parts" /\ c.parts = list
      BY <3>1 DEF Parts
    <3> QED
      BY <3>1, <3>2, <3>3, <3>4 DEF TextsIn, ImagesIn
  <2> QED
    BY <1>2, <1>3, <2>12 DEF Saying, msg, images, text, ids
<1> QED
  BY <1>6, <1>7

(* A system's or a tool's message says its text, and no image.             *)
LEMMA TextSays ==
  ASSUME NEW m \in SystemSet \cup ToolSet
  PROVE  Saying(OpenAiMessage(m)[1], IF m.kind = "Tool" THEN "tool" ELSE "system", m.text, <<>>, <<>>)
<1>1. m.text \in TextSet
  BY DEF SystemSet, ToolSet
<1>2. CASE m \in SystemSet
  <2> DEFINE msg == OpenAi("system", Str(m.text))
  <2>1. m.kind # "Tool" /\ OpenAiMessage(m) = <<msg>>
    BY <1>2, KindsApart DEF OpenAiMessage
  <2>2. msg \in OpenAiSet /\ WellFormed(msg) /\ msg.role = "system" /\ msg.content = Str(m.text)
    BY <1>2, OpenAiSystemType
  <2> HIDE DEF msg
  <2>3. OpenAiTexts(msg) = m.text /\ OpenAiImages(msg) = <<>>
    BY <1>1, <2>2, StrSays
  <2> QED
    BY <2>1, <2>2, <2>3 DEF Saying, WellFormed, OpenAiCalls
<1>3. CASE m \in ToolSet
  <2> DEFINE msg == OpenAiTool(m)
  <2>1. m.kind = "Tool" /\ OpenAiMessage(m) = <<msg>>
    BY <1>3, KindsApart DEF OpenAiMessage
  <2>2. msg \in OpenAiSet /\ WellFormed(msg) /\ msg.role = "tool" /\ msg.content = Str(m.text)
    BY <1>3, OpenAiToolType
  <2> HIDE DEF msg
  <2>3. OpenAiTexts(msg) = m.text /\ OpenAiImages(msg) = <<>>
    BY <1>1, <2>2, StrSays
  <2> QED
    BY <2>1, <2>2, <2>3 DEF Saying, WellFormed, OpenAiCalls
<1> QED
  BY <1>2, <1>3

(* An assistant's message says its text if it has one, and its calls.      *)
LEMMA AnswerSays ==
  ASSUME NEW m \in AssistantSet
  PROVE  Saying(OpenAiAssistant(m), "assistant", IF Said(m.text) THEN m.text ELSE <<>>, <<>>, Ids(CallsOf(m)))
<1> DEFINE msg == OpenAiAssistant(m)
<1>1. /\ msg \in OpenAiSet /\ WellFormed(msg) /\ msg.role = "assistant" /\ msg.tool_calls = m.calls
      /\ msg.content = IF Said(m.text) THEN Str(m.text) ELSE None
  BY OpenAiAssistantType
<1>2. m.kind = "Assistant"
  BY KindsApart
<1> HIDE DEF msg
<1>3. OpenAiCalls(msg) = Ids(CallsOf(m))
  <2>1. Ids(<<>>) = <<>>
    BY DEF Ids
  <2> QED
    BY <1>1, <1>2, <2>1 DEF OpenAiCalls, HasCalls, CallsOf
<1>4. OpenAiTexts(msg) = (IF Said(m.text) THEN m.text ELSE <<>>) /\ OpenAiImages(msg) = <<>>
  <2>1. CASE Said(m.text)
    <3>1. m.text \in TextSet
      BY <2>1 DEF AssistantSet, Said
    <3> QED
      BY <1>1, <2>1, <3>1, StrSays
  <2>2. CASE ~Said(m.text)
    BY <1>1, <2>2 DEF OpenAiTexts, OpenAiImages, IsParts
  <2> QED
    BY <2>1, <2>2
<1> QED
  BY <1>1, <1>3, <1>4 DEF Saying, msg

(* A message is converted to what says the same, list by list.             *)
RoleOf(kind) ==
  CASE kind = "System" -> "system"
    [] kind = "User" -> "user"
    [] kind = "Assistant" -> "assistant"
    [] kind = "Tool" -> "tool"

Kinds == {"System", "User", "Assistant", "Tool"}

(* What OpenAiMessage makes of a message says the message, under its role. *)
LEMMA ConvertedSays ==
  ASSUME NEW m \in MessageSet
  PROVE  IF m.kind = "Custom" THEN OpenAiMessage(m) = <<>>
         ELSE /\ OpenAiMessage(m) # <<>>
              /\ m.kind \in Kinds
              /\ Saying(OpenAiMessage(m)[1], RoleOf(m.kind), IF Said(m.text) THEN m.text ELSE <<>>,
                        ImagesFrom[m], CallsFrom[m])
<1>0. \A x : <<x>> # <<>> /\ <<x>>[1] = x
  OBVIOUS
<1>1. ASSUME m.text \in TextSet
      PROVE  (IF Said(m.text) THEN m.text ELSE <<>>) = m.text
  BY <1>1, NoneAssumption DEF Said
<1>2. ImagesFrom[m] = (IF m.kind = "User" THEN ImageIds(m.images) ELSE <<>>) /\ CallsFrom[m] = Ids(CallsOf(m))
  BY DEF ImagesFrom, CallsFrom
<1>3. m.kind # "Assistant" => Ids(CallsOf(m)) = <<>>
  BY DEF CallsOf, Ids
<1>4. CASE m \in SystemSet \cup ToolSet
  <2>1. m.kind \in {"System", "Tool"} /\ m.text \in TextSet
    BY <1>4, KindsApart DEF SystemSet, ToolSet
  <2>2. OpenAiMessage(m) # <<>>
    BY <1>0, <2>1 DEF OpenAiMessage
  <2>3. RoleOf(m.kind) = IF m.kind = "Tool" THEN "tool" ELSE "system"
    BY <2>1 DEF RoleOf
  <2>4. Saying(OpenAiMessage(m)[1], RoleOf(m.kind), m.text, <<>>, <<>>)
    BY <1>4, <2>3, TextSays
  <2> QED
    BY <1>1, <1>2, <1>3, <2>1, <2>2, <2>4 DEF Kinds
<1>5. CASE m \in UserSet
  <2>1. m.kind = "User" /\ m.text \in TextSet
    BY <1>5, KindsApart DEF UserSet
  <2>2. OpenAiMessage(m) = <<OpenAiUser(m)>>
    BY <2>1 DEF OpenAiMessage
  <2>3. RoleOf(m.kind) = "user"
    BY <2>1 DEF RoleOf
  <2>4. Saying(OpenAiUser(m), "user", m.text, ImageIds(m.images), <<>>)
    BY <1>5, UserSays
  <2> QED
    BY <1>0, <1>1, <1>2, <1>3, <2>1, <2>2, <2>3, <2>4 DEF Kinds
<1>6. CASE m \in AssistantSet
  <2>1. m.kind = "Assistant"
    BY <1>6, KindsApart
  <2>2. OpenAiMessage(m) = <<OpenAiAssistant(m)>>
    BY <2>1 DEF OpenAiMessage
  <2>3. RoleOf(m.kind) = "assistant"
    BY <2>1 DEF RoleOf
  <2>4. Saying(OpenAiAssistant(m), "assistant", IF Said(m.text) THEN m.text ELSE <<>>, <<>>, Ids(CallsOf(m)))
    BY <1>6, AnswerSays
  <2> QED
    BY <1>0, <1>2, <2>1, <2>2, <2>3, <2>4 DEF Kinds
<1>7. CASE m = Custom
  BY <1>7, KindsApart DEF OpenAiMessage
<1> QED
  BY <1>4, <1>5, <1>6, <1>7 DEF MessageSet

(* So conversion keeps each of the lists.                                  *)
LEMMA ConvertsAll ==
  /\ \A kind \in Kinds : Converts(TextsBy(RoleOf(kind)), TextsFrom(kind))
  /\ Converts(ImagesBy, ImagesFrom)
  /\ Converts(CallsBy, CallsFrom)
  /\ Converts(ResultsBy, NotedFrom)
<1>0. \A k, l \in Kinds : RoleOf(k) = RoleOf(l) => k = l
  BY DEF Kinds, RoleOf
<1>1. ASSUME NEW m \in MessageSet, m.kind = "Custom"
      PROVE  /\ OpenAiMessage(m) = <<>>
             /\ \A kind \in Kinds : TextsFrom(kind)[m] = <<>>
             /\ ImagesFrom[m] = <<>> /\ CallsFrom[m] = <<>> /\ NotedFrom[m] = <<>>
  <2>1. OpenAiMessage(m) = <<>>
    BY <1>1, ConvertedSays
  <2>2. \A kind \in Kinds : TextsFrom(kind)[m] = <<>>
    BY <1>1 DEF TextsFrom, Kinds
  <2>3. ImagesFrom[m] = <<>> /\ NotedFrom[m] = <<>>
    BY <1>1 DEF ImagesFrom, NotedFrom
  <2>4. CallsFrom[m] = <<>>
    BY <1>1 DEF CallsFrom, CallsOf, Ids
  <2> QED
    BY <2>1, <2>2, <2>3, <2>4
<1>2. ASSUME NEW m \in MessageSet, m.kind # "Custom", NEW msg, msg = OpenAiMessage(m)[1]
      PROVE  /\ OpenAiMessage(m) # <<>>
             /\ \A kind \in Kinds : TextsFrom(kind)[m] = TextsBy(RoleOf(kind))[msg]
             /\ ImagesFrom[m] = ImagesBy[msg] /\ CallsFrom[m] = CallsBy[msg] /\ NotedFrom[m] = ResultsBy[msg]
  <2>1. /\ OpenAiMessage(m) # <<>> /\ m.kind \in Kinds
        /\ Saying(msg, RoleOf(m.kind), IF Said(m.text) THEN m.text ELSE <<>>, ImagesFrom[m], CallsFrom[m])
    BY <1>2, ConvertedSays
  <2>2. msg \in OpenAiSet /\ msg.role = RoleOf(m.kind)
    BY <2>1 DEF Saying
  <2>3. ASSUME NEW kind \in Kinds
        PROVE  TextsFrom(kind)[m] = TextsBy(RoleOf(kind))[msg]
    BY <1>0, <2>1, <2>2 DEF Saying, TextsFrom, TextsBy
  <2>4. ImagesFrom[m] = ImagesBy[msg] /\ CallsFrom[m] = CallsBy[msg]
    BY <2>1, <2>2 DEF Saying, ImagesBy, CallsBy
  <2>5. NotedFrom[m] = ResultsBy[msg]
    <3>1. CASE m.kind = "Tool"
      <4>1. m \in ToolSet
        BY <3>1, KindsApart DEF MessageSet
      <4>2. msg = OpenAiTool(m)
        BY <1>2, <3>1 DEF OpenAiMessage
      <4>3. msg.role = "tool" /\ msg.tool_call_id = m.id /\ msg.note = (m.images # <<>>)
        BY <4>1, <4>2, OpenAiToolType
      <4> QED
        BY <2>2, <3>1, <4>3 DEF NotedFrom, ResultsBy, NotedResult, OpenAiResult
    <3>2. CASE m.kind # "Tool"
      <4>1. msg.role # "tool"
        BY <2>1, <2>2, <3>2 DEF Kinds, RoleOf
      <4> QED
        BY <2>2, <3>2, <4>1 DEF NotedFrom, ResultsBy, OpenAiResult
    <3> QED
      BY <3>1, <3>2
  <2> QED
    BY <2>1, <2>3, <2>4, <2>5
<1>3. ASSUME NEW kind \in Kinds
      PROVE  Converts(TextsBy(RoleOf(kind)), TextsFrom(kind))
  BY <1>1, <1>2 DEF Converts
<1> QED
  BY <1>1, <1>2, <1>3 DEF Converts

(* The invariant: the request says what the history says.                  *)
OpenAiSays ==
  /\ \A kind \in Kinds : FlatImage(TextsBy(RoleOf(kind)), openai) = FlatImage(TextsFrom(kind), history)
  /\ FlatImage(ImagesBy, openai) = FlatImage(ImagesFrom, history)
  /\ FlatImage(CallsBy, openai) = FlatImage(CallsFrom, history)
  /\ FlatImage(ResultsBy, openai) = FlatImage(NotedFrom, history)

(* Taking a message keeps the request saying what the history says.        *)
LEMMA OpenAiSaysMore ==
  ASSUME ConversionInv, NEW m \in MessageSet, Take(m), OpenAiSays
  PROVE  OpenAiSays'
<1>1. ASSUME NEW kind \in Kinds
      PROVE  FlatImage(TextsBy(RoleOf(kind)), openai') = FlatImage(TextsFrom(kind), history')
  <2> DEFINE F == TextsBy(RoleOf(kind))
             G == TextsFrom(kind)
  <2>1. F \in [OpenAiSet -> Seq(Nat)] /\ Joins(F)
    BY OpenAiFunctions, TextsJoin
  <2>2. G \in [MessageSet -> Seq(Nat)] /\ Converts(F, G)
    BY HistoryFunctions, ConvertsAll DEF Kinds
  <2>3. FlatImage(F, openai) = FlatImage(G, history)
    BY DEF OpenAiSays
  <2> HIDE DEF F, G
  <2> QED
    BY <2>1, <2>2, <2>3, OpenAiTakesAll DEF F, G
<1>2. FlatImage(ImagesBy, openai') = FlatImage(ImagesFrom, history')
  BY OpenAiFunctions, HistoryFunctions, ImagesJoin, ConvertsAll, OpenAiTakesAll DEF OpenAiSays
<1>3. FlatImage(CallsBy, openai') = FlatImage(CallsFrom, history')
  BY OpenAiFunctions, HistoryFunctions, CallsJoin, ConvertsAll, OpenAiTakesAll DEF OpenAiSays
<1>4. FlatImage(ResultsBy, openai') = FlatImage(NotedFrom, history')
  BY OpenAiFunctions, HistoryFunctions, ResultsJoin, ConvertsAll, OpenAiTakesAll DEF OpenAiSays
<1> QED
  BY <1>1, <1>2, <1>3, <1>4 DEF OpenAiSays

(* The lists of OpenAiSaysAll are images of the request and of the         *)
(* history.                                                                *)
LEMMA OpenAiListsAre ==
  ASSUME ConversionInv
  PROVE  /\ \A role : TextsOf(role) = FlatImage(TextsBy(role), openai)
         /\ \A kind \in Kinds : Texts(kind) = FlatImage(TextsFrom(kind), history)
         /\ FlatMap(OpenAiImages, openai) = FlatImage(ImagesBy, openai)
         /\ ImagesOfUsers = FlatImage(ImagesFrom, history)
         /\ FlatMap(OpenAiCalls, openai) = FlatImage(CallsBy, openai)
         /\ CallIdsInOrder = FlatImage(CallsFrom, history)
         /\ FlatMap(OpenAiResult, openai) = FlatImage(ResultsBy, openai)
         /\ NotedResults = FlatImage(NotedFrom, history)
<1>1. /\ \A n \in DOMAIN openai : openai[n] \in OpenAiSet
      /\ \A n \in DOMAIN history : history[n] \in MessageSet
  BY DEF ConversionInv, Merged
<1>2. ASSUME NEW role
      PROVE  TextsOf(role) = FlatImage(TextsBy(role), openai)
  BY <1>1 DEF TextsOf, FlatMap, FlatImage, Mapped, TextsBy
<1>3. ASSUME NEW kind \in Kinds
      PROVE  Texts(kind) = FlatImage(TextsFrom(kind), history)
  BY <1>1 DEF Texts, FlatMap, FlatImage, Mapped, TextsFrom
<1>4. FlatMap(OpenAiImages, openai) = FlatImage(ImagesBy, openai)
  BY <1>1 DEF FlatMap, FlatImage, Mapped, ImagesBy
<1>5. ImagesOfUsers = FlatImage(ImagesFrom, history)
  BY <1>1 DEF ImagesOfUsers, FlatMap, FlatImage, Mapped, ImagesFrom
<1>6. FlatMap(OpenAiCalls, openai) = FlatImage(CallsBy, openai)
  BY <1>1 DEF FlatMap, FlatImage, Mapped, CallsBy
<1>7. CallIdsInOrder = FlatImage(CallsFrom, history)
  BY <1>1 DEF CallIdsInOrder, FlatMap, FlatImage, Mapped, CallsFrom
<1>8. FlatMap(OpenAiResult, openai) = FlatImage(ResultsBy, openai)
  BY <1>1 DEF FlatMap, FlatImage, Mapped, ResultsBy
<1>9. NotedResults = FlatImage(NotedFrom, history)
  BY <1>1 DEF NotedResults, FlatMap, FlatImage, Mapped, NotedFrom
<1> QED
  BY <1>2, <1>3, <1>4, <1>5, <1>6, <1>7, <1>8, <1>9

(* The OpenAI request says what the history says (OpenAiSaysAll), for      *)
(* every history: texts by speaker, images, calls and results in their     *)
(* order, none lost or doubled by convert_messages and its merging.        *)
THEOREM OpenAiIsToldAll == Spec => []OpenAiSaysAll
<1>1. Init => OpenAiSays
  BY FlatImageEmpty DEF Init, OpenAiSays
<1>2. ConversionInv /\ OpenAiSays /\ [Next]_vars => OpenAiSays'
  <2>1. ASSUME ConversionInv, OpenAiSays, Next
        PROVE  OpenAiSays'
    <3>1. PICK m \in MessageSet : Take(m)
      BY <2>1, NextTakes
    <3> QED
      BY <2>1, <3>1, OpenAiSaysMore
  <2>2. ASSUME OpenAiSays, UNCHANGED vars
        PROVE  OpenAiSays'
    BY <2>2 DEF vars, OpenAiSays
  <2> QED
    BY <2>1, <2>2
<1>3. ConversionInv /\ OpenAiSays => OpenAiSaysAll
  <2> SUFFICES ASSUME ConversionInv, OpenAiSays
               PROVE  OpenAiSaysAll
    OBVIOUS
  <2>1. /\ RoleOf("System") = "system" /\ RoleOf("User") = "user"
        /\ RoleOf("Assistant") = "assistant" /\ RoleOf("Tool") = "tool"
    BY DEF RoleOf
  <2>2. \A kind \in Kinds : TextsOf(RoleOf(kind)) = Texts(kind)
    BY OpenAiListsAre DEF OpenAiSays
  <2>3. /\ TextsOf("system") = Texts("System") /\ TextsOf("user") = Texts("User")
        /\ TextsOf("assistant") = Texts("Assistant") /\ TextsOf("tool") = Texts("Tool")
    BY <2>1, <2>2 DEF Kinds
  <2>4. /\ FlatMap(OpenAiImages, openai) = ImagesOfUsers
        /\ FlatMap(OpenAiCalls, openai) = CallIdsInOrder
        /\ FlatMap(OpenAiResult, openai) = NotedResults
    BY OpenAiListsAre DEF OpenAiSays
  <2> QED
    BY <2>3, <2>4 DEF OpenAiSaysAll
<1> QED
  BY <1>1, <1>2, <1>3, Invariance, PTL DEF Spec

-----------------------------------------------------------------------------
(* What the blocks of a turn say. *)

BlockTexts == [b \in BlockSet |-> BlockText(b)]
BlockImages == [b \in BlockSet |-> BlockImage(b)]
BlockCalls == [b \in BlockSet |-> BlockCall(b)]
BlockResults == [b \in BlockSet |-> BlockResult(b)]
BlockThoughts == [b \in BlockSet |-> BlockThought(b)]

ResultSet == [id : IdSet, text : TextSet, images : Seq(IdSet)]

(* The ids of image blocks are ids.                                        *)
LEMMA ImageBlockIds ==
  ASSUME NEW images \in Seq(ImageBlockSet)
  PROVE  ImageIds(images) \in Seq(IdSet)
<1>1. Len(images) \in Nat /\ DOMAIN images = 1 .. Len(images)
  OBVIOUS
<1>2. \A k \in 1 .. Len(images) : images[k].id \in IdSet
  <2>1. \A k \in 1 .. Len(images) : images[k] \in ImageBlockSet
    OBVIOUS
  <2> QED
    BY <2>1 DEF ImageBlockSet, IdSet
<1>3. ImageIds(images) \in [1 .. Len(images) -> IdSet]
  BY <1>1, <1>2 DEF ImageIds
<1> QED
  BY <1>1, <1>3, SeqOfPositions

(* What a block of either kind says.                                       *)
LEMMA BlocksSay ==
  /\ \A b \in TextBlockSet : /\ b \in BlockSet /\ BlockTexts[b] = b.text
                             /\ BlockImages[b] = <<>> /\ BlockCalls[b] = <<>>
                             /\ BlockResults[b] = <<>> /\ BlockThoughts[b] = <<>>
  /\ \A b \in ImageBlockSet : /\ b \in BlockSet /\ BlockImages[b] = <<b.id>>
                              /\ BlockTexts[b] = <<>> /\ BlockCalls[b] = <<>>
                              /\ BlockResults[b] = <<>> /\ BlockThoughts[b] = <<>>
  /\ \A b \in ToolUseBlockSet : /\ b \in BlockSet /\ BlockCalls[b] = <<b.id>>
                                /\ BlockTexts[b] = <<>> /\ BlockImages[b] = <<>>
                                /\ BlockResults[b] = <<>> /\ BlockThoughts[b] = <<>>
  /\ \A b \in ResultBlockSet : /\ b \in BlockSet /\ BlockResults[b] = <<Result(b.id, b.text, b.images)>>
                               /\ BlockTexts[b] = <<>> /\ BlockImages[b] = <<>>
                               /\ BlockCalls[b] = <<>> /\ BlockThoughts[b] = <<>>
  /\ \A b \in ThinkingBlockSet : /\ b \in BlockSet /\ BlockThoughts[b] = <<b>>
                                 /\ BlockTexts[b] = <<>> /\ BlockImages[b] = <<>>
                                 /\ BlockCalls[b] = <<>> /\ BlockResults[b] = <<>>
<1> DEFINE Kind(b, type) == b \in BlockSet /\ b.type = type
<1>0. /\ \A b \in TextBlockSet : Kind(b, "text")
      /\ \A b \in ImageBlockSet : Kind(b, "image")
      /\ \A b \in ToolUseBlockSet : Kind(b, "tool_use")
      /\ \A b \in ResultBlockSet : Kind(b, "tool_result")
      /\ \A b \in ThinkingBlockSet : Kind(b, "thinking")
  BY DEF TextBlockSet, ImageBlockSet, ToolUseBlockSet, ResultBlockSet, ThinkingBlockSet, BlockSet
<1>1. ASSUME NEW b \in BlockSet
      PROVE  /\ BlockTexts[b] = IF b.type = "text" THEN b.text ELSE <<>>
             /\ BlockImages[b] = IF b.type = "image" THEN <<b.id>> ELSE <<>>
             /\ BlockCalls[b] = IF b.type = "tool_use" THEN <<b.id>> ELSE <<>>
             /\ BlockResults[b] = IF b.type = "tool_result" THEN <<Result(b.id, b.text, b.images)>> ELSE <<>>
             /\ BlockThoughts[b] = IF b.type = "thinking" THEN <<b>> ELSE <<>>
  BY DEF BlockTexts, BlockImages, BlockCalls, BlockResults, BlockThoughts,
         BlockText, BlockImage, BlockCall, BlockResult, BlockThought
<1>2. ASSUME NEW b \in TextBlockSet
      PROVE  Kind(b, "text")
  BY <1>0
<1>3. ASSUME NEW b \in ImageBlockSet
      PROVE  Kind(b, "image")
  BY <1>0
<1>4. ASSUME NEW b \in ToolUseBlockSet
      PROVE  Kind(b, "tool_use")
  BY <1>0
<1>5. ASSUME NEW b \in ResultBlockSet
      PROVE  Kind(b, "tool_result")
  BY <1>0
<1>6. ASSUME NEW b \in ThinkingBlockSet
      PROVE  Kind(b, "thinking")
  BY <1>0
<1> QED
  BY <1>1, <1>2, <1>3, <1>4, <1>5, <1>6

(* What a block says is a list, of each kind.                              *)
LEMMA BlockFunctions ==
  /\ BlockTexts \in [BlockSet -> Seq(Nat)]
  /\ BlockImages \in [BlockSet -> Seq(IdSet)]
  /\ BlockCalls \in [BlockSet -> Seq(IdSet)]
  /\ BlockResults \in [BlockSet -> Seq(ResultSet)]
  /\ BlockThoughts \in [BlockSet -> Seq(ThinkingBlockSet)]
<1> DEFINE Typed(b) == /\ BlockText(b) \in Seq(Nat) /\ BlockImage(b) \in Seq(IdSet)
                       /\ BlockCall(b) \in Seq(IdSet) /\ BlockResult(b) \in Seq(ResultSet)
                       /\ BlockThought(b) \in Seq(ThinkingBlockSet)
<1>0. /\ <<>> \in Seq(Nat) /\ <<>> \in Seq(IdSet) /\ <<>> \in Seq(ResultSet)
      /\ <<>> \in Seq(ThinkingBlockSet)
  OBVIOUS
<1>1. ASSUME NEW b \in TextBlockSet
      PROVE  Typed(b)
  <2>1. b.type = "text" /\ b.text \in Seq(Nat)
    BY DEF TextBlockSet, TextSet
  <2> QED
    BY <1>0, <2>1 DEF BlockText, BlockImage, BlockCall, BlockResult, BlockThought
<1>2. ASSUME NEW b \in ImageBlockSet
      PROVE  Typed(b)
  <2>1. b.type = "image" /\ <<b.id>> \in Seq(IdSet)
    BY DEF ImageBlockSet, IdSet
  <2> QED
    BY <1>0, <2>1 DEF BlockText, BlockImage, BlockCall, BlockResult, BlockThought
<1>3. ASSUME NEW b \in ToolUseBlockSet
      PROVE  Typed(b)
  <2>1. b.type = "tool_use" /\ <<b.id>> \in Seq(IdSet)
    BY DEF ToolUseBlockSet, IdSet
  <2> QED
    BY <1>0, <2>1 DEF BlockText, BlockImage, BlockCall, BlockResult, BlockThought
<1>4. ASSUME NEW b \in ResultBlockSet
      PROVE  Typed(b)
  <2>1. b.type = "tool_result" /\ b.id \in IdSet /\ b.text \in TextSet /\ b.images \in Seq(ImageBlockSet)
    BY DEF ResultBlockSet, IdSet
  <2>2. ImageIds(b.images) \in Seq(IdSet)
    BY <2>1, ImageBlockIds
  <2>3. Result(b.id, b.text, b.images) \in ResultSet
    BY <2>1, <2>2 DEF Result, ResultSet
  <2>4. <<Result(b.id, b.text, b.images)>> \in Seq(ResultSet)
    BY <2>3
  <2> QED
    BY <1>0, <2>1, <2>4 DEF BlockText, BlockImage, BlockCall, BlockResult, BlockThought
<1>5. ASSUME NEW b \in ThinkingBlockSet
      PROVE  Typed(b)
  <2>1. b.type = "thinking" /\ <<b>> \in Seq(ThinkingBlockSet)
    BY DEF ThinkingBlockSet
  <2> QED
    BY <1>0, <2>1 DEF BlockText, BlockImage, BlockCall, BlockResult, BlockThought
<1>6. \A b \in BlockSet : Typed(b)
  BY <1>1, <1>2, <1>3, <1>4, <1>5 DEF BlockSet
<1> QED
  BY <1>6 DEF BlockTexts, BlockImages, BlockCalls, BlockResults, BlockThoughts

(* What a list of blocks says, and two lists together.                     *)
Speaks(s, texts, images, calls, results, thoughts) ==
  /\ s \in Seq(BlockSet)
  /\ FlatImage(BlockTexts, s) = texts
  /\ FlatImage(BlockImages, s) = images
  /\ FlatImage(BlockCalls, s) = calls
  /\ FlatImage(BlockResults, s) = results
  /\ FlatImage(BlockThoughts, s) = thoughts

(* What two lists of blocks say, put together, is what the one and then    *)
(* the other says.                                                         *)
LEMMA BothMake ==
  ASSUME NEW s \in Seq(BlockSet), NEW t \in Seq(BlockSet)
  PROVE  /\ MakesBoth(BlockTexts, s, t) /\ MakesBoth(BlockImages, s, t) /\ MakesBoth(BlockCalls, s, t)
         /\ MakesBoth(BlockResults, s, t) /\ MakesBoth(BlockThoughts, s, t)
BY BlockFunctions, FlatImageConcat

(* The same of the five lists at once.                                     *)
LEMMA SpeakTogether ==
  ASSUME NEW s, NEW t, NEW a, NEW b, NEW c, NEW d, NEW e, NEW f, NEW g, NEW h, NEW i, NEW j,
         Speaks(s, a, b, c, d, e), Speaks(t, f, g, h, i, j)
  PROVE  Speaks(s \o t, a \o f, b \o g, c \o h, d \o i, e \o j)
<1>1. s \in Seq(BlockSet) /\ t \in Seq(BlockSet)
  BY DEF Speaks
<1>2. s \o t \in Seq(BlockSet)
  BY <1>1
<1>3. /\ MakesBoth(BlockTexts, s, t) /\ MakesBoth(BlockImages, s, t) /\ MakesBoth(BlockCalls, s, t)
      /\ MakesBoth(BlockResults, s, t) /\ MakesBoth(BlockThoughts, s, t)
  BY <1>1, BothMake
<1> QED
  BY <1>2, <1>3 DEF Speaks, MakesBoth

(* No block says nothing.                                                  *)
LEMMA SilentSpeaks == Speaks(<<>>, <<>>, <<>>, <<>>, <<>>, <<>>)
<1>1. <<>> \in Seq(BlockSet)
  OBVIOUS
<1> QED
  BY <1>1, FlatImageEmpty DEF Speaks

(* One block says what it says.                                            *)
LEMMA OneSpeaks ==
  ASSUME NEW b \in BlockSet
  PROVE  Speaks(<<b>>, BlockTexts[b], BlockImages[b], BlockCalls[b], BlockResults[b], BlockThoughts[b])
<1>1. <<b>> \in Seq(BlockSet)
  OBVIOUS
<1> QED
  BY <1>1, BlockFunctions, FlatImageOne, ZenonT(40) DEF Speaks

(* The blocks made of images say the images and nothing else.              *)
LEMMA ImagesSpeak ==
  ASSUME NEW images \in Seq(ImageSet)
  PROVE  /\ Speaks(ImageBlocks(images), <<>>, ImageIds(images), <<>>, <<>>, <<>>)
         /\ ImageIds(ImageBlocks(images)) = ImageIds(images)
<1> DEFINE s == ImageBlocks(images)
           ids == ImageIds(images)
<1>1. s \in Seq(ImageBlockSet)
  BY ImageBlocksType
<1>2. Len(images) \in Nat /\ DOMAIN images = 1 .. Len(images)
  OBVIOUS
<1>3. Len(s) = Len(images) /\ \A k \in 1 .. Len(images) : s[k].id = images[k].id
  BY <1>2 DEF ImageBlocks, ImageBlock
<1>4. ids \in Seq(IdSet) /\ Len(ids) = Len(images) /\ \A k \in 1 .. Len(images) : ids[k] = images[k].id
  BY ImageIdsType
<1>5. ImageIds(s) = ids
  <2>1. DOMAIN s = 1 .. Len(images)
    BY <1>2 DEF ImageBlocks
  <2> HIDE DEF s
  <2> QED
    BY <1>2, <1>3, <2>1 DEF ImageIds
<1> HIDE DEF s, ids
<1>6. \A k \in 1 .. Len(s) : s[k] \in ImageBlockSet /\ ids[k] = s[k].id
  <2>1. \A k \in 1 .. Len(s) : s[k] \in ImageBlockSet
    BY <1>1
  <2> QED
    BY <1>3, <1>4, <2>1
<1>7. MakesEach(BlockImages, s, ids)
  BY <1>3, <1>4, <1>6, BlocksSay DEF MakesEach
<1>n. /\ MakesNone(BlockTexts, s)
      /\ MakesNone(BlockCalls, s)
      /\ MakesNone(BlockResults, s)
      /\ MakesNone(BlockThoughts, s)
  BY <1>6, BlocksSay DEF MakesNone
<1>8. s \in Seq(BlockSet)
  <2>1. ImageBlockSet \subseteq BlockSet
    BY DEF BlockSet
  <2> QED
    BY <1>1, <2>1
<1>9. FlatImage(BlockImages, s) = ids
  BY <1>4, <1>8, <1>7, BlockFunctions, FlatImageSingles, ZenonT(40)
<1>10. FlatImage(BlockTexts, s) = <<>>
  BY <1>n, <1>8, BlockFunctions, FlatImageNone
<1>11. FlatImage(BlockCalls, s) = <<>>
  BY <1>n, <1>8, BlockFunctions, FlatImageNone
<1>12. FlatImage(BlockResults, s) = <<>>
  BY <1>n, <1>8, BlockFunctions, FlatImageNone
<1>13. FlatImage(BlockThoughts, s) = <<>>
  BY <1>n, <1>8, BlockFunctions, FlatImageNone
<1> QED
  BY <1>5, <1>8, <1>9, <1>10, <1>11, <1>12, <1>13 DEF Speaks, s, ids

(* The blocks made of calls say the calls and nothing else.                *)
LEMMA UsesSpeak ==
  ASSUME NEW calls \in Seq(CallSet)
  PROVE  Speaks([k \in DOMAIN calls |-> ToolUseBlock(calls[k])], <<>>, <<>>, Ids(calls), <<>>, <<>>)
<1> DEFINE s == [k \in DOMAIN calls |-> ToolUseBlock(calls[k])]
           ids == Ids(calls)
<1>1. s \in Seq(BlockSet)
  BY ToolUseBlocksType
<1>2. Len(calls) \in Nat /\ DOMAIN calls = 1 .. Len(calls) /\ \A k \in 1 .. Len(calls) : calls[k] \in CallSet
  OBVIOUS
<1>3. Len(s) = Len(calls) /\ \A k \in 1 .. Len(calls) : s[k] = ToolUseBlock(calls[k])
  BY <1>2
<1>4. ids \in Seq(IdSet) /\ Len(ids) = Len(calls) /\ \A k \in 1 .. Len(calls) : ids[k] = calls[k].id
  BY IdsType
<1> HIDE DEF s, ids
<1>5. \A c \in CallSet : ToolUseBlock(c) \in ToolUseBlockSet /\ ToolUseBlock(c).id = c.id
  BY DEF CallSet, ToolUseBlock, ToolUseBlockSet
<1>6. \A k \in 1 .. Len(s) : s[k] \in ToolUseBlockSet /\ ids[k] = s[k].id
  BY <1>2, <1>3, <1>4, <1>5
<1>7. MakesEach(BlockCalls, s, ids)
  BY <1>3, <1>4, <1>6, BlocksSay DEF MakesEach
<1>n. /\ MakesNone(BlockTexts, s)
      /\ MakesNone(BlockImages, s)
      /\ MakesNone(BlockResults, s)
      /\ MakesNone(BlockThoughts, s)
  BY <1>6, BlocksSay DEF MakesNone
<1>9. FlatImage(BlockCalls, s) = ids
  BY <1>1, <1>4, <1>7, BlockFunctions, FlatImageSingles, ZenonT(40)
<1>10. FlatImage(BlockTexts, s) = <<>>
  BY <1>1, <1>n, BlockFunctions, FlatImageNone
<1>11. FlatImage(BlockImages, s) = <<>>
  BY <1>1, <1>n, BlockFunctions, FlatImageNone
<1>12. FlatImage(BlockResults, s) = <<>>
  BY <1>1, <1>n, BlockFunctions, FlatImageNone
<1>13. FlatImage(BlockThoughts, s) = <<>>
  BY <1>1, <1>n, BlockFunctions, FlatImageNone
<1> QED
  BY <1>1, <1>9, <1>10, <1>11, <1>12, <1>13 DEF Speaks, s, ids

(* The content a message of the history becomes.                           *)
ContentOf(m) ==
  CASE m.kind = "User" -> <<TextBlock(m.text)>> \o ImageBlocks(m.images)
    [] m.kind = "Assistant" -> AssistantBlocks(m)
    [] m.kind = "Tool" -> <<ResultBlock(m)>>
    [] OTHER -> <<>>

(* AnthropicMessage makes a turn of that content, or nothing when there is *)
(* none.                                                                   *)
LEMMA TurnIs ==
  ASSUME NEW m \in MessageSet
  PROVE  IF AnthropicMessage(m) = <<>> THEN ContentOf(m) = <<>>
         ELSE AnthropicMessage(m)[1] = Turn(IF m.kind = "Assistant" THEN "assistant" ELSE "user", ContentOf(m))
<1>0. \A x : <<x>> # <<>> /\ <<x>>[1] = x
  OBVIOUS
<1>1. m.kind \in {"System", "User", "Assistant", "Tool", "Custom"}
  BY KindsApart DEF MessageSet
<1>2. CASE m.kind = "User"
  BY <1>0, <1>2 DEF AnthropicMessage, ContentOf
<1>3. CASE m.kind = "Assistant"
  BY <1>0, <1>3 DEF AnthropicMessage, ContentOf
<1>4. CASE m.kind = "Tool"
  BY <1>0, <1>4 DEF AnthropicMessage, ContentOf
<1>5. CASE m.kind \in {"System", "Custom"}
  BY <1>5 DEF AnthropicMessage, ContentOf
<1> QED
  BY <1>1, <1>2, <1>3, <1>4, <1>5

ResultsFrom ==
  [m \in MessageSet |-> IF m.kind = "Tool" THEN <<Result(m.id, m.text, m.images)>> ELSE <<>>]
ThoughtsFrom ==
  [m \in MessageSet |->
     IF m.kind = "Assistant" /\ m.reasoning # None /\ m.signature # None
       THEN <<ThinkingBlock(m.reasoning, m.signature)>> ELSE <<>>]
SpokenBy(m) == IF m.kind \in {"User", "Assistant"} /\ Said(m.text) THEN m.text ELSE <<>>

(* A block that stands on a condition says its part, or nothing.           *)
LEMMA WhenSpeaks ==
  ASSUME NEW cond \in BOOLEAN, NEW b, cond => b \in BlockSet
  PROVE  IF cond THEN Speaks(When(cond, b), BlockTexts[b], BlockImages[b], BlockCalls[b],
                             BlockResults[b], BlockThoughts[b])
         ELSE Speaks(When(cond, b), <<>>, <<>>, <<>>, <<>>, <<>>)
<1>1. CASE cond
  <2>1. When(cond, b) = <<b>>
    BY <1>1 DEF When
  <2> QED
    BY <1>1, <2>1, OneSpeaks
<1>2. CASE ~cond
  <2>1. When(cond, b) = <<>>
    BY <1>2 DEF When
  <2> QED
    BY <1>2, <2>1, SilentSpeaks
<1> QED
  BY <1>1, <1>2

(* A user's blocks say its text and its images.                            *)
LEMMA UserSpeaks ==
  ASSUME NEW m \in UserSet
  PROVE  Speaks(ContentOf(m), m.text, ImageIds(m.images), <<>>, <<>>, <<>>)
<1> DEFINE text == m.text
           images == m.images
           b == TextBlock(text)
           ids == ImageIds(images)
<1>1. m.kind = "User" /\ text \in Seq(Nat) /\ images \in Seq(ImageSet)
  BY KindsApart DEF UserSet, TextSet
<1>2. ContentOf(m) = <<b>> \o ImageBlocks(images)
  BY <1>1 DEF ContentOf
<1>3. b \in TextBlockSet /\ b.text = text
  BY <1>1 DEF TextBlock, TextBlockSet, TextSet
<1>4. Speaks(ImageBlocks(images), <<>>, ids, <<>>, <<>>, <<>>) /\ ids \in Seq(IdSet)
  BY <1>1, ImagesSpeak, ImageIdsType
<1> HIDE DEF text, images, b, ids
<1>5. Speaks(<<b>>, text, <<>>, <<>>, <<>>, <<>>)
  <2>1. b \in BlockSet /\ BlockTexts[b] = text
        /\ BlockImages[b] = <<>> /\ BlockCalls[b] = <<>> /\ BlockResults[b] = <<>> /\ BlockThoughts[b] = <<>>
    BY <1>3, BlocksSay
  <2>2. Speaks(<<b>>, BlockTexts[b], BlockImages[b], BlockCalls[b], BlockResults[b], BlockThoughts[b])
    BY <2>1, OneSpeaks
  <2> QED
    BY <2>1, <2>2
<1>6. Speaks(<<b>> \o ImageBlocks(images), text \o <<>>, <<>> \o ids, <<>> \o <<>>, <<>> \o <<>>, <<>> \o <<>>)
  BY <1>4, <1>5, SpeakTogether
<1>7. text \o <<>> = text /\ <<>> \o ids = ids /\ <<>> \o <<>> = <<>>
  BY <1>1, <1>4
<1> QED
  BY <1>2, <1>6, <1>7 DEF text, ids, images

(* A tool's block says its result, images and all.                         *)
LEMMA ToolSpeaks ==
  ASSUME NEW m \in ToolSet
  PROVE  Speaks(ContentOf(m), <<>>, <<>>, <<>>, <<Result(m.id, m.text, m.images)>>, <<>>)
<1> DEFINE b == ResultBlock(m)
           images == m.images
<1>1. m.kind = "Tool" /\ m.id \in IdSet /\ m.text \in TextSet /\ images \in Seq(ImageSet)
  BY KindsApart DEF ToolSet, IdSet
<1>2. ImageBlocks(images) \in Seq(ImageBlockSet) /\ ImageIds(ImageBlocks(images)) = ImageIds(images)
  BY <1>1, ImageBlocksType, ImagesSpeak
<1>3. b \in ResultBlockSet /\ b.id = m.id /\ b.text = m.text /\ b.images = ImageBlocks(images)
  BY <1>1, <1>2 DEF ResultBlock, ResultBlockSet, IdSet
<1>4. ContentOf(m) = <<b>>
  BY <1>1 DEF ContentOf
<1> HIDE DEF b, images
<1>5. b \in BlockSet /\ BlockResults[b] = <<Result(b.id, b.text, b.images)>>
      /\ BlockTexts[b] = <<>> /\ BlockImages[b] = <<>> /\ BlockCalls[b] = <<>> /\ BlockThoughts[b] = <<>>
  BY <1>3, BlocksSay
<1>6. Result(b.id, b.text, b.images) = Result(m.id, m.text, m.images)
  BY <1>2, <1>3 DEF Result, images
<1>7. Speaks(<<b>>, BlockTexts[b], BlockImages[b], BlockCalls[b], BlockResults[b], BlockThoughts[b])
  BY <1>5, OneSpeaks
<1> QED
  BY <1>4, <1>5, <1>6, <1>7

(* An assistant's blocks say its thinking if it is signed, its text if it  *)
(* has one, and its calls.                                                 *)
LEMMA AssistantSpeaks ==
  ASSUME NEW m \in AssistantSet
  PROVE  Speaks(ContentOf(m), SpokenBy(m), <<>>, Ids(CallsOf(m)), <<>>, ThoughtsFrom[m])
<1> DEFINE thinks == m.reasoning # None /\ m.signature # None
           t == ThinkingBlock(m.reasoning, m.signature)
           b == TextBlock(m.text)
           says == Said(m.text)
           text == SpokenBy(m)
           ids == Ids(CallsOf(m))
           thoughts == ThoughtsFrom[m]
           uses == IF m.calls = None THEN <<>> ELSE [k \in DOMAIN m.calls |-> ToolUseBlock(m.calls[k])]
<1>0. /\ m.kind = "Assistant" /\ m \in MessageSet
      /\ m.text \in TextSet \cup {None} /\ m.reasoning \in TextSet \cup {None}
      /\ m.signature \in Nat \cup {None} /\ m.calls \in Seq(CallSet) \cup {None}
  BY KindsApart DEF AssistantSet, MessageSet
<1>1. ContentOf(m) = When(thinks, t) \o When(says, b) \o uses
  BY <1>0 DEF ContentOf, AssistantBlocks
<1>2. Speaks(When(thinks, t), <<>>, <<>>, <<>>, <<>>, thoughts)
  <2>1. thoughts = IF thinks THEN <<t>> ELSE <<>>
    BY <1>0 DEF ThoughtsFrom
  <2>2. thinks => t \in ThinkingBlockSet
    BY <1>0 DEF ThinkingBlock, ThinkingBlockSet
  <2>3. thinks \in BOOLEAN
    OBVIOUS
  <2> HIDE DEF thinks, t, thoughts
  <2>4. thinks => /\ t \in BlockSet /\ BlockThoughts[t] = <<t>>
                  /\ BlockTexts[t] = <<>> /\ BlockImages[t] = <<>>
                  /\ BlockCalls[t] = <<>> /\ BlockResults[t] = <<>>
    BY <2>2, BlocksSay
  <2> QED
    BY <2>1, <2>3, <2>4, WhenSpeaks
<1>3. Speaks(When(says, b), text, <<>>, <<>>, <<>>, <<>>)
  <2>1. text = IF says THEN m.text ELSE <<>>
    BY <1>0 DEF SpokenBy
  <2>2. says => b \in TextBlockSet /\ b.text = m.text
    BY <1>0 DEF TextBlock, TextBlockSet, Said
  <2>3. says \in BOOLEAN
    BY DEF Said
  <2> HIDE DEF says, b, text
  <2>4. says => /\ b \in BlockSet /\ BlockTexts[b] = m.text
                /\ BlockImages[b] = <<>> /\ BlockCalls[b] = <<>>
                /\ BlockResults[b] = <<>> /\ BlockThoughts[b] = <<>>
    BY <2>2, BlocksSay
  <2> QED
    BY <2>1, <2>3, <2>4, WhenSpeaks
<1>4. Speaks(uses, <<>>, <<>>, ids, <<>>, <<>>)
  <2>1. CASE m.calls = None
    <3>1. ids = <<>> /\ uses = <<>>
      BY <2>1 DEF CallsOf, Ids
    <3> QED
      BY <3>1, SilentSpeaks
  <2>2. CASE m.calls # None
    <3>1. CallsOf(m) = m.calls /\ m.calls \in Seq(CallSet)
      BY <1>0, <2>2 DEF CallsOf
    <3>2. Speaks([k \in DOMAIN m.calls |-> ToolUseBlock(m.calls[k])], <<>>, <<>>, Ids(m.calls), <<>>, <<>>)
      BY <3>1, UsesSpeak
    <3> QED
      BY <2>2, <3>1, <3>2
  <2> QED
    BY <2>1, <2>2
<1>5. text \in Seq(Nat) /\ ids \in Seq(IdSet) /\ thoughts \in Seq(ThinkingBlockSet)
  <2>1. text \in Seq(Nat)
    BY <1>0 DEF SpokenBy, Said, TextSet
  <2>2. ids \in Seq(IdSet)
    BY <1>0, CallsOfType, IdsType
  <2>3. thoughts \in Seq(ThinkingBlockSet)
    <3>1. thoughts = IF thinks THEN <<t>> ELSE <<>>
      BY <1>0 DEF ThoughtsFrom
    <3>2. thinks => t \in ThinkingBlockSet
      BY <1>0 DEF ThinkingBlock, ThinkingBlockSet
    <3> HIDE DEF thinks, t, thoughts
    <3> QED
      BY <3>1, <3>2
  <2> QED
    BY <2>1, <2>2, <2>3
<1> DEFINE x == When(thinks, t)
           y == When(says, b)
<1>a. Speaks(x, <<>>, <<>>, <<>>, <<>>, thoughts) /\ Speaks(y, text, <<>>, <<>>, <<>>, <<>>)
  BY <1>2, <1>3
<1>b. ContentOf(m) = x \o y \o uses
  BY <1>1
<1> HIDE DEF thinks, t, b, says, text, ids, thoughts, uses, x, y
<1>6. Speaks(x \o y, <<>> \o text, <<>> \o <<>>, <<>> \o <<>>, <<>> \o <<>>, thoughts \o <<>>)
  BY <1>a, SpeakTogether
<1>7. /\ <<>> \o text = text /\ <<>> \o <<>> = <<>> /\ thoughts \o <<>> = thoughts
      /\ text \o <<>> = text /\ <<>> \o ids = ids
  BY <1>5
<1>8. Speaks(x \o y, text, <<>>, <<>>, <<>>, thoughts)
  BY <1>6, <1>7
<1> DEFINE z == x \o y
<1>9. Speaks(z, text, <<>>, <<>>, <<>>, thoughts) /\ ContentOf(m) = z \o uses
  BY <1>8, <1>b
<1> HIDE DEF z
<1>10. Speaks(z \o uses, text \o <<>>, <<>> \o <<>>, <<>> \o ids, <<>> \o <<>>, thoughts \o <<>>)
  BY <1>4, <1>9, SpeakTogether
<1> QED
  BY <1>7, <1>9, <1>10 DEF text, ids, thoughts

(* A message and its turn say the same, list by list.                      *)
LEMMA ContentSpeaks ==
  ASSUME NEW m \in MessageSet
  PROVE  Speaks(ContentOf(m), SpokenBy(m), ImagesFrom[m], CallsFrom[m], ResultsFrom[m], ThoughtsFrom[m])
<1>1. /\ ImagesFrom[m] = (IF m.kind = "User" THEN ImageIds(m.images) ELSE <<>>)
      /\ CallsFrom[m] = Ids(CallsOf(m))
      /\ ResultsFrom[m] = (IF m.kind = "Tool" THEN <<Result(m.id, m.text, m.images)>> ELSE <<>>)
      /\ m.kind # "Assistant" => ThoughtsFrom[m] = <<>> /\ Ids(CallsOf(m)) = <<>>
  BY DEF ImagesFrom, CallsFrom, ResultsFrom, ThoughtsFrom, CallsOf, Ids
<1>2. CASE m \in UserSet
  <2>1. m.kind = "User" /\ m.text \in TextSet
    BY <1>2, KindsApart DEF UserSet
  <2>2. SpokenBy(m) = m.text
    BY <2>1, NoneAssumption DEF SpokenBy, Said
  <2>3. Speaks(ContentOf(m), m.text, ImageIds(m.images), <<>>, <<>>, <<>>)
    BY <1>2, UserSpeaks
  <2> QED
    BY <1>1, <2>1, <2>2, <2>3
<1>3. CASE m \in AssistantSet
  <2>1. m.kind = "Assistant"
    BY <1>3, KindsApart
  <2>2. Speaks(ContentOf(m), SpokenBy(m), <<>>, Ids(CallsOf(m)), <<>>, ThoughtsFrom[m])
    BY <1>3, AssistantSpeaks
  <2> QED
    BY <1>1, <2>1, <2>2
<1>4. CASE m \in ToolSet
  <2>1. m.kind = "Tool" /\ SpokenBy(m) = <<>>
    BY <1>4, KindsApart DEF SpokenBy
  <2>2. Speaks(ContentOf(m), <<>>, <<>>, <<>>, <<Result(m.id, m.text, m.images)>>, <<>>)
    BY <1>4, ToolSpeaks
  <2> QED
    BY <1>1, <2>1, <2>2
<1>5. CASE m \in SystemSet \cup {Custom}
  <2>1. m.kind \in {"System", "Custom"}
    BY <1>5, KindsApart
  <2>2. ContentOf(m) = <<>> /\ SpokenBy(m) = <<>>
    BY <2>1 DEF ContentOf, SpokenBy
  <2> QED
    BY <1>1, <2>1, <2>2, SilentSpeaks
<1> QED
  BY <1>2, <1>3, <1>4, <1>5 DEF MessageSet

-----------------------------------------------------------------------------
(* What a turn says, and the request of turns. *)

Over(B) == [turn \in TurnSet |-> FlatImage(B, turn.content)]
OverRole(role) ==
  [turn \in TurnSet |-> IF turn.role = role THEN FlatImage(BlockTexts, turn.content) ELSE <<>>]

(* What a turn says is what its blocks say, and turns joined say both.     *)
LEMMA OverTurns ==
  ASSUME NEW T, NEW B \in [BlockSet -> Seq(T)]
  PROVE  Over(B) \in [TurnSet -> Seq(T)] /\ JoinsTurns(Over(B))
<1>1. ASSUME NEW turn \in TurnSet
      PROVE  FlatImage(B, turn.content) \in Seq(T)
  <2>1. turn.content \in Seq(BlockSet)
    BY DEF TurnSet
  <2> QED
    BY <2>1, FlatImageType
<1>2. Over(B) \in [TurnSet -> Seq(T)]
  BY <1>1 DEF Over
<1>3. ASSUME NEW p \in TurnSet, NEW msg \in TurnSet, p.role = msg.role
      PROVE  Over(B)[[p EXCEPT !.content = @ \o msg.content]] = Over(B)[p] \o Over(B)[msg]
  <2> DEFINE e == [p EXCEPT !.content = @ \o msg.content]
             s == p.content
             t == msg.content
  <2>1. e \in TurnSet /\ e.content = s \o t
    BY LongerTurn
  <2>2. s \in Seq(BlockSet) /\ t \in Seq(BlockSet)
    BY DEF TurnSet
  <2>3. Over(B)[p] = FlatImage(B, s) /\ Over(B)[msg] = FlatImage(B, t)
    BY DEF Over
  <2> HIDE DEF e, s, t
  <2>4. Over(B)[e] = FlatImage(B, s \o t)
    BY <2>1 DEF Over
  <2>5. MakesBoth(B, s, t)
    BY <2>2, FlatImageConcat
  <2> QED
    BY <2>3, <2>4, <2>5 DEF MakesBoth, e
<1> QED
  BY <1>2, <1>3 DEF JoinsTurns

(* The same of the texts of one role's turns.                              *)
LEMMA OverRoles ==
  ASSUME NEW role
  PROVE  OverRole(role) \in [TurnSet -> Seq(Nat)] /\ JoinsTurns(OverRole(role))
<1> DEFINE F == Over(BlockTexts)
<1>1. F \in [TurnSet -> Seq(Nat)] /\ JoinsTurns(F)
  BY BlockFunctions, OverTurns
<1>2. \A turn \in TurnSet : OverRole(role)[turn] = IF turn.role = role THEN F[turn] ELSE <<>>
  BY DEF OverRole, Over
<1>3. OverRole(role) = [turn \in TurnSet |-> OverRole(role)[turn]]
  BY DEF OverRole
<1> HIDE DEF F
<1>4. OverRole(role) \in [TurnSet -> Seq(Nat)]
  <2>1. \A turn \in TurnSet : OverRole(role)[turn] \in Seq(Nat)
    <3>1. <<>> \in Seq(Nat) /\ \A turn \in TurnSet : F[turn] \in Seq(Nat)
      BY <1>1
    <3> QED
      BY <1>2, <3>1
  <2> QED
    BY <1>3, <2>1
<1>5. ASSUME NEW p \in TurnSet, NEW msg \in TurnSet, p.role = msg.role
      PROVE  OverRole(role)[[p EXCEPT !.content = @ \o msg.content]] = OverRole(role)[p] \o OverRole(role)[msg]
  <2> DEFINE e == [p EXCEPT !.content = @ \o msg.content]
  <2>1. e \in TurnSet /\ e.role = p.role
    BY LongerTurn
  <2>2. F[e] = F[p] \o F[msg]
    BY <1>1, <1>5 DEF JoinsTurns
  <2>3. <<>> \o <<>> = <<>>
    OBVIOUS
  <2> HIDE DEF e
  <2> QED
    BY <1>2, <1>5, <2>1, <2>2, <2>3 DEF e
<1> QED
  BY <1>4, <1>5 DEF JoinsTurns

Speakers == {"User", "Assistant"}

(* Conversion to turns keeps each of the lists.                            *)
LEMMA ConvertsToAll ==
  /\ \A kind \in Speakers : ConvertsToTurns(OverRole(RoleOf(kind)), TextsFrom(kind))
  /\ ConvertsToTurns(Over(BlockImages), ImagesFrom)
  /\ ConvertsToTurns(Over(BlockCalls), CallsFrom)
  /\ ConvertsToTurns(Over(BlockResults), ResultsFrom)
  /\ ConvertsToTurns(Over(BlockThoughts), ThoughtsFrom)
<1>1. ASSUME NEW m \in MessageSet, AnthropicMessage(m) = <<>>
      PROVE  /\ SpokenBy(m) = <<>> /\ ImagesFrom[m] = <<>> /\ CallsFrom[m] = <<>>
             /\ ResultsFrom[m] = <<>> /\ ThoughtsFrom[m] = <<>>
  <2>1. Speaks(<<>>, SpokenBy(m), ImagesFrom[m], CallsFrom[m], ResultsFrom[m], ThoughtsFrom[m])
    BY <1>1, TurnIs, ContentSpeaks
  <2>2. Speaks(<<>>, <<>>, <<>>, <<>>, <<>>, <<>>)
    BY SilentSpeaks
  <2> QED
    BY <2>1, <2>2 DEF Speaks
<1>2. ASSUME NEW m \in MessageSet, AnthropicMessage(m) # <<>>, NEW turn, turn = AnthropicMessage(m)[1]
      PROVE  /\ turn \in TurnSet /\ turn.role = (IF m.kind = "Assistant" THEN "assistant" ELSE "user")
             /\ FlatImage(BlockTexts, turn.content) = SpokenBy(m)
             /\ Over(BlockImages)[turn] = ImagesFrom[m]
             /\ Over(BlockCalls)[turn] = CallsFrom[m]
             /\ Over(BlockResults)[turn] = ResultsFrom[m]
             /\ Over(BlockThoughts)[turn] = ThoughtsFrom[m]
  <2>1. turn \in TurnSet
    BY <1>2, AnthropicMessageType
  <2>a. turn = Turn(IF m.kind = "Assistant" THEN "assistant" ELSE "user", ContentOf(m))
    BY <1>2, TurnIs
  <2>2. turn.role = (IF m.kind = "Assistant" THEN "assistant" ELSE "user") /\ turn.content = ContentOf(m)
    BY <2>a, Zenon DEF Turn
  <2>3. Speaks(turn.content, SpokenBy(m), ImagesFrom[m], CallsFrom[m], ResultsFrom[m], ThoughtsFrom[m])
    BY <2>2, ContentSpeaks
  <2> QED
    BY <2>1, <2>2, <2>3 DEF Speaks, Over
<1>3. ASSUME NEW kind \in Speakers
      PROVE  ConvertsToTurns(OverRole(RoleOf(kind)), TextsFrom(kind))
  <2>1. RoleOf(kind) = IF kind = "Assistant" THEN "assistant" ELSE "user"
    BY DEF Speakers, RoleOf
  <2>2. ASSUME NEW m \in MessageSet
        PROVE  TextsFrom(kind)[m] = IF AnthropicMessage(m) = <<>> THEN <<>>
                                    ELSE OverRole(RoleOf(kind))[AnthropicMessage(m)[1]]
    <3>1. TextsFrom(kind)[m] = IF m.kind = kind THEN SpokenBy(m) ELSE <<>>
      BY DEF TextsFrom, SpokenBy, Speakers
    <3>2. CASE AnthropicMessage(m) = <<>>
      BY <1>1, <3>1, <3>2
    <3>3. CASE AnthropicMessage(m) # <<>>
      <4> DEFINE turn == AnthropicMessage(m)[1]
      <4>1. turn \in TurnSet /\ turn.role = (IF m.kind = "Assistant" THEN "assistant" ELSE "user")
            /\ FlatImage(BlockTexts, turn.content) = SpokenBy(m)
        BY <1>2, <3>3
      <4> HIDE DEF turn
      <4>2. OverRole(RoleOf(kind))[turn] = IF turn.role = RoleOf(kind) THEN SpokenBy(m) ELSE <<>>
        BY <4>1 DEF OverRole
      <4>3. m.kind \notin Speakers => SpokenBy(m) = <<>>
        BY DEF SpokenBy, Speakers
      <4> QED
        BY <2>1, <3>1, <3>3, <4>1, <4>2, <4>3 DEF Speakers, turn
    <3> QED
      BY <3>2, <3>3
  <2> QED
    BY <2>2 DEF ConvertsToTurns
<1>4. ASSUME NEW m \in MessageSet, NEW B \in {BlockImages, BlockCalls, BlockResults, BlockThoughts}
      PROVE  LET G == IF AnthropicMessage(m) = <<>> THEN <<>> ELSE Over(B)[AnthropicMessage(m)[1]]
             IN  /\ B = BlockImages => ImagesFrom[m] = G
                 /\ B = BlockCalls => CallsFrom[m] = G
                 /\ B = BlockResults => ResultsFrom[m] = G
                 /\ B = BlockThoughts => ThoughtsFrom[m] = G
  BY <1>1, <1>2
<1> QED
  BY <1>3, <1>4 DEF ConvertsToTurns

SystemFrom == [m \in MessageSet |-> IF m.kind = "System" THEN <<m.text>> ELSE <<>>]

(* What a message has of results, thinking and system prompt is a list.    *)
LEMMA MoreFunctions ==
  /\ ResultsFrom \in [MessageSet -> Seq(ResultSet)]
  /\ ThoughtsFrom \in [MessageSet -> Seq(ThinkingBlockSet)]
  /\ SystemFrom \in [MessageSet -> Seq(TextSet)]
<1>0. <<>> \in Seq(ResultSet) /\ <<>> \in Seq(ThinkingBlockSet) /\ <<>> \in Seq(TextSet)
  OBVIOUS
<1>1. ASSUME NEW m \in MessageSet, m.kind = "Tool"
      PROVE  <<Result(m.id, m.text, m.images)>> \in Seq(ResultSet)
  <2>1. m \in ToolSet
    BY <1>1, KindsApart DEF MessageSet
  <2>2. m.id \in IdSet /\ m.text \in TextSet /\ m.images \in Seq(ImageSet)
    BY <2>1 DEF ToolSet, IdSet
  <2>3. ImageIds(m.images) \in Seq(IdSet)
    BY <2>2, ImageIdsType
  <2>4. Result(m.id, m.text, m.images) \in ResultSet
    BY <2>2, <2>3 DEF Result, ResultSet
  <2> QED
    BY <2>4
<1>2. ASSUME NEW m \in MessageSet, m.kind = "Assistant", m.reasoning # None, m.signature # None
      PROVE  <<ThinkingBlock(m.reasoning, m.signature)>> \in Seq(ThinkingBlockSet)
  <2>1. m \in AssistantSet
    BY <1>2, KindsApart DEF MessageSet
  <2>2. m.reasoning \in TextSet /\ m.signature \in Nat
    BY <1>2, <2>1 DEF AssistantSet
  <2>3. ThinkingBlock(m.reasoning, m.signature) \in ThinkingBlockSet
    BY <2>2 DEF ThinkingBlock, ThinkingBlockSet
  <2> QED
    BY <2>3
<1>3. ASSUME NEW m \in MessageSet, m.kind = "System"
      PROVE  <<m.text>> \in Seq(TextSet)
  <2>1. m \in SystemSet
    BY <1>3, KindsApart DEF MessageSet
  <2>2. m.text \in TextSet
    BY <2>1 DEF SystemSet
  <2> QED
    BY <2>2
<1>4. ResultsFrom \in [MessageSet -> Seq(ResultSet)]
  BY <1>0, <1>1 DEF ResultsFrom
<1>5. ThoughtsFrom \in [MessageSet -> Seq(ThinkingBlockSet)]
  BY <1>0, <1>2 DEF ThoughtsFrom
<1>6. SystemFrom \in [MessageSet -> Seq(TextSet)]
  BY <1>0, <1>3 DEF SystemFrom
<1> QED
  BY <1>4, <1>5, <1>6

(* The invariant: the request says what the history says.                  *)
PromptOf(texts) == IF texts = <<>> THEN None ELSE texts

AnthropicSays ==
  /\ system = PromptOf(FlatImage(SystemFrom, history))
  /\ \A kind \in Speakers : FlatImage(OverRole(RoleOf(kind)), anthropic) = FlatImage(TextsFrom(kind), history)
  /\ FlatImage(Over(BlockImages), anthropic) = FlatImage(ImagesFrom, history)
  /\ FlatImage(Over(BlockCalls), anthropic) = FlatImage(CallsFrom, history)
  /\ FlatImage(Over(BlockResults), anthropic) = FlatImage(ResultsFrom, history)
  /\ FlatImage(Over(BlockThoughts), anthropic) = FlatImage(ThoughtsFrom, history)

(* The system prompt takes the text of a system message, and of no other.  *)
LEMMA SystemSaysMore ==
  ASSUME ConversionInv, NEW m \in MessageSet, Take(m), AnthropicSays
  PROVE  system' = PromptOf(FlatImage(SystemFrom, history'))
<1>1. history \in Seq(MessageSet) /\ history' = Append(history, m)
  BY DEF ConversionInv, Take
<1> DEFINE texts == FlatImage(SystemFrom, history)
<1>2. texts \in Seq(TextSet) /\ FlatImage(SystemFrom, history') = texts \o SystemFrom[m]
  BY <1>1, MoreFunctions, FlatImageType, FlatImageAppend
<1>3. system = PromptOf(texts) /\ system' = SystemPrompt(system, m)
  BY DEF AnthropicSays, Take
<1> HIDE DEF texts
<1>4. CASE m.kind = "System"
  <2>1. SystemFrom[m] = <<m.text>> /\ m.text \in TextSet
    <3>1. m \in SystemSet
      BY <1>4, KindsApart DEF MessageSet
    <3> QED
      BY <1>4, <3>1 DEF SystemFrom, SystemSet
  <2>2. texts \o <<m.text>> = Append(texts, m.text) /\ Append(texts, m.text) # <<>>
    BY <1>2, <2>1
  <2>3. system' = Append(texts, m.text)
    <3>1. texts # None
      BY <1>2, NoneAssumption
    <3>2. CASE texts = <<>>
      BY <1>3, <1>4, <3>2 DEF PromptOf, SystemPrompt
    <3>3. CASE texts # <<>>
      BY <1>3, <1>4, <3>1, <3>3 DEF PromptOf, SystemPrompt
    <3> QED
      BY <3>2, <3>3
  <2> QED
    BY <1>2, <2>1, <2>2, <2>3 DEF PromptOf
<1>5. CASE m.kind # "System"
  <2>1. SystemFrom[m] = <<>> /\ system' = system
    BY <1>3, <1>5 DEF SystemFrom, SystemPrompt
  <2>2. texts \o <<>> = texts
    BY <1>2
  <2> QED
    BY <1>2, <1>3, <2>1, <2>2
<1> QED
  BY <1>4, <1>5

(* Taking a message keeps the turns saying what the history says.          *)
LEMMA AnthropicSaysMore ==
  ASSUME ConversionInv, NEW m \in MessageSet, Take(m), AnthropicSays
  PROVE  AnthropicSays'
<1>1. ASSUME NEW kind \in Speakers
      PROVE  FlatImage(OverRole(RoleOf(kind)), anthropic') = FlatImage(TextsFrom(kind), history')
  <2> DEFINE F == OverRole(RoleOf(kind))
             G == TextsFrom(kind)
  <2>1. F \in [TurnSet -> Seq(Nat)] /\ JoinsTurns(F)
    BY OverRoles
  <2>2. G \in [MessageSet -> Seq(Nat)] /\ ConvertsToTurns(F, G)
    BY HistoryFunctions, ConvertsToAll DEF Speakers
  <2>3. FlatImage(F, anthropic) = FlatImage(G, history)
    BY DEF AnthropicSays
  <2> HIDE DEF F, G
  <2> QED
    BY <2>1, <2>2, <2>3, AnthropicTakesAll DEF F, G
<1>2. FlatImage(Over(BlockImages), anthropic') = FlatImage(ImagesFrom, history')
  <2>1. Over(BlockImages) \in [TurnSet -> Seq(IdSet)] /\ JoinsTurns(Over(BlockImages))
    BY BlockFunctions, OverTurns
  <2> QED
    BY <2>1, HistoryFunctions, ConvertsToAll, AnthropicTakesAll DEF AnthropicSays
<1>3. FlatImage(Over(BlockCalls), anthropic') = FlatImage(CallsFrom, history')
  <2>1. Over(BlockCalls) \in [TurnSet -> Seq(IdSet)] /\ JoinsTurns(Over(BlockCalls))
    BY BlockFunctions, OverTurns
  <2> QED
    BY <2>1, HistoryFunctions, ConvertsToAll, AnthropicTakesAll DEF AnthropicSays
<1>4. FlatImage(Over(BlockResults), anthropic') = FlatImage(ResultsFrom, history')
  <2>1. Over(BlockResults) \in [TurnSet -> Seq(ResultSet)] /\ JoinsTurns(Over(BlockResults))
    BY BlockFunctions, OverTurns
  <2> QED
    BY <2>1, MoreFunctions, ConvertsToAll, AnthropicTakesAll DEF AnthropicSays
<1>5. FlatImage(Over(BlockThoughts), anthropic') = FlatImage(ThoughtsFrom, history')
  <2>1. Over(BlockThoughts) \in [TurnSet -> Seq(ThinkingBlockSet)] /\ JoinsTurns(Over(BlockThoughts))
    BY BlockFunctions, OverTurns
  <2> QED
    BY <2>1, MoreFunctions, ConvertsToAll, AnthropicTakesAll DEF AnthropicSays
<1>6. system' = PromptOf(FlatImage(SystemFrom, history'))
  BY SystemSaysMore
<1> QED
  BY <1>1, <1>2, <1>3, <1>4, <1>5, <1>6 DEF AnthropicSays

(* The lists of blocks in AnthropicSaysAll are images of the blocks.       *)
LEMMA BlockListsAre ==
  ASSUME NEW s \in Seq(BlockSet)
  PROVE  /\ FlatMap(BlockText, s) = FlatImage(BlockTexts, s)
         /\ FlatMap(BlockImage, s) = FlatImage(BlockImages, s)
         /\ FlatMap(BlockCall, s) = FlatImage(BlockCalls, s)
         /\ FlatMap(BlockResult, s) = FlatImage(BlockResults, s)
         /\ FlatMap(BlockThought, s) = FlatImage(BlockThoughts, s)
<1>1. \A n \in DOMAIN s : s[n] \in BlockSet
  OBVIOUS
<1>2. FlatMap(BlockText, s) = FlatImage(BlockTexts, s)
  BY <1>1 DEF FlatMap, FlatImage, Mapped, BlockTexts
<1>3. FlatMap(BlockImage, s) = FlatImage(BlockImages, s)
  BY <1>1 DEF FlatMap, FlatImage, Mapped, BlockImages
<1>4. FlatMap(BlockCall, s) = FlatImage(BlockCalls, s)
  BY <1>1 DEF FlatMap, FlatImage, Mapped, BlockCalls
<1>5. FlatMap(BlockResult, s) = FlatImage(BlockResults, s)
  BY <1>1 DEF FlatMap, FlatImage, Mapped, BlockResults
<1>6. FlatMap(BlockThought, s) = FlatImage(BlockThoughts, s)
  BY <1>1 DEF FlatMap, FlatImage, Mapped, BlockThoughts
<1> QED
  BY <1>2, <1>3, <1>4, <1>5, <1>6

(* The lists of AnthropicSaysAll are images of the turns and of the        *)
(* history.                                                                *)
LEMMA AnthropicListsAre ==
  ASSUME ConversionInv
  PROVE  /\ \A role : TextsOfTurns(role) = FlatImage(OverRole(role), anthropic)
         /\ InTurns(BlockImage) = FlatImage(Over(BlockImages), anthropic)
         /\ InTurns(BlockCall) = FlatImage(Over(BlockCalls), anthropic)
         /\ InTurns(BlockResult) = FlatImage(Over(BlockResults), anthropic)
         /\ InTurns(BlockThought) = FlatImage(Over(BlockThoughts), anthropic)
         /\ SystemTexts = FlatImage(SystemFrom, history)
         /\ Results = FlatImage(ResultsFrom, history)
         /\ SignedThoughts = FlatImage(ThoughtsFrom, history)
<1>1. \A n \in DOMAIN anthropic : anthropic[n] \in TurnSet
  BY DEF ConversionInv, MergedTurns
<1>2. \A n \in DOMAIN history : history[n] \in MessageSet
  BY DEF ConversionInv
<1>3. \A turn \in TurnSet : turn.content \in Seq(BlockSet)
  BY DEF TurnSet
<1>4. ASSUME NEW turn \in TurnSet
      PROVE  /\ FlatMap(BlockText, turn.content) = FlatImage(BlockTexts, turn.content)
             /\ FlatMap(BlockImage, turn.content) = FlatImage(BlockImages, turn.content)
             /\ FlatMap(BlockCall, turn.content) = FlatImage(BlockCalls, turn.content)
             /\ FlatMap(BlockResult, turn.content) = FlatImage(BlockResults, turn.content)
             /\ FlatMap(BlockThought, turn.content) = FlatImage(BlockThoughts, turn.content)
  BY <1>3, BlockListsAre
<1>5. ASSUME NEW role
      PROVE  TextsOfTurns(role) = FlatImage(OverRole(role), anthropic)
  <2>1. [n \in DOMAIN anthropic |-> IF anthropic[n].role = role
                                      THEN FlatMap(BlockText, anthropic[n].content) ELSE <<>>]
          = Mapped(OverRole(role), anthropic)
    BY <1>1, <1>4 DEF Mapped, OverRole
  <2>2. TextsOfTurns(role) =
          FlattenSeq([n \in DOMAIN anthropic |-> IF anthropic[n].role = role
                                      THEN FlatMap(BlockText, anthropic[n].content) ELSE <<>>])
    BY DEF TextsOfTurns, FlatMap
  <2> QED
    BY <2>1, <2>2 DEF FlatImage
<1>6. InTurns(BlockImage) = FlatImage(Over(BlockImages), anthropic)
  <2>1. [n \in DOMAIN anthropic |-> FlatMap(BlockImage, anthropic[n].content)] = Mapped(Over(BlockImages), anthropic)
    BY <1>1, <1>4 DEF Mapped, Over
  <2>2. InTurns(BlockImage) = FlattenSeq([n \in DOMAIN anthropic |-> FlatMap(BlockImage, anthropic[n].content)])
    BY DEF InTurns, FlatMap
  <2> QED
    BY <2>1, <2>2 DEF FlatImage
<1>7. InTurns(BlockCall) = FlatImage(Over(BlockCalls), anthropic)
  <2>1. [n \in DOMAIN anthropic |-> FlatMap(BlockCall, anthropic[n].content)] = Mapped(Over(BlockCalls), anthropic)
    BY <1>1, <1>4 DEF Mapped, Over
  <2>2. InTurns(BlockCall) = FlattenSeq([n \in DOMAIN anthropic |-> FlatMap(BlockCall, anthropic[n].content)])
    BY DEF InTurns, FlatMap
  <2> QED
    BY <2>1, <2>2 DEF FlatImage
<1>8. InTurns(BlockResult) = FlatImage(Over(BlockResults), anthropic)
  <2>1. [n \in DOMAIN anthropic |-> FlatMap(BlockResult, anthropic[n].content)] = Mapped(Over(BlockResults), anthropic)
    BY <1>1, <1>4 DEF Mapped, Over
  <2>2. InTurns(BlockResult) = FlattenSeq([n \in DOMAIN anthropic |-> FlatMap(BlockResult, anthropic[n].content)])
    BY DEF InTurns, FlatMap
  <2> QED
    BY <2>1, <2>2 DEF FlatImage
<1>9. InTurns(BlockThought) = FlatImage(Over(BlockThoughts), anthropic)
  <2>1. [n \in DOMAIN anthropic |-> FlatMap(BlockThought, anthropic[n].content)] = Mapped(Over(BlockThoughts), anthropic)
    BY <1>1, <1>4 DEF Mapped, Over
  <2>2. InTurns(BlockThought) = FlattenSeq([n \in DOMAIN anthropic |-> FlatMap(BlockThought, anthropic[n].content)])
    BY DEF InTurns, FlatMap
  <2> QED
    BY <2>1, <2>2 DEF FlatImage
<1>10. SystemTexts = FlatImage(SystemFrom, history)
  BY <1>2 DEF SystemTexts, FlatMap, FlatImage, Mapped, SystemFrom
<1>11. Results = FlatImage(ResultsFrom, history)
  BY <1>2 DEF Results, FlatMap, FlatImage, Mapped, ResultsFrom
<1>12. SignedThoughts = FlatImage(ThoughtsFrom, history)
  BY <1>2 DEF SignedThoughts, FlatMap, FlatImage, Mapped, ThoughtsFrom
<1> QED
  BY <1>5, <1>6, <1>7, <1>8, <1>9, <1>10, <1>11, <1>12

(* The Anthropic request says what the history says (AnthropicSaysAll),    *)
(* for every history: system texts in the prompt, texts by speaker,        *)
(* images, calls, results with their images and signed thinking, none lost *)
(* or doubled.                                                             *)
THEOREM AnthropicIsToldAll == Spec => []AnthropicSaysAll
<1>1. Init => AnthropicSays
  BY FlatImageEmpty DEF Init, AnthropicSays, PromptOf
<1>2. ConversionInv /\ AnthropicSays /\ [Next]_vars => AnthropicSays'
  <2>1. ASSUME ConversionInv, AnthropicSays, Next
        PROVE  AnthropicSays'
    <3>1. PICK m \in MessageSet : Take(m)
      BY <2>1, NextTakes
    <3> QED
      BY <2>1, <3>1, AnthropicSaysMore
  <2>2. ASSUME AnthropicSays, UNCHANGED vars
        PROVE  AnthropicSays'
    BY <2>2 DEF vars, AnthropicSays
  <2> QED
    BY <2>1, <2>2
<1>3. ConversionInv /\ AnthropicSays => AnthropicSaysAll
  <2> SUFFICES ASSUME ConversionInv, AnthropicSays
               PROVE  AnthropicSaysAll
    OBVIOUS
  <2>1. RoleOf("User") = "user" /\ RoleOf("Assistant") = "assistant"
    BY DEF RoleOf
  <2>2. \A kind \in Speakers : TextsOfTurns(RoleOf(kind)) = Texts(kind)
    BY AnthropicListsAre, OpenAiListsAre DEF AnthropicSays, Speakers, Kinds
  <2>3. TextsOfTurns("user") = Texts("User") /\ TextsOfTurns("assistant") = Texts("Assistant")
    BY <2>1, <2>2 DEF Speakers
  <2>4. InTurns(BlockImage) = ImagesOfUsers /\ InTurns(BlockCall) = CallIdsInOrder
    BY AnthropicListsAre, OpenAiListsAre DEF AnthropicSays
  <2>5. InTurns(BlockResult) = Results /\ InTurns(BlockThought) = SignedThoughts
    BY AnthropicListsAre DEF AnthropicSays
  <2>6. system = IF SystemTexts = <<>> THEN None ELSE SystemTexts
    BY AnthropicListsAre DEF AnthropicSays, PromptOf
  <2> QED
    BY <2>3, <2>4, <2>5, <2>6 DEF AnthropicSaysAll
<1> QED
  BY <1>1, <1>2, <1>3, Invariance, PTL DEF Spec

-----------------------------------------------------------------------------
(* Where results stand.  A call may yet be answered while nothing but      *)
(* results comes behind its message (Quiet); so long, nothing but results  *)
(* stands behind it in either request.                                     *)

(* The ids of a message's calls.                                           *)
IdsOf(m) == {c.id : c \in ToSet(CallsOf(m))}

(* A message of h calls a tool by that id; after the n-th message nothing  *)
(* comes but results and what is no message to the model.                  *)
Called(h, id) == id[1] \in 1 .. Len(h) /\ id \in IdsOf(h[id[1]])
Quiet(h, n) == \A k \in n + 1 .. Len(h) : h[k].kind \in {"Tool", "Custom"}

(* ResultsFollowCalls of any history.                                      *)
Follow(h) ==
  \A n, r \in DOMAIN h :
    (n < r /\ h[r].kind = "Tool" /\ h[r].id \in IdsOf(h[n])) =>
      \A k \in n + 1 .. r - 1 : h[k].kind \in {"Tool", "Custom"}

CallsIn(msg) == ToSet(OpenAiCalls(msg))

(* The inductive invariant of the OpenAI request s of such a history h:    *)
(* calls and results are of calls of the history, and as long as the call  *)
(* may yet be answered nothing but results is behind it.                   *)
MessagesPlaced(h, s) ==
  /\ \A i \in 1 .. Len(s) : \A id \in CallsIn(s[i]) :
       /\ Called(h, id)
       /\ Quiet(h, id[1]) => \A k \in i + 1 .. Len(s) : s[k].role = "tool"
  /\ \A j \in 1 .. Len(s) : s[j].role = "tool" => Called(h, s[j].tool_call_id)
  /\ \A i, j \in 1 .. Len(s) :
       (s[j].role = "tool" /\ s[j].tool_call_id \in CallsIn(s[i])) =>
         i < j /\ \A k \in i + 1 .. j - 1 : s[k].role = "tool"

(* The blocks up to the b-th of a turn are results.                        *)
ResultsUpTo(turn, b) == \A c \in 1 .. b : turn.content[c].type = "tool_result"

(* The i-th turn is the last, or the last but one and the last holds only  *)
(* results.                                                                *)
Awaits(s, i) ==
  \/ i = Len(s)
  \/ i = Len(s) - 1 /\ ResultsUpTo(s[i + 1], Len(s[i + 1].content))

(* The same of the turns s: a call that may yet be answered is in a turn   *)
(* that awaits results.                                                    *)
TurnsPlaced(h, s) ==
  /\ \A i \in 1 .. Len(s) :
       /\ s[i].content # <<>>
       /\ Uses(s[i]) # {} => s[i].role = "assistant"
       /\ \A id \in Uses(s[i]) :
            /\ Called(h, id)
            /\ Quiet(h, id[1]) => Awaits(s, i)
       /\ \A b \in 1 .. Len(s[i].content) :
            s[i].content[b].type = "tool_result" =>
              s[i].role = "user" /\ Called(h, s[i].content[b].id)
  /\ \A i, j \in 1 .. Len(s) : \A b \in 1 .. Len(s[j].content) :
       (s[j].content[b].type = "tool_result" /\ s[j].content[b].id \in Uses(s[i])) =>
         j = i + 1 /\ ResultsUpTo(s[j], b)

(* What either request is behind one message more, in its last place or   *)
(* merged into it.                                                         *)
Grown(s, t) ==
  /\ Len(t) > 0 /\ Len(t) \in {Len(s), Len(s) + 1}
  /\ \A n \in 1 .. Len(t) - 1 : n \in 1 .. Len(s) /\ t[n] = s[n]

GrownMessages(s, t, msg) ==
  /\ Grown(s, t)
  /\ t[Len(t)].role = msg.role
  /\ Len(t) = Len(s) =>
       s[Len(s)].role = msg.role /\ msg.role # "tool"
       /\ CallsIn(t[Len(t)]) = CallsIn(s[Len(s)]) \cup CallsIn(msg)
  /\ Len(t) = Len(s) + 1 => t[Len(t)] = msg

(* What the calls and the result of a new message are of.                  *)
Fits(h, m) ==
  /\ \A id \in IdsOf(m) : id[1] = Len(h) + 1
  /\ m.kind = "Tool" => IdsOf(m) = {} /\ Called(h, m.id) /\ Quiet(h, m.id[1])

(* What is called stays called, by the same message or the new one.        *)
LEMMA CalledStays ==
  ASSUME NEW h \in Seq(MessageSet), NEW m \in MessageSet
  PROVE  /\ \A id : Called(h, id) => Called(Append(h, m), id) /\ id[1] \in 1 .. Len(h)
         /\ \A id \in IdsOf(m) : id[1] = Len(h) + 1 => Called(Append(h, m), id)
BY DEF Called

(* A message's calls are quiet no longer once a message comes that is no   *)
(* result.                                                                 *)
LEMMA QuietBefore ==
  ASSUME NEW h \in Seq(MessageSet), NEW m \in MessageSet, NEW n \in 1 .. Len(h), Quiet(Append(h, m), n)
  PROVE  Quiet(h, n) /\ m.kind \in {"Tool", "Custom"}
<1> DEFINE g == Append(h, m)
<1>1. Len(h) \in Nat /\ Len(g) = Len(h) + 1 /\ g[Len(h) + 1] = m /\ \A k \in 1 .. Len(h) : g[k] = h[k]
  OBVIOUS
<1>2. \A k \in n + 1 .. Len(g) : g[k].kind \in {"Tool", "Custom"}
  BY DEF Quiet
<1> HIDE DEF g
<1>3. m.kind \in {"Tool", "Custom"}
  <2>1. Len(h) + 1 \in n + 1 .. Len(g)
    BY <1>1
  <2> QED
    BY <1>1, <1>2, <2>1
<1>4. ASSUME NEW k \in n + 1 .. Len(h)
      PROVE  h[k].kind \in {"Tool", "Custom"}
  <2>1. k \in n + 1 .. Len(g) /\ k \in 1 .. Len(h)
    BY <1>1
  <2> QED
    BY <1>1, <1>2, <2>1
<1> QED
  BY <1>3, <1>4 DEF Quiet

(* A history whose results follow their calls had them do so before the    *)
(* last message; and a result that comes last finds its call quiet.        *)
LEMMA FollowBefore ==
  ASSUME NEW h \in Seq(MessageSet), NEW m \in MessageSet, Follow(Append(h, m))
  PROVE  Follow(h) /\ (m.kind = "Tool" /\ Called(h, m.id) => Quiet(h, m.id[1]))
<1> DEFINE g == Append(h, m)
<1>1. Len(h) \in Nat /\ Len(g) = Len(h) + 1 /\ g[Len(h) + 1] = m /\ \A k \in 1 .. Len(h) : g[k] = h[k]
      /\ DOMAIN g = 1 .. Len(g) /\ DOMAIN h = 1 .. Len(h)
  OBVIOUS
<1>2. \A n, r \in 1 .. Len(g) :
        (n < r /\ g[r].kind = "Tool" /\ g[r].id \in IdsOf(g[n])) =>
          \A k \in n + 1 .. r - 1 : g[k].kind \in {"Tool", "Custom"}
  <2>1. Follow(g) /\ DOMAIN g = 1 .. Len(g)
    BY <1>1
  <2> HIDE DEF g
  <2> QED
    BY <2>1 DEF Follow
<1> HIDE DEF g
<1>3. ASSUME NEW n \in 1 .. Len(h), NEW r \in 1 .. Len(h),
             n < r, h[r].kind = "Tool", h[r].id \in IdsOf(h[n]), NEW k \in n + 1 .. r - 1
      PROVE  h[k].kind \in {"Tool", "Custom"}
  <2>1. n \in 1 .. Len(g) /\ r \in 1 .. Len(g) /\ k \in 1 .. Len(h)
    BY <1>1
  <2>2. g[n] = h[n] /\ g[r] = h[r] /\ g[k] = h[k]
    BY <1>1, <2>1
  <2> QED
    BY <1>2, <1>3, <2>1, <2>2
<1>4. ASSUME m.kind = "Tool", Called(h, m.id), NEW k \in m.id[1] + 1 .. Len(h)
      PROVE  h[k].kind \in {"Tool", "Custom"}
  <2> DEFINE n == m.id[1]
             r == Len(h) + 1
  <2>1. n \in 1 .. Len(h) /\ m.id \in IdsOf(h[n])
    BY <1>4 DEF Called
  <2> HIDE DEF n
  <2>2. n \in 1 .. Len(g) /\ r \in 1 .. Len(g) /\ n < r /\ k \in 1 .. Len(h) /\ k \in n + 1 .. r - 1
    BY <1>1, <1>4, <2>1 DEF n
  <2>3. g[n] = h[n] /\ g[r] = m /\ g[k] = h[k]
    BY <1>1, <2>1, <2>2
  <2> QED
    BY <1>2, <1>4, <2>1, <2>2, <2>3
<1>5. Follow(h)
  BY <1>1, <1>3 DEF Follow
<1>6. m.kind = "Tool" /\ Called(h, m.id) => Quiet(h, m.id[1])
  BY <1>4 DEF Quiet
<1> QED
  BY <1>5, <1>6

(* One message more leaves the results of the OpenAI request in place.     *)
LEMMA MessagesStayPlaced ==
  ASSUME NEW h \in Seq(MessageSet), NEW m \in MessageSet, m.kind # "Custom", Fits(h, m),
         NEW s \in Seq(OpenAiSet), NEW t \in Seq(OpenAiSet), NEW msg, GrownMessages(s, t, msg),
         CallsIn(msg) = IdsOf(m), msg.role = "tool" <=> m.kind = "Tool",
         msg.role = "tool" => msg.tool_call_id = m.id,
         MessagesPlaced(h, s)
  PROVE  MessagesPlaced(Append(h, m), t)
<1> DEFINE g == Append(h, m)
           L == Len(t)
<1>0. Len(s) \in Nat /\ L \in Nat /\ L > 0 /\ (L = Len(s) \/ L = Len(s) + 1) /\ Len(h) \in Nat
      /\ L \in 1 .. L
  BY DEF GrownMessages, Grown
<1>1. \A n \in 1 .. L - 1 : n \in 1 .. Len(s) /\ t[n] = s[n]
  BY DEF GrownMessages, Grown
<1>2. L = Len(s) => /\ t[L].role # "tool" /\ msg.role # "tool"
                    /\ CallsIn(t[L]) = CallsIn(s[L]) \cup IdsOf(m)
  BY DEF GrownMessages
<1>3. L = Len(s) + 1 => t[L] = msg
  BY DEF GrownMessages
(* a call is one of the old messages' or the new one's, then in the last place *)
<1>4. ASSUME NEW i \in 1 .. L, NEW id \in CallsIn(t[i])
      PROVE  \/ i \in 1 .. Len(s) /\ id \in CallsIn(s[i])
             \/ i = L /\ id \in IdsOf(m)
  BY <1>0, <1>1, <1>2, <1>3
<1>5. ASSUME NEW j \in 1 .. L, t[j].role = "tool"
      PROVE  \/ j \in 1 .. Len(s) /\ j < L /\ t[j] = s[j]
             \/ j = L /\ L = Len(s) + 1 /\ t[j] = msg /\ m.kind = "Tool"
  BY <1>0, <1>1, <1>2, <1>3, <1>5
<1>6. /\ \A id : Called(h, id) => Called(g, id) /\ id[1] \in 1 .. Len(h)
      /\ \A id \in IdsOf(m) : id[1] = Len(h) + 1 => Called(g, id)
  BY CalledStays
<1>7. \A n \in 1 .. Len(h) : Quiet(g, n) => Quiet(h, n) /\ m.kind = "Tool"
  BY QuietBefore
<1>8. /\ \A id \in IdsOf(m) : id[1] = Len(h) + 1
      /\ m.kind = "Tool" => IdsOf(m) = {} /\ Called(h, m.id) /\ Quiet(h, m.id[1])
  BY DEF Fits
<1> HIDE DEF g, L
(* of an old call that is quiet in g: the last message of t is a result *)
<1>9. ASSUME NEW i \in 1 .. Len(s), NEW id \in CallsIn(s[i]), Quiet(h, id[1]), m.kind = "Tool",
             NEW k \in i + 1 .. L
      PROVE  t[k].role = "tool"
  <2>1. L = Len(s) + 1
    BY <1>0, <1>2, <1>9
  <2>2. CASE k = L
    BY <1>3, <2>1, <2>2, <1>9
  <2>3. CASE k # L
    <3>1. k \in i + 1 .. Len(s) /\ k \in 1 .. L - 1
      BY <1>0, <2>1, <2>3
    <3>2. s[k].role = "tool"
      BY <1>9, <3>1 DEF MessagesPlaced
    <3> QED
      BY <1>1, <3>1, <3>2
  <2> QED
    BY <2>2, <2>3
<1>10. ASSUME NEW i \in 1 .. L, NEW id \in CallsIn(t[i])
       PROVE  Called(g, id) /\ (Quiet(g, id[1]) => \A k \in i + 1 .. L : t[k].role = "tool")
  <2>1. CASE i \in 1 .. Len(s) /\ id \in CallsIn(s[i])
    <3>1. Called(h, id)
      BY <2>1 DEF MessagesPlaced
    <3>2. Called(g, id) /\ id[1] \in 1 .. Len(h)
      BY <1>6, <3>1
    <3> QED
      BY <1>7, <1>9, <2>1, <3>2
  <2>2. CASE i = L /\ id \in IdsOf(m)
    <3>1. Called(g, id)
      BY <1>6, <1>8, <2>2
    <3>2. \A k \in i + 1 .. L : FALSE
      BY <1>0, <2>2
    <3> QED
      BY <3>1, <3>2
  <2> QED
    BY <1>4, <2>1, <2>2
<1>11. ASSUME NEW j \in 1 .. L, t[j].role = "tool"
       PROVE  Called(g, t[j].tool_call_id)
  <2>1. CASE j \in 1 .. Len(s) /\ t[j] = s[j]
    <3>1. Called(h, s[j].tool_call_id)
      BY <1>11, <2>1 DEF MessagesPlaced
    <3> QED
      BY <1>6, <2>1, <3>1
  <2>2. CASE t[j] = msg /\ m.kind = "Tool"
    BY <1>6, <1>8, <1>11, <2>2
  <2> QED
    BY <1>5, <1>11, <2>1, <2>2
<1>12. ASSUME NEW i \in 1 .. L, NEW j \in 1 .. L, t[j].role = "tool", t[j].tool_call_id \in CallsIn(t[i])
       PROVE  i < j /\ \A k \in i + 1 .. j - 1 : t[k].role = "tool"
  <2> DEFINE id == t[j].tool_call_id
  <2>1. CASE j \in 1 .. Len(s) /\ j < L /\ t[j] = s[j]
    <3>1. Called(h, id)
      BY <1>12, <2>1 DEF MessagesPlaced
    <3>2. id \notin IdsOf(m)
      BY <1>0, <1>6, <1>8, <3>1
    <3>3. i \in 1 .. Len(s) /\ id \in CallsIn(s[i])
      BY <1>4, <1>12, <3>2
    <3>4. i < j /\ \A k \in i + 1 .. j - 1 : s[k].role = "tool"
      BY <1>12, <2>1, <3>3 DEF MessagesPlaced
    <3>5. \A k \in i + 1 .. j - 1 : k \in 1 .. L - 1
      BY <1>0, <2>1
    <3> QED
      BY <1>1, <3>4, <3>5
  <2>2. CASE j = L /\ L = Len(s) + 1 /\ t[j] = msg /\ m.kind = "Tool"
    <3>1. id = m.id
      BY <1>12, <2>2
    <3>2. i \in 1 .. Len(s) /\ id \in CallsIn(s[i])
      BY <1>4, <1>8, <1>12, <2>2
    <3>3. Quiet(h, id[1])
      BY <1>8, <2>2, <3>1
    <3>4. \A k \in i + 1 .. j - 1 : k \in i + 1 .. L
      BY <1>0, <2>2
    <3> QED
      BY <1>0, <1>9, <2>2, <3>2, <3>3, <3>4
  <2> QED
    BY <1>5, <1>12, <2>1, <2>2
<1> QED
  BY <1>10, <1>11, <1>12 DEF MessagesPlaced, L, g

GrownTurns(s, t, msg) ==
  /\ Grown(s, t)
  /\ t[Len(t)].role = msg.role
  /\ Len(t) = Len(s) =>
       s[Len(s)].role = msg.role /\ t[Len(t)].content = s[Len(s)].content \o msg.content
  /\ Len(t) = Len(s) + 1 =>
       t[Len(t)] = msg /\ (Len(s) > 0 => s[Len(s)].role # msg.role)

(* The uses of a turn are those of its blocks.                             *)
LEMMA UsesAre ==
  ASSUME NEW turn \in TurnSet, NEW id
  PROVE  id \in Uses(turn) <=>
           \E b \in 1 .. Len(turn.content) :
             turn.content[b].type = "tool_use" /\ turn.content[b].id = id
<1> DEFINE c == turn.content
<1>1. c \in Seq(BlockSet)
  BY DEF TurnSet
<1> HIDE DEF c
<1>2. \A b : b \in ToSet(c) <=> \E k \in 1 .. Len(c) : b = c[k]
  BY <1>1 DEF ToSet
<1>3. id \in Uses(turn) <=> \E b \in ToSet(c) : b.type = "tool_use" /\ b.id = id
  BY DEF Uses, c
<1> QED
  BY <1>2, <1>3 DEF c

(* Two turns made one use what both do.                                    *)
LEMMA UsesOfBoth ==
  ASSUME NEW p \in TurnSet, NEW q \in TurnSet, NEW e \in TurnSet, e.content = p.content \o q.content
  PROVE  Uses(e) = Uses(p) \cup Uses(q)
<1> DEFINE a == p.content
           b == q.content
           c == e.content
<1>1. a \in Seq(BlockSet) /\ b \in Seq(BlockSet) /\ c = a \o b
  BY DEF TurnSet
<1>2. /\ \A id : id \in Uses(p) <=> \E k \in 1 .. Len(a) : a[k].type = "tool_use" /\ a[k].id = id
      /\ \A id : id \in Uses(q) <=> \E k \in 1 .. Len(b) : b[k].type = "tool_use" /\ b[k].id = id
      /\ \A id : id \in Uses(e) <=> \E k \in 1 .. Len(c) : c[k].type = "tool_use" /\ c[k].id = id
  BY UsesAre
<1> HIDE DEF a, b, c
<1>3. Len(a) \in Nat /\ Len(b) \in Nat /\ Len(c) = Len(a) + Len(b)
      /\ \A k \in 1 .. Len(c) : c[k] = IF k <= Len(a) THEN a[k] ELSE b[k - Len(a)]
  BY <1>1
<1>4. ASSUME NEW k \in 1 .. Len(a)
      PROVE  k \in 1 .. Len(c) /\ c[k] = a[k]
  BY <1>3
<1>5. ASSUME NEW k \in 1 .. Len(b)
      PROVE  Len(a) + k \in 1 .. Len(c) /\ c[Len(a) + k] = b[k]
  BY <1>3
<1>6. ASSUME NEW k \in 1 .. Len(c)
      PROVE  \/ k \in 1 .. Len(a) /\ c[k] = a[k]
             \/ k - Len(a) \in 1 .. Len(b) /\ c[k] = b[k - Len(a)]
  BY <1>3
<1>7. ASSUME NEW id
      PROVE  id \in Uses(e) <=> id \in Uses(p) \/ id \in Uses(q)
  <2>1. id \in Uses(p) => id \in Uses(e)
    BY <1>2, <1>4
  <2>2. id \in Uses(q) => id \in Uses(e)
    BY <1>2, <1>5
  <2>3. ASSUME id \in Uses(e)
        PROVE  id \in Uses(p) \/ id \in Uses(q)
    <3>1. PICK k \in 1 .. Len(c) : c[k].type = "tool_use" /\ c[k].id = id
      BY <1>2, <2>3
    <3>2. CASE k \in 1 .. Len(a) /\ c[k] = a[k]
      BY <1>2, <3>1, <3>2
    <3>3. CASE k - Len(a) \in 1 .. Len(b) /\ c[k] = b[k - Len(a)]
      BY <1>2, <3>1, <3>3
    <3> QED
      BY <1>6, <3>2, <3>3
  <2> QED
    BY <2>1, <2>2, <2>3
<1> QED
  BY <1>7

(* The last turn is what it was, if it was there, and then what is new.    *)
LEMMA LastTurn ==
  ASSUME NEW s \in Seq(TurnSet), NEW t \in Seq(TurnSet), NEW msg \in TurnSet, GrownTurns(s, t, msg)
  PROVE  \E p \in Seq(BlockSet) :
           /\ Len(t) = Len(s) => p = s[Len(s)].content
           /\ Len(t) = Len(s) + 1 => Len(p) = 0
           /\ Len(t[Len(t)].content) = Len(p) + Len(msg.content)
           /\ \A b \in 1 .. Len(t[Len(t)].content) :
                t[Len(t)].content[b] = IF b <= Len(p) THEN p[b] ELSE msg.content[b - Len(p)]
<1> DEFINE q == msg.content
           c == t[Len(t)].content
           Both(p) == /\ Len(c) = Len(p) + Len(q)
                      /\ \A b \in 1 .. Len(c) : c[b] = IF b <= Len(p) THEN p[b] ELSE q[b - Len(p)]
<1>1. (Len(t) = Len(s) \/ Len(t) = Len(s) + 1) /\ Len(s) \in Nat /\ q \in Seq(BlockSet)
  BY DEF GrownTurns, Grown, TurnSet
<1>2. CASE Len(t) = Len(s) + 1
  <2>1. c = q
    BY <1>2 DEF GrownTurns
  <2> HIDE DEF c, q
  <2>2. Both(<<>>) /\ <<>> \in Seq(BlockSet) /\ Len(<<>>) = 0
    BY <1>1, <2>1
  <2>3. Len(t) # Len(s)
    BY <1>1, <1>2
  <2> QED
    BY <2>2, <2>3 DEF c, q
<1>3. CASE Len(t) = Len(s)
  <2> DEFINE p == s[Len(s)].content
  <2>1. Len(s) > 0 /\ s[Len(s)] \in TurnSet
    BY <1>3 DEF GrownTurns, Grown
  <2>2. p \in Seq(BlockSet) /\ c = p \o q
    BY <1>3, <2>1 DEF GrownTurns, TurnSet
  <2> HIDE DEF p, q, c
  <2>3. Both(p)
    BY <1>1, <2>2
  <2>4. Len(t) # Len(s) + 1
    BY <1>1, <1>3
  <2> QED
    BY <2>2, <2>3, <2>4 DEF p, q, c
<1> QED
  BY <1>1, <1>2, <1>3

(* What a turn must be of the message of the history it is made of.        *)
TurnOf(m, msg) ==
  /\ msg.content # <<>>
  /\ Uses(msg) = IdsOf(m)
  /\ IdsOf(m) # {} => msg.role = "assistant"
  /\ m.kind = "Tool" =>
       /\ msg.role = "user" /\ Len(msg.content) = 1
       /\ msg.content[1].type = "tool_result" /\ msg.content[1].id = m.id
  /\ m.kind # "Tool" =>
       \A b \in 1 .. Len(msg.content) : msg.content[b].type # "tool_result"

(* One message more leaves the results of the turns in place.              *)
LEMMA TurnsStayPlaced ==
  ASSUME NEW h \in Seq(MessageSet), NEW m \in MessageSet, m.kind # "Custom", Fits(h, m),
         NEW s \in Seq(TurnSet), NEW t \in Seq(TurnSet), NEW msg \in TurnSet, GrownTurns(s, t, msg),
         TurnOf(m, msg), TurnsPlaced(h, s)
  PROVE  TurnsPlaced(Append(h, m), t)
<1> DEFINE g == Append(h, m)
           L == Len(t)
           N == Len(s)
           c == t[L].content
           q == msg.content
<1>0. N \in Nat /\ L \in Nat /\ L > 0 /\ (L = N \/ L = N + 1) /\ Len(h) \in Nat
      /\ L \in 1 .. L /\ (L = N => L \in 1 .. N)
  BY DEF GrownTurns, Grown
<1>1. \A n \in 1 .. L - 1 : n \in 1 .. N /\ t[n] = s[n]
  BY DEF GrownTurns, Grown
<1>t. /\ \A n \in 1 .. N : s[n] \in TurnSet /\ s[n].content \in Seq(BlockSet)
      /\ t[L] \in TurnSet /\ q \in Seq(BlockSet) /\ c \in Seq(BlockSet)
  <2>1. \A turn \in TurnSet : turn.content \in Seq(BlockSet)
    BY DEF TurnSet
  <2>2. \A n \in 1 .. N : s[n] \in TurnSet
    OBVIOUS
  <2>3. t[L] \in TurnSet
    BY <1>0
  <2> QED
    BY <2>1, <2>2, <2>3
<1>2. PICK p \in Seq(BlockSet) :
         /\ L = N => p = s[N].content
         /\ L = N + 1 => Len(p) = 0
         /\ Len(c) = Len(p) + Len(q)
         /\ \A b \in 1 .. Len(c) : c[b] = IF b <= Len(p) THEN p[b] ELSE q[b - Len(p)]
  BY LastTurn
<1>3. t[L].role = msg.role /\ (L = N => s[N].role = msg.role) /\ (L = N + 1 /\ N > 0 => s[N].role # msg.role)
  BY DEF GrownTurns
<1>4. Uses(t[L]) = (IF L = N THEN Uses(s[N]) ELSE {}) \cup IdsOf(m)
  <2>1. CASE L = N
    <3>1. t[L].content = s[N].content \o msg.content
      BY <2>1 DEF GrownTurns
    <3>2. s[N] \in TurnSet /\ t[L] \in TurnSet
      BY <1>0, <1>t, <2>1
    <3>3. Uses(t[L]) = Uses(s[N]) \cup Uses(msg)
      BY <3>1, <3>2, UsesOfBoth
    <3> QED
      BY <2>1, <3>3 DEF TurnOf
  <2>2. CASE L = N + 1
    BY <1>0, <2>2 DEF GrownTurns, TurnOf
  <2> QED
    BY <1>0, <2>1, <2>2
<1>5. /\ \A id : Called(h, id) => Called(g, id) /\ id[1] \in 1 .. Len(h)
      /\ \A id \in IdsOf(m) : id[1] = Len(h) + 1 => Called(g, id)
  BY CalledStays
<1>6. \A n \in 1 .. Len(h) : Quiet(g, n) => Quiet(h, n) /\ m.kind = "Tool"
  BY QuietBefore
<1>7. /\ \A id \in IdsOf(m) : id[1] = Len(h) + 1
      /\ m.kind = "Tool" => IdsOf(m) = {} /\ Called(h, m.id) /\ Quiet(h, m.id[1])
  BY DEF Fits
<1>8. /\ q # <<>> /\ (IdsOf(m) # {} => msg.role = "assistant")
      /\ m.kind = "Tool" => msg.role = "user" /\ Len(q) = 1 /\ q[1].type = "tool_result" /\ q[1].id = m.id
      /\ m.kind # "Tool" => \A b \in 1 .. Len(q) : q[b].type # "tool_result"
  BY DEF TurnOf
<1>9. /\ \A i \in 1 .. N :
           /\ s[i].content # <<>>
           /\ Uses(s[i]) # {} => s[i].role = "assistant"
           /\ \A id \in Uses(s[i]) : Called(h, id) /\ (Quiet(h, id[1]) => Awaits(s, i))
           /\ \A b \in 1 .. Len(s[i].content) :
                s[i].content[b].type = "tool_result" =>
                  s[i].role = "user" /\ Called(h, s[i].content[b].id)
      /\ \A i, j \in 1 .. N : \A b \in 1 .. Len(s[j].content) :
           (s[j].content[b].type = "tool_result" /\ s[j].content[b].id \in Uses(s[i])) =>
             j = i + 1 /\ ResultsUpTo(s[j], b)
  BY DEF TurnsPlaced
<1> HIDE DEF g, L, N, c, q
(* a use is in the turn where it was, or it is new and in the last turn *)
<1>10. ASSUME NEW i \in 1 .. L, NEW id \in Uses(t[i])
       PROVE  \/ i \in 1 .. N /\ id \in Uses(s[i])
              \/ i = L /\ id \in IdsOf(m)
  <2>1. CASE i = L
    BY <1>0, <1>4, <2>1
  <2>2. CASE i # L
    <3>1. i \in 1 .. L - 1
      BY <1>0, <2>2
    <3> QED
      BY <1>1, <3>1
  <2> QED
    BY <2>1, <2>2
(* so is a result, with the blocks before it *)
<1>11. ASSUME NEW j \in 1 .. L, NEW b \in 1 .. Len(t[j].content), t[j].content[b].type = "tool_result"
       PROVE  \/ /\ j \in 1 .. N /\ b \in 1 .. Len(s[j].content)
                 /\ t[j].role = s[j].role
                 /\ \A k \in 1 .. b : t[j].content[k] = s[j].content[k]
              \/ /\ j = L /\ m.kind = "Tool" /\ t[j].content[b] = q[1] /\ b = Len(p) + 1
  <2>1. CASE j # L
    <3>1. j \in 1 .. L - 1
      BY <1>0, <2>1
    <3> QED
      BY <1>1, <3>1
  <2>2. CASE j = L
    <3>1. b \in 1 .. Len(c) /\ Len(p) \in Nat /\ Len(q) \in Nat /\ c[b].type = "tool_result" /\ Len(c) \in Nat
      BY <1>t, <1>11, <2>2 DEF c
    <3>2. CASE b <= Len(p)
      <4>1. L = N
        BY <1>0, <1>2, <3>1, <3>2
      <4>2. p = s[j].content /\ j \in 1 .. N
        BY <1>0, <1>2, <2>2, <4>1
      <4>3. b \in 1 .. Len(p) /\ \A k \in 1 .. b : c[k] = p[k]
        BY <1>2, <3>1, <3>2
      <4> QED
        BY <1>3, <2>2, <4>1, <4>2, <4>3 DEF c
    <3>3. CASE b > Len(p)
      <4>1. b - Len(p) \in 1 .. Len(q) /\ c[b] = q[b - Len(p)]
        BY <1>2, <3>1, <3>3
      <4>2. m.kind = "Tool"
        BY <1>8, <3>1, <4>1
      <4>3. Len(q) = 1
        BY <1>8, <4>2
      <4>4. b - Len(p) = 1
        BY <4>1, <4>3
      <4> QED
        BY <2>2, <3>1, <4>1, <4>2, <4>4 DEF c
    <3> QED
      BY <3>1, <3>2, <3>3
  <2> QED
    BY <2>1, <2>2
(* a result finds its call in the turn before the last, with nothing but   *)
(* results behind it                                                       *)
<1>12. ASSUME NEW i \in 1 .. N, NEW id \in Uses(s[i]), Quiet(h, id[1]), m.kind = "Tool"
       PROVE  i = L - 1 /\ \A k \in 1 .. Len(c) : c[k].type = "tool_result"
  <2>1. Awaits(s, i) /\ s[i].role = "assistant"
    BY <1>9, <1>12
  <2>2. Len(q) = 1 /\ q[1].type = "tool_result" /\ msg.role = "user"
    BY <1>8, <1>12
  <2>3. i = L - 1 /\ \A k \in 1 .. Len(p) : p[k].type = "tool_result"
    <3>1. CASE L = N
      <4>1. s[N].role = "user" /\ p = s[N].content
        BY <1>2, <1>3, <2>2, <3>1
      <4>2. i # N
        BY <2>1, <4>1
      <4>3. i = N - 1 /\ ResultsUpTo(s[i + 1], Len(s[i + 1].content))
        BY <2>1, <4>2 DEF Awaits, N
      <4>4. i + 1 = N
        BY <1>0, <4>3
      <4>5. ResultsUpTo(s[N], Len(s[N].content))
        BY <4>3, <4>4
      <4> QED
        BY <3>1, <4>1, <4>3, <4>5 DEF ResultsUpTo
    <3>2. CASE L = N + 1
      <4>1. N > 0 /\ s[N].role # "user" /\ N \in 1 .. N
        BY <1>0, <1>3, <2>2, <3>2
      <4>2. i = N
        <5> SUFFICES ASSUME i # N
                     PROVE  FALSE
          OBVIOUS
        <5>1. i = N - 1 /\ ResultsUpTo(s[i + 1], Len(s[i + 1].content))
          BY <2>1 DEF Awaits, N
        <5>2. i + 1 = N
          BY <1>0, <5>1
        <5>3. ResultsUpTo(s[N], Len(s[N].content))
          BY <5>1, <5>2
        <5>4. s[N].content \in Seq(BlockSet) /\ s[N].content # <<>>
          BY <1>9, <1>t, <4>1
        <5>5. 1 \in 1 .. Len(s[N].content)
          BY <5>4
        <5>6. s[N].content[1].type = "tool_result"
          BY <5>3, <5>5 DEF ResultsUpTo
        <5> QED
          BY <1>9, <4>1, <5>5, <5>6
      <4>3. Len(p) = 0
        BY <1>2, <3>2
      <4> QED
        BY <1>0, <3>2, <4>2, <4>3
    <3> QED
      BY <1>0, <3>1, <3>2
  <2>4. ASSUME NEW k \in 1 .. Len(c)
        PROVE  c[k].type = "tool_result"
    <3>1. Len(p) \in Nat /\ Len(c) = Len(p) + 1 /\ c[k] = IF k <= Len(p) THEN p[k] ELSE q[k - Len(p)]
      BY <1>2, <2>2
    <3>2. CASE k <= Len(p)
      <4>1. k \in 1 .. Len(p)
        BY <3>2
      <4> QED
        BY <2>3, <3>1, <3>2, <4>1
    <3>3. CASE k > Len(p)
      <4>1. k - Len(p) = 1
        BY <3>1, <3>3
      <4> QED
        BY <2>2, <3>1, <3>3, <4>1
    <3> QED
      BY <3>1, <3>2, <3>3
  <2> QED
    BY <2>3, <2>4
<1>13. ASSUME NEW i \in 1 .. L
       PROVE  t[i].content # <<>> /\ (Uses(t[i]) # {} => t[i].role = "assistant")
  <2>1. CASE i # L
    <3>1. i \in 1 .. L - 1
      BY <1>0, <2>1
    <3> QED
      BY <1>1, <1>9, <3>1
  <2>2. CASE i = L
    <3>1. Len(p) \in Nat /\ Len(q) \in Nat /\ Len(q) > 0
      BY <1>t, <1>8
    <3>2. Len(c) > 0 /\ c # <<>>
      BY <1>2, <1>t, <3>1
    <3>3. Uses(t[L]) # {} => t[L].role = "assistant"
      BY <1>0, <1>3, <1>4, <1>8, <1>9
    <3> QED
      BY <2>2, <3>2, <3>3 DEF c
  <2> QED
    BY <2>1, <2>2
<1>14. ASSUME NEW i \in 1 .. L, NEW id \in Uses(t[i])
       PROVE  Called(g, id) /\ (Quiet(g, id[1]) => Awaits(t, i))
  <2>1. CASE i \in 1 .. N /\ id \in Uses(s[i])
    <3>1. Called(h, id)
      BY <1>9, <2>1
    <3>2. Called(g, id) /\ id[1] \in 1 .. Len(h)
      BY <1>5, <3>1
    <3>3. ASSUME Quiet(g, id[1])
          PROVE  Awaits(t, i)
      <4>1. i = L - 1 /\ \A k \in 1 .. Len(c) : c[k].type = "tool_result"
        BY <1>6, <1>12, <2>1, <3>2, <3>3
      <4>2. i + 1 = L
        BY <1>0, <4>1
      <4> QED
        BY <4>1, <4>2 DEF Awaits, ResultsUpTo, c, L
    <3> QED
      BY <3>2, <3>3
  <2>2. CASE i = L /\ id \in IdsOf(m)
    BY <1>5, <1>7, <2>2 DEF Awaits, L
  <2> QED
    BY <1>10, <2>1, <2>2
<1>15. ASSUME NEW j \in 1 .. L, NEW b \in 1 .. Len(t[j].content), t[j].content[b].type = "tool_result"
       PROVE  t[j].role = "user" /\ Called(g, t[j].content[b].id)
  <2>0. b \in 1 .. b
    BY <1>15
  <2>1. CASE /\ j \in 1 .. N /\ b \in 1 .. Len(s[j].content)
             /\ t[j].role = s[j].role
             /\ \A k \in 1 .. b : t[j].content[k] = s[j].content[k]
    <3>1. t[j].content[b] = s[j].content[b]
      BY <2>0, <2>1
    <3> QED
      BY <1>5, <1>9, <1>15, <2>1, <3>1
  <2>2. CASE j = L /\ m.kind = "Tool" /\ t[j].content[b] = q[1]
    BY <1>3, <1>5, <1>7, <1>8, <2>2
  <2> QED
    BY <1>11, <1>15, <2>1, <2>2
<1>16. ASSUME NEW i \in 1 .. L, NEW j \in 1 .. L, NEW b \in 1 .. Len(t[j].content),
              t[j].content[b].type = "tool_result", t[j].content[b].id \in Uses(t[i])
       PROVE  j = i + 1 /\ ResultsUpTo(t[j], b)
  <2> DEFINE id == t[j].content[b].id
  <2>0. b \in 1 .. b
    BY <1>16
  <2>1. CASE /\ j \in 1 .. N /\ b \in 1 .. Len(s[j].content)
             /\ \A k \in 1 .. b : t[j].content[k] = s[j].content[k]
    <3>1. t[j].content[b] = s[j].content[b]
      BY <2>0, <2>1
    <3>2. Called(h, id)
      BY <1>9, <1>16, <2>1, <3>1
    <3>3. id \notin IdsOf(m)
      BY <1>0, <1>5, <1>7, <3>2, SMTT(40)
    <3>4. i \in 1 .. N /\ id \in Uses(s[i])
      BY <1>10, <1>16, <3>3
    <3>5. j = i + 1 /\ ResultsUpTo(s[j], b)
      BY <1>9, <1>16, <2>1, <3>1, <3>4
    <3> QED
      BY <2>1, <3>5 DEF ResultsUpTo
  <2>2. CASE j = L /\ m.kind = "Tool" /\ t[j].content[b] = q[1]
    <3>1. id = m.id
      BY <1>8, <2>2
    <3>2. i \in 1 .. N /\ id \in Uses(s[i]) /\ Quiet(h, id[1])
      BY <1>7, <1>10, <1>16, <2>2, <3>1
    <3>3. i = L - 1 /\ \A k \in 1 .. Len(c) : c[k].type = "tool_result"
      BY <1>12, <2>2, <3>2
    <3>4. \A k \in 1 .. b : k \in 1 .. Len(c)
      BY <1>t, <1>16, <2>2 DEF c
    <3> QED
      BY <1>0, <2>2, <3>3, <3>4 DEF ResultsUpTo, c
  <2> QED
    BY <1>11, <1>16, <2>1, <2>2
<1> QED
  BY <1>13, <1>14, <1>15, <1>16 DEF TurnsPlaced, L, g

(* What becomes no message of either request leaves both as they are.      *)
LEMMA NothingMoves ==
  ASSUME NEW h \in Seq(MessageSet), NEW m \in MessageSet
  PROVE  /\ \A s : MessagesPlaced(h, s) => MessagesPlaced(Append(h, m), s)
         /\ \A s : TurnsPlaced(h, s) => TurnsPlaced(Append(h, m), s)
<1> DEFINE g == Append(h, m)
<1>1. ASSUME NEW id, Called(h, id)
      PROVE  Called(g, id) /\ (Quiet(g, id[1]) => Quiet(h, id[1]))
  BY <1>1, CalledStays, QuietBefore
<1> HIDE DEF g
<1>2. ASSUME NEW s, MessagesPlaced(h, s)
      PROVE  MessagesPlaced(g, s)
  BY <1>1, <1>2 DEF MessagesPlaced
<1>3. ASSUME NEW s, TurnsPlaced(h, s)
      PROVE  TurnsPlaced(g, s)
  <2>1. ASSUME NEW i \in 1 .. Len(s)
        PROVE  /\ s[i].content # <<>>
               /\ Uses(s[i]) # {} => s[i].role = "assistant"
               /\ \A id \in Uses(s[i]) : Called(g, id) /\ (Quiet(g, id[1]) => Awaits(s, i))
               /\ \A b \in 1 .. Len(s[i].content) :
                    s[i].content[b].type = "tool_result" =>
                      s[i].role = "user" /\ Called(g, s[i].content[b].id)
    BY <1>1, <1>3 DEF TurnsPlaced
  <2>2. \A i, j \in 1 .. Len(s) : \A b \in 1 .. Len(s[j].content) :
           (s[j].content[b].type = "tool_result" /\ s[j].content[b].id \in Uses(s[i])) =>
             j = i + 1 /\ ResultsUpTo(s[j], b)
    BY <1>3 DEF TurnsPlaced
  <2> QED
    BY <2>1, <2>2 DEF TurnsPlaced
<1> QED
  BY <1>2, <1>3 DEF g

(* The elements of two sequences put together.                             *)
LEMMA ElementsOfBoth ==
  ASSUME NEW T, NEW a \in Seq(T), NEW b \in Seq(T)
  PROVE  ToSet(a \o b) = ToSet(a) \cup ToSet(b)
<1>1. /\ DOMAIN a = 1 .. Len(a) /\ DOMAIN b = 1 .. Len(b) /\ DOMAIN (a \o b) = 1 .. Len(a) + Len(b)
      /\ Len(a) \in Nat /\ Len(b) \in Nat
      /\ \A k \in 1 .. Len(a) + Len(b) : (a \o b)[k] = IF k <= Len(a) THEN a[k] ELSE b[k - Len(a)]
  OBVIOUS
<1> DEFINE c == a \o b
           n == Len(a)
           l == Len(b)
<1>2. /\ DOMAIN a = 1 .. n /\ DOMAIN b = 1 .. l /\ DOMAIN c = 1 .. n + l /\ n \in Nat /\ l \in Nat
      /\ \A k \in 1 .. n + l : c[k] = IF k <= n THEN a[k] ELSE b[k - n]
  BY <1>1
<1> HIDE DEF c, n, l
<1>3. ASSUME NEW k \in 1 .. n
      PROVE  k \in 1 .. n + l /\ c[k] = a[k]
  BY <1>2
<1>4. ASSUME NEW k \in 1 .. l
      PROVE  n + k \in 1 .. n + l /\ c[n + k] = b[k]
  BY <1>2
<1>5. ASSUME NEW k \in 1 .. n + l
      PROVE  \/ k \in 1 .. n /\ c[k] = a[k]
             \/ k - n \in 1 .. l /\ c[k] = b[k - n]
  BY <1>2
<1>6. \A x \in ToSet(c) : x \in ToSet(a) \cup ToSet(b)
  BY <1>2, <1>5 DEF ToSet
<1>7. \A x \in ToSet(a) : x \in ToSet(c)
  BY <1>2, <1>3 DEF ToSet
<1>8. \A x \in ToSet(b) : x \in ToSet(c)
  BY <1>2, <1>4 DEF ToSet
<1> QED
  BY <1>6, <1>7, <1>8 DEF c

(* The ids of a list of calls are those of its calls.                      *)
LEMMA IdsAre ==
  ASSUME NEW calls \in Seq(CallSet)
  PROVE  ToSet(Ids(calls)) = {c.id : c \in ToSet(calls)}
<1>1. DOMAIN calls = 1 .. Len(calls) /\ DOMAIN Ids(calls) = 1 .. Len(calls)
      /\ \A k \in 1 .. Len(calls) : Ids(calls)[k] = calls[k].id
  BY IdsType DEF Ids
<1> QED
  BY <1>1 DEF ToSet

(* The message of the OpenAI request made of m has the calls of m, and is  *)
(* a result when m is.                                                     *)
LEMMA MessageOf ==
  ASSUME NEW m \in MessageSet, OpenAiMessage(m) # <<>>, NEW msg, msg = OpenAiMessage(m)[1]
  PROVE  /\ msg \in OpenAiSet /\ WellFormed(msg) /\ m.kind # "Custom"
         /\ CallsIn(msg) = IdsOf(m)
         /\ msg.role = "tool" <=> m.kind = "Tool"
         /\ msg.role = "tool" => msg.tool_call_id = m.id
<1>1. msg \in OpenAiSet /\ WellFormed(msg)
  BY OpenAiMessageType
<1>2. m.kind # "Custom" /\ m.kind \in Kinds /\ msg.role = RoleOf(m.kind) /\ OpenAiCalls(msg) = CallsFrom[m]
  BY ConvertedSays DEF Saying
<1>3. CallsIn(msg) = IdsOf(m)
  BY <1>2, CallsOfType, IdsAre DEF CallsIn, IdsOf, CallsFrom
<1>4. msg.role = "tool" <=> m.kind = "Tool"
  BY <1>2 DEF RoleOf, Kinds
<1>5. ASSUME m.kind = "Tool"
      PROVE  msg.tool_call_id = m.id
  <2>1. m \in ToolSet
    BY <1>5, KindsApart DEF MessageSet
  <2>2. msg = OpenAiTool(m)
    BY <1>5 DEF OpenAiMessage
  <2> QED
    BY <2>1, <2>2, OpenAiToolType
<1> QED
  BY <1>1, <1>2, <1>3, <1>4, <1>5

(* Merging makes the request grow so.                                      *)
LEMMA MessagesGrow ==
  ASSUME NEW s, Merged(s), NEW msg \in OpenAiSet, WellFormed(msg)
  PROVE  GrownMessages(s, MergeOpenAi(s, msg), msg)
<1> DEFINE t == MergeOpenAi(s, msg)
<1>0. s \in Seq(OpenAiSet) /\ Len(s) \in Nat
  BY DEF Merged
<1>1. CASE s # <<>> /\ CanMerge(Last(s), msg)
  <2> DEFINE p == Last(s)
             e == JoinOf(p, msg)
  <2>1. Len(s) > 0 /\ p = s[Len(s)] /\ p \in OpenAiSet /\ WellFormed(p) /\ CanMerge(p, msg)
    BY <1>0, <1>1 DEF Last, Merged
  <2>2. t = ReplaceLast(s, e)
    BY <1>1 DEF MergeOpenAi, JoinOf
  <2> HIDE DEF p
  <2>3. e \in OpenAiSet /\ p.role = msg.role /\ msg.role \in {"user", "assistant"}
    BY <2>1, JoinOfType DEF CanMerge
  <2>4. e.role = msg.role
    <3>1. CASE msg.role = "user"
      BY <2>1, <2>3, <3>1, MergeUsersType DEF JoinOf
    <3>2. CASE msg.role = "assistant"
      <4>1. p.role = "assistant" /\ (HasCalls(p) <=> HasCalls(msg))
        BY <2>1, <2>3, <3>2 DEF CanMerge
      <4>2. e = MergeAssistants(p, msg)
        BY <3>2 DEF JoinOf
      <4> HIDE DEF e
      <4> QED
        BY <2>1, <3>2, <4>1, <4>2, MergeAssistantsType
    <3> QED
      BY <2>3, <3>1, <3>2
  <2>5. CallsIn(e) = CallsIn(p) \cup CallsIn(msg)
    <3>1. CallsBy[e] = CallsBy[p] \o CallsBy[msg]
      BY <2>1, CallsJoin DEF Joins
    <3>2. CallsBy[e] = OpenAiCalls(e) /\ CallsBy[p] = OpenAiCalls(p) /\ CallsBy[msg] = OpenAiCalls(msg)
      BY <2>1, <2>3 DEF CallsBy
    <3>3. OpenAiCalls(p) \in Seq(IdSet) /\ OpenAiCalls(msg) \in Seq(IdSet)
      BY <2>1, <3>2, OpenAiFunctions
    <3> DEFINE a == OpenAiCalls(p)
               b == OpenAiCalls(msg)
    <3>4. OpenAiCalls(e) = a \o b /\ a \in Seq(IdSet) /\ b \in Seq(IdSet)
      BY <3>1, <3>2, <3>3
    <3> HIDE DEF a, b, e
    <3>5. ToSet(OpenAiCalls(e)) = ToSet(a) \cup ToSet(b)
      BY <3>4, ElementsOfBoth
    <3> QED
      BY <3>5 DEF CallsIn, a, b
  <2> HIDE DEF e
  <2> HIDE DEF t
  <2>6. Len(t) = Len(s) /\ t[Len(s)] = e /\ \A n \in 1 .. Len(s) - 1 : t[n] = s[n]
    <3>1. s # <<>> /\ e \in OpenAiSet
      BY <1>1, <2>3
    <3> QED
      BY <1>0, <2>2, <3>1, ReplaceLastType, ZenonT(40)
  <2>7. \A n \in 1 .. Len(s) - 1 : n \in 1 .. Len(s)
    BY <1>0
  <2>8. Len(t) # Len(s) + 1
    BY <1>0, <2>6
  <2> QED
    BY <2>1, <2>3, <2>4, <2>5, <2>6, <2>7, <2>8 DEF GrownMessages, Grown, t
<1>2. CASE ~(s # <<>> /\ CanMerge(Last(s), msg))
  <2>1. t = Append(s, msg)
    BY <1>2 DEF MergeOpenAi
  <2> HIDE DEF t
  <2>2. Len(t) = Len(s) + 1 /\ t[Len(s) + 1] = msg /\ \A n \in 1 .. Len(s) : t[n] = s[n]
    BY <1>0, <2>1
  <2>3. Len(t) > 0 /\ Len(t) # Len(s) /\ \A n \in 1 .. Len(t) - 1 : n \in 1 .. Len(s)
    BY <1>0, <2>2
  <2> QED
    BY <2>2, <2>3 DEF GrownMessages, Grown, t
<1> QED
  BY <1>1, <1>2

(* So do the turns.                                                        *)
LEMMA TurnsGrow ==
  ASSUME NEW s, MergedTurns(s), NEW msg \in TurnSet
  PROVE  GrownTurns(s, MergeAnthropic(s, msg), msg)
<1> DEFINE t == MergeAnthropic(s, msg)
<1>0. s \in Seq(TurnSet) /\ Len(s) \in Nat
  BY DEF MergedTurns
<1>1. CASE s # <<>> /\ Last(s).role = msg.role
  <2> DEFINE p == Last(s)
             e == [p EXCEPT !.content = @ \o msg.content]
  <2>1. Len(s) > 0 /\ p = s[Len(s)] /\ p \in TurnSet /\ p.role = msg.role
    BY <1>0, <1>1 DEF Last
  <2>2. t = ReplaceLast(s, e)
    BY <1>1 DEF MergeAnthropic
  <2> HIDE DEF p
  <2>3. e \in TurnSet /\ e.role = p.role /\ e.content = p.content \o msg.content
    BY <2>1, LongerTurn
  <2> HIDE DEF e
  <2> HIDE DEF t
  <2>4. Len(t) = Len(s) /\ t[Len(s)] = e /\ \A n \in 1 .. Len(s) - 1 : t[n] = s[n]
    <3>1. s # <<>> /\ e \in TurnSet
      BY <1>1, <2>3
    <3> QED
      BY <1>0, <2>2, <3>1, ReplaceLastType, ZenonT(40)
  <2>5. (\A n \in 1 .. Len(s) - 1 : n \in 1 .. Len(s)) /\ Len(t) # Len(s) + 1
    BY <1>0, <2>4
  <2> QED
    BY <2>1, <2>3, <2>4, <2>5 DEF GrownTurns, Grown, t
<1>2. CASE ~(s # <<>> /\ Last(s).role = msg.role)
  <2>1. t = Append(s, msg)
    BY <1>2 DEF MergeAnthropic
  <2> HIDE DEF t
  <2>2. Len(t) = Len(s) + 1 /\ t[Len(s) + 1] = msg /\ \A n \in 1 .. Len(s) : t[n] = s[n]
    BY <1>0, <2>1
  <2>3. Len(t) > 0 /\ Len(t) # Len(s) /\ \A n \in 1 .. Len(t) - 1 : n \in 1 .. Len(s)
    BY <1>0, <2>2
  <2>4. Len(s) > 0 => s[Len(s)].role # msg.role
    BY <1>0, <1>2 DEF Last
  <2> QED
    BY <2>2, <2>3, <2>4 DEF GrownTurns, Grown, t
<1> QED
  BY <1>1, <1>2

(* A turn of blocks of one list and then of another uses what turns of     *)
(* either use.                                                             *)
LEMMA UsesInTurn ==
  ASSUME NEW role \in {"user", "assistant"}, NEW a \in Seq(BlockSet), NEW b \in Seq(BlockSet)
  PROVE  Uses(Turn(role, a \o b)) = Uses(Turn(role, a)) \cup Uses(Turn(role, b))
<1>1. a \o b \in Seq(BlockSet)
  OBVIOUS
<1>2. \A x \in Seq(BlockSet) : Turn(role, x) \in TurnSet /\ Turn(role, x).content = x
  BY DEF Turn, TurnSet
<1> QED
  BY <1>1, <1>2, UsesOfBoth

(* Of a turn without blocks of that type.                                  *)
LEMMA UsesNothing ==
  ASSUME NEW turn \in TurnSet, \A b \in 1 .. Len(turn.content) : turn.content[b].type # "tool_use"
  PROVE  Uses(turn) = {}
BY UsesAre

(* The turn made of an assistant's message uses its calls and nothing else.*)
LEMMA AssistantUses ==
  ASSUME NEW m \in AssistantSet
  PROVE  /\ Uses(Turn("assistant", AssistantBlocks(m))) = IdsOf(m)
         /\ \A b \in 1 .. Len(AssistantBlocks(m)) : AssistantBlocks(m)[b].type # "tool_result"
<1> DEFINE x == When(m.reasoning # None /\ m.signature # None, ThinkingBlock(m.reasoning, m.signature))
           y == When(Said(m.text), TextBlock(m.text))
           z == IF m.calls = None THEN <<>> ELSE [k \in DOMAIN m.calls |-> ToolUseBlock(m.calls[k])]
           T(s) == Turn("assistant", s)
<1>0. /\ m.text \in TextSet \cup {None}
      /\ m.reasoning \in TextSet \cup {None}
      /\ m.signature \in Nat \cup {None}
      /\ m.calls \in Seq(CallSet) \cup {None} /\ m.kind = "Assistant"
  BY DEF AssistantSet
<1>1. x \in Seq(ThinkingBlockSet)
  <2>1. m.reasoning # None /\ m.signature # None => ThinkingBlock(m.reasoning, m.signature) \in ThinkingBlockSet
    BY <1>0 DEF ThinkingBlock, ThinkingBlockSet
  <2> QED
    BY <2>1, WhenType
<1>2. y \in Seq(TextBlockSet)
  <2>1. Said(m.text) => TextBlock(m.text) \in TextBlockSet
    BY <1>0 DEF Said, TextBlock, TextBlockSet
  <2> QED
    BY <2>1, WhenType
<1>3. /\ z \in Seq(ToolUseBlockSet) /\ Len(z) = Len(CallsOf(m))
      /\ \A k \in 1 .. Len(z) : z[k].id = CallsOf(m)[k].id
  <2>1. CASE m.calls = None
    <3>1. z = <<>> /\ CallsOf(m) = <<>>
      BY <1>0, <2>1 DEF CallsOf
    <3> HIDE DEF z
    <3> QED
      BY <3>1
  <2>2. CASE m.calls # None
    <3> DEFINE calls == m.calls
    <3>1. calls \in Seq(CallSet) /\ CallsOf(m) = calls /\ z = [k \in DOMAIN calls |-> ToolUseBlock(calls[k])]
      BY <1>0, <2>2 DEF CallsOf
    <3> HIDE DEF calls, z
    <3>2. Len(calls) \in Nat /\ DOMAIN calls = 1 .. Len(calls) /\ \A k \in 1 .. Len(calls) : calls[k] \in CallSet
      BY <3>1
    <3>3. \A c \in CallSet : ToolUseBlock(c) \in ToolUseBlockSet /\ ToolUseBlock(c).id = c.id
      BY DEF ToolUseBlock, CallSet, ToolUseBlockSet
    <3>4. z \in [1 .. Len(calls) -> ToolUseBlockSet] /\ \A k \in 1 .. Len(calls) : z[k].id = calls[k].id
      BY <3>1, <3>2, <3>3
    <3> QED
      BY <3>1, <3>2, <3>4, SeqOfPositions
  <2> QED
    BY <2>1, <2>2
<1>4. AssistantBlocks(m) = (x \o y) \o z
  BY DEF AssistantBlocks
<1> HIDE DEF x, y, z
<1>5. x \in Seq(BlockSet) /\ y \in Seq(BlockSet) /\ z \in Seq(BlockSet) /\ x \o y \in Seq(BlockSet)
  <2>1. ThinkingBlockSet \subseteq BlockSet /\ TextBlockSet \subseteq BlockSet /\ ToolUseBlockSet \subseteq BlockSet
    BY DEF BlockSet
  <2>2. x \in Seq(BlockSet) /\ y \in Seq(BlockSet) /\ z \in Seq(BlockSet)
    BY <1>1, <1>2, <1>3, <2>1
  <2> QED
    BY <2>2
<1>6. \A s \in Seq(BlockSet) : T(s) \in TurnSet /\ T(s).content = s
  BY DEF Turn, TurnSet
<1>7. Uses(T((x \o y) \o z)) = (Uses(T(x)) \cup Uses(T(y))) \cup Uses(T(z))
  <2>1. \A a, b \in Seq(BlockSet) : Uses(T(a \o b)) = Uses(T(a)) \cup Uses(T(b))
    BY UsesInTurn
  <2> DEFINE w == x \o y
  <2> HIDE DEF T
  <2>2. Uses(T(w)) = Uses(T(x)) \cup Uses(T(y)) /\ w \in Seq(BlockSet)
    BY <1>5, <2>1
  <2> HIDE DEF w
  <2>3. Uses(T(w \o z)) = Uses(T(w)) \cup Uses(T(z))
    BY <1>5, <2>1, <2>2
  <2> QED
    BY <2>2, <2>3 DEF w
<1> HIDE DEF T
<1>8. /\ \A k \in 1 .. Len(x) : x[k].type = "thinking"
      /\ \A k \in 1 .. Len(y) : y[k].type = "text"
      /\ \A k \in 1 .. Len(z) : z[k].type = "tool_use"
  <2>1. /\ \A k \in 1 .. Len(x) : x[k] \in ThinkingBlockSet
        /\ \A k \in 1 .. Len(y) : y[k] \in TextBlockSet
        /\ \A k \in 1 .. Len(z) : z[k] \in ToolUseBlockSet
    BY <1>1, <1>2, <1>3
  <2> QED
    BY <2>1 DEF ThinkingBlockSet, TextBlockSet, ToolUseBlockSet
<1>9. Uses(T(x)) = {} /\ Uses(T(y)) = {}
  BY <1>5, <1>6, <1>8, UsesNothing
<1>10. Uses(T(z)) = IdsOf(m)
  <2>1. \A id : id \in Uses(T(z)) <=> \E k \in 1 .. Len(z) : z[k].type = "tool_use" /\ z[k].id = id
    BY <1>5, <1>6, UsesAre
  <2> DEFINE calls == CallsOf(m)
  <2>2. DOMAIN calls = 1 .. Len(calls) /\ Len(z) = Len(calls) /\ \A k \in 1 .. Len(calls) : z[k].id = calls[k].id
    BY <1>3, CallsOfType DEF MessageSet
  <2>3. IdsOf(m) = {c.id : c \in ToSet(calls)}
    BY DEF IdsOf
  <2> HIDE DEF calls
  <2>4. \A id : id \in IdsOf(m) <=> \E k \in 1 .. Len(calls) : calls[k].id = id
    BY <2>2, <2>3 DEF ToSet
  <2>5. \A id : id \in Uses(T(z)) <=> id \in IdsOf(m)
    BY <1>8, <2>1, <2>2, <2>4
  <2> QED
    BY <2>5
<1>11. ASSUME NEW b \in 1 .. Len((x \o y) \o z)
       PROVE  ((x \o y) \o z)[b].type # "tool_result"
  <2> DEFINE w == x \o y
  <2>1. /\ Len(x) \in Nat /\ Len(y) \in Nat /\ Len(w) = Len(x) + Len(y)
        /\ \A k \in 1 .. Len(w) : w[k] = IF k <= Len(x) THEN x[k] ELSE y[k - Len(x)]
    BY <1>5
  <2>2. w \in Seq(BlockSet)
    BY <1>5
  <2> HIDE DEF w
  <2>3. /\ Len(w) \in Nat /\ Len(z) \in Nat /\ Len(w \o z) = Len(w) + Len(z)
        /\ \A k \in 1 .. Len(w \o z) : (w \o z)[k] = IF k <= Len(w) THEN w[k] ELSE z[k - Len(w)]
    BY <1>5, <2>2
  <2>4. b \in 1 .. Len(w \o z)
    BY DEF w
  <2>5. CASE b <= Len(w)
    <3>1. b \in 1 .. Len(w) /\ (w \o z)[b] = w[b]
      BY <2>3, <2>4, <2>5
    <3>2. CASE b <= Len(x)
      <4>1. b \in 1 .. Len(x) /\ w[b] = x[b]
        BY <2>1, <3>1, <3>2
      <4> QED
        BY <1>8, <3>1, <4>1 DEF w
    <3>3. CASE b > Len(x)
      <4>1. b - Len(x) \in 1 .. Len(y) /\ w[b] = y[b - Len(x)]
        BY <2>1, <3>1, <3>3
      <4> QED
        BY <1>8, <3>1, <4>1 DEF w
    <3> QED
      BY <2>1, <2>4, <3>2, <3>3
  <2>6. CASE b > Len(w)
    <3>1. b - Len(w) \in 1 .. Len(z) /\ (w \o z)[b] = z[b - Len(w)]
      BY <2>3, <2>4, <2>6
    <3> QED
      BY <1>8, <3>1 DEF w
  <2> QED
    BY <2>3, <2>4, <2>5, <2>6
<1> QED
  BY <1>4, <1>7, <1>9, <1>10, <1>11 DEF T

(* What a turn is made of.                                                 *)
LEMMA TurnFields ==
  ASSUME NEW role, NEW c
  PROVE  Turn(role, c).role = role /\ Turn(role, c).content = c
BY DEF Turn

(* The turn made of a message is a turn of that message.                   *)
LEMMA TurnOfMessage ==
  ASSUME NEW m \in MessageSet, AnthropicMessage(m) # <<>>, NEW turn, turn = AnthropicMessage(m)[1]
  PROVE  turn \in TurnSet /\ m.kind # "Custom" /\ TurnOf(m, turn)
<1>1. turn \in TurnSet
  BY AnthropicMessageType
<1>2. m.kind # "Assistant" => IdsOf(m) = {}
  <2>1. ToSet(<<>>) = {}
    BY DEF ToSet
  <2> QED
    BY <2>1 DEF IdsOf, CallsOf
<1>3. CASE m.kind = "Assistant"
  <2>1. m \in AssistantSet
    BY <1>3, KindsApart DEF MessageSet
  <2>2. AssistantBlocks(m) # <<>> /\ turn = Turn("assistant", AssistantBlocks(m))
    BY <1>3 DEF AnthropicMessage
  <2>3. turn.role = "assistant" /\ turn.content = AssistantBlocks(m)
    BY <2>2, TurnFields
  <2> QED
    BY <1>1, <1>3, <2>1, <2>2, <2>3, AssistantUses DEF TurnOf
<1>4. CASE m.kind = "User"
  <2> DEFINE images == ImageBlocks(m.images)
             text == TextBlock(m.text)
             c == <<text>> \o images
  <2>1. m \in UserSet
    BY <1>4, KindsApart DEF MessageSet
  <2>2. images \in Seq(ImageBlockSet) /\ text \in TextBlockSet
    BY <2>1, ImageBlocksType DEF UserSet, TextBlock, TextBlockSet
  <2>3. turn = Turn("user", c)
    BY <1>4 DEF AnthropicMessage
  <2>4. turn.role = "user" /\ turn.content = c
    <3> HIDE DEF c
    <3> QED
      BY <2>3, TurnFields
  <2> HIDE DEF images, text
  <2>5. /\ Len(images) \in Nat /\ Len(c) = Len(images) + 1
        /\ \A k \in 1 .. Len(c) : c[k] = IF k <= 1 THEN text ELSE images[k - 1]
    BY <2>2
  <2>6. c # <<>>
    BY <2>2
  <2> HIDE DEF c
  <2>7. ASSUME NEW k \in 1 .. Len(c)
        PROVE  c[k].type \in {"text", "image"}
    <3>1. c[k] \in TextBlockSet \cup ImageBlockSet
      <4>1. CASE k <= 1
        BY <2>2, <2>5, <4>1
      <4>2. CASE k > 1
        <5>1. k - 1 \in 1 .. Len(images) /\ c[k] = images[k - 1]
          BY <2>5, <4>2
        <5> QED
          BY <2>2, <5>1
      <4> QED
        BY <2>5, <4>1, <4>2
    <3> QED
      BY <3>1 DEF TextBlockSet, ImageBlockSet
  <2>8. Uses(turn) = {}
    BY <1>1, <2>4, <2>7, UsesNothing
  <2> QED
    BY <1>1, <1>2, <1>4, <2>4, <2>6, <2>7, <2>8 DEF TurnOf
<1>5. CASE m.kind = "Tool"
  <2> DEFINE b == ResultBlock(m)
             c == <<b>>
  <2>1. turn = Turn("user", c)
    BY <1>5 DEF AnthropicMessage
  <2>2. turn.role = "user" /\ turn.content = c
    BY <2>1, TurnFields
  <2>3. b.type = "tool_result" /\ b.id = m.id
    BY DEF ResultBlock
  <2> HIDE DEF b
  <2>4. Len(c) = 1 /\ c[1] = b /\ c # <<>>
    OBVIOUS
  <2> HIDE DEF c
  <2>5. Uses(turn) = {}
    BY <1>1, <2>2, <2>3, <2>4, UsesNothing
  <2> QED
    BY <1>1, <1>2, <1>5, <2>2, <2>3, <2>4, <2>5 DEF TurnOf
<1>6. m.kind \in {"User", "Assistant", "Tool"}
  BY KindsApart DEF MessageSet, AnthropicMessage
<1> QED
  BY <1>1, <1>3, <1>4, <1>5, <1>6

-----------------------------------------------------------------------------
(* Each call is numbered with its message.                                 *)
Numbered(h) == \A n \in 1 .. Len(h) : \A id \in IdsOf(h[n]) : id[1] = n

(* A new message has calls of its own number, and is a result only of a    *)
(* call there was.                                                         *)
OwnIds(m) ==
  /\ \A id \in IdsOf(m) : id[1] = Len(history) + 1
  /\ m.kind = "Tool" => m.id \in CallIds

(* Every message taken is such.                                            *)
LEMMA TakesOwn ==
  ASSUME ConversionInv, Next, NEW m \in MessageSet, Take(m)
  PROVE  OwnIds(m)
<1>1. ASSUME NEW x, Take(x)
      PROVE  x = m
  <2>1. Append(history, x) = Append(history, m) /\ history \in Seq(MessageSet)
    BY <1>1 DEF Take, ConversionInv
  <2>2. Append(history, x)[Len(history) + 1] = x /\ Append(history, m)[Len(history) + 1] = m
    BY <2>1
  <2> QED
    BY <2>1, <2>2
<1>2. m.kind # "Assistant" => IdsOf(m) = {}
  <2>1. ToSet(<<>>) = {}
    BY DEF ToSet
  <2> QED
    BY <2>1 DEF IdsOf, CallsOf
<1>3. CASE TakeSystem
  <2>1. m.kind = "System"
    BY <1>1, <1>3 DEF TakeSystem, System
  <2> QED
    BY <1>2, <2>1 DEF OwnIds
<1>4. CASE TakeUser
  <2>1. m.kind = "User"
    BY <1>1, <1>4 DEF TakeUser, User
  <2> QED
    BY <1>2, <2>1 DEF OwnIds
<1>5. CASE TakeCustom
  <2>1. m.kind = "Custom"
    BY <1>1, <1>5 DEF TakeCustom, Custom
  <2> QED
    BY <1>2, <2>1 DEF OwnIds
<1>6. CASE TakeTool
  <2>1. PICK id \in CallIds, count \in ImageCounts : Take(Tool(id, SomeText, Images(count)))
    BY <1>6 DEF TakeTool
  <2>2. m = Tool(id, SomeText, Images(count))
    BY <1>1, <2>1
  <2>3. m.kind = "Tool" /\ m.id = id
    BY <2>2 DEF Tool
  <2> QED
    BY <1>2, <2>1, <2>3 DEF OwnIds
<1>7. CASE TakeAssistant
  <2>1. PICK shape \in AssistantShape :
          Take(Assistant(
            IF shape.text = "some" THEN SomeText ELSE IF shape.text = "empty" THEN <<>> ELSE None,
            IF shape.reasons THEN SomeText ELSE None,
            IF shape.signed THEN Number ELSE None,
            IF shape.calls = None THEN None
            ELSE [k \in DOMAIN shape.calls |-> Call(<<Number, k>>, shape.calls[k])]))
    BY <1>7 DEF TakeAssistant
  <2> DEFINE text == IF shape.text = "some" THEN SomeText
                     ELSE IF shape.text = "empty" THEN <<>> ELSE None
             reasoning == IF shape.reasons THEN SomeText ELSE None
             signature == IF shape.signed THEN Number ELSE None
             calls == IF shape.calls = None THEN None
                      ELSE [k \in DOMAIN shape.calls |-> Call(<<Number, k>>, shape.calls[k])]
             x == Assistant(text, reasoning, signature, calls)
  <2>2. m = x
    BY <1>1, <2>1
  <2> HIDE DEF text, reasoning, signature, calls
  <2>3. m.kind = "Assistant" /\ m.calls = calls
    BY <2>2 DEF Assistant
  <2> HIDE DEF x
  <2>4. ASSUME NEW c \in ToSet(CallsOf(m))
        PROVE  c.id[1] = Number
    <3>1. CASE calls = None
      <4>1. CallsOf(m) = <<>>
        BY <2>3, <3>1 DEF CallsOf
      <4> QED
        BY <2>4, <4>1 DEF ToSet
    <3>2. CASE calls # None
      <4>1. CallsOf(m) = calls
        BY <2>3, <3>2 DEF CallsOf
      <4>2. PICK k \in DOMAIN calls : c = calls[k]
        BY <2>4, <4>1 DEF ToSet
      <4>3. calls = [n \in DOMAIN shape.calls |-> Call(<<Number, n>>, shape.calls[n])]
        BY <3>2 DEF calls
      <4>4. c = Call(<<Number, k>>, shape.calls[k])
        BY <4>2, <4>3
      <4> QED
        BY <4>4 DEF Call
    <3> QED
      BY <3>1, <3>2
  <2> QED
    BY <2>3, <2>4 DEF OwnIds, IdsOf, Number
<1> QED
  BY <1>3, <1>4, <1>5, <1>6, <1>7 DEF Next

(* The inductive invariant.                                                *)
PlacedInv ==
  /\ Numbered(history)
  /\ Follow(history) => MessagesPlaced(history, openai) /\ TurnsPlaced(history, anthropic)

(* One message more keeps it.                                              *)
LEMMA TakePlaces ==
  ASSUME ConversionInv, NEW m \in MessageSet, Take(m), OwnIds(m), PlacedInv
  PROVE  PlacedInv'
<1> DEFINE h == history
           g == history'
           s == openai
           t == openai'
           a == anthropic
           b == anthropic'
<1>1. /\ h \in Seq(MessageSet) /\ g = Append(h, m) /\ Len(h) \in Nat
      /\ Merged(s) /\ MergedTurns(a)
  BY DEF ConversionInv, Take
<1>2. /\ t = IF OpenAiMessage(m) = <<>> THEN s ELSE MergeOpenAi(s, OpenAiMessage(m)[1])
      /\ b = IF AnthropicMessage(m) = <<>> THEN a ELSE MergeAnthropic(a, AnthropicMessage(m)[1])
  BY DEF Take
<1>3. /\ Numbered(h) /\ (Follow(h) => MessagesPlaced(h, s) /\ TurnsPlaced(h, a))
      /\ \A id \in IdsOf(m) : id[1] = Len(h) + 1
      /\ m.kind = "Tool" => m.id \in CallIds
  BY DEF PlacedInv, OwnIds
<1>4. CallIds = UNION {IdsOf(h[n]) : n \in 1 .. Len(h)}
  <2>1. ToSet(h) = {h[n] : n \in 1 .. Len(h)}
    BY <1>1 DEF ToSet
  <2> QED
    BY <2>1 DEF CallIds, IdsOf
<1> HIDE DEF h, g, s, t, a, b
<1>5. Numbered(g)
  <2>1. Len(g) = Len(h) + 1 /\ g[Len(h) + 1] = m /\ \A n \in 1 .. Len(h) : g[n] = h[n]
    BY <1>1
  <2>2. ASSUME NEW n \in 1 .. Len(g), NEW id \in IdsOf(g[n])
        PROVE  id[1] = n
    <3>1. CASE n = Len(h) + 1
      BY <1>3, <2>1, <2>2, <3>1
    <3>2. CASE n # Len(h) + 1
      <4>1. n \in 1 .. Len(h)
        BY <1>1, <2>1, <3>2
      <4> QED
        BY <1>3, <2>1, <2>2, <4>1 DEF Numbered
    <3> QED
      BY <3>1, <3>2
  <2> QED
    BY <2>2 DEF Numbered
<1>6. ASSUME Follow(g)
      PROVE  MessagesPlaced(g, t) /\ TurnsPlaced(g, b)
  <2>1. Follow(h) /\ (m.kind = "Tool" /\ Called(h, m.id) => Quiet(h, m.id[1]))
    BY <1>1, <1>6, FollowBefore
  <2>2. m.kind = "Tool" => Called(h, m.id)
    <3> SUFFICES ASSUME m.kind = "Tool"
                 PROVE  Called(h, m.id)
      OBVIOUS
    <3>1. PICK n \in 1 .. Len(h) : m.id \in IdsOf(h[n])
      BY <1>3, <1>4
    <3>2. m.id[1] = n
      BY <1>3, <3>1 DEF Numbered
    <3> QED
      BY <3>1, <3>2 DEF Called
  <2>3. m.kind = "Tool" => IdsOf(m) = {}
    BY DEF IdsOf, CallsOf, ToSet
  <2>4. Fits(h, m)
    BY <1>3, <2>1, <2>2, <2>3 DEF Fits
  <2>5. MessagesPlaced(g, t)
    <3>1. CASE OpenAiMessage(m) = <<>>
      BY <1>1, <1>2, <1>3, <2>1, <3>1, NothingMoves
    <3>2. CASE OpenAiMessage(m) # <<>>
      <4> DEFINE msg == OpenAiMessage(m)[1]
      <4>1. /\ msg \in OpenAiSet /\ WellFormed(msg) /\ m.kind # "Custom"
            /\ CallsIn(msg) = IdsOf(m)
            /\ msg.role = "tool" <=> m.kind = "Tool"
            /\ msg.role = "tool" => msg.tool_call_id = m.id
        BY <3>2, MessageOf
      <4>2. t = MergeOpenAi(s, msg)
        BY <1>2, <3>2
      <4> HIDE DEF msg
      <4>3. GrownMessages(s, t, msg) /\ t \in Seq(OpenAiSet) /\ s \in Seq(OpenAiSet)
        BY <1>1, <4>1, <4>2, MessagesGrow, MergeOpenAiKeeps DEF Merged
      <4> QED
        BY <1>1, <1>3, <2>1, <2>4, <4>1, <4>3, MessagesStayPlaced
    <3> QED
      BY <3>1, <3>2
  <2>6. TurnsPlaced(g, b)
    <3>1. CASE AnthropicMessage(m) = <<>>
      BY <1>1, <1>2, <1>3, <2>1, <3>1, NothingMoves
    <3>2. CASE AnthropicMessage(m) # <<>>
      <4> DEFINE turn == AnthropicMessage(m)[1]
      <4>1. turn \in TurnSet /\ m.kind # "Custom" /\ TurnOf(m, turn)
        BY <3>2, TurnOfMessage
      <4>2. b = MergeAnthropic(a, turn)
        BY <1>2, <3>2
      <4> HIDE DEF turn
      <4>3. GrownTurns(a, b, turn) /\ b \in Seq(TurnSet) /\ a \in Seq(TurnSet)
        BY <1>1, <4>1, <4>2, TurnsGrow, MergeAnthropicKeeps DEF MergedTurns
      <4> QED
        BY <1>1, <1>3, <2>1, <2>4, <4>1, <4>3, TurnsStayPlaced
    <3> QED
      BY <3>1, <3>2
  <2> QED
    BY <2>5, <2>6
<1> QED
  BY <1>5, <1>6 DEF PlacedInv, h, g, s, t, a, b

(* Of every history in which nothing but results comes between a call and  *)
(* its results, both servers are told results where they accept them       *)
(* (ResultsStayWithCalls): merging puts nothing there, whatever else the   *)
(* history has.                                                            *)
THEOREM ResultsKeepTheirPlace == Spec => []ResultsStayWithCalls
<1>1. Init => PlacedInv
  BY DEF Init, PlacedInv, Numbered, MessagesPlaced, TurnsPlaced
<1>2. ConversionInv /\ PlacedInv /\ [Next]_vars => PlacedInv'
  <2>1. ASSUME ConversionInv, PlacedInv, Next
        PROVE  PlacedInv'
    <3>1. PICK m \in MessageSet : Take(m)
      BY <2>1, NextTakes
    <3>2. OwnIds(m)
      BY <2>1, <3>1, TakesOwn
    <3> QED
      BY <2>1, <3>1, <3>2, TakePlaces
  <2>2. ASSUME PlacedInv, UNCHANGED vars
        PROVE  PlacedInv'
    BY <2>2 DEF vars, PlacedInv
  <2> QED
    BY <2>1, <2>2
<1>3. ConversionInv /\ PlacedInv => ResultsStayWithCalls
  <2> SUFFICES ASSUME ConversionInv, PlacedInv, ResultsFollowCalls
               PROVE  /\ \A i, j \in DOMAIN openai :
                           (openai[j].role = "tool" /\ openai[j].tool_call_id \in ToSet(OpenAiCalls(openai[i]))) =>
                             i < j /\ \A k \in i + 1 .. j - 1 : openai[k].role = "tool"
                      /\ \A i, j \in DOMAIN anthropic :
                           LET blocks == anthropic[j].content
                           IN  \A b \in DOMAIN blocks :
                                 (blocks[b].type = "tool_result" /\ blocks[b].id \in Uses(anthropic[i])) =>
                                   j = i + 1 /\ \A c \in 1 .. b : blocks[c].type = "tool_result"
    BY DEF ResultsStayWithCalls
  <2>1. Follow(history)
    BY DEF ResultsFollowCalls, Follow, IdsOf
  <2>2. MessagesPlaced(history, openai) /\ TurnsPlaced(history, anthropic)
    BY <2>1 DEF PlacedInv
  <2>3. DOMAIN openai = 1 .. Len(openai) /\ DOMAIN anthropic = 1 .. Len(anthropic)
        /\ \A j \in 1 .. Len(anthropic) : anthropic[j] \in TurnSet
    BY DEF ConversionInv, Merged, MergedTurns
  <2>4. \A turn \in TurnSet : DOMAIN turn.content = 1 .. Len(turn.content)
    BY DEF TurnSet
  <2>5. \A i, j \in DOMAIN openai :
           (openai[j].role = "tool" /\ openai[j].tool_call_id \in ToSet(OpenAiCalls(openai[i]))) =>
             i < j /\ \A k \in i + 1 .. j - 1 : openai[k].role = "tool"
    BY <2>2, <2>3 DEF MessagesPlaced, CallsIn
  <2>6. ASSUME NEW i \in DOMAIN anthropic, NEW j \in DOMAIN anthropic, NEW b \in DOMAIN anthropic[j].content,
               anthropic[j].content[b].type = "tool_result", anthropic[j].content[b].id \in Uses(anthropic[i])
        PROVE  j = i + 1 /\ \A c \in 1 .. b : anthropic[j].content[c].type = "tool_result"
    <3>1. i \in 1 .. Len(anthropic) /\ j \in 1 .. Len(anthropic) /\ b \in 1 .. Len(anthropic[j].content)
      BY <2>3, <2>4
    <3>2. \A n, r \in 1 .. Len(anthropic) : \A x \in 1 .. Len(anthropic[r].content) :
            (anthropic[r].content[x].type = "tool_result" /\ anthropic[r].content[x].id \in Uses(anthropic[n])) =>
              r = n + 1 /\ ResultsUpTo(anthropic[r], x)
      BY <2>2 DEF TurnsPlaced
    <3>3. j = i + 1 /\ ResultsUpTo(anthropic[j], b)
      BY <2>6, <3>1, <3>2
    <3> QED
      BY <3>3 DEF ResultsUpTo
  <2> QED
    BY <2>5, <2>6
<1> QED
  BY <1>1, <1>2, <1>3, Invariance, PTL DEF Spec
-----------------------------------------------------------------------------
(* Sets of numbers up to N, one for each of l places, in order.            *)
InPlace(sources, l, N) ==
  /\ DOMAIN sources = 1 .. l
  /\ \A i \in 1 .. l : sources[i] \subseteq 1 .. N
  /\ \A i, j \in 1 .. l : i < j => \A m \in sources[i], n \in sources[j] : m < n

(* They stay so when the next number comes last, in the last place or in a *)
(* new one.                                                                *)
LEMMA StaysInPlace ==
  ASSUME NEW l \in Nat, NEW N \in Nat, NEW u, InPlace(u, l, N),
         NEW k \in {l, l + 1}, k > 0, NEW v, DOMAIN v = 1 .. k,
         \A i \in 1 .. k - 1 : v[i] = u[i],
         k = l => v[k] \subseteq u[l] \cup {N + 1},
         k = l + 1 => v[k] \subseteq {N + 1}
  PROVE  InPlace(v, k, N + 1)
<1>1. \A i \in 1 .. k - 1 : i \in 1 .. l /\ v[i] = u[i] /\ v[i] \subseteq 1 .. N
  BY DEF InPlace
<1>2. \A n \in v[k] : n = N + 1 \/ (k = l /\ n \in u[l])
  OBVIOUS
<1>3. k = l => l \in 1 .. l /\ u[l] \subseteq 1 .. N
  BY DEF InPlace
<1>4. \A i \in 1 .. k : v[i] \subseteq 1 .. N + 1
  <2> SUFFICES ASSUME NEW i \in 1 .. k, NEW n \in v[i]
               PROVE  n \in 1 .. N + 1
    OBVIOUS
  <2>1. CASE i = k
    BY <1>2, <1>3, <2>1
  <2>2. CASE i # k
    <3>1. i \in 1 .. k - 1
      BY <2>2
    <3>2. n \in 1 .. N
      BY <1>1, <3>1
    <3> QED
      BY <3>2
  <2> QED
    BY <2>1, <2>2
<1>5. ASSUME NEW i \in 1 .. k, NEW j \in 1 .. k, i < j, NEW m \in v[i], NEW n \in v[j]
      PROVE  m < n
  <2>1. i \in 1 .. k - 1
    BY <1>5
  <2>2. i \in 1 .. l /\ m \in u[i] /\ m \in 1 .. N
    BY <1>1, <1>5, <2>1
  <2>3. CASE j = k
    <3>1. CASE n = N + 1
      BY <2>2, <3>1
    <3>2. CASE k = l /\ n \in u[l]
      BY <1>3, <1>5, <2>2, <2>3, <3>2 DEF InPlace
    <3> QED
      BY <1>2, <1>5, <2>3, <3>1, <3>2
  <2>4. CASE j # k
    <3>1. j \in 1 .. k - 1
      BY <1>5, <2>4
    <3>2. j \in 1 .. l /\ n \in u[j]
      BY <1>1, <1>5, <3>1
    <3> QED
      BY <1>5, <2>2, <3>2 DEF InPlace
  <2> QED
    BY <2>3, <2>4
<1> QED
  BY <1>4, <1>5 DEF InPlace

(* A message merged with another has the sources of both.                  *)
LEMMA JoinedSources ==
  ASSUME NEW p \in OpenAiSet, NEW msg \in OpenAiSet, WellFormed(p), WellFormed(msg), CanMerge(p, msg)
  PROVE  /\ MessageSources(JoinOf(p, msg)) = MessageSources(p) \cup MessageSources(msg)
         /\ JoinOf(p, msg) \in OpenAiSet /\ JoinOf(p, msg).role = p.role /\ p.role = msg.role
         /\ p.role = "assistant" =>
              (HasCalls(JoinOf(p, msg)) <=> HasCalls(p)) /\ (HasCalls(p) <=> HasCalls(msg))
<1> DEFINE e == JoinOf(p, msg)
<1>1. e \in OpenAiSet /\ p.role = msg.role /\ msg.role \in {"user", "assistant"}
  BY JoinOfType DEF CanMerge
<1>2. /\ e.role = p.role
      /\ p.role = "assistant" => (HasCalls(e) <=> HasCalls(p)) /\ (HasCalls(p) <=> HasCalls(msg))
  <2>1. CASE msg.role = "user"
    BY <1>1, <2>1, MergeUsersType DEF JoinOf
  <2>2. CASE msg.role = "assistant"
    <3>1. p.role = "assistant" /\ (HasCalls(p) <=> HasCalls(msg))
      BY <1>1, <2>2 DEF CanMerge
    <3>2. e = MergeAssistants(p, msg)
      BY <2>2 DEF JoinOf
    <3> HIDE DEF e
    <3> QED
      BY <2>2, <3>1, <3>2, MergeAssistantsType
  <2> QED
    BY <1>1, <2>1, <2>2
<1> HIDE DEF e
<1>3. /\ OpenAiTexts(e) = OpenAiTexts(p) \o OpenAiTexts(msg)
      /\ OpenAiTexts(p) \in Seq(Nat) /\ OpenAiTexts(msg) \in Seq(Nat)
  <2> DEFINE F == TextsBy(msg.role)
  <2>1. F[e] = F[p] \o F[msg] /\ F \in [OpenAiSet -> Seq(Nat)]
    BY TextsJoin, OpenAiFunctions DEF Joins, e
  <2>2. F[e] = OpenAiTexts(e) /\ F[p] = OpenAiTexts(p) /\ F[msg] = OpenAiTexts(msg)
    BY <1>1, <1>2 DEF TextsBy
  <2> HIDE DEF F
  <2> QED
    BY <2>1, <2>2
<1>4. /\ OpenAiImages(e) = OpenAiImages(p) \o OpenAiImages(msg)
      /\ OpenAiImages(p) \in Seq(IdSet) /\ OpenAiImages(msg) \in Seq(IdSet)
  <2>1. ImagesBy[e] = ImagesBy[p] \o ImagesBy[msg] /\ ImagesBy \in [OpenAiSet -> Seq(IdSet)]
    BY ImagesJoin, OpenAiFunctions DEF Joins, e
  <2>2. ImagesBy[e] = OpenAiImages(e) /\ ImagesBy[p] = OpenAiImages(p) /\ ImagesBy[msg] = OpenAiImages(msg)
    BY <1>1 DEF ImagesBy
  <2> QED
    BY <2>1, <2>2
<1>5. /\ OpenAiCalls(e) = OpenAiCalls(p) \o OpenAiCalls(msg)
      /\ OpenAiCalls(p) \in Seq(IdSet) /\ OpenAiCalls(msg) \in Seq(IdSet)
  <2>1. CallsBy[e] = CallsBy[p] \o CallsBy[msg] /\ CallsBy \in [OpenAiSet -> Seq(IdSet)]
    BY CallsJoin, OpenAiFunctions DEF Joins, e
  <2>2. CallsBy[e] = OpenAiCalls(e) /\ CallsBy[p] = OpenAiCalls(p) /\ CallsBy[msg] = OpenAiCalls(msg)
    BY <1>1 DEF CallsBy
  <2> QED
    BY <2>1, <2>2
<1>6. /\ ToSet(OpenAiTexts(e)) = ToSet(OpenAiTexts(p)) \cup ToSet(OpenAiTexts(msg))
      /\ ToSet(OpenAiImages(e)) = ToSet(OpenAiImages(p)) \cup ToSet(OpenAiImages(msg))
      /\ ToSet(OpenAiCalls(e)) = ToSet(OpenAiCalls(p)) \cup ToSet(OpenAiCalls(msg))
  <2>1. ToSet(OpenAiTexts(e)) = ToSet(OpenAiTexts(p)) \cup ToSet(OpenAiTexts(msg))
    BY <1>3, ElementsOfBoth
  <2>2. ToSet(OpenAiImages(e)) = ToSet(OpenAiImages(p)) \cup ToSet(OpenAiImages(msg))
    BY <1>4, ElementsOfBoth
  <2>3. ToSet(OpenAiCalls(e)) = ToSet(OpenAiCalls(p)) \cup ToSet(OpenAiCalls(msg))
    BY <1>5, ElementsOfBoth
  <2> QED
    BY <2>1, <2>2, <2>3
<1> QED
  BY <1>1, <1>2, <1>6 DEF MessageSources, e

(* Merging brings what a message says to the end of the request.           *)
GrownSources(s, t, msg) ==
  /\ Grown(s, t)
  /\ Len(t) = Len(s) =>
       /\ MessageSources(t[Len(t)]) = MessageSources(s[Len(s)]) \cup MessageSources(msg)
       /\ t[Len(t)].role = msg.role /\ s[Len(s)].role = msg.role
       /\ msg.role = "assistant" =>
            /\ HasCalls(t[Len(t)]) <=> HasCalls(msg)
            /\ HasCalls(s[Len(s)]) <=> HasCalls(msg)
  /\ Len(t) = Len(s) + 1 => t[Len(t)] = msg

(* Merging does that.                                                      *)
LEMMA SourcesGrow ==
  ASSUME NEW s, Merged(s), NEW msg \in OpenAiSet, WellFormed(msg)
  PROVE  GrownSources(s, MergeOpenAi(s, msg), msg)
<1> DEFINE t == MergeOpenAi(s, msg)
<1>0. s \in Seq(OpenAiSet) /\ Len(s) \in Nat
  BY DEF Merged
<1>1. Grown(s, t) /\ (Len(t) = Len(s) + 1 => t[Len(t)] = msg)
  BY MessagesGrow DEF GrownMessages
<1>2. CASE s # <<>> /\ CanMerge(Last(s), msg)
  <2> DEFINE p == Last(s)
             e == JoinOf(p, msg)
  <2>1. Len(s) > 0 /\ p = s[Len(s)] /\ p \in OpenAiSet /\ WellFormed(p) /\ CanMerge(p, msg)
    BY <1>0, <1>2 DEF Last, Merged
  <2>2. t = ReplaceLast(s, e)
    BY <1>2 DEF MergeOpenAi, JoinOf
  <2> HIDE DEF p
  <2>3. /\ MessageSources(e) = MessageSources(p) \cup MessageSources(msg)
        /\ e \in OpenAiSet /\ e.role = p.role /\ p.role = msg.role
        /\ p.role = "assistant" => (HasCalls(e) <=> HasCalls(p)) /\ (HasCalls(p) <=> HasCalls(msg))
    BY <2>1, JoinedSources
  <2> HIDE DEF e
  <2> HIDE DEF t
  <2>4. Len(t) = Len(s) /\ t[Len(s)] = e
    BY <1>0, <1>2, <2>2, <2>3, ReplaceLastType, ZenonT(40)
  <2> QED
    BY <1>1, <2>1, <2>3, <2>4 DEF GrownSources, t
<1>3. CASE ~(s # <<>> /\ CanMerge(Last(s), msg))
  <2>1. t = Append(s, msg)
    BY <1>3 DEF MergeOpenAi
  <2>2. Len(t) # Len(s)
    BY <1>0, <2>1
  <2> HIDE DEF t
  <2> QED
    BY <1>1, <2>2 DEF GrownSources, t
<1> QED
  BY <1>2, <1>3

(* Nobody said anything else: what a message says is numbered with it.     *)
OwnWords(m, n) ==
  /\ m.kind # "Custom" => m.text \in {None, <<>>, <<n>>}
  /\ m.kind = "User" => \A k \in 1 .. Len(m.images) : m.images[k].id[1] = n
  /\ m.kind = "Assistant" => m.reasoning \in {None, <<n>>}
  /\ \A id \in IdsOf(m) : id[1] = n

(* Every message taken is such.                                            *)
LEMMA TakesOwnWords ==
  ASSUME ConversionInv, Next, NEW m \in MessageSet, Take(m)
  PROVE  OwnWords(m, Len(history) + 1)
<1>1. ASSUME NEW x, Take(x)
      PROVE  x = m
  <2>1. Append(history, x) = Append(history, m) /\ history \in Seq(MessageSet)
    BY <1>1 DEF Take, ConversionInv
  <2>2. Append(history, x)[Len(history) + 1] = x /\ Append(history, m)[Len(history) + 1] = m
    BY <2>1
  <2> QED
    BY <2>1, <2>2
<1>2. \A id \in IdsOf(m) : id[1] = Len(history) + 1
  BY TakesOwn DEF OwnIds
<1>3. SomeText = <<Len(history) + 1>> /\ Number = Len(history) + 1
  BY DEF SomeText, Number
<1>4. CASE TakeSystem
  <2>1. PICK text \in {<<>>, SomeText} : m = System(text)
    BY <1>1, <1>4 DEF TakeSystem
  <2>2. m.kind = "System" /\ m.text = text
    BY <2>1 DEF System
  <2> QED
    BY <1>2, <1>3, <2>2 DEF OwnWords
<1>5. CASE TakeUser
  <2>1. PICK text \in {<<>>, SomeText}, count \in ImageCounts : m = User(text, Images(count))
    BY <1>1, <1>5 DEF TakeUser
  <2>2. m.kind = "User" /\ m.text = text /\ m.images = Images(count)
    BY <2>1 DEF User
  <2>3. count \in Nat
    BY ConversionAssumption
  <2>4. \A k \in 1 .. Len(Images(count)) : Images(count)[k].id[1] = Number
    <3>1. DOMAIN Images(count) = 1 .. count
      BY DEF Images
    <3>2. \A k \in 1 .. count : Images(count)[k].id = <<Number, k>>
      BY DEF Images, Image
    <3>3. Len(Images(count)) = count
      BY <2>3, <3>1
    <3> QED
      BY <3>2, <3>3
  <2> QED
    BY <1>2, <1>3, <2>2, <2>4 DEF OwnWords
<1>6. CASE TakeAssistant
  <2>1. PICK shape \in AssistantShape :
          Take(Assistant(
            IF shape.text = "some" THEN SomeText ELSE IF shape.text = "empty" THEN <<>> ELSE None,
            IF shape.reasons THEN SomeText ELSE None,
            IF shape.signed THEN Number ELSE None,
            IF shape.calls = None THEN None
            ELSE [k \in DOMAIN shape.calls |-> Call(<<Number, k>>, shape.calls[k])]))
    BY <1>6 DEF TakeAssistant
  <2> DEFINE text == IF shape.text = "some" THEN SomeText
                     ELSE IF shape.text = "empty" THEN <<>> ELSE None
             reasoning == IF shape.reasons THEN SomeText ELSE None
             signature == IF shape.signed THEN Number ELSE None
             calls == IF shape.calls = None THEN None
                      ELSE [k \in DOMAIN shape.calls |-> Call(<<Number, k>>, shape.calls[k])]
  <2>2. m = Assistant(text, reasoning, signature, calls)
    BY <1>1, <2>1
  <2>3. text \in {None, <<>>, SomeText} /\ reasoning \in {None, SomeText}
    OBVIOUS
  <2> HIDE DEF text, reasoning, signature, calls
  <2>4. m.kind = "Assistant" /\ m.text = text /\ m.reasoning = reasoning
    BY <2>2 DEF Assistant
  <2> QED
    BY <1>2, <1>3, <2>3, <2>4 DEF OwnWords
<1>7. CASE TakeTool
  <2>1. PICK id \in CallIds, count \in ImageCounts : m = Tool(id, SomeText, Images(count))
    BY <1>1, <1>7 DEF TakeTool
  <2>2. m.kind = "Tool" /\ m.text = SomeText
    BY <2>1 DEF Tool
  <2> QED
    BY <1>2, <1>3, <2>2 DEF OwnWords
<1>8. CASE TakeCustom
  <2>1. m.kind = "Custom"
    BY <1>1, <1>8 DEF TakeCustom, Custom
  <2> QED
    BY <1>2, <2>1 DEF OwnWords
<1> QED
  BY <1>4, <1>5, <1>6, <1>7, <1>8 DEF Next

(* The elements of a list of one number, of none, or of ids of one number. *)
LEMMA OneSource ==
  ASSUME NEW n
  PROVE  /\ ToSet(<<n>>) = {n} /\ ToSet(<<>>) = {}
         /\ \A ids : (\A k \in DOMAIN ids : ids[k][1] = n) => {id[1] : id \in ToSet(ids)} \subseteq {n}
BY DEF ToSet

(* The message made of m says nothing but what m said, and has a list of   *)
(* calls when it is an assistant's and m has one.                          *)
LEMMA OwnSources ==
  ASSUME NEW n \in Nat, NEW m \in MessageSet, OwnWords(m, n), OpenAiMessage(m) # <<>>,
         NEW msg, msg = OpenAiMessage(m)[1]
  PROVE  /\ MessageSources(msg) \subseteq {n}
         /\ msg.role = "assistant" => (m.calls # None <=> HasCalls(msg))
<1>1. /\ m.kind # "Custom" /\ m.kind \in Kinds /\ msg.role = RoleOf(m.kind)
      /\ OpenAiTexts(msg) = (IF Said(m.text) THEN m.text ELSE <<>>)
      /\ OpenAiImages(msg) = ImagesFrom[m] /\ OpenAiCalls(msg) = CallsFrom[m]
  BY ConvertedSays DEF Saying
<1>2. ToSet(OpenAiTexts(msg)) \subseteq {n}
  <2>1. OpenAiTexts(msg) \in {<<>>, <<n>>}
    BY <1>1 DEF OwnWords, Said
  <2> QED
    BY <2>1, OneSource
<1>3. {id[1] : id \in ToSet(OpenAiImages(msg))} \subseteq {n}
  <2>1. CASE m.kind = "User"
    <3> DEFINE images == m.images
    <3>1. m \in UserSet
      BY <2>1, KindsApart DEF MessageSet
    <3>2. images \in Seq(ImageSet) /\ OpenAiImages(msg) = ImageIds(images)
      BY <1>1, <2>1, <3>1 DEF UserSet, ImagesFrom
    <3>3. \A k \in 1 .. Len(images) : images[k].id[1] = n
      BY <2>1 DEF OwnWords
    <3> HIDE DEF images
    <3>4. \A k \in DOMAIN ImageIds(images) : ImageIds(images)[k][1] = n
      BY <3>2, <3>3 DEF ImageIds
    <3> QED
      BY <3>2, <3>4, OneSource
  <2>2. CASE m.kind # "User"
    <3>1. OpenAiImages(msg) = <<>>
      BY <1>1, <2>2 DEF ImagesFrom
    <3> QED
      BY <3>1, OneSource
  <2> QED
    BY <2>1, <2>2
<1>4. {id[1] : id \in ToSet(OpenAiCalls(msg))} \subseteq {n}
  <2>1. ToSet(OpenAiCalls(msg)) = IdsOf(m)
    BY <1>1, CallsOfType, IdsAre DEF IdsOf, CallsFrom
  <2> QED
    BY <2>1 DEF OwnWords
<1>5. {id[1] : id \in ToSet(OpenAiImages(msg)) \cup ToSet(OpenAiCalls(msg))} \subseteq {n}
  BY <1>3, <1>4
<1>6. ASSUME msg.role = "assistant"
      PROVE  m.calls # None <=> HasCalls(msg)
  <2>1. m.kind = "Assistant"
    BY <1>1, <1>6 DEF RoleOf, Kinds
  <2>2. m \in AssistantSet /\ msg = OpenAiAssistant(m)
    BY <2>1, KindsApart DEF MessageSet, OpenAiMessage
  <2> QED
    BY <2>2, OpenAiAssistantType DEF HasCalls
<1> QED
  BY <1>2, <1>5, <1>6 DEF MessageSources

(* So does the turn.                                                       *)
LEMMA OwnTurnSources ==
  ASSUME NEW n \in Nat, NEW m \in MessageSet, OwnWords(m, n), AnthropicMessage(m) # <<>>,
         NEW turn, turn = AnthropicMessage(m)[1]
  PROVE  TurnSources(turn) \subseteq {n}
<1> DEFINE Own == {b : b \in {block \in BlockSet : BlockSources(block) \subseteq {n}}}
<1>0. ToSet(<<n>>) = {n} /\ ToSet(<<>>) = {}
  BY OneSource
<1>1. turn.content = ContentOf(m) /\ m.kind \in {"User", "Assistant", "Tool"}
  <2>1. turn = Turn(IF m.kind = "Assistant" THEN "assistant" ELSE "user", ContentOf(m))
    BY TurnIs
  <2>2. turn.content = ContentOf(m)
    BY <2>1, TurnFields
  <2>3. m.kind \in {"User", "Assistant", "Tool"}
    BY KindsApart DEF MessageSet, AnthropicMessage
  <2> QED
    BY <2>2, <2>3
<1>2. \A text \in TextSet : text \in {<<>>, <<n>>} => TextBlock(text) \in Own
  <2> SUFFICES ASSUME NEW text \in TextSet, text \in {<<>>, <<n>>}
               PROVE  TextBlock(text) \in Own
    OBVIOUS
  <2> DEFINE b == TextBlock(text)
  <2>1. b \in BlockSet /\ b.type = "text" /\ b.text = text
    BY DEF TextBlock, TextBlockSet, BlockSet
  <2> HIDE DEF b
  <2>2. BlockSources(b) = ToSet(text)
    BY <2>1 DEF BlockSources
  <2> QED
    BY <1>0, <2>1, <2>2 DEF b
<1> HIDE DEF Own
<1>3. CASE m.kind = "User"
  <2> DEFINE images == m.images
             blocks == ImageBlocks(images)
             text == TextBlock(m.text)
  <2>1. m \in UserSet
    BY <1>3, KindsApart DEF MessageSet
  <2>2. images \in Seq(ImageSet) /\ m.text \in TextSet
    BY <2>1 DEF UserSet
  <2>3. \A k \in 1 .. Len(images) : images[k].id[1] = n
    BY <1>3 DEF OwnWords
  <2>4. text \in Own
    BY <1>2, <1>3, <2>2, NoneAssumption DEF OwnWords
  <2> HIDE DEF images, text
  <2>5. blocks \in Seq(Own)
    <3>1. ASSUME NEW i \in ImageSet, i.id[1] = n
          PROVE  ImageBlock(i) \in Own
      <4> DEFINE b == ImageBlock(i)
      <4>1. b \in BlockSet /\ b.type = "image" /\ b.id = i.id
        BY DEF ImageBlock, ImageSet, ImageBlockSet, BlockSet
      <4> HIDE DEF b
      <4>2. BlockSources(b) = {i.id[1]}
        BY <4>1 DEF BlockSources
      <4> QED
        BY <3>1, <4>1, <4>2 DEF Own, b
    <3>2. Len(images) \in Nat /\ DOMAIN images = 1 .. Len(images) /\ \A k \in 1 .. Len(images) : images[k] \in ImageSet
      BY <2>2
    <3>3. blocks \in [1 .. Len(images) -> Own]
      BY <2>3, <3>1, <3>2 DEF ImageBlocks
    <3> HIDE DEF blocks
    <3> QED
      BY <3>2, <3>3
  <2> HIDE DEF blocks
  <2>6. <<text>> \o blocks \in Seq(Own)
    BY <2>4, <2>5
  <2>7. turn.content \in Seq(Own)
    BY <1>1, <1>3, <2>6 DEF ContentOf, text, blocks, images
  <2> QED
    BY <2>7 DEF TurnSources, ToSet, Own
<1>4. CASE m.kind = "Assistant"
  <2> DEFINE thinking == When(m.reasoning # None /\ m.signature # None,
                              ThinkingBlock(m.reasoning, m.signature))
             text == When(Said(m.text), TextBlock(m.text))
             uses == IF m.calls = None THEN <<>> ELSE [k \in DOMAIN m.calls |-> ToolUseBlock(m.calls[k])]
  <2>0. /\ m.text \in TextSet \cup {None}
        /\ m.reasoning \in TextSet \cup {None}
        /\ m.signature \in Nat \cup {None}
        /\ m.calls \in Seq(CallSet) \cup {None}
    BY <1>4, KindsApart DEF AssistantSet, MessageSet
  <2>1. thinking \in Seq(Own)
    <3>1. ASSUME m.reasoning # None, m.signature # None
          PROVE  ThinkingBlock(m.reasoning, m.signature) \in Own
      <4> DEFINE b == ThinkingBlock(m.reasoning, m.signature)
      <4>1. b \in BlockSet /\ b.type = "thinking" /\ b.thinking = m.reasoning
        BY <2>0, <3>1 DEF ThinkingBlock, ThinkingBlockSet, BlockSet
      <4> HIDE DEF b
      <4>2. BlockSources(b) = ToSet(m.reasoning)
        BY <4>1 DEF BlockSources
      <4>3. m.reasoning = <<n>>
        BY <1>4, <3>1 DEF OwnWords
      <4> QED
        BY <1>0, <4>1, <4>2, <4>3 DEF Own, b
    <3> QED
      BY <3>1, WhenType
  <2>2. text \in Seq(Own)
    <3>1. ASSUME Said(m.text)
          PROVE  TextBlock(m.text) \in Own
      BY <1>2, <1>4, <2>0, <3>1 DEF OwnWords, Said
    <3> QED
      BY <3>1, WhenType
  <2>3. uses \in Seq(Own)
    <3>1. CASE m.calls = None
      BY <3>1
    <3>2. CASE m.calls # None
      <4> DEFINE calls == m.calls
      <4>1. calls \in Seq(CallSet) /\ \A c \in ToSet(calls) : c.id[1] = n
        BY <1>4, <2>0, <3>2 DEF OwnWords, IdsOf, CallsOf
      <4>2. uses = [k \in DOMAIN calls |-> ToolUseBlock(calls[k])]
        BY <3>2
      <4> HIDE DEF calls, uses
      <4>3. ASSUME NEW c \in CallSet, c.id[1] = n
            PROVE  ToolUseBlock(c) \in Own
        <5> DEFINE b == ToolUseBlock(c)
        <5>1. b \in BlockSet /\ b.type = "tool_use" /\ b.id = c.id
          BY DEF ToolUseBlock, CallSet, ToolUseBlockSet, BlockSet
        <5> HIDE DEF b
        <5>2. BlockSources(b) = {c.id[1]}
          BY <5>1 DEF BlockSources
        <5> QED
          BY <4>3, <5>1, <5>2 DEF Own, b
      <4>4. /\ Len(calls) \in Nat /\ DOMAIN calls = 1 .. Len(calls)
            /\ \A k \in 1 .. Len(calls) : calls[k] \in CallSet /\ calls[k].id[1] = n
        BY <4>1 DEF ToSet
      <4>5. uses \in [1 .. Len(calls) -> Own]
        BY <4>2, <4>3, <4>4
      <4> QED
        BY <4>4, <4>5
    <3> QED
      BY <3>1, <3>2
  <2> HIDE DEF thinking, text, uses
  <2>4. thinking \o text \o uses \in Seq(Own)
    BY <2>1, <2>2, <2>3
  <2>5. turn.content \in Seq(Own)
    BY <1>1, <1>4, <2>4 DEF ContentOf, AssistantBlocks, thinking, text, uses
  <2> QED
    BY <2>5 DEF TurnSources, ToSet, Own
<1>5. CASE m.kind = "Tool"
  <2> DEFINE b == ResultBlock(m)
  <2>1. m \in ToolSet
    BY <1>5, KindsApart DEF MessageSet
  <2>2. m.text \in {<<>>, <<n>>}
    BY <1>5, <2>1, NoneAssumption DEF OwnWords, ToolSet
  <2>3. b.type = "tool_result" /\ b.text = m.text
    BY DEF ResultBlock
  <2> HIDE DEF b
  <2>4. BlockSources(b) \subseteq {n}
    BY <1>0, <2>2, <2>3 DEF BlockSources
  <2>5. turn.content = <<b>>
    BY <1>1, <1>5 DEF ContentOf, b
  <2> QED
    BY <2>4, <2>5 DEF TurnSources, ToSet
<1> QED
  BY <1>1, <1>3, <1>4, <1>5

(* Where an assistant's message to an OpenAI server has a list of calls,   *)
(* so had all it is made of.                                               *)
Alike(msg, h) ==
  msg.role = "assistant" => \A n \in MessageSources(msg) : h[n].calls # None <=> HasCalls(msg)

SourcesOf(s) == [i \in DOMAIN s |-> MessageSources(s[i])]
SourcesOfTurns(s) == [i \in DOMAIN s |-> TurnSources(s[i])]

(* The inductive invariant.                                                *)
SpokenInv ==
  /\ InPlace(SourcesOf(openai), Len(openai), Len(history))
  /\ InPlace(SourcesOfTurns(anthropic), Len(anthropic), Len(history))
  /\ \A i \in 1 .. Len(openai) : Alike(openai[i], history)

(* The messages keep it.                                                   *)
LEMMA MessagesStayInOrder ==
  ASSUME NEW h \in Seq(MessageSet), NEW m \in MessageSet, OwnWords(m, Len(h) + 1),
         OpenAiMessage(m) # <<>>, NEW s, Merged(s), NEW t, t = MergeOpenAi(s, OpenAiMessage(m)[1]),
         InPlace(SourcesOf(s), Len(s), Len(h)), \A i \in 1 .. Len(s) : Alike(s[i], h)
  PROVE  /\ InPlace(SourcesOf(t), Len(t), Len(h) + 1)
         /\ \A i \in 1 .. Len(t) : Alike(t[i], Append(h, m))
<1> DEFINE msg == OpenAiMessage(m)[1]
           g == Append(h, m)
           N == Len(h)
           l == Len(s)
           k == Len(t)
           u == SourcesOf(s)
           v == SourcesOf(t)
<1>1. msg \in OpenAiSet /\ WellFormed(msg)
  BY OpenAiMessageType
<1>2. N + 1 \in Nat /\ MessageSources(msg) \subseteq {N + 1}
      /\ (msg.role = "assistant" => (m.calls # None <=> HasCalls(msg)))
  <2>1. ASSUME NEW j \in Nat, OwnWords(m, j)
        PROVE  MessageSources(msg) \subseteq {j}
    BY <2>1, OwnSources
  <2>2. ASSUME NEW j \in Nat, OwnWords(m, j), msg.role = "assistant"
        PROVE  m.calls # None <=> HasCalls(msg)
    BY <2>2, OwnSources
  <2> HIDE DEF msg
  <2> QED
    BY <2>1, <2>2
<1> HIDE DEF msg
<1>3. GrownSources(s, t, msg) /\ t \in Seq(OpenAiSet) /\ s \in Seq(OpenAiSet)
  BY <1>1, SourcesGrow, MergeOpenAiKeeps DEF Merged, msg
<1>4. /\ l \in Nat /\ k \in {l, l + 1} /\ k > 0 /\ N \in Nat
      /\ DOMAIN s = 1 .. l /\ DOMAIN t = 1 .. k
      /\ \A i \in 1 .. k - 1 : i \in 1 .. l /\ t[i] = s[i]
  BY <1>3 DEF GrownSources, Grown
<1>5. /\ k = l => /\ MessageSources(t[k]) = MessageSources(s[l]) \cup MessageSources(msg)
                  /\ t[k].role = msg.role /\ s[l].role = msg.role
                  /\ msg.role = "assistant" => (HasCalls(t[k]) <=> HasCalls(msg)) /\ (HasCalls(s[l]) <=> HasCalls(msg))
      /\ k = l + 1 => t[k] = msg
  BY <1>3 DEF GrownSources
<1> HIDE DEF N, l, k
<1>6. /\ DOMAIN u = 1 .. l /\ DOMAIN v = 1 .. k
      /\ \A i \in 1 .. l : u[i] = MessageSources(s[i])
      /\ \A i \in 1 .. k : v[i] = MessageSources(t[i])
  BY <1>4 DEF SourcesOf
<1> HIDE DEF u, v
<1>7. InPlace(u, l, N)
  BY DEF u, l, N
<1>8. InPlace(v, k, N + 1)
  <2>1. \A i \in 1 .. k - 1 : v[i] = u[i]
    BY <1>4, <1>6
  <2>2. ASSUME k = l
        PROVE  v[k] \subseteq u[l] \cup {N + 1}
    <3>1. l \in 1 .. l /\ k \in 1 .. k
      BY <1>4, <2>2
    <3>2. v[k] = MessageSources(t[k]) /\ u[l] = MessageSources(s[l])
      BY <1>6, <3>1
    <3> QED
      BY <1>2, <1>5, <2>2, <3>2
  <2>3. k = l + 1 => v[k] \subseteq {N + 1}
    BY <1>2, <1>4, <1>5, <1>6
  <2> QED
    BY <1>4, <1>6, <1>7, <2>1, <2>2, <2>3, StaysInPlace
<1>9. g[N + 1] = m /\ \A n \in 1 .. N : g[n] = h[n]
  BY <1>4 DEF N
<1> HIDE DEF g
<1>10. \A i \in 1 .. l : MessageSources(s[i]) \subseteq 1 .. N
  BY <1>6, <1>7 DEF InPlace
<1>11. \A i \in 1 .. l : Alike(s[i], g)
  BY <1>9, <1>10 DEF Alike, l
<1>12. ASSUME msg.role = "assistant", NEW n \in MessageSources(msg)
       PROVE  g[n].calls # None <=> HasCalls(msg)
  <2>1. n = N + 1
    BY <1>2, <1>12
  <2> QED
    BY <1>2, <1>9, <1>12, <2>1
<1>13. Alike(t[k], g)
  <2>1. CASE k = l
    <3>1. Alike(s[l], g)
      BY <1>4, <1>11, <2>1
    <3> QED
      BY <1>5, <1>12, <2>1, <3>1 DEF Alike
  <2>2. CASE k = l + 1
    BY <1>5, <1>12, <2>2 DEF Alike
  <2> QED
    BY <1>4, <2>1, <2>2
<1>14. ASSUME NEW i \in 1 .. k
       PROVE  Alike(t[i], g)
  <2>1. CASE i = k
    BY <1>13, <2>1
  <2>2. CASE i # k
    <3>1. i \in 1 .. k - 1
      BY <1>4, <2>2
    <3> QED
      BY <1>4, <1>11, <3>1
  <2> QED
    BY <2>1, <2>2
<1> QED
  BY <1>8, <1>14 DEF v, k, N, g

(* A turn with another's blocks behind its own has the sources of both.    *)
LEMMA SourcesOfLonger ==
  ASSUME NEW p \in TurnSet, NEW q \in TurnSet, NEW e, e.content = p.content \o q.content
  PROVE  TurnSources(e) = TurnSources(p) \cup TurnSources(q)
<1> DEFINE a == p.content
           b == q.content
<1>1. a \in Seq(BlockSet) /\ b \in Seq(BlockSet)
  BY DEF TurnSet
<1> HIDE DEF a, b
<1>2. ToSet(a \o b) = ToSet(a) \cup ToSet(b)
  BY <1>1, ElementsOfBoth
<1>3. e.content = a \o b
  BY DEF a, b
<1> QED
  BY <1>2, <1>3 DEF TurnSources, a, b

(* The turns keep it.                                                      *)
LEMMA TurnsStayInOrder ==
  ASSUME NEW N \in Nat, NEW m \in MessageSet, OwnWords(m, N + 1),
         AnthropicMessage(m) # <<>>, NEW s, MergedTurns(s),
         NEW t, t = MergeAnthropic(s, AnthropicMessage(m)[1]),
         InPlace(SourcesOfTurns(s), Len(s), N)
  PROVE  InPlace(SourcesOfTurns(t), Len(t), N + 1)
<1> DEFINE turn == AnthropicMessage(m)[1]
           l == Len(s)
           k == Len(t)
           u == SourcesOfTurns(s)
           v == SourcesOfTurns(t)
<1>1. turn \in TurnSet
  BY AnthropicMessageType
<1>2. TurnSources(turn) \subseteq {N + 1}
  BY OwnTurnSources
<1> HIDE DEF turn
<1>3. GrownTurns(s, t, turn) /\ t \in Seq(TurnSet) /\ s \in Seq(TurnSet)
  BY <1>1, TurnsGrow, MergeAnthropicKeeps DEF MergedTurns, turn
<1>4. /\ l \in Nat /\ k \in {l, l + 1} /\ k > 0
      /\ DOMAIN s = 1 .. l /\ DOMAIN t = 1 .. k
      /\ \A i \in 1 .. k - 1 : i \in 1 .. l /\ t[i] = s[i]
      /\ k = l => t[k].content = s[l].content \o turn.content
      /\ k = l + 1 => t[k] = turn
  <2>1. l \in Nat /\ k \in Nat /\ DOMAIN s = 1 .. l /\ DOMAIN t = 1 .. k
    BY <1>3
  <2>2. /\ Grown(s, t)
        /\ Len(t) = Len(s) => t[Len(t)].content = s[Len(s)].content \o turn.content
        /\ Len(t) = Len(s) + 1 => t[Len(t)] = turn
    BY <1>3 DEF GrownTurns
  <2> QED
    BY <2>1, <2>2 DEF Grown
<1> HIDE DEF l, k
<1>5. /\ DOMAIN u = 1 .. l /\ DOMAIN v = 1 .. k
      /\ \A i \in 1 .. l : u[i] = TurnSources(s[i])
      /\ \A i \in 1 .. k : v[i] = TurnSources(t[i])
  BY <1>4 DEF SourcesOfTurns
<1> HIDE DEF u, v
<1>6. InPlace(u, l, N)
  BY DEF u, l
<1>7. \A i \in 1 .. k - 1 : v[i] = u[i]
  BY <1>4, <1>5
<1>8. k = l => v[k] \subseteq u[l] \cup {N + 1}
  <2> SUFFICES ASSUME k = l
               PROVE  v[k] \subseteq u[l] \cup {N + 1}
    OBVIOUS
  <2>1. l \in 1 .. l /\ s[l] \in TurnSet
    BY <1>3, <1>4
  <2>2. TurnSources(t[k]) = TurnSources(s[l]) \cup TurnSources(turn)
    BY <1>1, <1>4, <2>1, SourcesOfLonger
  <2> QED
    BY <1>2, <1>5, <2>1, <2>2
<1>9. k = l + 1 => v[k] \subseteq {N + 1}
  BY <1>2, <1>4, <1>5
<1>10. InPlace(v, k, N + 1)
  <2>1. l \in Nat /\ k \in {l, l + 1} /\ k > 0 /\ N \in Nat /\ DOMAIN v = 1 .. k
    BY <1>4, <1>5
  <2> QED
    BY <1>6, <1>7, <1>8, <1>9, <2>1, StaysInPlace
<1> QED
  BY <1>10 DEF v, k

(* One message more keeps it.                                              *)
LEMMA TakeKeepsOrder ==
  ASSUME ConversionInv, NEW m \in MessageSet, Take(m), OwnWords(m, Len(history) + 1), SpokenInv
  PROVE  SpokenInv'
<1> DEFINE h == history
           g == history'
           s == openai
           t == openai'
           a == anthropic
           b == anthropic'
           N == Len(h)
<1>1. /\ h \in Seq(MessageSet) /\ g = Append(h, m) /\ N \in Nat
      /\ Merged(s) /\ MergedTurns(a)
  BY DEF ConversionInv, Take
<1>2. /\ t = IF OpenAiMessage(m) = <<>> THEN s ELSE MergeOpenAi(s, OpenAiMessage(m)[1])
      /\ b = IF AnthropicMessage(m) = <<>> THEN a ELSE MergeAnthropic(a, AnthropicMessage(m)[1])
  BY DEF Take
<1>3. /\ InPlace(SourcesOf(s), Len(s), N) /\ InPlace(SourcesOfTurns(a), Len(a), N)
      /\ \A i \in 1 .. Len(s) : Alike(s[i], h)
      /\ OwnWords(m, N + 1)
  BY DEF SpokenInv
<1> HIDE DEF h, g, s, t, a, b
<1>4. Len(g) = N + 1 /\ \A n \in 1 .. N : g[n] = h[n]
  BY <1>1
<1>5. ASSUME NEW u, NEW l, InPlace(u, l, N)
      PROVE  InPlace(u, l, N + 1)
  <2>1. 1 .. N \subseteq 1 .. N + 1
    BY <1>1
  <2> HIDE DEF N
  <2> QED
    BY <1>5, <2>1 DEF InPlace
<1>6. InPlace(SourcesOf(t), Len(t), N + 1) /\ \A i \in 1 .. Len(t) : Alike(t[i], g)
  <2>1. CASE OpenAiMessage(m) = <<>>
    <3>1. t = s
      BY <1>2, <2>1
    <3>2. Len(s) \in Nat /\ DOMAIN s = 1 .. Len(s)
      BY <1>1 DEF Merged
    <3>3. \A i \in 1 .. Len(s) : MessageSources(s[i]) \subseteq 1 .. N
      BY <1>3, <3>2 DEF InPlace, SourcesOf
    <3>4. \A i \in 1 .. Len(s) : Alike(s[i], g)
      BY <1>3, <1>4, <3>3 DEF Alike
    <3> QED
      BY <1>3, <1>5, <3>1, <3>4
  <2>2. CASE OpenAiMessage(m) # <<>>
    BY <1>1, <1>2, <1>3, <2>2, MessagesStayInOrder
  <2> QED
    BY <2>1, <2>2
<1>7. InPlace(SourcesOfTurns(b), Len(b), N + 1)
  <2>1. CASE AnthropicMessage(m) = <<>>
    <3>1. b = a
      BY <1>2, <2>1
    <3> QED
      BY <1>3, <1>5, <3>1
  <2>2. CASE AnthropicMessage(m) # <<>>
    BY <1>1, <1>2, <1>3, <2>2, TurnsStayInOrder
  <2> QED
    BY <2>1, <2>2
<1> QED
  BY <1>4, <1>6, <1>7 DEF SpokenInv, h, g, s, t, a, b

(* In either request what was said before stands before, whoever said it,  *)
(* and what one message said stands in one; of an assistant's messages     *)
(* only those become one of the OpenAI request that all have a list of     *)
(* calls or all have none (the merging of convert_messages).               *)
THEOREM NeighboursJoin == Spec => []OnlyNeighboursJoin
<1>1. Init => SpokenInv
  BY DEF Init, SpokenInv, InPlace, SourcesOf, SourcesOfTurns
<1>2. ConversionInv /\ SpokenInv /\ [Next]_vars => SpokenInv'
  <2>1. ASSUME ConversionInv, SpokenInv, Next
        PROVE  SpokenInv'
    <3>1. PICK m \in MessageSet : Take(m)
      BY <2>1, NextTakes
    <3>2. OwnWords(m, Len(history) + 1)
      BY <2>1, <3>1, TakesOwnWords
    <3> QED
      BY <2>1, <3>1, <3>2, TakeKeepsOrder
  <2>2. ASSUME SpokenInv, UNCHANGED vars
        PROVE  SpokenInv'
    BY <2>2 DEF vars, SpokenInv
  <2> QED
    BY <2>1, <2>2
<1>3. ConversionInv /\ SpokenInv => OnlyNeighboursJoin
  <2> SUFFICES ASSUME ConversionInv, SpokenInv
               PROVE  NobodyOvertakes /\ OnlyAlikeJoin
    BY DEF OnlyNeighboursJoin
  <2>1. DOMAIN openai = 1 .. Len(openai) /\ DOMAIN anthropic = 1 .. Len(anthropic)
    BY DEF ConversionInv, Merged, MergedTurns
  <2>2. InOrder(SourcesOf(openai)) /\ InOrder(SourcesOfTurns(anthropic))
    BY DEF SpokenInv, InPlace, InOrder
  <2>3. NobodyOvertakes
    BY <2>2 DEF NobodyOvertakes, SourcesOf, SourcesOfTurns
  <2>4. OnlyAlikeJoin
    BY <2>1 DEF OnlyAlikeJoin, SpokenInv, Alike, ToSet
  <2> QED
    BY <2>3, <2>4
<1> QED
  BY <1>1, <1>2, <1>3, Invariance, PTL DEF Spec

==============================================================================
