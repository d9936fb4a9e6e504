-------------------------- MODULE MessageConversion --------------------------
(***************************************************************************)
(* A conversation and what either adapter makes of it for the next         *)
(* request.  convert_messages is a loop over the history, so the state     *)
(* holds the conversion of the history as far as it has been taken; one    *)
(* action for each arm of the loop's match.  The invariants hold of every  *)
(* history, whatever the application puts in it: the order in which users, *)
(* assistants, tools and systems speak is not checked by the code.         *)
(***************************************************************************)
EXTENDS OpenAiMessages, AnthropicMessages

CONSTANTS
  AssistantShape,   \* what an assistant's message is made of
  ImageCounts,      \* the numbers of images a message may have
  MaxMessages       \* bound on the length of a history

ASSUME ConversionAssumption ==
  /\ ImageCounts \subseteq Nat
  /\ MaxMessages \in Nat
  /\ AssistantShape \subseteq
       [text : {"some", "empty", "none"}, reasons : BOOLEAN, signed : BOOLEAN,
        calls : {None} \cup Seq({"object", "broken"})]

(* A text, a list of texts or calls and a content that is there, be they   *)
(* empty, are not Option::None.                                            *)
TextSet == Seq(Nat)
CallSet == [id : Nat \X Nat, arguments : {"object", "broken"}]
StringSet == [tag : {"string"}, text : TextSet]
TextPartSet == [type : {"text"}, text : TextSet]
ImagePartSet ==
  [type : {"image_url"}, id : Nat \X Nat, form : {"url", "base64"}, detail : {None, "low"}]
PartSet == TextPartSet \cup ImagePartSet
PartsSet == [tag : {"parts"}, parts : Seq(PartSet)]

ASSUME NoneAssumption ==
  None \notin TextSet \cup Seq(TextSet) \cup Seq(CallSet) \cup StringSet \cup PartsSet

VARIABLES
  history,     \* the messages of the ChatRequest taken so far
  openai,      \* the messages of the OpenAI request
  system,      \* the system prompt of the Anthropic request
  anthropic    \* its messages

vars == <<history, openai, system, anthropic>>

Init ==
  /\ history = <<>>
  /\ openai = <<>>
  /\ system = None
  /\ anthropic = <<>>

-----------------------------------------------------------------------------

(* Converted msgs, nothing or one message, are merged with those before.   *)
Take(m) ==
  /\ Len(history) < MaxMessages
  /\ history' = Append(history, m)
  /\ openai' = LET msgs == OpenAiMessage(m)
               IN  IF msgs = <<>> THEN openai ELSE MergeOpenAi(openai, msgs[1])
  /\ system' = SystemPrompt(system, m)
  /\ anthropic' = LET msgs == AnthropicMessage(m)
                  IN  IF msgs = <<>> THEN anthropic ELSE MergeAnthropic(anthropic, msgs[1])

Number == Len(history) + 1
SomeText == <<Number>>

(* An image by URL, and from the second on inline with a detail.           *)
Images(count) ==
  [k \in 1 .. count |-> Image(<<Number, k>>, IF k = 1 THEN "url" ELSE "base64",
                              IF k = 1 THEN None ELSE "low")]

TakeSystem == \E text \in {<<>>, SomeText} : Take(System(text))

TakeUser ==
  \E text \in {<<>>, SomeText}, count \in ImageCounts : Take(User(text, Images(count)))

(* shape.calls: None, or what the arguments of each call are.              *)
TakeAssistant ==
  \E shape \in AssistantShape :
    Take(Assistant(
      IF shape.text = "some" THEN SomeText ELSE IF shape.text = "empty" THEN <<>> ELSE None,
      IF shape.reasons THEN SomeText ELSE None,
      IF shape.signed THEN Number ELSE None,
      IF shape.calls = None THEN None
      ELSE [k \in DOMAIN shape.calls |-> Call(<<Number, k>>, shape.calls[k])]))

CallsOf(m) == IF m.kind = "Assistant" /\ m.calls # None THEN m.calls ELSE <<>>
CallIds == {c.id : c \in UNION {ToSet(CallsOf(m)) : m \in ToSet(history)}}

(* The result of any call there was, again or for the first time.          *)
TakeTool ==
  \E id \in CallIds, count \in ImageCounts : Take(Tool(id, SomeText, Images(count)))

TakeCustom == Take(Custom)

Next == TakeSystem \/ TakeUser \/ TakeAssistant \/ TakeTool \/ TakeCustom

Spec == Init /\ [][Next]_vars

-----------------------------------------------------------------------------
(* What the history says, and what the requests say, list by list.         *)

FlatMap(list(_), s) == FlattenSeq([n \in DOMAIN s |-> list(s[n])])
ImageIds(images) == [k \in DOMAIN images |-> images[k].id]
Ids(calls) == [k \in DOMAIN calls |-> calls[k].id]

Texts(kind) ==
  FlatMap(LAMBDA m : IF m.kind = kind /\ Said(m.text) THEN m.text ELSE <<>>, history)
ImagesOfUsers ==
  FlatMap(LAMBDA m : IF m.kind = "User" THEN ImageIds(m.images) ELSE <<>>, history)
CallIdsInOrder == FlatMap(LAMBDA m : Ids(CallsOf(m)), history)

(* The text, the images and the calls of one OpenAI message.               *)
PartText(p) == IF p.type = "text" THEN p.text ELSE <<>>
PartImage(p) == IF p.type = "image_url" THEN <<p.id>> ELSE <<>>
IsParts(msg) == msg.content # None /\ msg.content.tag = "parts"
OpenAiTexts(msg) ==
  IF msg.content = None THEN <<>>
  ELSE IF IsParts(msg) THEN FlatMap(PartText, msg.content.parts)
  ELSE msg.content.text
OpenAiImages(msg) == IF IsParts(msg) THEN FlatMap(PartImage, msg.content.parts) ELSE <<>>
OpenAiCalls(msg) == IF HasCalls(msg) THEN Ids(msg.tool_calls) ELSE <<>>

TextsOf(role) ==
  FlatMap(LAMBDA msg : IF msg.role = role THEN OpenAiTexts(msg) ELSE <<>>, openai)
NotedResult(id, images) == [id |-> id, note |-> images # <<>>]
NotedResults ==
  FlatMap(LAMBDA m : IF m.kind = "Tool" THEN <<NotedResult(m.id, m.images)>> ELSE <<>>, history)
OpenAiResult(msg) ==
  IF msg.role = "tool" THEN <<[id |-> msg.tool_call_id, note |-> msg.note]>> ELSE <<>>

(* The request to an OpenAI server says what the history says: every text  *)
(* under the role of its speaker, every image of the user's, every call    *)
(* and every result, all in their order, none lost, doubled or moved       *)
(* between roles by the conversion and the merging of convert_messages;    *)
(* and of images a result cannot carry it says that they are missing.      *)
OpenAiSaysAll ==
  /\ TextsOf("system") = Texts("System")
  /\ TextsOf("user") = Texts("User")
  /\ TextsOf("assistant") = Texts("Assistant")
  /\ TextsOf("tool") = Texts("Tool")
  /\ FlatMap(OpenAiImages, openai) = ImagesOfUsers
  /\ FlatMap(OpenAiCalls, openai) = CallIdsInOrder
  /\ FlatMap(OpenAiResult, openai) = NotedResults

(* What one block of an Anthropic turn says.                               *)
BlockText(b) == IF b.type = "text" THEN b.text ELSE <<>>
BlockImage(b) == IF b.type = "image" THEN <<b.id>> ELSE <<>>
BlockCall(b) == IF b.type = "tool_use" THEN <<b.id>> ELSE <<>>
Result(id, text, images) == [id |-> id, text |-> text, images |-> ImageIds(images)]
BlockResult(b) ==
  IF b.type = "tool_result" THEN <<Result(b.id, b.text, b.images)>> ELSE <<>>
BlockThought(b) == IF b.type = "thinking" THEN <<b>> ELSE <<>>

InTurns(list(_)) == FlatMap(LAMBDA turn : FlatMap(list, turn.content), anthropic)
TextsOfTurns(role) ==
  FlatMap(LAMBDA turn : IF turn.role = role THEN FlatMap(BlockText, turn.content) ELSE <<>>,
          anthropic)

SystemTexts == FlatMap(LAMBDA m : IF m.kind = "System" THEN <<m.text>> ELSE <<>>, history)
Results ==
  FlatMap(LAMBDA m : IF m.kind = "Tool" THEN <<Result(m.id, m.text, m.images)>> ELSE <<>>, history)
SignedThoughts ==
  FlatMap(LAMBDA m : IF m.kind = "Assistant" /\ m.reasoning # None /\ m.signature # None
                       THEN <<ThinkingBlock(m.reasoning, m.signature)>> ELSE <<>>, history)

(* The same of the request to an Anthropic server, whose system prompt     *)
(* holds the system messages, whose results carry their images, and which  *)
(* sends thinking back with the signature it came with.                    *)
AnthropicSaysAll ==
  /\ system = IF SystemTexts = <<>> THEN None ELSE SystemTexts
  /\ TextsOfTurns("user") = Texts("User")
  /\ TextsOfTurns("assistant") = Texts("Assistant")
  /\ InTurns(BlockImage) = ImagesOfUsers
  /\ InTurns(BlockCall) = CallIdsInOrder
  /\ InTurns(BlockResult) = Results
  /\ InTurns(BlockThought) = SignedThoughts

(* User and assistant take turns ("merge consecutive same-role messages",  *)
(* convert_messages of either adapter): never two turns of one role in the *)
(* Anthropic request; in the OpenAI request never two of the user's, and   *)
(* two of the assistant's only where one has calls and the other not.      *)
Neighbours(s) == {<<s[n], s[n + 1]>> : n \in 1 .. Len(s) - 1}

AnthropicTakesTurns == \A pair \in Neighbours(anthropic) : pair[1].role # pair[2].role

OpenAiTakesTurns ==
  \A pair \in Neighbours(openai) :
    pair[1].role = pair[2].role =>
      \/ pair[1].role \in {"system", "tool"}
      \/ pair[1].role = "assistant" /\ HasCalls(pair[1]) # HasCalls(pair[2])

TurnsAlternate == AnthropicTakesTurns /\ OpenAiTakesTurns

(* A history keeps its results when only results, and what is no message   *)
(* to the model, stand between a call and any result of it.                *)
ResultsFollowCalls ==
  \A n, r \in DOMAIN history :
    (n < r /\ history[r].kind = "Tool" /\ history[r].id \in {c.id : c \in ToSet(CallsOf(history[n]))}) =>
      \A k \in n + 1 .. r - 1 : history[k].kind \in {"Tool", "Custom"}

Uses(turn) == {b.id : b \in {block \in ToSet(turn.content) : block.type = "tool_use"}}

(* Of such a history, whatever else it has, both servers are told results  *)
(* where they accept them: behind the message with the call, with nothing  *)
(* but results between; in the Anthropic request at the head of the very   *)
(* next turn.  Merging never puts anything there.                          *)
ResultsStayWithCalls ==
  ResultsFollowCalls =>
    /\ \A i, j \in DOMAIN openai :
         (openai[j].role = "tool" /\ openai[j].tool_call_id \in ToSet(OpenAiCalls(openai[i]))) =>
           i < j /\ \A k \in i + 1 .. j - 1 : openai[k].role = "tool"
    /\ \A i, j \in DOMAIN anthropic :
         LET blocks == anthropic[j].content
         IN  \A b \in DOMAIN blocks :
               (blocks[b].type = "tool_result" /\ blocks[b].id \in Uses(anthropic[i])) =>
                 j = i + 1 /\ \A c \in 1 .. b : blocks[c].type = "tool_result"

(* Whose words, images and calls a message or a turn of a request has:     *)
(* numbers of messages of the history.                                     *)
MessageSources(msg) ==
  ToSet(OpenAiTexts(msg)) \cup {id[1] : id \in ToSet(OpenAiImages(msg)) \cup ToSet(OpenAiCalls(msg))}
BlockSources(b) ==
  CASE b.type \in {"text", "tool_result"} -> ToSet(b.text)
    [] b.type = "thinking" -> ToSet(b.thinking)
    [] OTHER -> {b.id[1]}
TurnSources(turn) == UNION {BlockSources(b) : b \in ToSet(turn.content)}

(* Across the speakers: what was said before stands before, in messages of *)
(* its own or in one with its neighbours, so that nobody's words overtake  *)
(* another's and what one message said is not torn apart.                  *)
InOrder(sources) ==
  \A i, j \in DOMAIN sources :
    i < j => \A m \in sources[i], n \in sources[j] : m < n
NobodyOvertakes ==
  /\ InOrder([i \in DOMAIN openai |-> MessageSources(openai[i])])
  /\ InOrder([i \in DOMAIN anthropic |-> TurnSources(anthropic[i])])

(* Merging joins neighbours only, and of an assistant's messages to an     *)
(* OpenAI server only those that are alike: both with a list of calls, be  *)
(* it an empty one, or both without ("Don't merge tool_calls+text into one *)
(* message", convert_messages).  Words that came without a list never come *)
(* beside calls; words that came with an empty one may, as may the words   *)
(* of one message with calls beside the calls of the next.                 *)
OnlyAlikeJoin ==
  \A msg \in ToSet(openai) :
    msg.role = "assistant" =>
      \A n \in MessageSources(msg) : history[n].calls # None <=> HasCalls(msg)
OnlyNeighboursJoin == NobodyOvertakes /\ OnlyAlikeJoin

==============================================================================
