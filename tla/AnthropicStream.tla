--------------------------- MODULE AnthropicStream ---------------------------
(***************************************************************************)
(* A streamed completion of a server of the Anthropic Messages protocol:   *)
(* message_start, the content blocks one after the other, message_delta    *)
(* with the reason and the final usage, message_stop.  The adapter takes   *)
(* the Stop from the message_delta; message_stop makes no item.            *)
(***************************************************************************)
EXTENDS StreamedCompletion, AnthropicAnswer

CONSTANTS
  OddReason,    \* stop reasons StopReason does not know, "" included
  Interleaved   \* TRUE: a completion may hold several thinking blocks

VARIABLES
  block,        \* the kind of the open content block, "none" between blocks
  content       \* the blocks begun, with what they have said so far

blockVars == <<block, content>>
vars == <<streamVars, serverVars, blockVars>>

KnownReason == {"end_turn", "max_tokens", "tool_use", "stop_sequence", "pause_turn", "refusal"}
ASSUME ReasonAssumption ==
  Reason \subseteq KnownReason /\ OddReason \cap KnownReason = {} /\ None \notin KnownReason

-----------------------------------------------------------------------------
(* The adapter: convert_event, one operator per kind of event. *)

UsageItem(input, output) ==
  Usage([NoUsage EXCEPT !["prompt"] = input, !["completion"] = output])

MessageStartItems(t) == <<UsageItem(t, t)>>

(* Only a tool_use block has something to say at its start.                *)
BlockStartItems(index, kind, id, name) ==
  If(kind = "tool_use", ToolCall(index, id, name, <<>>))

TextDeltaItems(p) == <<Text(<<p>>)>>

(* Mutant of ThinkingDeltaItems: thinking is taken for text.               *)
ThinkingAsText(p) == <<Text(<<p>>)>>

(* Mutant of InputDeltaItems: arguments go to the first block.             *)
InputOfFirstBlock(index, p) == <<ToolCall(0, None, None, <<p>>)>>

ThinkingDeltaItems(p) == <<Thought(<<p>>)>>
SignatureDeltaItems(s) == <<ThinkingSignature(s)>>
InputDeltaItems(index, p) == <<ToolCall(index, None, None, <<p>>)>>

(* Mutant of StopReason: a reason is missing in the enumeration.           *)
StopReasonButRefusal(reason) == IF reason \in KnownReason \ {"refusal"} THEN reason ELSE None

(* lenient_stop_reason: a reason that is not known is no reason.           *)
StopReason(reason) == IF reason \in KnownReason THEN reason ELSE None

(* Mutant of MessageDeltaItems: no Stop, the end of the stream will do.    *)
UsageOnly(reason, input, output) == <<UsageItem(input, output)>>

MessageDeltaItems(reason, input, output) ==
  <<UsageItem(input, output)>> \o If(StopReason(reason) # None, Stop(StopReason(reason)))

MessageStopItems == <<>>

-----------------------------------------------------------------------------
(* The server. *)

Init ==
  /\ CompletionInit("new", {"none"})
  /\ block = "none"
  /\ content = <<>>

MessageStart(t) ==
  /\ stage = "new"
  /\ stage' = "blocks"
  /\ said' = [said EXCEPT !.usage = [@ EXCEPT !["prompt"] = t, !["completion"] = t]]
  /\ Write(MessageStartItems(t))
  /\ UNCHANGED <<fault, early, blockVars>>

Streams(kind) ==
  /\ stage = "blocks"
  /\ block = kind
  /\ WithinBound
  /\ UNCHANGED <<stage, fault, early>>

(* "other": a block the adapter does not know, such as a server's own tool.*)
StartBlock(kind) ==
  /\ Streams("none")
  /\ kind = "thinking" => Interleaved \/ said.reasoning = <<>>
  /\ block' = kind
  /\ content' = Append(content, Block(kind, None, None))
  /\ Write(BlockStartItems(Len(content), kind, None, None))
  /\ UNCHANGED said

StartToolUse(id, name) ==
  /\ Streams("none")
  /\ Len(content) \in Index
  /\ \A n \in DOMAIN said.calls : said.calls[n].id # id
  /\ said' = [said EXCEPT !.calls = Begun(@, Len(content), id, name)]
  /\ block' = "tool_use"
  /\ content' = Append(content, Block("tool_use", id, name))
  /\ Write(BlockStartItems(Len(content), "tool_use", id, name))

(* The open block is the last one; its index on the wire counts from 0.    *)
Open == Len(content) - 1
BlockSays(p) == content' = [content EXCEPT ![Len(content)].text = Append(@, p)] /\ UNCHANGED block

SayText(p) ==
  /\ Streams("text")
  /\ said' = [said EXCEPT !.text = Append(@, p)]
  /\ BlockSays(p)
  /\ Write(TextDeltaItems(p))

SayThought(p) ==
  /\ Streams("thinking")
  /\ said' = [said EXCEPT !.reasoning = Append(@, p)]
  /\ BlockSays(p)
  /\ Write(ThinkingDeltaItems(p))

(* The signature comes last in its block, which ends with it.              *)
Sign(s) ==
  /\ Streams("thinking")
  /\ Last(content).text # <<>>
  /\ content' = [content EXCEPT ![Len(content)].signature = s]
  /\ block' = "signed"
  /\ Write(SignatureDeltaItems(s))
  /\ UNCHANGED said

SayArgs(p) ==
  /\ Streams("tool_use")
  /\ said' = [said EXCEPT !.calls[Open].args = Append(@, p)]
  /\ BlockSays(p)
  /\ Write(InputDeltaItems(Open, p))

(* Arguments inside a block of another kind belong to no tool call.        *)
SayOtherArgs(p) ==
  /\ Streams("other")
  /\ Open \in Index
  /\ Write(InputDeltaItems(Open, p))
  /\ UNCHANGED <<said, blockVars>>

StopBlock ==
  /\ stage = "blocks"
  /\ block # "none"
  /\ block' = "none"
  /\ Write(<<>>)
  /\ UNCHANGED <<said, stage, fault, early, content>>

(* The usage is counted for good here; input tokens are optional.          *)
Counted(usage, input, output) ==
  [usage EXCEPT !["prompt"] = IF input = None THEN @ ELSE input, !["completion"] = output]

(* With a reason the protocol does not list the completion has no finish   *)
(* reason.                                                                 *)
MessageDelta(reason, input, output) ==
  /\ stage = "blocks"
  /\ block = "none"
  /\ stage' = "finished"
  /\ said' = [said EXCEPT
       !.finish = IF reason \in KnownReason THEN reason ELSE None,
       !.usage = Counted(@, input, output)]
  /\ Write(MessageDeltaItems(reason, input, output))
  /\ UNCHANGED <<fault, early, blockVars>>

MessageStop ==
  /\ stage = "finished"
  /\ stage' = "done"
  /\ Write(MessageStopItems)
  /\ UNCHANGED <<said, fault, early, blockVars>>

Server ==
  \/ \E t \in Tokens : MessageStart(t)
  \/ \E kind \in {"text", "thinking", "other"} : StartBlock(kind)
  \/ \E id \in CallId, name \in ToolName : StartToolUse(id, name)
  \/ \E p \in Piece : SayText(p) \/ SayThought(p) \/ SayArgs(p) \/ SayOtherArgs(p)
  \/ \E s \in Signature : Sign(s)
  \/ StopBlock
  \/ \E reason \in Reason \cup OddReason, input \in Opt(Tokens), output \in Tokens :
       MessageDelta(reason, input, output)
  \/ MessageStop

(* Pings, events of unknown type and [DONE] make no item, like heartbeats. *)
Accident == (Heartbeat \/ ErrorEvent \/ MalformedEvent \/ Connection) /\ UNCHANGED blockVars

Consumption == Client /\ UNCHANGED blockVars

Next == Consumption \/ Server \/ Accident

(* As for OpenAiStream.                                                    *)
Spec == Init /\ [][Next]_vars /\ WF_vars(Consumption) /\ WF_vars(Server \/ Accident)

-----------------------------------------------------------------------------
(* Properties of this protocol. *)

(* The thinking text and the signature of an answer are those of one       *)
(* block: sent back together in a later turn, they are what the server     *)
(* signed ("the signature back with the thinking block or the API rejects  *)
(* the history", docs/architecture.md).                                    *)
SignatureFitsThinking ==
  (Answered /\ Whole /\ Finished /\ acc.signature # None) =>
    \E b \in ToSet(content) :
      b.type = "thinking" /\ b.text = acc.reasoning /\ b.signature = acc.signature

(* A completion makes the same answer whether it is streamed or sent in    *)
(* one piece (parse_sse_stream with collect_response, parse_response),     *)
(* but for two differences: a call without input has the arguments "{}" in *)
(* one piece and none streamed, and three stop reasons are translated in   *)
(* one piece only.                                                         *)
Document ==
  [error |-> FALSE, content |-> content, usage |-> said.usage, stop_reason |-> said.finish]

SameCall(streamed, once) ==
  /\ streamed.id = once.id /\ streamed.name = once.name
  /\ once.args = IF streamed.args = <<>> THEN EmptyObject ELSE streamed.args

Untranslated ==
  {<<"stop_sequence", "Stop">>, <<"pause_turn", "Stop">>, <<"refusal", "ContentFilter">>}

RoutesAgree ==
  (Answered /\ Whole /\ Finished) =>
    LET once == ParseAnthropicResponse(Document)
    IN  /\ once.tag = "ok"
        /\ acc.content = once.content
        /\ acc.reasoning = once.reasoning
        /\ acc.signature = once.signature
        /\ Len(ToolCalls(acc)) = Len(once.calls)
        /\ \A n \in DOMAIN once.calls : SameCall(ToolCalls(acc)[n], once.calls[n])
        /\ acc.usage = once.usage
        /\ acc.finish = once.finish \/ <<acc.finish, once.finish>> \in Untranslated

==============================================================================
