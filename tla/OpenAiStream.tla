---------------------------- MODULE OpenAiStream ----------------------------
(***************************************************************************)
(* A streamed completion of an OpenAI-compatible server, from the events   *)
(* it writes to the answer the consumer of the ChatStream is given, and    *)
(* beside it the answer to the same completion sent in one piece.          *)
(***************************************************************************)
EXTENDS StreamedCompletion, OpenAiAnswer

CONSTANT
  UnindexedCalls  \* the tool calls of a server that sends no index with them

VARIABLES
  trailing,  \* fixed: usage comes in an event of its own after the finish
             \* reason (stream_options.include_usage), not with it
  indexed    \* fixed: tool calls carry their index

style == <<trailing, indexed>>
vars == <<streamVars, serverVars, style>>

-----------------------------------------------------------------------------
(* The events and the adapter. *)

NoDelta == [content |-> None, reasoning |-> None, tools |-> <<>>]
ContentDelta(p) == [NoDelta EXCEPT !.content = <<p>>]
ReasoningDelta(p) == [NoDelta EXCEPT !.reasoning = <<p>>]
ToolDelta(i, id, name, args) ==
  [NoDelta EXCEPT !.tools = <<[index |-> IF indexed THEN i ELSE None,
                               id |-> id, name |-> name, args |-> args]>>]

(* Mutant of ConvertDelta: the index of the choice in place of the index   *)
(* of the call.                                                            *)
ConvertDeltaByChoice(delta) ==
  If(delta.content # None, Text(delta.content))
    \o If(delta.reasoning # None, Thought(delta.reasoning))
    \o [n \in DOMAIN delta.tools |->
          ToolCall(0, delta.tools[n].id, delta.tools[n].name, delta.tools[n].args)]

(* convert_delta, for the choice of index 0.                               *)
ConvertDelta(delta) ==
  If(delta.content # None, Text(delta.content))
    \o If(delta.reasoning # None, Thought(delta.reasoning))
    \o [n \in DOMAIN delta.tools |->
          LET t == delta.tools[n]
          IN  ToolCall(IF t.index = None THEN 0 ELSE t.index, t.id, t.name, t.args)]

(* Mutants of Chunks: the Stop before the delta; the usage at the end.     *)
StopBeforeDelta(usage, delta, finish) ==
  If(usage # None, Usage(usage)) \o If(finish # None, Stop(finish)) \o ConvertDelta(delta)
UsageBehindStop(usage, delta, finish) ==
  ConvertDelta(delta) \o If(finish # None, Stop(finish)) \o If(usage # None, Usage(usage))

(* The usage, absent (None), null (all counts absent) or given, comes      *)
(* first, then the delta, then the Stop.                                   *)
Chunks(usage, delta, finish) ==
  If(usage # None, Usage(usage)) \o ConvertDelta(delta) \o If(finish # None, Stop(finish))

(* parse_sse_stream, for a data event: where the key `error` is there, be  *)
(* it null, nothing else is looked at.                                     *)
DataItems(usage, delta, finish) ==
  IF fault = "null" THEN <<Err(LlmGeneralError)>> ELSE Chunks(usage, delta, finish)

(* The [DONE] terminator.                                                  *)
DoneItems == <<Stop("stop")>>

-----------------------------------------------------------------------------
(* The server. *)

(* Some servers write `"error": null` into every event.                    *)
Init ==
  /\ CompletionInit("deltas", {"none", "null"})
  /\ trailing \in BOOLEAN
  /\ indexed \in BOOLEAN

Streams == stage = "deltas" /\ WithinBound /\ UNCHANGED <<stage, fault, early>>

SayText(p) ==
  /\ Streams
  /\ said' = [said EXCEPT !.text = Append(@, p)]
  /\ Write(DataItems(NoUsage, ContentDelta(p), None))

SayThought(p) ==
  /\ Streams
  /\ said' = [said EXCEPT !.reasoning = Append(@, p)]
  /\ Write(DataItems(None, ReasoningDelta(p), None))

(* The next tool call, with an id of its own.                              *)
CallsBegun == Cardinality(DOMAIN said.calls)

StartCall(id, name) ==
  /\ Streams
  /\ CallsBegun \in Index
  /\ indexed \/ CallsBegun < UnindexedCalls
  /\ \A n \in DOMAIN said.calls : said.calls[n].id # id
  /\ said' = [said EXCEPT !.calls = Begun(@, CallsBegun, id, name)]
  /\ Write(DataItems(None, ToolDelta(CallsBegun, id, name, <<>>), None))

(* A fragment of the arguments of any call begun; without indices on the   *)
(* wire only the latest can be meant.                                      *)
SayArgs(n, p) ==
  /\ Streams
  /\ indexed \/ n = CallsBegun - 1
  /\ said' = [said EXCEPT !.calls[n].args = Append(@, p)]
  /\ Write(DataItems(None, ToolDelta(n, None, None, <<p>>), None))

Counts(t) == [NoUsage EXCEPT !["prompt"] = t, !["completion"] = t, !["total"] = t]

(* The finish reason, with a last piece of text in the same event or none, *)
(* and with the usage where the server attaches it.                        *)
Finish(reason, last, t) ==
  /\ stage = "deltas"
  /\ stage' = "finished"
  /\ said' = [said EXCEPT !.finish = reason,
                          !.text = IF last = None THEN @ ELSE Append(@, last),
                          !.usage = IF trailing THEN @ ELSE Counts(t)]
  /\ Write(DataItems(IF trailing THEN NoUsage ELSE Counts(t),
                IF last = None THEN NoDelta ELSE ContentDelta(last), reason))
  /\ UNCHANGED <<fault, early>>

ReportUsage(t) ==
  /\ trailing
  /\ stage = "finished"
  /\ said.late = NoUsage
  /\ said' = [said EXCEPT !.late = Counts(t)]
  /\ Write(DataItems(Counts(t), NoDelta, None))
  /\ UNCHANGED <<stage, fault, early>>

Done ==
  /\ stage = "finished"
  /\ trailing => said.late # NoUsage
  /\ stage' = "done"
  /\ Write(DoneItems)
  /\ UNCHANGED <<said, fault, early>>

Server ==
  \/ \E p \in Piece : SayText(p) \/ SayThought(p)
  \/ \E id \in CallId, name \in ToolName : StartCall(id, name)
  \/ \E n \in DOMAIN said.calls, p \in Piece : SayArgs(n, p)
  \/ \E reason \in Reason, last \in Opt(Piece), t \in Tokens : Finish(reason, last, t)
  \/ \E t \in Tokens : ReportUsage(t)
  \/ Done \/ Heartbeat \/ ErrorEvent \/ MalformedEvent

Next == (Client \/ Server \/ Connection) /\ UNCHANGED style

(* The consumer is polled for as long as the caller awaits it.  A          *)
(* connection ends: a silent one is cut by the read timeout of the HTTP    *)
(* client, and no server streams for ever.                                 *)
Spec ==
  /\ Init /\ [][Next]_vars
  /\ WF_vars(Client /\ UNCHANGED style)
  /\ WF_vars((Server \/ Connection) /\ UNCHANGED style)

-----------------------------------------------------------------------------
(* The completion in one piece. *)

Document ==
  [error |-> fault = "null",
   choices |-> <<[message |-> [content |-> said.text, reasoning |-> said.reasoning,
                               tool_calls |-> ToolCalls(said)],
                  finish_reason |-> said.finish]>>,
   usage |-> IF trailing THEN said.late ELSE said.usage]

(* A completion makes the same answer whether it is streamed or sent in    *)
(* one piece (parse_sse_stream with collect_response, parse_response), and *)
(* is refused on the one route if it is on the other, as is one with a     *)
(* null error.  Only usage behind the finish reason may be missing from    *)
(* the streamed answer.  The routes do not agree on the reasons end_turn,  *)
(* max_tokens and tool_use, which are translated when streamed and Other   *)
(* in one piece: Reason has none of them where this is checked or proved.  *)
RoutesAgree ==
  (Whole /\ Finished /\ fault \in {"none", "null"} /\ outcome # Reading) =>
    LET once == ParseOpenAiResponse(Document)
    IN  /\ Answered <=> once.tag = "ok"
        /\ Answered => /\ acc.content = once.content
                       /\ acc.reasoning = once.reasoning
                       /\ acc.signature = once.signature
                       /\ ToolCalls(acc) = once.calls
                       /\ trailing \/ acc.usage = once.usage
                       /\ acc.finish = once.finish

-----------------------------------------------------------------------------
(* What the documentation says. *)

(* "An in-flight stream that dies surfaces as StreamChunk::Error or        *)
(* Err(LlmError::Stream)" (docs/architecture.md): there is no answer of a  *)
(* completion the server did not finish.                                   *)
DeadStreamSurfaces == Answered => Finished

(* "No tool calls or usage info is lost" (collect_response): the usage a   *)
(* server reports, as include_usage asks it to, is in the answer.          *)
NoUsageLost ==
  (Answered /\ Whole /\ stage = "done") =>
    acc.usage = IF said.late = NoUsage THEN said.usage ELSE said.late

==============================================================================
