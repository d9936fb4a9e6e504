----------------------------- MODULE OpenAiAnswer -----------------------------
(***************************************************************************)
(* A completion that an OpenAI-compatible server sends in one piece: the   *)
(* document, as far as parse_openai_response looks at it, and what it      *)
(* makes of it.  Fields that are null count as fields that are not there,  *)
(* but for `error`.                                                        *)
(***************************************************************************)
EXTENDS StreamChunks, Answers, SequencesExt

(* A message; null is none.                                                *)
WireCall == [id : Opt(CallId), name : Opt(ToolName), args : Opt(Seq(Piece))]
Message == [content : Seq(Piece), reasoning : Seq(Piece), tool_calls : Seq(WireCall)]
ASSUME MessageAssumption == None \notin Message

(* Mutant of CallsIn: arguments are an object, as in the other protocol.   *)
CallsWithoutArguments(tool_calls) ==
  [n \in DOMAIN tool_calls |->
     [id |-> tool_calls[n].id, name |-> tool_calls[n].name, args |-> EmptyObject]]

(* A call without an id or a name is passed over.                          *)
CallsIn(tool_calls) ==
  LET call(c) == [id |-> c.id, name |-> c.name,
                  args |-> IF c.args = None THEN EmptyObject ELSE c.args]
  IN  FlattenSeq([n \in DOMAIN tool_calls |->
                    IF tool_calls[n].id # None /\ tool_calls[n].name # None
                      THEN <<call(tool_calls[n])>> ELSE <<>>])

OnceReason(reason) ==
  CASE reason \in {None, "stop"} -> "Stop"
    [] reason = "length" -> "Length"
    [] reason = "tool_calls" -> "ToolCalls"
    [] reason = "content_filter" -> "ContentFilter"
    [] OTHER -> reason

(* parse_openai_response: the first choice is the answer.                  *)
ParseOpenAiResponse(d) ==
  IF d.error \/ d.choices = <<>> THEN Refused
  ELSE LET message == d.choices[1].message
       IN  IF message = None THEN Refused
           ELSE Response(message.content, message.reasoning, None, CallsIn(message.tool_calls),
                         d.usage, OnceReason(d.choices[1].finish_reason))

==============================================================================
