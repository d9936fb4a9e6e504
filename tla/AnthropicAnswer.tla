---------------------------- MODULE AnthropicAnswer ----------------------------
(***************************************************************************)
(* A completion that a server of the Anthropic Messages protocol sends in  *)
(* one piece: its content blocks and what parse_anthropic_response makes   *)
(* of them.                                                                *)
(***************************************************************************)
EXTENDS StreamChunks, Answers, SequencesExt

(* A content block: a text, thinking with its signature, or a tool call    *)
(* whose input the text spells out; others are passed over.                *)
Block(type, id, name) ==
  [type |-> type, text |-> <<>>, signature |-> None, id |-> id, name |-> name]

(* Mutant of TextIn: the last block is the text.                           *)
LastTextIn(type, content) ==
  LET blocks == {n \in DOMAIN content : content[n].type = type}
  IN  IF blocks = {} THEN <<>> ELSE content[Max(blocks)].text

TextIn(type, content) ==
  FlattenSeq([n \in DOMAIN content |->
                IF content[n].type = type THEN content[n].text ELSE <<>>])

(* The signature of the last thinking block that has one.                  *)
Signed(content) ==
  {n \in DOMAIN content : content[n].type = "thinking" /\ content[n].signature # None}
SignatureIn(content) ==
  IF Signed(content) = {} THEN None ELSE content[Max(Signed(content))].signature

(* An input is an object, "{}" if it says nothing; an id or a name that is *)
(* not there is empty.                                                     *)
CallIn(b) ==
  LET orEmpty(name) == IF name = None THEN "" ELSE name
  IN  [id |-> orEmpty(b.id), name |-> orEmpty(b.name),
       args |-> IF b.text = <<>> THEN EmptyObject ELSE b.text]
CallsIn(content) ==
  FlattenSeq([n \in DOMAIN content |->
                IF content[n].type = "tool_use" THEN <<CallIn(content[n])>> ELSE <<>>])

OnceReason(reason) ==
  CASE reason \in {None, "end_turn", "stop_sequence", "pause_turn"} -> "Stop"
    [] reason = "tool_use" -> "ToolCalls"
    [] reason = "max_tokens" -> "Length"
    [] reason = "refusal" -> "ContentFilter"
    [] OTHER -> reason

ParseAnthropicResponse(d) ==
  IF d.error THEN Refused
  ELSE Response(TextIn("text", d.content), TextIn("thinking", d.content), SignatureIn(d.content),
                CallsIn(d.content), d.usage, OnceReason(d.stop_reason))

================================================================================
