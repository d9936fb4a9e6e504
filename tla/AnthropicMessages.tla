-------------------------- MODULE AnthropicMessages --------------------------
(***************************************************************************)
(* The messages and the system prompt of an Anthropic request:             *)
(* convert_messages of the adapter, one message of the history at a time.  *)
(* Every content is a list of blocks.                                      *)
(***************************************************************************)
EXTENDS Messages

TextBlock(text) == [type |-> "text", text |-> text]

(* image_block: the detail is not sent.                                    *)
ImageBlock(image) == [type |-> "image", id |-> image.id, form |-> image.form]
ImageBlocks(images) == [k \in DOMAIN images |-> ImageBlock(images[k])]

ThinkingBlock(reasoning, signature) ==
  [type |-> "thinking", thinking |-> reasoning, signature |-> signature]

(* Arguments that are not JSON become an empty object.                     *)
ToolUseBlock(call) ==
  [type |-> "tool_use", id |-> call.id,
   input |-> IF call.arguments = "broken" THEN "empty" ELSE call.arguments]

ResultBlock(m) == [type |-> "tool_result", id |-> m.id, text |-> m.text,
                   images |-> ImageBlocks(m.images)]

Turn(role, content) == [role |-> role, content |-> content]

(* The system messages, joined with newlines; an empty one leaves its      *)
(* newline, so each is an element of its own.                              *)
SystemPrompt(system, m) ==
  IF m.kind # "System" THEN system
  ELSE IF system = None THEN <<m.text>>
  ELSE Append(system, m.text)

When(cond, block) == IF cond THEN <<block>> ELSE <<>>

(* Mutant of AssistantBlocks: where there are calls they are all there is. *)
CallsOrText(m) ==
  IF m.calls \notin {None, <<>>} THEN [k \in DOMAIN m.calls |-> ToolUseBlock(m.calls[k])]
  ELSE When(Said(m.text), TextBlock(m.text))

(* Thinking is sent back with its signature or not at all.                 *)
AssistantBlocks(m) ==
  When(m.reasoning # None /\ m.signature # None, ThinkingBlock(m.reasoning, m.signature))
    \o When(Said(m.text), TextBlock(m.text))
    \o (IF m.calls = None THEN <<>> ELSE [k \in DOMAIN m.calls |-> ToolUseBlock(m.calls[k])])

(* What one message of the history becomes: a turn or none.  A tool's      *)
(* result is a turn of the user's.                                         *)
AnthropicMessage(m) ==
  CASE m.kind = "User" -> <<Turn("user", <<TextBlock(m.text)>> \o ImageBlocks(m.images))>>
    [] m.kind = "Assistant" /\ AssistantBlocks(m) # <<>> ->
         <<Turn("assistant", AssistantBlocks(m))>>
    [] m.kind = "Tool" -> <<Turn("user", <<ResultBlock(m)>>)>>
    [] OTHER -> <<>>

(* Mutant of MergeAnthropic: only turns of the user are merged.            *)
MergeUserTurns(merged, msg) ==
  IF merged # <<>> /\ msg.role = "user" /\ Last(merged).role = "user"
    THEN ReplaceLast(merged, [Last(merged) EXCEPT !.content = @ \o msg.content])
    ELSE Append(merged, msg)

(* Consecutive turns of one role become one.                               *)
MergeAnthropic(merged, msg) ==
  IF merged # <<>> /\ Last(merged).role = msg.role
    THEN ReplaceLast(merged, [Last(merged) EXCEPT !.content = @ \o msg.content])
    ELSE Append(merged, msg)

==============================================================================
