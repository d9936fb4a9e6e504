---------------------------- MODULE OpenAiMessages ----------------------------
(***************************************************************************)
(* The messages of an OpenAI request: convert_messages of the adapter, one *)
(* message of the history at a time.  The code converts all messages and   *)
(* then merges the list from left to right; taking each through both steps *)
(* before the next comes to the same.                                      *)
(***************************************************************************)
EXTENDS Messages

(* A content is absent, a string, or a list of parts.                      *)
Str(text) == [tag |-> "string", text |-> text]
Parts(parts) == [tag |-> "parts", parts |-> parts]

TextPart(text) == [type |-> "text", text |-> text]
ImagePart(image) ==
  [type |-> "image_url", id |-> image.id, form |-> image.form, detail |-> image.detail]

OpenAi(role, content) ==
  [role |-> role, content |-> content, tool_calls |-> None, tool_call_id |-> None,
   note |-> FALSE]

OpenAiUser(m) ==
  OpenAi("user",
    IF m.images = <<>> THEN Str(m.text)
    ELSE Parts(<<TextPart(m.text)>> \o [k \in DOMAIN m.images |-> ImagePart(m.images[k])]))

(* Reasoning is not sent back.                                             *)
OpenAiAssistant(m) ==
  [OpenAi("assistant", IF Said(m.text) THEN Str(m.text) ELSE None)
     EXCEPT !.tool_calls = m.calls]

(* The shape carries no image: a note says that there were some.           *)
OpenAiTool(m) ==
  [OpenAi("tool", Str(m.text)) EXCEPT !.tool_call_id = m.id, !.note = (m.images # <<>>)]

(* Mutant of OpenAiMessage: a custom message goes out as the user's.       *)
OpenAiMessageOrUser(m) ==
  CASE m.kind = "System" -> <<OpenAi("system", Str(m.text))>>
    [] m.kind = "User" -> <<OpenAiUser(m)>>
    [] m.kind = "Assistant" -> <<OpenAiAssistant(m)>>
    [] m.kind = "Tool" -> <<OpenAiTool(m)>>
    [] OTHER -> <<OpenAi("user", Str(<<>>))>>

(* What one message of the history becomes: one message or, for a custom   *)
(* one, none.                                                              *)
OpenAiMessage(m) ==
  CASE m.kind = "System" -> <<OpenAi("system", Str(m.text))>>
    [] m.kind = "User" -> <<OpenAiUser(m)>>
    [] m.kind = "Assistant" -> <<OpenAiAssistant(m)>>
    [] m.kind = "Tool" -> <<OpenAiTool(m)>>
    [] OTHER -> <<>>

-----------------------------------------------------------------------------
(* Merging with the message before. *)

HasCalls(msg) == msg.tool_calls # None
StringOf(content) == IF content = None THEN <<>> ELSE content.text
CallList(msg) == IF HasCalls(msg) THEN msg.tool_calls ELSE <<>>

(* Texts are joined; the content stays absent when there is nothing to     *)
(* say.  Calls are appended.                                               *)
MergeAssistants(prev, msg) ==
  LET combined == StringOf(prev.content) \o StringOf(msg.content)
  IN  [prev EXCEPT !.content = IF combined = <<>> THEN @ ELSE Str(combined),
                   !.tool_calls = IF HasCalls(msg) THEN CallList(prev) \o msg.tool_calls ELSE @]

(* Mutant of PartsOf: a string is not made a part.                         *)
PartsOnly(content) == IF content.tag = "parts" THEN content.parts ELSE <<>>

PartsOf(content) ==
  IF content.tag = "parts" THEN content.parts
  ELSE IF content.text = <<>> THEN <<>>
  ELSE <<TextPart(content.text)>>

(* Two strings are joined; with parts on either side both become parts.    *)
MergeUsers(prev, msg) ==
  [prev EXCEPT !.content =
     IF "parts" \in {prev.content.tag, msg.content.tag}
       THEN Parts(PartsOf(prev.content) \o PartsOf(msg.content))
       ELSE Str(prev.content.text \o msg.content.text)]

(* Mutant of CanMerge: calls and text may come together.                   *)
CanMergeByRole(prev, msg) == prev.role = msg.role /\ msg.role \in {"user", "assistant"}

(* Of consecutive messages of one role, the user's and the assistant's are *)
(* merged; not an assistant's with calls and one without.                  *)
CanMerge(prev, msg) ==
  /\ prev.role = msg.role
  /\ \/ msg.role = "user"
     \/ msg.role = "assistant" /\ (HasCalls(prev) <=> HasCalls(msg))

MergeOpenAi(merged, msg) ==
  IF merged # <<>> /\ CanMerge(Last(merged), msg)
    THEN ReplaceLast(merged,
           IF msg.role = "user" THEN MergeUsers(Last(merged), msg)
           ELSE MergeAssistants(Last(merged), msg))
    ELSE Append(merged, msg)

==============================================================================
