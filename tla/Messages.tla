------------------------------- MODULE Messages -------------------------------
(***************************************************************************)
(* The messages of a conversation as the application keeps them            *)
(* (ChatMessage).  What a message says is told by its number in the        *)
(* history: the text of the n-th message is <<n>>, or <<>> when empty, so  *)
(* that texts joined with a newline are a concatenation; its k-th image    *)
(* and its k-th tool call are named <<n, k>>.  Of arguments it is kept     *)
(* whether they are JSON.  The media type of an image, the name of a tool  *)
(* and the mark "ephemeral", which no conversion looks at, are left out.   *)
(***************************************************************************)
EXTENDS Integers, SequencesExt

CONSTANT None   \* Option::None, a field that is not there

Image(id, form, detail) == [id |-> id, form |-> form, detail |-> detail]
Call(id, arguments) == [id |-> id, arguments |-> arguments]

System(text) == [kind |-> "System", text |-> text]

User(text, images) == [kind |-> "User", text |-> text, images |-> images]

(* calls: None, or the calls; text, reasoning and signature: None if the   *)
(* model gave none.                                                        *)
Assistant(text, reasoning, signature, calls) ==
  [kind |-> "Assistant", text |-> text, reasoning |-> reasoning,
   signature |-> signature, calls |-> calls]

(* The result of the call of that id.                                      *)
Tool(id, text, images) == [kind |-> "Tool", id |-> id, text |-> text, images |-> images]

(* A message of the application's own, not meant for the model.            *)
Custom == [kind |-> "Custom"]

(* `if let Some(text) = content.filter(|t| !t.is_empty())`                 *)
Said(text) == text \notin {None, <<>>}

ReplaceLast(s, e) == [s EXCEPT ![Len(s)] = e]

==============================================================================
