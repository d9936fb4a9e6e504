------------------------------- MODULE Answers -------------------------------
(***************************************************************************)
(* What an adapter makes of a whole response: a ChatResponse or an error.  *)
(* Text that is absent is empty text; the raw document is left out.        *)
(***************************************************************************)

(* The arguments "{}", which stand for none.                               *)
EmptyObject == <<"{}">>

Refused == [tag |-> "err"]
Response(content, reasoning, signature, calls, usage, finish) ==
  [tag |-> "ok", content |-> content, reasoning |-> reasoning, signature |-> signature,
   calls |-> calls, usage |-> usage, finish |-> finish]

==============================================================================
