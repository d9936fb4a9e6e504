---------------------------- MODULE StreamChunks ----------------------------
(***************************************************************************)
(* The chunks an adapter turns the vendor's stream events into, and the    *)
(* items of a ChatStream: Result<StreamChunk, LlmError>.  Text, reasoning  *)
(* and argument payloads are sequences of pieces, so that order, loss and  *)
(* duplication show; ids, names and signatures are opaque.                 *)
(***************************************************************************)
EXTENDS LlmErrors, Sequences, FiniteSets

CONSTANTS
  None,        \* Option::None, JSON null, a missing key
  Index,       \* tool-call indices on the wire
  CallId,      \* tool-call ids
  ToolName,    \* tool names
  Piece,       \* pieces of text, reasoning and arguments
  Signature    \* signatures of thinking blocks

ASSUME IndexAssumption == Index \subseteq Nat /\ IsFiniteSet(Index) /\ 0 \in Index

Opt(S) == S \cup {None}

(* UsageInfo; absent counts are None. *)
UsageField == {"prompt", "completion", "total", "reasoning"}
NoUsage == [f \in UsageField |-> None]

(* Option::None is none of the values an Option may hold.                  *)
ASSUME NoneAssumption ==
  None \notin CallId \cup ToolName \cup Signature \cup Nat \cup Seq(Piece) \cup [UsageField -> Opt(Nat)]

Text(t) == [kind |-> "Text", text |-> t]
Thought(t) == [kind |-> "Thought", text |-> t]
ThinkingSignature(s) == [kind |-> "ThinkingSignature", signature |-> s]
ToolCall(i, id, name, args) ==
  [kind |-> "ToolCall", index |-> i, id |-> id, name |-> name, args |-> args]
Usage(u) == [kind |-> "Usage", usage |-> u]
ErrorChunk == [kind |-> "Error"]
Stop(reason) == [kind |-> "Stop", reason |-> reason]

(* An item is a chunk or an error; both are told apart by kind. *)
Err(e) == [kind |-> "Err", error |-> e]

(* FinishReason::from_str; a reason it does not know is kept as it came. *)
FinishReason(reason) ==
  CASE reason \in {"stop", "end_turn"} -> "Stop"
    [] reason \in {"length", "max_tokens"} -> "Length"
    [] reason \in {"tool_calls", "tool_use"} -> "ToolCalls"
    [] reason = "content_filter" -> "ContentFilter"
    [] OTHER -> reason

==============================================================================
