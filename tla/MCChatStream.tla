---------------------------- MODULE MCChatStream ----------------------------
(***************************************************************************)
(* Small vocabularies of stream items for TLC.                             *)
(***************************************************************************)
EXTENDS ChatStreamSpec

CONSTANTS a, b, id1, id2, f, sig1, sig2

(* Starts of a call with and without arguments, fragments for both         *)
(* indices, an id without a name, and an item with neither id nor args.    *)
CallItems ==
  {ToolCall(0, id1, f, <<>>), ToolCall(0, id2, f, <<a>>), ToolCall(1, id2, f, None),
   ToolCall(0, None, None, <<a>>), ToolCall(1, None, None, <<b>>),
   ToolCall(0, id1, None, <<b>>), ToolCall(1, None, f, None)}

UsageItems ==
  {Usage([NoUsage EXCEPT !["prompt"] = 7, !["completion"] = 1]),
   Usage([NoUsage EXCEPT !["completion"] = 5]),
   Usage(NoUsage)}

EndItems ==
  {Stop("length"), Stop("stop"), Stop(None), ErrorChunk, Err(StreamError), Err(LlmGeneralError)}

TextItems == {Text(<<a>>), Text(<<b>>), Thought(<<a>>), ThinkingSignature(sig1), ThinkingSignature(sig2)}

AllItems == CallItems \cup TextItems \cup UsageItems \cup EndItems

==============================================================================
