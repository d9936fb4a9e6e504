CONSTANTS
  None = None
  Consumers = {"collect_response", "collect_text"}
  Index = {0, 1, 2}
  a = a
  b = b
  id1 = id1
  id2 = id2
  f = f
  sig1 = sig1
  sig2 = sig2
  CallId = {id1, id2}
  ToolName = {f}
  Piece = {a}
  Signature = {sig1, sig2}
  Reason = {"max_tokens", "tool_use", "refusal"}
  Tokens = {7}
  OddReason = {}
  Interleaved = TRUE
  MaxEvents = 7
SPECIFICATION Spec
INVARIANT SignatureFitsThinking
CHECK_DEADLOCK FALSE
