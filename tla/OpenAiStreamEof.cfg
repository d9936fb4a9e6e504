CONSTANTS
  None = None
  Consumers = {"collect_response", "collect_text"}
  Index = {0, 1}
  a = a
  b = b
  id1 = id1
  id2 = id2
  f = f
  CallId = {id1, id2}
  ToolName = {f}
  Piece = {a, b}
  Signature = {}
  Reason = {"length", "tool_calls", "insufficient_system_resource"}
  Tokens = {7}
  UnindexedCalls = 1
  MaxEvents = 2
SPECIFICATION Spec
INVARIANT DeadStreamSurfaces
CHECK_DEADLOCK FALSE
