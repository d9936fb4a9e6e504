\* Every consumer over every stream of four items.
CONSTANTS
  None = None
  Consumers = {"collect_response", "collect_text", "llm-cli"}
  Index = {0, 1}
  CallId = {id1, id2}
  ToolName = {f}
  Piece = {a, b}
  Signature = {sig1, sig2}
  a = a
  b = b
  id1 = id1
  id2 = id2
  f = f
  sig1 = sig1
  sig2 = sig2
  Items <- AllItems
  MaxItems = 4
SPECIFICATION Spec
INVARIANT StreamTypeOK
INVARIANT AnswerIsSumOfItems
INVARIANT FailureIsReported
INVARIANT FirstStopWins
PROPERTY ClosedStreamIsCollected
CHECK_DEADLOCK FALSE
