CONSTANTS
  None = None
  AssistantShape <- Shapes
  ImageCounts = {0, 2}
  MaxMessages = 5
SPECIFICATION Spec
INVARIANT OpenAiSaysAll
INVARIANT AnthropicSaysAll
INVARIANT TurnsAlternate
INVARIANT ResultsStayWithCalls
INVARIANT OnlyNeighboursJoin
CHECK_DEADLOCK FALSE
