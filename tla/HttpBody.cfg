CONSTANTS
  Width <- Mixed
  MaxChunk = 5
SPECIFICATION BodySpec
INVARIANT TextIsPrefix
INVARIANT SurvivorsInOrder
INVARIANT AnswerNeedsWholeBody
PROPERTY ReadEnds
CHECK_DEADLOCK FALSE
