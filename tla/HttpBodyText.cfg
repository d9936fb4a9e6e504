CONSTANTS
  Width <- Mixed
  MaxChunk = 5
SPECIFICATION BodySpec
INVARIANT BodyIsText
CHECK_DEADLOCK FALSE
