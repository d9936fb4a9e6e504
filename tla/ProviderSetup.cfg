CONSTANTS
  None = None
  AnthropicPaths = {"anthropic"}
  Model <- Models
  Url <- Urls
  Option <- Options
  ProtocolName <- Names
  Request <- Requests
  Limit <- Limits
  OwnProfile <- OwnProfiles
  WordBits = 18
SPECIFICATION Spec
INVARIANT OnlyFieldsUnderstood
INVARIANT ThinkingLeavesRoom
INVARIANT ProtocolIsDecided
CHECK_DEADLOCK FALSE
