SPECIFICATION Spec
CONSTANTS
  a1 = a1
  a2 = a2
  None = None
  Agents = {a1, a2}
  DeviceID <- IDs
  FP <- FPs
  Name <- Names
  Addrs <- TwoAddrs
  Homes <- OneUp
  Strays <- FourStrays
  fpLength = 2
  TokenBytes <- Strings
  tokenLength = 2
  MaxTokens = 2
  MaxCalls = 2
  Limits <- TwoLimits
INVARIANTS TypeOK TokenGoesHome ScannedIsShown NilMeansDone GoneIsGone
\* All the moves, stops, tokens and calls may have been made.
CHECK_DEADLOCK FALSE
