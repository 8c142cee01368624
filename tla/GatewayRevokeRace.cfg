SPECIFICATION Spec
CONSTANTS
  d1 = d1
  d2 = d2
  h1 = h1
  h2 = h2
  p1 = p1
  p2 = p2
  None = None
  Devices <- MCDevices
  Handlers <- MCHandlers
  Pins <- MCPins
  MaxTokens = 1
  ttl = 1
  maxAttempts = 2
  MaxTime = 0
  MaxPins = 0
  Configs <- MCConfirming
PROPERTY RevokedReachesNoHook
