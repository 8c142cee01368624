SPECIFICATION Spec
CONSTANTS
  d1 = d1
  d2 = d2
  h1 = h1
  h2 = h2
  p1 = p1
  p2 = p2
  None = None
  Devices <- MCDevices
  Handlers <- MCHandlers
  Pins <- MCPins
  MaxTokens = 2
  ttl = 1
  maxAttempts = 2
  MaxTime = 2
  MaxPins = 1
  Configs <- MCConfigs
SYMMETRY MCSymmetry
INVARIANTS NoUnconfirmedHook OneTokenPerPin PinPairingIsConfirmed
PROPERTIES UnpairSparesOthers PairedByConsent
