SPECIFICATION Spec
CONSTANTS
  d1 = d1
  d2 = d2
  c1 = c1
  c2 = c2
  None = None
  Devices <- MCDevices
  Callers <- TwoCallers
  MaxTokens = 2
  MaxCrashes = 1
  MaxFailures = 0
INVARIANT RevocationIsDurable
