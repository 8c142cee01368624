SPECIFICATION Spec
CONSTANTS
  d1 = d1
  d2 = d2
  c1 = c1
  c2 = c2
  None = None
  Devices <- MCDevices
  Callers <- OneCaller
  MaxTokens = 3
  MaxCrashes = 2
  MaxFailures = 2
INVARIANTS PairingIsDurable RevocationIsDurable StoreReopens
PROPERTY ImplementsDurableStore
