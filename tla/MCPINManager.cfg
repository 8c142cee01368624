SPECIFICATION Spec
CONSTANTS
  p1 = p1
  p2 = p2
  p3 = p3
  None = None
  Pins <- MCPins
  ttl = 2
  maxAttempts = 3
  MaxTime = 7
SYMMETRY MCSymmetry
INVARIANTS TypeOK SingleUse AttemptCap NoLateAcceptance LockoutIsEarned
