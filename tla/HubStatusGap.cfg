SPECIFICATION Spec
CONSTANTS
  s1 = s1
  d1 = d1
  d2 = d2
  n1 = n1
  n2 = n2
  None = None
  Streams = {s1}
  Devices = {d1, d2}
  Notifiers = {n1}
  Request <- OneRequest
  Ops = {"Power"}
  LineLevels = {"fatal"}
  subscriberBuffer = 2
  MaxOps = 1
  MaxFailures = 0
INVARIANT StatusInSync
