SPECIFICATION FairSpec
CONSTANTS
  s1 = s1
  d1 = d1
  d2 = d2
  n1 = n1
  n2 = n2
  None = None
  Streams = {s1}
  Devices = {d1, d2}
  Notifiers = {n1, n2}
  Request <- OneRequest
  Ops = {"SelectProxy"}
  LineLevels = {"info", "fatal"}
  subscriberBuffer = 1
  MaxOps = 2
  MaxFailures = 1
INVARIANTS TypeOK StatusInSyncUnlessMissed LogFilter
PROPERTIES UnpairSparesOthers RevokedStreamsClose OverrunStreamsClose ChangesReachReaders
\* The operations are bounded and the only stream may be over.
CHECK_DEADLOCK FALSE
