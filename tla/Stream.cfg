SPECIFICATION FairSpec
CONSTANTS
  Readers = {"Events", "FollowLogs"}
  Kinds = {"status", "log"}
  Payloads <- ShortAndLong
  maxLine = 5
  Capacity = 3
  MaxFrames = 3
  NL = "NL"
  None = None
INVARIANT TooLongIsOneLine
PROPERTIES DeliversWhole EventsReturns EventsKeepsStream
\* A stream ends.
CHECK_DEADLOCK FALSE
