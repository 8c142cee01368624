SPECIFICATION Spec
CONSTANTS
  g1 = g1
  g2 = g2
  n1 = n1
  n2 = n2
  c1 = c1
  c2 = c2
  h1 = h1
  h2 = h2
  None = None
  Groups <- MCGroups
  GroupType <- MCGroupType
  Nodes = {n1, n2}
  Conns = {c1, c2}
  MaxEvents = 1
  Handlers = {h1, h2}
  MaxFailures = 1
  Implemented = {"select", "unfix", "delay", "mode", "settings", "profiles", "profile_update", "profile_delete", "providers", "connections", "actions"}
  Configs <- MCConfigs
  ActionIDs = {"flush_dns"}
  FirstName = "tv"
  Requests <- MCRequests
  MaxRequests = 1
INVARIANTS TypeOK AnswerIsCurrent CloseIsExact RefusalChangesNothing
PROPERTIES SuccessIsAnnounced DisabledStaysUntouched ForwardIsHarmless
CHECK_DEADLOCK FALSE
