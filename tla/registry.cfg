SPECIFICATION FairSpec
CONSTANTS
  None = None
  c1 = c1
  h1 = h1
  h2 = h2
  k = k
  p = p
  s1 = s1
  s2 = s2
  s3 = s3
  Clients = {c1}
  HandlerIds = {h1, h2}
  Types = {k, p}
  Sockets = {s1, s2, s3}
  MaxMonitors = 2
  MaxCrashes = 1
  MaxGiveUps = 1
INVARIANTS
  TypeOK
  CallsFindSession
  ServiceKnowsHandlers
PROPERTIES
  Reconnects
CHECK_DEADLOCK FALSE
