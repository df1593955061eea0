CONSTANTS
  d1 = d1
  d2 = d2
  c1 = c1
  c2 = c2
  c3 = c3
  conn = conn
  none = none
  Databases = {d1}
  Configs = {c1, c2}
  Invalid = {}
  None = none
  Backends = {"generic"}
  GoogleConn = conn
  FromRef = TRUE
  CheckChanges = TRUE
  MaxFaults = 0
  MaxEdits = 2
SPECIFICATION FairSpec
PROPERTIES InstanceRuns
