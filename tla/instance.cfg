CONSTANTS
  d1 = d1
  d2 = d2
  c1 = c1
  c2 = c2
  c3 = c3
  conn = conn
  none = none
  Databases = {d1, d2}
  Configs = {c1, c2, c3}
  Invalid = {c3}
  None = none
  Backends = {"generic", "google"}
  GoogleConn = conn
  FromRef = TRUE
  CheckChanges = TRUE
  MaxFaults = 2
  MaxEdits = 2
SPECIFICATION FairSpec
INVARIANTS InstanceTypeOK ReadyInstanceIsProvisioned DatabasesOnAcceptedServers
PROPERTIES InstanceSettles InfoFollowsConfig DatabasesFollow
