CONSTANTS
  u1 = u1
  u2 = u2
  s1 = s1
  s2 = s2
  p1 = p1
  p2 = p2
  none = none
  Users = {u1}
  ExistingUsers = {}
  Specs = {s1}
  Protected = {}
  Passwords = {p1}
  None = none
  Postgres = TRUE
  CheckChanges = FALSE
  MaxFaults = 0
  MaxEdits = 4
SPECIFICATION FairSpec
PROPERTIES UserDeletionCompletes
