CONSTANTS
  u1 = u1
  u2 = u2
  s1 = s1
  s2 = s2
  p1 = p1
  p2 = p2
  none = none
  Users = {u1}
  ExistingUsers = {u1}
  Specs = {s1, s2}
  Protected = {s2}
  Passwords = {p1, p2}
  None = none
  Postgres = TRUE
  CheckChanges = TRUE
  MaxFaults = 1
  MaxEdits = 2
SPECIFICATION FairSpec
PROPERTIES Converges DeletionCompletes ExistingUserBecomesReady
