CONSTANTS
  u1 = u1
  u2 = u2
  s1 = s1
  s2 = s2
  p1 = p1
  p2 = p2
  none = none
  Users = {}
  ExistingUsers = {}
  Specs = {s1}
  Protected = {}
  Passwords = {p1}
  None = none
  Postgres = TRUE
  CheckChanges = FALSE
  MaxFaults = 1
  MaxEdits = 2
SPECIFICATION Spec
PROPERTIES FailedDropKeepsFinalizer
