CONSTANTS
  u1 = u1
  u2 = u2
  Users = {u1}
  Patient = FALSE
  MaxFaults = 0
  MaxEdits = 1
SPECIFICATION FairSpec
PROPERTIES GrantsApplied
