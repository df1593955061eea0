CONSTANTS
  u1 = u1
  u2 = u2
  Users = {u1, u2}
  Patient = TRUE
  MaxFaults = 2
  MaxEdits = 3
SPECIFICATION FairSpec
INVARIANTS GrantsTypeOK RecordedMeansApplied GrantsInv
PROPERTIES GrantsApplied
