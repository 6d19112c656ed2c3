CONSTANTS
  ann = ann
  bob = bob
  pa = pa
  l1 = l1
  r1 = r1
  r2 = r2
  r3 = r3
  None = None
  Users <- MCUsers
  Contacts <- MCContacts
  Pages <- MCPages
  Loads <- MCLoads
  Calls <- MCCalls
  PageCalls <- MCPageCalls
SPECIFICATION Spec
INVARIANTS SecondOnlyByRace HeardIsSaved FiledWhereTyped UnlistedOnlyIfNewer
SYMMETRY CallSymmetry
CHECK_DEADLOCK FALSE
