CONSTANTS
  k1 = k1
  k2 = k2
  k3 = k3
  u1 = u1
  u2 = u2
  None = None
  Logins <- MCLogins
  Users <- MCUsers
  MountChecks = 1
  MaxReloads = 2
SPECIFICATION FairSpec
INVARIANTS OneSession ShownWhenConfirmed SignOutLasts
PROPERTY LoadingEnds
CHECK_DEADLOCK FALSE
