CONSTANTS
  s1 = s1
  s2 = s2
  s3 = s3
  u1 = u1
  u2 = u2
  None = None
  MaxReconnect = 2
  Sockets <- MCSockets
  Users <- MCUsers
SPECIFICATION FairAppSpec
INVARIANTS NoOrphan StatusFaithful ReconnectPromiseKept SessionNeverStranded
PROPERTY LogoutSilences
CHECK_DEADLOCK FALSE
