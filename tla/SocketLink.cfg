CONSTANTS
  s1 = s1
  s2 = s2
  s3 = s3
  None = None
  MaxReconnect = 2
  Sockets <- MCSockets
SPECIFICATION FairSpec
INVARIANTS ConnectedIsLive
PROPERTY FallbackReached
CHECK_DEADLOCK FALSE
