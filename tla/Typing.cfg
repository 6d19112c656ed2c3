CONSTANTS
  ann = ann
  bob = bob
  None = None
  Peers <- MCPeers
  MaxMounts = 2
  MaxKeys = 3
SPECIFICATION FairSpec
INVARIANTS TypeOK TypingHasEnd
PROPERTY TypingEnds
CHECK_DEADLOCK FALSE
