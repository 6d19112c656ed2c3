CONSTANTS
  d1 = d1
  d2 = d2
  k1 = k1
  k2 = k2
  k3 = k3
  v1 = v1
  v2 = v2
  Values <- MCValues
  MaxClock = 1
  Devices <- MCDevices
  Calls <- MCCalls
  MaxRows = 2
SYMMETRY Symmetry
SPECIFICATION Spec
INVARIANTS TypeOK NewestRowAgrees ConnectedUnlessDropped LinkedIsAccounted HeardOnce LostToSameMillisecond ScanFlagHonest
CHECK_DEADLOCK FALSE
