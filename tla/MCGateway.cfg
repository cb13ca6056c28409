CONSTANTS
  Depth = 2
  MaxPackets = 4
  MaxReboots = 2

SPECIFICATION FairSpec

INVARIANTS
  TypeOK
  EachForwardedOnce
  LossBounded

PROPERTY
  AckedIsForwarded
