CONSTANTS
  n1 = n1
  n2 = n2
  n3 = n3
  r1 = r1
  r2 = r2
  Uids <- MCUids
  Readings <- MCReadings
  NoUid = NoUid
  NoReading = NoReading
  MaxNodes = 2
  ReadingsPerNode = 2

SPECIFICATION FairSpec

INVARIANTS
  TypeOK
  SlotsConsistent
  RingWritten
  PeekHolds

PROPERTIES
  RefinesStoreForward
  NoStarvationUnlessOverwriting
