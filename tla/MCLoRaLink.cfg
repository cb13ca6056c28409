CONSTANTS
  n1 = n1
  n2 = n2
  r1 = r1
  r2 = r2
  Uids <- MCUids
  Readings <- MCReadings
  NoPacket = NoPacket
  OtherPacket = OtherPacket
  MaxRetries = 2

SPECIFICATION FairSpec

INVARIANTS
  TypeOK
  AckNamesReceived

PROPERTIES
  AckedIsReceived
  SendEnds
