CONSTANTS
  m1 = m1
  m2 = m2
  n1 = n1
  n2 = n2
  Devices <- MCDevices
  MaxSeq = 2
  MaxReboots = 1
  MaxNodes = 1
  ReadingsPerNode = 2
  MaxRetries = 0
  NotJoined = NotJoined
  NoUid = NoUid
  NoReading = NoReading
  NoPacket = NoPacket
  OtherPacket = OtherPacket
  NoReply = NoReply

SPECIFICATION FairSpec

INVARIANTS
  BufferedOnceInOrder
  JoinedHasRoom

PROPERTY
  RelayDrains
