CONSTANTS
  m1 = m1
  m2 = m2
  n1 = n1
  n2 = n2
  Devices <- MCSameMac
  MaxSeq = 2
  MaxReboots = 1
  MaxNodes = 1
  ReadingsPerNode = 1
  MaxRetries = 1
  NotJoined = NotJoined
  NoUid = NoUid
  NoReading = NoReading
  NoPacket = NoPacket
  OtherPacket = OtherPacket
  NoReply = NoReply

SPECIFICATION Spec

INVARIANTS
  TypeOK
  AnsweredIsKept
  InFlightIsClaimed

PROPERTY
  LeavesConfirmed
