CONSTANTS
  MaxLag = 3
  Kinds = {"modbus", "dlms", "iec", "cam", "camExport"}

SPECIFICATION FairSpec

INVARIANTS
  TypeOK
  SentIsCoherent
  ReadsAreFresh
  IdlesForOwnFaultOnly
  UpIsWhole
  UartListens

PROPERTY
  SendsAgain
