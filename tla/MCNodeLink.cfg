CONSTANTS
  s1 = s1
  s2 = s2
  Substations <- MCOneSubstation
  MaxQueue = 2
  JoinAttempts = 2
  SendAttempts = 2
  MaxReadings = 2
  MaxReboots = 1
  MaxNvsLosses = 1

SPECIFICATION FairSpec

PROPERTY
  SendEnds

INVARIANTS
  TypeOK
  BufferedOnceInOrder
