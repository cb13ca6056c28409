CONSTANTS
  s1 = s1
  s2 = s2
  Substations <- MCTwoSubstations
  MaxQueue = 2
  JoinAttempts = 1
  SendAttempts = 2
  MaxReadings = 2
  MaxReboots = 1
  MaxNvsLosses = 0

SPECIFICATION Spec

INVARIANTS
  DeliveredWasBuffered
  JoinedAgreement
  PeersInUse
  TimelySendWorks
