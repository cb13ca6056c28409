CONSTANTS
  ClockSize = 12
  BeaconInterval = 2
  RetryBackoff = 3
  MinAttempt = 1
  MaxLag = 2
  RxQueueDepth = 2
  MaxOnAir = 2

SPECIFICATION Spec

INVARIANT
  HeldOffOnlyAfterFailure
