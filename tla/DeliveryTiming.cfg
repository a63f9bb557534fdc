SPECIFICATION Spec
CONSTANTS
  RetryInterval = 2
  MaxRetry = 3
  FastPoll = 3
  FastWindow = 3
  HeartbeatMs = 2
  UpdateMs = 2
  ClockRange = 10
  MaxLag = 1
  FailuresCounted = 2
INVARIANTS NeverStarves HeartbeatBoundsLatency
PROPERTIES BackoffHonoured PairingPaced
