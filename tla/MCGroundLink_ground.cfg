SPECIFICATION MCFairSpec
CONSTANTS
  None = None
  CommandMaxAttempts = 3
  CommandRetryInterval = 2
  FastNeeded = 1
  GpsNeeded = 1
  StartTime = 1
  SettleTime = 1
  FastInterval = 2
  GpsInterval = 2
  AckQueueDepth = 3
  RecentDepth = 1
  SeqModulus = 3
  Moments = {1}
  Others <- OtherVehicles
  Scenarios = {"plain", "restarts"}
  MaxRestarts = 1
  MaxSeq = 2
INVARIANT ExecutedOnce
PROPERTIES DoneTruthful TestCompletes
