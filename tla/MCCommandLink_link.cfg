SPECIFICATION MCFairSpec
CONSTANTS
  None = None
  Seqs = {1, 2}
  Commands <- AllCommands
  BenchResetBuild = TRUE
  Radios = {"blocking", "ready"}
  AbortMayRise = TRUE
  AckQueueDepth = 2
  RecentCommandDepth = 4
  Scenarios = {"resets", "forces", "flight"}
INVARIANTS TypeOK ExecutedOnce
PROPERTIES AckTruthful ForceConfirmed OvertakenArmRejected
