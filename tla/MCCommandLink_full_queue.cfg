SPECIFICATION MCFairSpec
CONSTANTS
  None = None
  Seqs = {1, 2}
  Commands <- AllCommands
  BenchResetBuild = FALSE
  Radios = {"blocking", "ready"}
  AbortMayRise = FALSE
  AckQueueDepth = 2
  RecentCommandDepth = 2
  Scenarios = {"arms"}
PROPERTY DeferredArmAnswered
