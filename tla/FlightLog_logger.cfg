\* A FIFO of three units, queues of four, records of one and two.
SPECIFICATION FairSpec
CONSTANTS
  FrameUnits = {1, 2}
  FramesPerTick = 2
  MaxFrames = 5
  RamUnits = 3
  QueueUnits = 4
  DrainRecordsPerTick = 2
  PageUnits = 2
  PagesPerSector = 2
  BlockUnits = 3
  FileBlocks = 2
  BenchResetBuild = TRUE
INVARIANTS MirrorsAgree RecordsAccounted BackpressureHolds ClosedComplete
PROPERTY GroundStops
