SPECIFICATION MCFairSpec
CONSTANTS
  SectorCount = 2
  PagesPerSector = 2
  EraseAheadSectors = 1
  PageUnits = 2
  QueueUnits = 3
  SequenceModulus = 3
  OffsetModulus = 5
  Blank = Blank
  Torn = Torn
  None = None
PROPERTIES FlushEnds PromiseKept
