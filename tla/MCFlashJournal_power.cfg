SPECIFICATION MCFairSpec
CONSTANTS
  SectorCount = 3
  PagesPerSector = 3
  EraseAheadSectors = 1
  PageUnits = 1
  QueueUnits = 1
  SequenceModulus = 5
  OffsetModulus = 5
  Blank = Blank
  Torn = Torn
  None = None
INVARIANTS TypeOK ProgramsErasedPages
PROPERTY PromiseKept

