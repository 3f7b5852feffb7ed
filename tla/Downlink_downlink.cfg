CONSTANTS
  None = None
  Drivers = {"SX127x", "SX1262"}
  ClockModulus = 20
  StartTimes = {18}
  TelemetryPeriod = 1
  OtherPeriod = 2
  MaxBlock = 1
  FastPeriod = 5
  GpsPeriod = 7
  Airtime = 2
  TxGap = 2
  TxTimeout = 3
  AckQueueDepth = 2
SPECIFICATION FairSpec
CHECK_DEADLOCK FALSE
INVARIANTS TypeOK OnTime
PROPERTIES FramesFlow AcksGoOut HearsAgain
