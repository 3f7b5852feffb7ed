SPECIFICATION MCSpec
CONSTANTS
  Devices = {"IMU", "HighG"} Critical = {"IMU"}
  ReadFailureThreshold = 2 MaxRecoveryAttempts = 3 RecoveryInterval = 3
  Period = 2 MaxLate = 1 ConversionTimeout = 2 InitRetry = 20
  ReadFailFault = 4 BadFault = 3 BadTotalFault = 5 StaleFault = 10 Window = 3
PROPERTY OneBeginPerInterval
