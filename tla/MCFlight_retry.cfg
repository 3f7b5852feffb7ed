\* The documented second drogue pulse.
SPECIFICATION MCSpec
CONSTANTS
  BenchResetBuild = FALSE
  TimeModulus = 1000
  LaunchConfirmSamples = 1
  BurnoutConfirmSamples = 1
  AccelMaxSampleAge = 1
  ApogeeTimeout = 2
  ApogeeMinFlightTime = 2
  BarometerMaxGap = 2
  ApogeeFitWindow = 2
  ApogeePredictionHistory = 1
  ApogeeConfirmSamples = 2
  MinApogeeDetectAlt = 30
  ApogeeDropThreshold = 5
  ApogeeDescentConfirmSamples = 2
  TiltMinFlightTime = 2
  TiltConfirmSamples = 2
  TiltMaxSampleAge = 2
  StuckWindow = 4
  StuckRange = 0
  PyroFireDuration = 2
  MainDeployAltitude = 200
  MainDeployConfirmSamples = 2
  MainFaultTimeout = 3
  LandingWindow = 3
  LandingRange = 1
  LandingMaxGap = 2
  Altitudes = {0, 1, 2, 20, 40, 60, 100, 300}
  Accels = {"boost", "free"}
  Tilts = {"tipped", "upright"}
  HighGPresent = FALSE
  BarometerMayFault = FALSE
  AbortMayRise = FALSE
  Commands = {"arm"}
  MaxTickGap = 1
  MaxTime = 12
  Seqs = {s1}
  None = None
  Scenarios = {"descent"}
  s1 = s1
PROPERTY DrogueRetried
