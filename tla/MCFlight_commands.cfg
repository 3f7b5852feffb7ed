\* Commands, abort and bench resets in every state.
SPECIFICATION MCSpec
CONSTANTS
  BenchResetBuild = TRUE
  TimeModulus = 1000
  LaunchConfirmSamples = 1
  BurnoutConfirmSamples = 1
  AccelMaxSampleAge = 1
  ApogeeTimeout = 2
  ApogeeMinFlightTime = 2
  BarometerMaxGap = 2
  ApogeeFitWindow = 2
  ApogeePredictionHistory = 1
  ApogeeConfirmSamples = 2
  MinApogeeDetectAlt = 30
  ApogeeDropThreshold = 5
  ApogeeDescentConfirmSamples = 2
  TiltMinFlightTime = 2
  TiltConfirmSamples = 2
  TiltMaxSampleAge = 2
  StuckWindow = 20
  StuckRange = 0
  PyroFireDuration = 1
  MainDeployAltitude = 200
  MainDeployConfirmSamples = 1
  MainFaultTimeout = 3
  LandingWindow = 1
  LandingRange = 1
  LandingMaxGap = 2
  Altitudes = {100}
  Accels = {"boost", "free"}
  Tilts = {"invalid"}
  HighGPresent = FALSE
  BarometerMayFault = FALSE
  AbortMayRise = TRUE
  Commands = {"arm", "force", "reset"}
  MaxTickGap = 1
  MaxTime = 12
  Seqs = {s1}
  None = None
  Scenarios = {"all"}
  s1 = s1
INVARIANT PyroInterlock
INVARIANT AbortGrounds
PROPERTY RecoveryRefined
