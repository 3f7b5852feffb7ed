\* The four parts of a flight, each with its surroundings free.
SPECIFICATION MCSpec
CONSTANTS
  BenchResetBuild = FALSE
  TimeModulus = 1000
  LaunchConfirmSamples = 3
  BurnoutConfirmSamples = 2
  AccelMaxSampleAge = 1
  ApogeeTimeout = 6
  ApogeeMinFlightTime = 6
  BarometerMaxGap = 2
  ApogeeFitWindow = 2
  ApogeePredictionHistory = 1
  ApogeeConfirmSamples = 2
  MinApogeeDetectAlt = 30
  ApogeeDropThreshold = 5
  ApogeeDescentConfirmSamples = 2
  TiltMinFlightTime = 5
  TiltConfirmSamples = 2
  TiltMaxSampleAge = 2
  StuckWindow = 4
  StuckRange = 0
  PyroFireDuration = 4
  MainDeployAltitude = 200
  MainDeployConfirmSamples = 2
  MainFaultTimeout = 3
  LandingWindow = 3
  LandingRange = 1
  LandingMaxGap = 2
  Altitudes = {0, 1, 2, 20, 40, 60, 100, 300}
  Accels = {"boost", "free"}
  Tilts = {"tipped", "upright"}
  HighGPresent = TRUE
  BarometerMayFault = TRUE
  AbortMayRise = FALSE
  Commands = {"arm"}
  MaxTickGap = 2
  MaxTime = 28
  Seqs = {s1}
  None = None
  Scenarios = {"launch", "coast", "descent", "landing"}
  s1 = s1
INVARIANTS TypeOK CoastBounded PulsesBounded
PROPERTIES LaunchEvidence SensorApogeeNotEarly MainEvidence PulsesComplete FaultedBarometerIgnored LandingEvidence
