------------------------------- MODULE MCFlight -------------------------------
(***************************************************************************)
(* FlightStateMachine for TLC, with an observer that remembers what the    *)
(* vehicle itself does not: which readings there were, and when a channel  *)
(* was really energised.  A run follows one or more scenarios.  Each leaves *)
(* the surroundings free in its own part of the flight and takes the       *)
(* vehicle there by one plain way: ARM at once, boost readings until       *)
(* LAUNCH, free ones after it.  "all" leaves them free throughout.         *)
(***************************************************************************)
EXTENDS FlightStateMachine
LOCAL INSTANCE SequencesExt

CONSTANT Scenarios   \* subset of {"launch", "coast", "descent", "landing", "all"}

VARIABLES
  scenario,    \* chosen once
  accels,      \* the last different readings that ARMED was offered
  altitudes,   \* last published altitudes, from APOGEE on
  energised,   \* when each channel was last switched on
  shots        \* drogue pulses since ARMED

observer == <<scenario, accels, altitudes, energised, shots>>

LastOf(s, n) == IF Len(s) <= n THEN s ELSE SubSeq(s, Len(s) - n + 1, Len(s))

ObserverInit ==
  /\ scenario \in Scenarios /\ accels = <<>> /\ altitudes = <<>>
  /\ energised = [drogue |-> 0, main |-> 0] /\ shots = 0

ObserveAccels ==
  accels' = IF scenario = "all" \/ state # "ARMED" THEN <<>>
            ELSE IF turn # "fsm" \/ AccelSample.source = "none" \/ AccelSample \in ToSet(accels)
                 THEN accels
                 ELSE LastOf(Append(accels, AccelSample), LaunchConfirmSamples)

ObserveAltitudes ==
  altitudes' = IF scenario = "all" \/ state \notin {"APOGEE", "DROGUE", "DEPLOY"} THEN <<>>
               ELSE IF baro'.updated = baro.updated THEN altitudes
               ELSE LastOf(Append(altitudes, baro'.altitude),
                           Larger(MainDeployConfirmSamples, LandingWindow))

ObservePulses ==
  IF scenario = "all" THEN UNCHANGED <<energised, shots>>
  ELSE /\ energised' = [drogue |-> IF droguePyro' /\ ~droguePyro THEN now ELSE energised.drogue,
                        main |-> IF mainPyro' /\ ~mainPyro THEN now ELSE energised.main]
       /\ shots' = IF state' = "ARMED" THEN 0
                   ELSE IF droguePyro' /\ ~droguePyro THEN shots + 1 ELSE shots

Ascending == state \in {"INIT", "SAFE", "ARMED", "LAUNCH"}

(* What the sensors may do in a scenario: readings, altitudes, faults. *)
ImuChoices ==
  CASE scenario = "launch" -> {imu} \cup [updated : {now}, accel : Accels, tilt : {"upright"}]
    [] scenario = "coast" /\ state = "COAST" ->
         {imu} \cup [updated : {now}, accel : {"free"}, tilt : {"tipped", "upright"}]
    [] OTHER -> [updated : {now}, tilt : {"upright"},
                 accel : {IF state \in {"INIT", "SAFE", "ARMED"} THEN "boost" ELSE "free"}]

AltitudeChoices ==
  CASE scenario = "coast" /\ state = "COAST" -> {20, 40, 60}
    [] scenario = "descent" /\ state \in {"APOGEE", "DROGUE", "DEPLOY"} -> {100, 300}
    [] scenario = "landing" /\ state = "DROGUE" -> {1}
    [] scenario = "landing" /\ state = "DEPLOY" -> {0, 1, 2}
    [] OTHER -> {}

BarometerChoices ==
  {baro} \cup {[baro EXCEPT !.valid = TRUE, !.altitude = a, !.updated = now] : a \in AltitudeChoices}
  \cup IF (scenario \in {"coast", "descent"} /\ ~Ascending) \/ (scenario = "landing" /\ state = "DEPLOY")
       THEN {[baro EXCEPT !.fault = TRUE, !.valid = FALSE]} ELSE {}

Horizons == [launch |-> 8, coast |-> 15, descent |-> 24, landing |-> 28, all |-> MaxTime]

Surroundings ==
  scenario # "all" =>
    /\ turn = "sensors" => imu' \in ImuChoices /\ baro' \in BarometerChoices
    /\ turn = "uplink" => now' \in now..Horizons[scenario]

Plain ==
  scenario \notin {"all", "launch"} =>
    /\ turn = "sensors" => highG' = highG
    /\ turn = "uplink" => (Ascending => now' = now + 1) /\ (ArmPostable => armRequest' # None)

Over == turn = "uplink" /\ now = Horizons[scenario] /\ UNCHANGED <<vars, observer>>

MCInit == Init /\ ObserverInit

(* A flight under observation in which all surroundings are free. *)
Watched == Next /\ ObserveAccels /\ ObserveAltitudes /\ ObservePulses /\ UNCHANGED scenario
WatchedSpec == MCInit /\ [][Watched]_<<vars, observer>>

(* The flights of a run are among them. *)
MCNext == (Surroundings /\ Watched /\ Plain) \/ Over
MCSpec == MCInit /\ [][MCNext]_<<vars, observer>>

-----------------------------------------------------------------------------
(* LAUNCH is declared only when each of the last readings, of the low-g    *)
(* sensor while it is fresh and else of the high-g one, was a boost: no    *)
(* reading counts twice, not even across a change of sensor, and none that *)
(* was quiet is passed over.                                               *)
LaunchEvidence ==
  [][state = "ARMED" /\ state' = "LAUNCH" =>
       /\ Len(accels') = LaunchConfirmSamples
       /\ \A i \in 1..Len(accels') : accels'[i].accel = "boost"]_<<vars, observer>>

(* Main is deployed because each of the last published altitudes was at or *)
(* below the deployment altitude, or by the timer under a fault.           *)
MainEvidence ==
  [][state = "DROGUE" /\ state' = "DEPLOY" =>
       \/ baro'.fault /\ now - drogueMs >= MainFaultTimeout
       \/ LET lastOnes == LastOf(altitudes, MainDeployConfirmSamples)
          IN  /\ Len(lastOnes) = MainDeployConfirmSamples
              /\ \A i \in 1..Len(lastOnes) : lastOnes[i] <= MainDeployAltitude]_<<vars, observer>>

(* Landing is declared only when the last published altitudes all lie in   *)
(* one narrow band: a steady slow descent is not a landing.                *)
LandingEvidence ==
  [][state = "DEPLOY" /\ state' = "GROUND" =>
       LET lastOnes == LastOf(altitudes, LandingWindow)
       IN  /\ Len(lastOnes) = LandingWindow
           /\ \A i, j \in 1..Len(lastOnes) : lastOnes[i] - lastOnes[j] <= LandingRange]_<<vars, observer>>

(* A channel that was energised stays so for the whole pulse, counted from *)
(* the tick that energised it, unless the vehicle is made safe.            *)
PulsesComplete ==
  [][abort \/ (BenchResetBuild /\ resetRequest # None)
     \/ /\ droguePyro /\ ~droguePyro' => now - energised.drogue >= PyroFireDuration
        /\ mainPyro /\ ~mainPyro' => now - energised.main >= PyroFireDuration]_<<vars, observer>>

(* What documents/flight_state_machine_v1.md says of APOGEE: the drogue    *)
(* channel is pulsed a second time before the DROGUE state is entered.     *)
DrogueRetried ==
  [][state = "APOGEE" /\ state' = "DROGUE" => shots = 2]_<<vars, observer>>
=============================================================================
