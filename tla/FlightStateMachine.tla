-------------------------- MODULE FlightStateMachine --------------------------
(***************************************************************************)
(* FlightStateMachineTask (missions/flight/fsm_task.cpp) as the scheduler  *)
(* runs it.  One pass of the loop is three steps, in the order the tasks   *)
(* are registered: the sensor tasks and the watchdog publish (Sense), the  *)
(* state machine ticks (one action per way through tick()), TelemetryTask  *)
(* may post one request and time moves on (Uplink).  Time is counted in    *)
(* units of the state machine's period; a late pass is a larger gap.       *)
(***************************************************************************)
EXTENDS Integers, Sequences, CommandMailbox

CONSTANTS
  BenchResetBuild,          \* built with NURA_ENABLE_BENCH_FSM_RESET_UPLINK
  TimeModulus,              \* timestamps are modulo this (2^32 in the code)
  LaunchConfirmSamples, BurnoutConfirmSamples, AccelMaxSampleAge,
  ApogeeTimeout, ApogeeMinFlightTime, BarometerMaxGap,
  ApogeeFitWindow, ApogeePredictionHistory, ApogeeConfirmSamples,
  MinApogeeDetectAlt, ApogeeDropThreshold, ApogeeDescentConfirmSamples,
  TiltMinFlightTime, TiltConfirmSamples, TiltMaxSampleAge,
  StuckWindow, StuckRange,
  PyroFireDuration,
  MainDeployAltitude, MainDeployConfirmSamples, MainFaultTimeout,
  LandingWindow, LandingRange, LandingMaxGap

CONSTANTS                   \* what the surroundings may do, and the model's bounds
  Altitudes,                \* altitudes the barometer publishes
  Accels, Tilts,            \* classes of IMU reading that occur
  HighGPresent,             \* the high-g sensor publishes too
  BarometerMayFault, AbortMayRise,
  Commands,                 \* subset of {"arm", "force", "reset"}
  MaxTickGap,               \* longest time between two passes
  MaxTime                   \* the model stops here

(* Norms at or above 2.0 g, from 1.5 g up to 2.0 g, below 1.5 g. *)
AccelClasses == {"boost", "between", "free"}
TiltClasses  == {"tipped", "upright", "invalid"}

ASSUME FlightAssumption ==
  /\ BenchResetBuild \in BOOLEAN /\ HighGPresent \in BOOLEAN
  /\ BarometerMayFault \in BOOLEAN /\ AbortMayRise \in BOOLEAN
  /\ Altitudes \subseteq Int /\ Accels \subseteq AccelClasses /\ Tilts \subseteq TiltClasses
  /\ Commands \subseteq {"arm", "force", "reset"}
  /\ MaxTickGap \in Nat \ {0} /\ MaxTime \in Nat \ {0}
  /\ TimeModulus \in Nat /\ MaxTime < TimeModulus

ASSUME ThresholdAssumption ==
  /\ LaunchConfirmSamples \in Nat \ {0} /\ BurnoutConfirmSamples \in Nat \ {0}
  /\ ApogeeFitWindow \in Nat \ {0} /\ ApogeePredictionHistory \in Nat \ {0}
  /\ ApogeeConfirmSamples \in Nat \ {0} /\ ApogeeDescentConfirmSamples \in Nat \ {0}
  /\ TiltConfirmSamples \in Nat \ {0} /\ MainDeployConfirmSamples \in Nat \ {0}
  /\ LandingWindow \in Nat \ {0}
  /\ AccelMaxSampleAge \in Nat /\ BarometerMaxGap \in Nat /\ TiltMaxSampleAge \in Nat
  /\ AccelMaxSampleAge < ApogeeTimeout
  /\ ApogeeTimeout \in Nat \ {0} /\ ApogeeMinFlightTime \in Nat /\ TiltMinFlightTime \in Nat
  /\ PyroFireDuration \in Nat \ {0} /\ MainFaultTimeout \in Nat /\ StuckWindow \in Nat
  /\ MinApogeeDetectAlt \in Int /\ ApogeeDropThreshold \in Int /\ MainDeployAltitude \in Int
  /\ StuckRange \in Int /\ LandingRange \in Int /\ LandingMaxGap \in Nat

(* COAST may open on a sample from before the launch, whose age counts as  *)
(* huge; no count below decides on one sample alone (3 and 3 in the code). *)
ASSUME ApogeeAssumption == ApogeeConfirmSamples > 1 /\ ApogeeDescentConfirmSamples > 1

VARIABLES
  now, turn,                \* loop time; whose step of the pass is next
  baro, imu, highG, abort,  \* shared sensor and abort state
  state,                    \* FlightState.state
  launchMs, coastMs, apogeeMs, drogueMs, deployMs,
  drogueSequenceComplete, mainSequenceComplete,
  launch, burnout,          \* acceleration detectors of ARMED and LAUNCH
  apogee, stuck,            \* COAST scratch; barometer stuck window
  mainDeployConfirmCount, landing,
  primaryDrogueOff, mainPyroOff,
  droguePyro, mainPyro,     \* levels of the two pyro channels
  deployFired               \* health.deployFired

sensors   == <<imu, highG, abort>>
stamps    == <<launchMs, coastMs, apogeeMs, drogueMs, deployMs>>
sequence  == <<drogueSequenceComplete, mainSequenceComplete, primaryDrogueOff, mainPyroOff>>
detectors == <<launch, burnout, apogee, stuck, mainDeployConfirmCount, landing>>
pyro      == <<droguePyro, mainPyro, deployFired>>

vars == <<now, turn, baro, sensors, state, stamps, sequence, detectors, pyro, mailbox>>

(* FAULT is left out: only the unreachable default branch of tick() enters it. *)
States == {"INIT", "SAFE", "ARMED", "LAUNCH", "COAST", "APOGEE", "DROGUE", "DEPLOY", "GROUND"}

(* Unsigned subtraction of timestamps: a time after now is a huge age. *)
Since(t, from) == IF t >= from THEN t - from ELSE t - from + TimeModulus

\* Variant: a counter without its limit.
Uncapped(n, limit) == n + 1
Capped(n, limit) == IF n < limit THEN n + 1 ELSE n

Times == 0..MaxTime

-----------------------------------------------------------------------------
(* Fresh scratch. *)

NoAccel   == [count |-> 0, ms |-> 0, source |-> "none"]
NoApogee  == [confirm |-> 0, descent |-> 0, tilt |-> 0, lastTilt |-> 0, lastBaro |-> 0,
              fit |-> 0, predictions |-> 0, maxAltitude |-> 0]
NoStuck   == [active |-> FALSE, start |-> 0, last |-> 0, min |-> 0, max |-> 0]
NoLanding == [last |-> 0, window |-> <<>>]

AccelDetectors(n) == [count : 0..n, ms : Times, source : {"none", "low", "high"}]

ApogeeScratch  == [confirm : 0..ApogeeConfirmSamples, descent : 0..ApogeeDescentConfirmSamples,
                   tilt : 0..TiltConfirmSamples, lastTilt : Times, lastBaro : Times,
                   fit : 0..ApogeeFitWindow, predictions : 0..ApogeePredictionHistory,
                   maxAltitude : Int]
StuckScratch   == [active : BOOLEAN, start : Times, last : Times, min : Int, max : Int]
LandingScratch == [last : Times, window : Seq(Int)]
Barometer      == [valid : BOOLEAN, fault : BOOLEAN, altitude : Int, updated : Times]

TypeOK ==
  /\ now \in Times /\ turn \in {"sensors", "fsm", "uplink"}
  /\ baro \in Barometer
  /\ imu \in [updated : Times, accel : AccelClasses, tilt : TiltClasses]
  /\ highG \in [updated : Times, accel : AccelClasses, usable : BOOLEAN]
  /\ abort \in BOOLEAN /\ state \in States
  /\ launchMs \in Times /\ coastMs \in Times /\ apogeeMs \in Times
  /\ drogueMs \in Times /\ deployMs \in Times
  /\ drogueSequenceComplete \in BOOLEAN /\ mainSequenceComplete \in BOOLEAN
  /\ primaryDrogueOff \in BOOLEAN /\ mainPyroOff \in BOOLEAN
  /\ launch \in AccelDetectors(LaunchConfirmSamples)
  /\ burnout \in AccelDetectors(BurnoutConfirmSamples)
  /\ apogee \in ApogeeScratch /\ stuck \in StuckScratch
  /\ mainDeployConfirmCount \in 0..MainDeployConfirmSamples
  /\ landing \in LandingScratch /\ Len(landing.window) <= LandingWindow
  /\ droguePyro \in BOOLEAN /\ mainPyro \in BOOLEAN /\ deployFired \in BOOLEAN
  /\ MailboxTypeOK

Init ==
  /\ now = 1 /\ turn = "sensors"
  /\ baro = [valid |-> FALSE, fault |-> FALSE, altitude |-> 0, updated |-> 0]
  /\ imu = [updated |-> 0, accel |-> "free", tilt |-> "invalid"]
  /\ highG = [updated |-> 0, accel |-> "free", usable |-> FALSE]
  /\ abort = FALSE /\ state = "INIT"
  /\ launchMs = 0 /\ coastMs = 0 /\ apogeeMs = 0 /\ drogueMs = 0 /\ deployMs = 0
  /\ drogueSequenceComplete = FALSE /\ mainSequenceComplete = FALSE
  /\ primaryDrogueOff = FALSE /\ mainPyroOff = FALSE
  /\ launch = NoAccel /\ burnout = NoAccel /\ apogee = NoApogee /\ stuck = NoStuck
  /\ mainDeployConfirmCount = 0 /\ landing = NoLanding
  /\ droguePyro = FALSE /\ mainPyro = FALSE /\ deployFired = FALSE
  /\ MailboxInit

-----------------------------------------------------------------------------
(* Sense: what BarometerTask, IMUTask, HighGImuTask and WatchdogTask leave *)
(* in the shared states.  A valid sample is published even under a latched *)
(* fault; latching the fault clears the valid flag.                        *)

SenseBarometer ==
  \/ UNCHANGED baro
  \/ \E a \in Altitudes :
       baro' = [baro EXCEPT !.valid = TRUE, !.altitude = a, !.updated = now]
  \/ /\ BarometerMayFault /\ ~baro.fault
     /\ baro' = [baro EXCEPT !.fault = TRUE, !.valid = FALSE]

SenseImu ==
  \/ UNCHANGED imu
  \/ \E a \in Accels, t \in Tilts : imu' = [updated |-> now, accel |-> a, tilt |-> t]

SenseHighG ==
  \/ UNCHANGED highG
  \/ HighGPresent /\ \E a \in Accels : highG' = [updated |-> now, accel |-> a, usable |-> TRUE]
  \/ highG.usable /\ highG' = [highG EXCEPT !.usable = FALSE]

RaiseAbort == abort' \in {abort, abort \/ AbortMayRise}

Sense ==
  /\ turn = "sensors" /\ turn' = "fsm"
  /\ SenseBarometer /\ SenseImu /\ SenseHighG /\ RaiseAbort
  /\ UNCHANGED <<now, state, stamps, sequence, detectors, pyro, mailbox>>

-----------------------------------------------------------------------------
(* onEnter: what entering a state does to the state, its stamps, the pyro  *)
(* sequence flags and the channels.                                        *)

Stay == UNCHANGED <<state, stamps, sequence, pyro>>

\* Variant: a channel keeps its level.
PyroAsItWas == UNCHANGED <<droguePyro, mainPyro>>
PyroAllOff == droguePyro' = FALSE /\ mainPyro' = FALSE

ResetFlightScratch ==
  /\ launch' = NoAccel /\ burnout' = NoAccel /\ apogee' = NoApogee /\ stuck' = NoStuck
  /\ mainDeployConfirmCount' = 0 /\ landing' = NoLanding
  /\ primaryDrogueOff' = FALSE /\ mainPyroOff' = FALSE

EnterSafe ==
  /\ state' = "SAFE" /\ PyroAllOff /\ ResetFlightScratch
  /\ UNCHANGED <<stamps, drogueSequenceComplete, mainSequenceComplete, deployFired>>

EnterLaunch(t) == state' = "LAUNCH" /\ launchMs' = t /\ burnout' = NoAccel
                  /\ UNCHANGED <<coastMs, apogeeMs, drogueMs, deployMs, sequence, pyro>>

EnterCoast(t) ==
  /\ state' = "COAST" /\ coastMs' = t
  /\ apogee' = [NoApogee EXCEPT !.maxAltitude = baro.altitude] /\ stuck' = NoStuck
  /\ UNCHANGED <<launchMs, apogeeMs, drogueMs, deployMs, sequence, pyro>>

EnterApogee(t) ==
  /\ state' = "APOGEE" /\ apogeeMs' = t
  /\ primaryDrogueOff' = FALSE /\ drogueSequenceComplete' = FALSE
  /\ deployFired' = TRUE /\ droguePyro' = TRUE
  /\ UNCHANGED <<launchMs, coastMs, drogueMs, deployMs,
                 mainSequenceComplete, mainPyroOff, mainPyro>>

EnterDrogue(t) ==
  /\ state' = "DROGUE" /\ drogueMs' = t
  /\ mainDeployConfirmCount' = 0 /\ stuck' = NoStuck

EnterDeploy(t) ==
  /\ state' = "DEPLOY" /\ deployMs' = t
  /\ mainPyroOff' = FALSE /\ mainSequenceComplete' = FALSE
  /\ landing' = NoLanding /\ mainPyro' = TRUE
  /\ UNCHANGED <<launchMs, coastMs, apogeeMs, drogueMs,
                 drogueSequenceComplete, primaryDrogueOff, droguePyro, deployFired>>

-----------------------------------------------------------------------------
(* tick(): the order of the checks is the order of the code.               *)

FsmStep == turn = "fsm" /\ turn' = "uplink" /\ UNCHANGED <<now, sensors>>

\* Variant: the abort is for the ascent.
AbortingAscent == abort /\ state \in {"ARMED", "LAUNCH", "COAST"}
Aborting     == abort /\ state # "SAFE"
ResetPending == BenchResetBuild /\ resetRequest # None
ArmPending   == armRequest # None /\ state = "SAFE" /\ ~abort

\* Variant: any state before APOGEE.
ArmedAllowsForce(s) == s \in {"ARMED", "LAUNCH", "COAST"}
StateAllowsForceRecoveryDeploy(s) == s \in {"LAUNCH", "COAST"}
ForcePending == forceRequest # None /\ StateAllowsForceRecoveryDeploy(state)

(* The abort is looked at first and leaves the mailbox as it is. *)
AbortToSafe ==
  /\ FsmStep /\ Aborting /\ EnterSafe
  /\ UNCHANGED <<baro, mailbox>>

(* A fresh FlightState clears the stamps and the sequence flags; the       *)
(* deployFired health flag is not part of it.                              *)
ExecuteBenchReset ==
  /\ FsmStep /\ ~Aborting /\ ResetPending
  /\ state' = "INIT" /\ PyroAllOff /\ ResetFlightScratch
  /\ launchMs' = 0 /\ coastMs' = 0 /\ apogeeMs' = 0 /\ drogueMs' = 0 /\ deployMs' = 0
  /\ drogueSequenceComplete' = FALSE /\ mainSequenceComplete' = FALSE
  /\ HonourReset /\ UNCHANGED <<baro, deployFired>>

ExecuteArm ==
  /\ FsmStep /\ ~Aborting /\ ~ResetPending /\ ArmPending
  /\ state' = "ARMED" /\ launch' = NoAccel /\ apogee' = NoApogee /\ stuck' = NoStuck
  /\ HonourArm
  /\ UNCHANGED <<baro, stamps, sequence, pyro, burnout, mainDeployConfirmCount, landing>>

ExecuteForce ==
  /\ FsmStep /\ ~Aborting /\ ~ResetPending /\ ~ArmPending /\ ForcePending
  /\ EnterApogee(now) /\ HonourForce
  /\ UNCHANGED <<baro, detectors>>

(* The tick of state s, reached when no request is honoured. *)
FlightTick(s) ==
  /\ FsmStep /\ state = s
  /\ ~Aborting /\ ~ResetPending /\ ~ArmPending /\ ~ForcePending
  /\ RefuseAll

TickInit == FlightTick("INIT") /\ EnterSafe /\ UNCHANGED baro

TickIdle == (FlightTick("SAFE") \/ FlightTick("GROUND")) /\ Stay /\ UNCHANGED <<baro, detectors>>

-----------------------------------------------------------------------------
(* ARMED and LAUNCH: consecutive acceleration readings.                    *)

AccelFresh(updated) == updated # 0 /\ Since(now, updated) <= AccelMaxSampleAge

(* The low-g reading while it is fresh, else the high-g one, else none. *)
AccelSample ==
  IF AccelFresh(imu.updated) THEN [source |-> "low", ms |-> imu.updated, accel |-> imu.accel]
  ELSE IF highG.usable /\ AccelFresh(highG.updated)
       THEN [source |-> "high", ms |-> highG.updated, accel |-> highG.accel]
       ELSE [source |-> "none", ms |-> 0, accel |-> "free"]

\* Variant: a reading is new whenever there is one.
AnyAccel(seen) == AccelSample.source # "none"
NewAccel(seen) ==
  /\ AccelSample.source # "none"
  /\ ~(AccelSample.source = seen.source /\ AccelSample.ms = seen.ms)

\* Variant: a quiet reading does not restart the count.
AccelAccumulated(seen, hit) ==
  [count |-> IF AccelSample.accel = hit THEN seen.count + 1 ELSE seen.count,
   ms |-> AccelSample.ms, source |-> AccelSample.source]

(* The detector after AccelSample, which counts when it is of class hit. *)
AccelCounted(seen, hit) ==
  [count |-> IF AccelSample.accel = hit THEN seen.count + 1 ELSE 0,
   ms |-> AccelSample.ms, source |-> AccelSample.source]

TickArmed ==
  /\ FlightTick("ARMED") /\ UNCHANGED <<baro, apogee, stuck, mainDeployConfirmCount, landing>>
  /\ \/ ~NewAccel(launch) /\ Stay /\ UNCHANGED <<launch, burnout>>
     \/ /\ NewAccel(launch) /\ launch' = AccelCounted(launch, "boost")
        /\ \/ launch'.count < LaunchConfirmSamples /\ Stay /\ UNCHANGED burnout
           \/ launch'.count >= LaunchConfirmSamples /\ EnterLaunch(AccelSample.ms)

TickLaunch ==
  /\ FlightTick("LAUNCH") /\ UNCHANGED <<baro, launch, mainDeployConfirmCount, landing>>
  /\ \/ ~NewAccel(burnout) /\ Stay /\ UNCHANGED <<burnout, apogee, stuck>>
     \/ /\ NewAccel(burnout) /\ burnout' = AccelCounted(burnout, "free")
        /\ \/ burnout'.count < BurnoutConfirmSamples /\ Stay /\ UNCHANGED <<apogee, stuck>>
           \/ burnout'.count >= BurnoutConfirmSamples /\ EnterCoast(AccelSample.ms)

-----------------------------------------------------------------------------
(* The stuck barometer window, followed in COAST and DROGUE.               *)

Smaller(a, b) == IF a <= b THEN a ELSE b
Larger(a, b)  == IF a >= b THEN a ELSE b

StuckFresh    == [active |-> TRUE, start |-> baro.updated, last |-> baro.updated,
                  min |-> baro.altitude, max |-> baro.altitude]
StuckWidened  == [stuck EXCEPT !.last = baro.updated,
                               !.min = Smaller(@, baro.altitude), !.max = Larger(@, baro.altitude)]
StuckFollowed == stuck.active /\ (stuck.last = 0 \/ Since(baro.updated, stuck.last) <= BarometerMaxGap)
StuckFull     == StuckFollowed /\ Since(baro.updated, stuck.start) >= StuckWindow
StuckFault    == StuckFull /\ StuckWidened.max - StuckWidened.min <= StuckRange

(* A full window with no movement latches the fault, any other full window *)
(* starts over.                                                            *)
TrackBarometerStuck ==
  /\ stuck' = IF StuckFollowed /\ (StuckFull => StuckFault) THEN StuckWidened ELSE StuckFresh
  /\ baro' = IF StuckFault THEN [baro EXCEPT !.fault = TRUE, !.valid = FALSE] ELSE baro

-----------------------------------------------------------------------------
(* COAST: a timer, then the tilt fallback under a barometer fault, or the  *)
(* barometer.                                                              *)

CoastTick == FlightTick("COAST") /\ UNCHANGED <<launch, burnout, mainDeployConfirmCount, landing>>

\* Variant: the timer backs the barometer up only while it works.
HealthyCoastTimedOut == ~baro.fault /\ Since(now, coastMs) >= ApogeeTimeout
CoastTimedOut == Since(now, coastMs) >= ApogeeTimeout

CoastTimeout ==
  /\ CoastTick /\ CoastTimedOut /\ EnterApogee(now)
  /\ UNCHANGED <<baro, apogee, stuck>>

ImuTipped == imu.tilt = "tipped" /\ Since(now, imu.updated) <= TiltMaxSampleAge

TiltObserved ==
  IF Since(now, launchMs) < TiltMinFlightTime THEN [apogee EXCEPT !.tilt = 0]
  ELSE IF imu.updated \in {0, apogee.lastTilt} THEN apogee
  ELSE [apogee EXCEPT !.lastTilt = imu.updated, !.tilt = IF ImuTipped THEN @ + 1 ELSE 0]

CoastTilt ==
  /\ CoastTick /\ ~CoastTimedOut /\ baro.fault
  /\ apogee' = TiltObserved
  /\ \/ apogee'.tilt < TiltConfirmSamples /\ Stay
     \/ apogee'.tilt >= TiltConfirmSamples /\ EnterApogee(now)
  /\ UNCHANGED <<baro, stuck>>

\* Variant: a sample is new even under the latched fault.
NewSampleAnyway(last) == baro.valid /\ baro.updated \notin {0, last}
NewSample(last) == ~baro.fault /\ baro.valid /\ baro.updated \notin {0, last}

(* The scratch once the sample is taken: after a gap the fit, the          *)
(* predictions and their confirmation start over, the descent count stays. *)
SampleTaken ==
  IF apogee.lastBaro # 0 /\ Since(baro.updated, apogee.lastBaro) > BarometerMaxGap
  THEN [apogee EXCEPT !.lastBaro = baro.updated, !.fit = 0, !.predictions = 0, !.confirm = 0]
  ELSE [apogee EXCEPT !.lastBaro = baro.updated]

SamplePushed == [SampleTaken EXCEPT !.fit = Capped(@, ApogeeFitWindow),
                                    !.maxAltitude = Larger(@, baro.altitude)]

\* Variant: the minimum flight time is not looked at.
NeverTooEarly == FALSE
TooEarlyForApogee == Since(baro.updated, launchMs) < ApogeeMinFlightTime

(* The quadratic fit is a choice: it may refuse the sample, or add a       *)
(* prediction, and with a full history find apogee near (ready).           *)
PredictionOutcomes ==
  [predictions : {SamplePushed.predictions}, ready : {FALSE}] \cup
  IF SamplePushed.fit < ApogeeFitWindow \/ baro.altitude < MinApogeeDetectAlt THEN {}
  ELSE LET pushed == Capped(SamplePushed.predictions, ApogeePredictionHistory)
       IN  [predictions : {pushed},
            ready : IF pushed >= ApogeePredictionHistory THEN BOOLEAN ELSE {FALSE}]

Descending == SamplePushed.maxAltitude - baro.altitude >= ApogeeDropThreshold

ApogeeJudged(outcome) ==
  [SamplePushed EXCEPT
     !.predictions = outcome.predictions,
     !.confirm = IF outcome.ready THEN @ + 1 ELSE 0,
     !.descent = IF Descending THEN @ + 1 ELSE 0]

(* consumeBarometerSample may itself latch the stuck fault, and then the   *)
(* sample goes no further.                                                 *)
CoastBarometer ==
  /\ CoastTick /\ ~CoastTimedOut /\ ~baro.fault
  /\ \/ ~NewSample(apogee.lastBaro) /\ Stay /\ UNCHANGED <<baro, apogee, stuck>>
     \/ /\ NewSample(apogee.lastBaro) /\ TrackBarometerStuck
        /\ \/ StuckFault /\ apogee' = SampleTaken /\ Stay
           \/ /\ ~StuckFault /\ TooEarlyForApogee /\ Stay
              /\ apogee' = [SamplePushed EXCEPT !.confirm = 0, !.descent = 0]
           \/ /\ ~StuckFault /\ ~TooEarlyForApogee
              /\ \E outcome \in PredictionOutcomes : apogee' = ApogeeJudged(outcome)
              /\ IF \/ apogee'.confirm >= ApogeeConfirmSamples
                    \/ apogee'.descent >= ApogeeDescentConfirmSamples
                 THEN EnterApogee(baro.updated) ELSE Stay

-----------------------------------------------------------------------------
(* APOGEE: the drogue pulse. *)

\* Variant: off by one.
PulseLongOver(since) == Since(now, since) > PyroFireDuration
PulseOver(since) == Since(now, since) >= PyroFireDuration

TickApogee ==
  /\ FlightTick("APOGEE") /\ UNCHANGED <<baro, launch, burnout, apogee, landing>>
  /\ \/ /\ ~primaryDrogueOff /\ PulseOver(apogeeMs)
        /\ droguePyro' = FALSE /\ primaryDrogueOff' = TRUE /\ drogueSequenceComplete' = TRUE
        /\ EnterDrogue(now)
        /\ UNCHANGED <<launchMs, coastMs, apogeeMs, deployMs,
                       mainSequenceComplete, mainPyroOff, mainPyro, deployFired>>
     \/ /\ ~(~primaryDrogueOff /\ PulseOver(apogeeMs))
        /\ Stay /\ UNCHANGED <<stuck, mainDeployConfirmCount>>

-----------------------------------------------------------------------------
(* DROGUE: main deploys on confirmed altitude, or on a timer under a       *)
(* barometer fault.                                                        *)

BarometerPrimaryUsable ==
  ~baro.fault /\ baro.valid /\ baro.updated # 0 /\ Since(now, baro.updated) <= BarometerMaxGap

NewDrogueSample == BarometerPrimaryUsable /\ baro.updated # apogee.lastBaro

\* Variant: a high altitude does not restart the count.
MainDeployAccumulated(new, fault) ==
  IF new /\ ~fault /\ baro.altitude <= MainDeployAltitude THEN mainDeployConfirmCount + 1
  ELSE IF fault THEN 0 ELSE mainDeployConfirmCount

MainDeployCounted(new, fault) ==
  IF new /\ ~fault /\ baro.altitude <= MainDeployAltitude THEN mainDeployConfirmCount + 1
  ELSE IF new \/ fault THEN 0 ELSE mainDeployConfirmCount

MainFaultTimerReached(fault) == fault /\ Since(now, drogueMs) >= MainFaultTimeout

TickDrogue ==
  /\ FlightTick("DROGUE") /\ UNCHANGED <<launch, burnout>>
  /\ \/ /\ NewDrogueSample /\ TrackBarometerStuck
        /\ apogee' = [apogee EXCEPT !.lastBaro = baro.updated]
     \/ ~NewDrogueSample /\ UNCHANGED <<baro, stuck, apogee>>
  /\ mainDeployConfirmCount' = MainDeployCounted(NewDrogueSample, baro'.fault)
  /\ IF \/ mainDeployConfirmCount' >= MainDeployConfirmSamples
        \/ MainFaultTimerReached(baro'.fault)
     THEN EnterDeploy(now) ELSE Stay /\ UNCHANGED landing

-----------------------------------------------------------------------------
(* DEPLOY: the main pulse, and only then the landing window.               *)

LandingSampleTaken ==
  LET kept == IF landing.last # 0 /\ Since(baro.updated, landing.last) > LandingMaxGap
              THEN <<>> ELSE landing.window
      full == Append(kept, baro.altitude)
  IN  [last |-> baro.updated,
       window |-> IF Len(full) > LandingWindow THEN Tail(full) ELSE full]

\* Variant: only neighbouring altitudes are compared.
LandingSteady(window) ==
  /\ Len(window) >= LandingWindow
  /\ \A i \in 1..(Len(window) - 1) : Larger(window[i] - window[i + 1], window[i + 1] - window[i]) <= LandingRange

(* Highest less lowest of the full window. *)
LandingStable(window) ==
  /\ Len(window) >= LandingWindow
  /\ \A i, j \in 1..Len(window) : window[i] - window[j] <= LandingRange

MainOutDue  == ~mainPyroOff /\ PulseOver(deployMs)
\* Variant: the landing window opens with DEPLOY.
LandingAlwaysOpen == TRUE
LandingOpen == mainSequenceComplete \/ MainOutDue
TouchDown   == LandingOpen /\ NewSample(landing.last) /\ LandingStable(LandingSampleTaken.window)

(* The main channel goes off in the tick that finds its pulse over; from   *)
(* that tick on the landing window is filled.                              *)
TickDeploy ==
  /\ FlightTick("DEPLOY")
  /\ mainPyroOff' = (mainPyroOff \/ MainOutDue) /\ mainSequenceComplete' = LandingOpen
  /\ landing' = IF LandingOpen /\ NewSample(landing.last) THEN LandingSampleTaken ELSE landing
  /\ \/ TouchDown /\ state' = "GROUND" /\ PyroAllOff
     \/ ~TouchDown /\ mainPyro' = (mainPyro /\ ~MainOutDue) /\ UNCHANGED <<state, droguePyro>>
  /\ UNCHANGED <<baro, stamps, drogueSequenceComplete, primaryDrogueOff, deployFired,
                 launch, burnout, apogee, stuck, mainDeployConfirmCount>>

-----------------------------------------------------------------------------
(* Uplink: TelemetryTask posts under the guards it reads in the same pass, *)
(* after the state machine's tick; then the next pass begins.              *)

ArmPostable ==
  "arm" \in Commands /\ state = "SAFE" /\ ~abort /\ armRequest = None /\ resetRequest = None

ForcePostable ==
  "force" \in Commands /\ ~deployFired /\ StateAllowsForceRecoveryDeploy(state)

ResetPostable == "reset" \in Commands /\ BenchResetBuild

Post ==
  \/ UNCHANGED mailbox
  \/ ArmPostable /\ \E seq \in Seqs : PostArm(seq)
  \/ ForcePostable /\ \E seq \in Seqs : PostForce(seq)
  \/ ResetPostable /\ \E seq \in Seqs : PostReset(seq)

Uplink ==
  /\ turn = "uplink" /\ turn' = "sensors"
  /\ \E gap \in 1..MaxTickGap : now + gap <= MaxTime /\ now' = now + gap
  /\ Post
  /\ UNCHANGED <<baro, sensors, state, stamps, sequence, detectors, pyro>>

(* The model's clock has run out; the vehicle's has not. *)
Horizon == turn = "uplink" /\ now = MaxTime /\ UNCHANGED vars

Next ==
  \/ Sense
  \/ AbortToSafe \/ ExecuteBenchReset \/ ExecuteArm \/ ExecuteForce
  \/ TickInit \/ TickIdle \/ TickArmed \/ TickLaunch
  \/ CoastTimeout \/ CoastTilt \/ CoastBarometer
  \/ TickApogee \/ TickDrogue \/ TickDeploy
  \/ Uplink \/ Horizon

Spec == Init /\ [][Next]_vars

-----------------------------------------------------------------------------
(* Properties.  "After a tick" is turn = "uplink". *)

(* Each pyro channel is energised in its own state only, hence never both: *)
(* no way into or out of a state leaves a channel on behind it.            *)
PyroInterlock ==
  /\ droguePyro => state = "APOGEE"
  /\ mainPyro => state = "DEPLOY"

(* Once the abort is up, the next tick has switched both channels off and  *)
(* the flight is over, whatever state, pulse or pending command it meets.  *)
AbortGrounds ==
  abort /\ turn = "uplink" => state \in {"SAFE", "INIT"} /\ ~droguePyro /\ ~mainPyro

(* No tick leaves the vehicle coasting past the apogee timeout: neither    *)
(* the barometer nor its fault may keep the drogue from being fired.       *)
CoastBounded ==
  state = "COAST" /\ turn = "uplink" => Since(now, coastMs) < ApogeeTimeout

(* No tick leaves a channel energised for longer than the pulse.           *)
PulsesBounded ==
  turn = "uplink" =>
    /\ droguePyro => Since(now, apogeeMs) < PyroFireDuration
    /\ mainPyro => Since(now, deployMs) < PyroFireDuration

(* A drogue fired on what the sensors say, neither forced nor timed out,   *)
(* is fired after its minimum flight time, measured by the loop's clock.   *)
SensorApogeeNotEarly ==
  [][state = "COAST" /\ state' = "APOGEE" /\ ~ForcePending /\ ~CoastTimedOut
     => now - launchMs >= IF baro.fault THEN TiltMinFlightTime ELSE ApogeeMinFlightTime]_vars

(* Once latched, the barometer fault is final: the flight only goes on     *)
(* without altitudes, so main waits for its timer and landing is never     *)
(* declared.                                                               *)
FaultedBarometerIgnored ==
  [][baro.fault => /\ baro'.fault
                   /\ state = "DROGUE" /\ state' = "DEPLOY" => now - drogueMs >= MainFaultTimeout
                   /\ state' = "GROUND" => state = "GROUND"]_vars

(* The state machine does what RecoverySequence promises.                  *)
PhaseOf(s) ==
  CASE s \in {"INIT", "SAFE"} -> "Pad"
    [] s = "ARMED" -> "Armed"
    [] s \in {"LAUNCH", "COAST"} -> "Ascent"
    [] s = "APOGEE" -> "DrogueFiring"
    [] s = "DROGUE" -> "Descent"
    [] s = "DEPLOY" -> "MainDeployed"
    [] s = "GROUND" -> "Ground"

R == INSTANCE RecoverySequence WITH phase <- PhaseOf(state), drogue <- droguePyro, main <- mainPyro

RecoveryRefined == R!Spec
=============================================================================
