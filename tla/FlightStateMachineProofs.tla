----------------------- MODULE FlightStateMachineProofs -----------------------
(***************************************************************************)
(* Theorems of FlightStateMachine and of what MCFlight observes of it, for *)
(* every value of the constants.                                           *)
(***************************************************************************)
EXTENDS MCFlight, SequenceTheorems, TLAPS
LOCAL INSTANCE SequencesExt

(* A detector that has not decided yet is below its confirmation count.    *)
Undecided ==
  /\ state = "ARMED" => launch.count < LaunchConfirmSamples
  /\ state = "LAUNCH" => burnout.count < BurnoutConfirmSamples
  /\ state = "COAST" => /\ apogee.confirm < ApogeeConfirmSamples
                        /\ apogee.descent < ApogeeDescentConfirmSamples
                        /\ apogee.tilt < TiltConfirmSamples
  /\ state = "DROGUE" => mainDeployConfirmCount < MainDeployConfirmSamples

(* TypeOK bounds the counts, and is inductive only with Undecided.         *)
TInv == TypeOK /\ Undecided

(* The levels of the channels follow from the state and its sequence flags. *)
PulseInv ==
  /\ droguePyro <=> state = "APOGEE"
  /\ state = "APOGEE" => ~primaryDrogueOff
  /\ mainPyro => state = "DEPLOY"
  /\ state = "DEPLOY" => (mainPyro <=> ~mainPyroOff) /\ (mainSequenceComplete <=> mainPyroOff)

-----------------------------------------------------------------------------
(* What the helpers return. *)

LEMMA CountsPositive ==
  /\ LaunchConfirmSamples \in Nat \ {0} /\ BurnoutConfirmSamples \in Nat \ {0}
  /\ ApogeeFitWindow \in Nat \ {0} /\ ApogeePredictionHistory \in Nat \ {0}
  /\ ApogeeConfirmSamples \in Nat \ {0} /\ ApogeeDescentConfirmSamples \in Nat \ {0}
  /\ TiltConfirmSamples \in Nat \ {0} /\ MainDeployConfirmSamples \in Nat \ {0}
  /\ LandingWindow \in Nat \ {0}
BY ThresholdAssumption

LEMMA ZeroIsATime == 0 \in Times /\ Times \subseteq Nat
BY FlightAssumption DEF Times

LEMMA CappedType ==
  ASSUME NEW limit \in Nat, NEW n \in 0..limit
  PROVE  Capped(n, limit) \in 0..limit
BY DEF Capped

LEMMA AccelSampleType ==
  ASSUME TypeOK
  PROVE  AccelSample \in [source : {"none", "low", "high"}, ms : Times, accel : AccelClasses]
<1>1. "free" \in AccelClasses
  BY DEF AccelClasses
<1> QED
  BY <1>1, ZeroIsATime DEF TypeOK, AccelSample

LEMMA AccelCountedType ==
  ASSUME TypeOK, NEW n \in Nat \ {0}, NEW seen \in AccelDetectors(n), seen.count < n, NEW hit
  PROVE  AccelCounted(seen, hit) \in AccelDetectors(n)
BY AccelSampleType DEF AccelCounted, AccelDetectors

LEMMA NoAccelType ==
  ASSUME NEW n \in Nat \ {0}
  PROVE  NoAccel \in AccelDetectors(n) /\ NoAccel.count < n
BY ZeroIsATime DEF NoAccel, AccelDetectors

LEMMA FreshStuckType == NoStuck \in StuckScratch
BY ZeroIsATime DEF NoStuck, StuckScratch

LEMMA FreshLandingType == NoLanding \in LandingScratch /\ Len(NoLanding.window) <= LandingWindow
<1>1. /\ NoLanding.window = <<>> /\ <<>> \in Seq(Int) /\ Len(<<>>) = 0
  BY DEF NoLanding
<1> QED
  BY <1>1, ZeroIsATime, CountsPositive DEF NoLanding, LandingScratch

LEMMA EmptyApogeeType ==
  ASSUME NEW a \in Int
  PROVE  [confirm |-> 0, descent |-> 0, tilt |-> 0, lastTilt |-> 0, lastBaro |-> 0,
          fit |-> 0, predictions |-> 0, maxAltitude |-> a] \in ApogeeScratch
<1>1. /\ 0 \in 0..ApogeeConfirmSamples /\ 0 \in 0..ApogeeDescentConfirmSamples
      /\ 0 \in 0..TiltConfirmSamples /\ 0 \in 0..ApogeeFitWindow
      /\ 0 \in 0..ApogeePredictionHistory
  BY CountsPositive
<1>2. 0 \in Times
  BY ZeroIsATime
<1> QED
  BY <1>1, <1>2 DEF ApogeeScratch

LEMMA FreshApogeeType == NoApogee \in ApogeeScratch
BY EmptyApogeeType DEF NoApogee

LEMMA CoastApogeeType ==
  ASSUME NEW a \in Int
  PROVE  /\ [NoApogee EXCEPT !.maxAltitude = a] \in ApogeeScratch
         /\ [NoApogee EXCEPT !.maxAltitude = a].confirm = 0
         /\ [NoApogee EXCEPT !.maxAltitude = a].descent = 0
         /\ [NoApogee EXCEPT !.maxAltitude = a].tilt = 0
<1>1. [NoApogee EXCEPT !.maxAltitude = a]
        = [confirm |-> 0, descent |-> 0, tilt |-> 0, lastTilt |-> 0, lastBaro |-> 0,
           fit |-> 0, predictions |-> 0, maxAltitude |-> a]
  BY DEF NoApogee
<1> QED
  BY <1>1, EmptyApogeeType

LEMMA StuckTrackedType ==
  ASSUME TypeOK, TrackBarometerStuck
  PROVE  stuck' \in StuckScratch /\ baro' \in Barometer
<1>1. /\ baro \in Barometer /\ stuck \in StuckScratch
  BY DEF TypeOK
<1>2. /\ Smaller(stuck.min, baro.altitude) \in Int /\ Larger(stuck.max, baro.altitude) \in Int
      /\ baro.updated \in Times /\ baro.altitude \in Int
  BY <1>1 DEF Barometer, StuckScratch, Smaller, Larger
<1>3. StuckWidened \in StuckScratch
  BY <1>1, <1>2 DEF StuckWidened, StuckScratch
<1>4. StuckFresh \in StuckScratch
  BY <1>2 DEF StuckFresh, StuckScratch
<1>5. [baro EXCEPT !.fault = TRUE, !.valid = FALSE] \in Barometer
  BY <1>1 DEF Barometer
<1> QED
  BY <1>1, <1>3, <1>4, <1>5 DEF TrackBarometerStuck

LEMMA SampleTakenType ==
  ASSUME TypeOK
  PROVE  /\ SampleTaken \in ApogeeScratch
         /\ SampleTaken.confirm \in {0, apogee.confirm}
         /\ SampleTaken.descent = apogee.descent /\ SampleTaken.tilt = apogee.tilt
<1>1. apogee \in ApogeeScratch /\ baro.updated \in Times
  BY DEF TypeOK, Barometer
<1>2. /\ 0 \in 0..ApogeeConfirmSamples /\ 0 \in 0..ApogeeFitWindow
      /\ 0 \in 0..ApogeePredictionHistory
  BY CountsPositive
<1>3. CASE SampleTaken = [apogee EXCEPT !.lastBaro = baro.updated, !.fit = 0,
                                        !.predictions = 0, !.confirm = 0]
  BY <1>1, <1>2, <1>3 DEF ApogeeScratch
<1>4. CASE SampleTaken = [apogee EXCEPT !.lastBaro = baro.updated]
  BY <1>1, <1>4 DEF ApogeeScratch
<1> QED
  BY <1>3, <1>4 DEF SampleTaken

LEMMA SamplePushedType ==
  ASSUME TypeOK
  PROVE  /\ SamplePushed \in ApogeeScratch
         /\ SamplePushed.confirm \in {0, apogee.confirm}
         /\ SamplePushed.descent = apogee.descent /\ SamplePushed.tilt = apogee.tilt
<1> DEFINE taken == SampleTaken
<1>1. /\ taken \in ApogeeScratch /\ taken.confirm \in {0, apogee.confirm}
      /\ taken.descent = apogee.descent /\ taken.tilt = apogee.tilt
  BY SampleTakenType
<1>2. SamplePushed = [taken EXCEPT !.fit = Capped(@, ApogeeFitWindow),
                                   !.maxAltitude = Larger(@, baro.altitude)]
  BY DEF SamplePushed
<1> HIDE DEF taken
<1>3. Capped(taken.fit, ApogeeFitWindow) \in 0..ApogeeFitWindow
  BY <1>1, CappedType, CountsPositive DEF ApogeeScratch
<1>4. Larger(taken.maxAltitude, baro.altitude) \in Int
  BY <1>1 DEF TypeOK, ApogeeScratch, Barometer, Larger
<1> QED
  BY <1>1, <1>2, <1>3, <1>4 DEF ApogeeScratch

LEMMA TiltObservedType ==
  ASSUME TypeOK, apogee.tilt < TiltConfirmSamples
  PROVE  /\ TiltObserved \in ApogeeScratch
         /\ TiltObserved.confirm = apogee.confirm /\ TiltObserved.descent = apogee.descent
<1>1. apogee \in ApogeeScratch /\ imu.updated \in Times
  BY DEF TypeOK
<1>2. /\ 0 \in 0..TiltConfirmSamples
      /\ (IF ImuTipped THEN apogee.tilt + 1 ELSE 0) \in 0..TiltConfirmSamples
  BY <1>1, CountsPositive DEF ApogeeScratch
<1>3. CASE TiltObserved = [apogee EXCEPT !.tilt = 0]
  BY <1>1, <1>2, <1>3 DEF ApogeeScratch
<1>4. CASE TiltObserved = apogee
  BY <1>1, <1>4
<1>5. CASE TiltObserved = [apogee EXCEPT !.lastTilt = imu.updated,
                                         !.tilt = IF ImuTipped THEN @ + 1 ELSE 0]
  BY <1>1, <1>2, <1>5 DEF ApogeeScratch
<1> QED
  BY <1>3, <1>4, <1>5 DEF TiltObserved

LEMMA ApogeeJudgedType ==
  ASSUME TypeOK, apogee.confirm < ApogeeConfirmSamples,
         apogee.descent < ApogeeDescentConfirmSamples, NEW outcome \in PredictionOutcomes
  PROVE  ApogeeJudged(outcome) \in ApogeeScratch /\ ApogeeJudged(outcome).tilt = apogee.tilt
<1> DEFINE pushed == SamplePushed
           confirm == IF outcome.ready THEN pushed.confirm + 1 ELSE 0
           descent == IF Descending THEN pushed.descent + 1 ELSE 0
<1>1. /\ pushed \in ApogeeScratch /\ pushed.confirm \in {0, apogee.confirm}
      /\ pushed.descent = apogee.descent /\ pushed.tilt = apogee.tilt
  BY SamplePushedType
<1>2. outcome.predictions \in 0..ApogeePredictionHistory
  <2>1. /\ pushed.predictions \in 0..ApogeePredictionHistory
        /\ Capped(pushed.predictions, ApogeePredictionHistory) \in 0..ApogeePredictionHistory
    BY <1>1, CappedType, CountsPositive DEF ApogeeScratch
  <2> QED
    BY <2>1 DEF PredictionOutcomes
<1>3. ApogeeJudged(outcome) = [pushed EXCEPT !.predictions = outcome.predictions,
                                             !.confirm = confirm, !.descent = descent]
  BY DEF ApogeeJudged
<1>4. confirm \in 0..ApogeeConfirmSamples /\ descent \in 0..ApogeeDescentConfirmSamples
  <2>1. /\ pushed.confirm \in Nat /\ pushed.confirm < ApogeeConfirmSamples
        /\ pushed.descent \in Nat /\ pushed.descent < ApogeeDescentConfirmSamples
    <3>1. apogee.confirm \in Nat /\ apogee.descent \in Nat
      BY DEF TypeOK, ApogeeScratch
    <3> HIDE DEF pushed
    <3> QED
      BY <1>1, <3>1, CountsPositive
  <2> HIDE DEF pushed
  <2> QED
    BY <2>1, CountsPositive
<1> HIDE DEF pushed, confirm, descent
<1> QED
  BY <1>1, <1>2, <1>3, <1>4 DEF ApogeeScratch

LEMMA LandingTakenType ==
  ASSUME TypeOK
  PROVE  LandingSampleTaken \in LandingScratch /\ Len(LandingSampleTaken.window) <= LandingWindow
<1> DEFINE kept == IF landing.last # 0 /\ Since(baro.updated, landing.last) > LandingMaxGap
                   THEN <<>> ELSE landing.window
           full == Append(kept, baro.altitude)
<1>1. /\ landing.window \in Seq(Int) /\ Len(landing.window) <= LandingWindow
      /\ baro.altitude \in Int /\ baro.updated \in Times
  BY DEF TypeOK, LandingScratch, Barometer
<1>2. kept \in Seq(Int) /\ Len(kept) <= LandingWindow
  <2>1. CASE kept = <<>>
    <3>1. <<>> \in Seq(Int) /\ Len(<<>>) = 0
      OBVIOUS
    <3> HIDE DEF kept
    <3> QED
      BY <2>1, <3>1, CountsPositive
  <2>2. CASE kept = landing.window
    BY <1>1, <2>2
  <2>3. kept = <<>> \/ kept = landing.window
    OBVIOUS
  <2> HIDE DEF kept
  <2> QED
    BY <2>1, <2>2, <2>3
<1> HIDE DEF kept
<1>3. full \in Seq(Int) /\ Len(full) = Len(kept) + 1 /\ full # <<>>
  BY <1>1, <1>2, AppendProperties
<1>4. LandingSampleTaken = [last |-> baro.updated,
                            window |-> IF Len(full) > LandingWindow THEN Tail(full) ELSE full]
  BY DEF LandingSampleTaken, kept
<1> HIDE DEF full
<1>5. Tail(full) \in Seq(Int) /\ Len(Tail(full)) = Len(kept)
  BY <1>2, <1>3
<1> QED
  BY <1>1, <1>2, <1>3, <1>4, <1>5, CountsPositive DEF LandingScratch
LEMMA MailboxKept ==
  ASSUME MailboxTypeOK,
         \/ UNCHANGED mailbox \/ RefuseAll
         \/ armRequest # None /\ HonourArm
         \/ forceRequest # None /\ HonourForce
         \/ resetRequest # None /\ HonourReset
         \/ Post
  PROVE  MailboxTypeOK'
BY DEF MailboxTypeOK, SeqOrNone, mailbox, RefuseAll, RefuseArm, HonourArm, HonourForce, HonourReset,
       Post, PostArm, PostForce, PostReset

-----------------------------------------------------------------------------
(* Types: one lemma for each action. *)

LEMMA InitTyped == Init => TInv
<1> SUFFICES ASSUME Init PROVE TInv
  OBVIOUS
<1>1. 1 \in Times /\ 0 \in Times
  BY FlightAssumption DEF Times
<1>2. /\ launch \in AccelDetectors(LaunchConfirmSamples)
      /\ burnout \in AccelDetectors(BurnoutConfirmSamples)
  BY NoAccelType, CountsPositive DEF Init
<1>3. apogee \in ApogeeScratch /\ stuck \in StuckScratch
  BY FreshApogeeType, FreshStuckType DEF Init
<1>4. landing \in LandingScratch /\ Len(landing.window) <= LandingWindow
  BY FreshLandingType DEF Init
<1>5. MailboxTypeOK
  BY DEF Init, MailboxInit, MailboxTypeOK, SeqOrNone
<1>6. baro \in Barometer
  BY <1>1 DEF Init, Barometer
<1>7. /\ imu \in [updated : Times, accel : AccelClasses, tilt : TiltClasses]
      /\ highG \in [updated : Times, accel : AccelClasses, usable : BOOLEAN]
  BY <1>1 DEF Init, AccelClasses, TiltClasses
<1>8. mainDeployConfirmCount \in 0..MainDeployConfirmSamples
  BY CountsPositive DEF Init
<1> QED
  BY <1>1, <1>2, <1>3, <1>4, <1>5, <1>6, <1>7, <1>8 DEF Init, TInv, TypeOK, Undecided, States

LEMMA SenseTyped == ASSUME TInv, Sense PROVE TInv'
<1>1. baro' \in Barometer
  <2>1. baro \in Barometer /\ now \in Times /\ Altitudes \subseteq Int
    BY FlightAssumption DEF TInv, TypeOK
  <2> QED
    BY <2>1 DEF Sense, SenseBarometer, Barometer
<1>2. imu' \in [updated : Times, accel : AccelClasses, tilt : TiltClasses]
  BY FlightAssumption DEF TInv, TypeOK, Sense, SenseImu
<1>3. highG' \in [updated : Times, accel : AccelClasses, usable : BOOLEAN]
  <2>1. /\ highG \in [updated : Times, accel : AccelClasses, usable : BOOLEAN]
        /\ now \in Times /\ Accels \subseteq AccelClasses
    BY FlightAssumption DEF TInv, TypeOK
  <2>2. CASE UNCHANGED highG
    BY <2>1, <2>2
  <2>3. CASE \E a \in Accels : highG' = [updated |-> now, accel |-> a, usable |-> TRUE]
    BY <2>1, <2>3
  <2>4. CASE highG' = [highG EXCEPT !.usable = FALSE]
    BY <2>1, <2>4
  <2> QED
    BY <2>2, <2>3, <2>4 DEF Sense, SenseHighG
<1>4. abort' \in BOOLEAN
  BY FlightAssumption DEF TInv, TypeOK, Sense, RaiseAbort
<1> QED
  BY <1>1, <1>2, <1>3, <1>4
  DEF Sense, TInv, TypeOK, Undecided, stamps, sequence, detectors, pyro, mailbox,
      MailboxTypeOK

LEMMA SafeScratchTyped ==
  ASSUME ResetFlightScratch
  PROVE  /\ launch' \in AccelDetectors(LaunchConfirmSamples)
         /\ burnout' \in AccelDetectors(BurnoutConfirmSamples)
         /\ apogee' \in ApogeeScratch /\ stuck' \in StuckScratch
         /\ mainDeployConfirmCount' \in 0..MainDeployConfirmSamples
         /\ landing' \in LandingScratch /\ Len(landing'.window) <= LandingWindow
         /\ primaryDrogueOff' \in BOOLEAN /\ mainPyroOff' \in BOOLEAN
<1>1. launch' = NoAccel /\ burnout' = NoAccel /\ apogee' = NoApogee /\ stuck' = NoStuck
      /\ mainDeployConfirmCount' = 0 /\ landing' = NoLanding
      /\ primaryDrogueOff' = FALSE /\ mainPyroOff' = FALSE
  BY DEF ResetFlightScratch
<1>2. /\ launch' \in AccelDetectors(LaunchConfirmSamples)
      /\ burnout' \in AccelDetectors(BurnoutConfirmSamples)
  BY <1>1, NoAccelType, CountsPositive
<1>3. apogee' \in ApogeeScratch /\ stuck' \in StuckScratch
  BY <1>1, FreshApogeeType, FreshStuckType
<1>4. landing' \in LandingScratch /\ Len(landing'.window) <= LandingWindow
  BY <1>1, FreshLandingType
<1>5. mainDeployConfirmCount' \in 0..MainDeployConfirmSamples
  BY <1>1, CountsPositive
<1>6. primaryDrogueOff' \in BOOLEAN /\ mainPyroOff' \in BOOLEAN
  BY <1>1
<1> QED
  BY <1>2, <1>3, <1>4, <1>5, <1>6

LEMMA AbortToSafeTyped == ASSUME TInv, AbortToSafe PROVE TInv'
<1>1. MailboxTypeOK'
  BY MailboxKept DEF TInv, TypeOK, AbortToSafe
<1> QED
  BY <1>1, SafeScratchTyped
  DEF AbortToSafe, FsmStep, EnterSafe, PyroAllOff, TInv, TypeOK, Undecided, States, stamps, sensors

LEMMA ExecuteBenchResetTyped == ASSUME TInv, ExecuteBenchReset PROVE TInv'
<1>1. MailboxTypeOK'
  BY MailboxKept DEF TInv, TypeOK, ExecuteBenchReset, ResetPending
<1> QED
  BY <1>1, SafeScratchTyped, ZeroIsATime
  DEF ExecuteBenchReset, FsmStep, PyroAllOff, TInv, TypeOK, Undecided, States, sensors

LEMMA ExecuteArmTyped == ASSUME TInv, ExecuteArm PROVE TInv'
<1>1. MailboxTypeOK'
  BY MailboxKept DEF TInv, TypeOK, ExecuteArm, ArmPending
<1>2. /\ launch' \in AccelDetectors(LaunchConfirmSamples) /\ launch'.count < LaunchConfirmSamples
      /\ apogee' \in ApogeeScratch /\ stuck' \in StuckScratch
  BY NoAccelType, FreshApogeeType, FreshStuckType, CountsPositive DEF ExecuteArm
<1> QED
  BY <1>1, <1>2
  DEF ExecuteArm, FsmStep, TInv, TypeOK, Undecided, States, sensors, stamps, sequence, pyro

LEMMA ExecuteForceTyped == ASSUME TInv, ExecuteForce PROVE TInv'
<1>1. MailboxTypeOK'
  BY MailboxKept DEF TInv, TypeOK, ExecuteForce, ForcePending
<1> QED
  BY <1>1
  DEF ExecuteForce, EnterApogee, FsmStep, TInv, TypeOK, Undecided, States, sensors, detectors

LEMMA FlightTickMailbox == ASSUME TInv, NEW s, FlightTick(s) PROVE MailboxTypeOK'
BY MailboxKept DEF TInv, TypeOK, FlightTick

LEMMA TickInitTyped == ASSUME TInv, TickInit PROVE TInv'
<1>1. MailboxTypeOK'
  BY FlightTickMailbox DEF TickInit
<1> QED
  BY <1>1, SafeScratchTyped
  DEF TickInit, FlightTick, FsmStep, EnterSafe, PyroAllOff, TInv, TypeOK, Undecided, States, stamps, sensors

LEMMA TickIdleTyped == ASSUME TInv, TickIdle PROVE TInv'
<1>1. MailboxTypeOK'
  BY FlightTickMailbox DEF TickIdle
<1> QED
  BY <1>1
  DEF TickIdle, FlightTick, FsmStep, Stay, TInv, TypeOK, Undecided, States, stamps, sensors,
      sequence, pyro, detectors
LEMMA TickArmedTyped == ASSUME TInv, TickArmed PROVE TInv'
<1>1. MailboxTypeOK'
  BY FlightTickMailbox DEF TickArmed
<1>2. CASE ~NewAccel(launch)
  BY <1>1, <1>2
  DEF TickArmed, FlightTick, FsmStep, Stay, TInv, TypeOK, Undecided, stamps, sensors, sequence, pyro
<1>3. CASE NewAccel(launch)
  <2>1. launch' \in AccelDetectors(LaunchConfirmSamples) /\ AccelSample.ms \in Times
    BY <1>3, AccelCountedType, AccelSampleType, CountsPositive
    DEF TickArmed, FlightTick, TInv, TypeOK, Undecided
  <2>2. CASE launch'.count < LaunchConfirmSamples /\ Stay /\ UNCHANGED burnout
    BY <1>1, <2>1, <2>2
    DEF TickArmed, FlightTick, FsmStep, Stay, TInv, TypeOK, Undecided, stamps, sensors, sequence, pyro
  <2>3. CASE EnterLaunch(AccelSample.ms)
    <3>1. burnout' \in AccelDetectors(BurnoutConfirmSamples) /\ burnout'.count < BurnoutConfirmSamples
      BY <2>3, NoAccelType, CountsPositive DEF EnterLaunch
    <3> QED
      BY <1>1, <2>1, <2>3, <3>1
      DEF TickArmed, FlightTick, FsmStep, EnterLaunch, TInv, TypeOK, Undecided, States, sensors,
          sequence, pyro
  <2> QED
    BY <1>3, <2>2, <2>3 DEF TickArmed
<1> QED
  BY <1>2, <1>3

LEMMA TickLaunchTyped == ASSUME TInv, TickLaunch PROVE TInv'
<1>1. MailboxTypeOK'
  BY FlightTickMailbox DEF TickLaunch
<1>2. CASE ~NewAccel(burnout)
  BY <1>1, <1>2
  DEF TickLaunch, FlightTick, FsmStep, Stay, TInv, TypeOK, Undecided, stamps, sensors, sequence, pyro
<1>3. CASE NewAccel(burnout)
  <2>1. burnout' \in AccelDetectors(BurnoutConfirmSamples) /\ AccelSample.ms \in Times
    BY <1>3, AccelCountedType, AccelSampleType, CountsPositive
    DEF TickLaunch, FlightTick, TInv, TypeOK, Undecided
  <2>2. CASE burnout'.count < BurnoutConfirmSamples /\ Stay /\ UNCHANGED <<apogee, stuck>>
    BY <1>1, <2>1, <2>2
    DEF TickLaunch, FlightTick, FsmStep, Stay, TInv, TypeOK, Undecided, stamps, sensors, sequence, pyro
  <2>3. CASE EnterCoast(AccelSample.ms)
    <3>1. baro.altitude \in Int
      BY DEF TInv, TypeOK, Barometer
    <3>2. apogee' = [NoApogee EXCEPT !.maxAltitude = baro.altitude] /\ stuck' = NoStuck
      BY <2>3 DEF EnterCoast
    <3>3. /\ apogee' \in ApogeeScratch /\ stuck' \in StuckScratch
          /\ apogee'.confirm = 0 /\ apogee'.descent = 0 /\ apogee'.tilt = 0
      BY <3>1, <3>2, CoastApogeeType, FreshStuckType
    <3> QED
      BY <1>1, <2>1, <2>3, <3>3, CountsPositive
      DEF TickLaunch, FlightTick, FsmStep, EnterCoast, TInv, TypeOK, Undecided, States, sensors,
          sequence, pyro
  <2> QED
    BY <1>3, <2>2, <2>3 DEF TickLaunch
<1> QED
  BY <1>2, <1>3

LEMMA ApogeeEntryTyped ==
  ASSUME TInv, FsmStep, NEW t \in Times, EnterApogee(t), MailboxTypeOK',
         apogee' \in ApogeeScratch, stuck' \in StuckScratch, baro' \in Barometer,
         UNCHANGED <<launch, burnout, mainDeployConfirmCount, landing>>
  PROVE  TInv'
BY DEF FsmStep, EnterApogee, TInv, TypeOK, Undecided, States, sensors

LEMMA CoastStayTyped ==
  ASSUME TInv, FsmStep, state = "COAST", Stay, MailboxTypeOK',
         apogee' \in ApogeeScratch, stuck' \in StuckScratch, baro' \in Barometer,
         apogee'.confirm < ApogeeConfirmSamples, apogee'.descent < ApogeeDescentConfirmSamples,
         apogee'.tilt < TiltConfirmSamples,
         UNCHANGED <<launch, burnout, mainDeployConfirmCount, landing>>
  PROVE  TInv'
BY DEF FsmStep, Stay, TInv, TypeOK, Undecided, sensors, stamps, sequence, pyro

LEMMA CoastTimeoutTyped == ASSUME TInv, CoastTimeout PROVE TInv'
<1>1. MailboxTypeOK' /\ FsmStep
  BY FlightTickMailbox DEF CoastTimeout, CoastTick, FlightTick
<1>2. now \in Times /\ apogee' \in ApogeeScratch /\ stuck' \in StuckScratch /\ baro' \in Barometer
  BY DEF TInv, TypeOK, CoastTimeout
<1> QED
  BY <1>1, <1>2, ApogeeEntryTyped DEF CoastTimeout, CoastTick

LEMMA CoastTiltTyped == ASSUME TInv, CoastTilt PROVE TInv'
<1>1. MailboxTypeOK' /\ FsmStep /\ state = "COAST"
  BY FlightTickMailbox DEF CoastTilt, CoastTick, FlightTick
<1>2. now \in Times /\ stuck' \in StuckScratch /\ baro' \in Barometer
  BY DEF TInv, TypeOK, CoastTilt
<1>3. /\ apogee' \in ApogeeScratch
      /\ apogee'.confirm < ApogeeConfirmSamples /\ apogee'.descent < ApogeeDescentConfirmSamples
  BY <1>1, TiltObservedType DEF TInv, Undecided, CoastTilt
<1>4. CASE EnterApogee(now)
  BY <1>1, <1>2, <1>3, <1>4, ApogeeEntryTyped DEF CoastTilt, CoastTick
<1>5. CASE apogee'.tilt < TiltConfirmSamples /\ Stay
  BY <1>1, <1>2, <1>3, <1>5, CoastStayTyped DEF CoastTilt, CoastTick
<1> QED
  BY <1>4, <1>5 DEF CoastTilt

LEMMA CoastBarometerTyped == ASSUME TInv, CoastBarometer PROVE TInv'
<1>1. /\ MailboxTypeOK' /\ FsmStep /\ state = "COAST"
      /\ UNCHANGED <<launch, burnout, mainDeployConfirmCount, landing>>
  BY FlightTickMailbox DEF CoastBarometer, CoastTick, FlightTick
<1>2. /\ TypeOK /\ apogee.confirm < ApogeeConfirmSamples
      /\ apogee.descent < ApogeeDescentConfirmSamples /\ apogee.tilt < TiltConfirmSamples
  BY <1>1 DEF TInv, Undecided
<1>3. CASE Stay /\ UNCHANGED <<baro, apogee, stuck>>
  BY <1>1, <1>2, <1>3, CoastStayTyped DEF TypeOK
<1>4. ASSUME TrackBarometerStuck, apogee' = SampleTaken, Stay PROVE TInv'
  <2>1. stuck' \in StuckScratch /\ baro' \in Barometer
    BY <1>2, <1>4, StuckTrackedType
  <2>2. /\ apogee' \in ApogeeScratch /\ apogee'.confirm < ApogeeConfirmSamples
        /\ apogee'.descent < ApogeeDescentConfirmSamples /\ apogee'.tilt < TiltConfirmSamples
    BY <1>2, <1>4, SampleTakenType, CountsPositive
  <2> QED
    BY <1>1, <1>4, <2>1, <2>2, CoastStayTyped
<1>5. ASSUME TrackBarometerStuck, Stay,
             apogee' = [SamplePushed EXCEPT !.confirm = 0, !.descent = 0]
      PROVE  TInv'
  <2>1. stuck' \in StuckScratch /\ baro' \in Barometer
    BY <1>2, <1>5, StuckTrackedType
  <2> DEFINE pushed == SamplePushed
  <2>2. pushed \in ApogeeScratch /\ pushed.tilt = apogee.tilt
    BY <1>2, SamplePushedType
  <2>3. apogee' = [pushed EXCEPT !.confirm = 0, !.descent = 0]
    BY <1>5
  <2> HIDE DEF pushed
  <2>4. 0 \in 0..ApogeeConfirmSamples /\ 0 \in 0..ApogeeDescentConfirmSamples
    BY CountsPositive
  <2>5. /\ apogee' \in ApogeeScratch
        /\ apogee'.confirm = 0 /\ apogee'.descent = 0 /\ apogee'.tilt = apogee.tilt
    BY <2>2, <2>3, <2>4 DEF ApogeeScratch
  <2> QED
    BY <1>1, <1>2, <1>5, <2>1, <2>5, CoastStayTyped, CountsPositive
<1>6. ASSUME TrackBarometerStuck, NEW outcome \in PredictionOutcomes, apogee' = ApogeeJudged(outcome),
             IF \/ apogee'.confirm >= ApogeeConfirmSamples
                \/ apogee'.descent >= ApogeeDescentConfirmSamples
             THEN EnterApogee(baro.updated) ELSE Stay
      PROVE  TInv'
  <2>1. stuck' \in StuckScratch /\ baro' \in Barometer /\ baro.updated \in Times
    BY <1>2, <1>6, StuckTrackedType DEF TypeOK, Barometer
  <2>2. apogee' \in ApogeeScratch /\ apogee'.tilt < TiltConfirmSamples
    BY <1>2, <1>6, ApogeeJudgedType
  <2>3. CASE EnterApogee(baro.updated)
    BY <1>1, <2>1, <2>2, <2>3, ApogeeEntryTyped
  <2>4. CASE /\ apogee'.confirm < ApogeeConfirmSamples /\ apogee'.descent < ApogeeDescentConfirmSamples
             /\ Stay
    BY <1>1, <2>1, <2>2, <2>4, CoastStayTyped
  <2>5. apogee'.confirm \in Nat /\ apogee'.descent \in Nat
    BY <2>2 DEF ApogeeScratch
  <2> QED
    BY <1>6, <2>3, <2>4, <2>5, CountsPositive
<1> QED
  BY <1>3, <1>4, <1>5, <1>6 DEF CoastBarometer
LEMMA TickApogeeTyped == ASSUME TInv, TickApogee PROVE TInv'
<1>1. MailboxTypeOK'
  BY FlightTickMailbox DEF TickApogee
<1>2. CASE EnterDrogue(now)
  <2>1. stuck' \in StuckScratch
    BY <1>2, FreshStuckType DEF EnterDrogue
  <2>2. /\ mainDeployConfirmCount' \in 0..MainDeployConfirmSamples
        /\ mainDeployConfirmCount' < MainDeployConfirmSamples
    BY <1>2, CountsPositive DEF EnterDrogue
  <2>3. /\ droguePyro' \in BOOLEAN /\ primaryDrogueOff' \in BOOLEAN
        /\ drogueSequenceComplete' \in BOOLEAN /\ mainSequenceComplete' \in BOOLEAN
        /\ mainPyroOff' \in BOOLEAN /\ mainPyro' \in BOOLEAN /\ deployFired' \in BOOLEAN
        /\ launchMs' \in Times /\ coastMs' \in Times /\ apogeeMs' \in Times /\ deployMs' \in Times
    BY <1>2 DEF TickApogee, Stay, TInv, TypeOK, stamps, sequence, pyro
  <2> QED
    BY <1>1, <1>2, <2>1, <2>2, <2>3
    DEF TickApogee, FlightTick, FsmStep, EnterDrogue, TInv, TypeOK, Undecided, States, sensors
<1>3. CASE Stay /\ UNCHANGED <<stuck, mainDeployConfirmCount>>
  BY <1>1, <1>3
  DEF TickApogee, FlightTick, FsmStep, Stay, TInv, TypeOK, Undecided, sensors, stamps, sequence, pyro
<1> QED
  BY <1>2, <1>3 DEF TickApogee

LEMMA TickDrogueTyped == ASSUME TInv, TickDrogue PROVE TInv'
<1>1. MailboxTypeOK' /\ state = "DROGUE"
  BY FlightTickMailbox DEF TickDrogue, FlightTick
<1>2. /\ TypeOK /\ mainDeployConfirmCount \in 0..MainDeployConfirmSamples
      /\ mainDeployConfirmCount < MainDeployConfirmSamples
  BY <1>1 DEF TInv, TypeOK, Undecided
<1>3. stuck' \in StuckScratch /\ baro' \in Barometer
  BY <1>2, StuckTrackedType DEF TickDrogue, TypeOK
<1>4. apogee' \in ApogeeScratch
  <2>1. apogee \in ApogeeScratch /\ baro.updated \in Times
    BY <1>2 DEF TypeOK, Barometer
  <2>2. [apogee EXCEPT !.lastBaro = baro.updated] \in ApogeeScratch
    BY <2>1 DEF ApogeeScratch
  <2> QED
    BY <2>1, <2>2 DEF TickDrogue
<1>5. mainDeployConfirmCount' \in 0..MainDeployConfirmSamples
  BY <1>2, CountsPositive DEF TickDrogue, MainDeployCounted
<1>6. CASE EnterDeploy(now)
  <2>1. landing' \in LandingScratch /\ Len(landing'.window) <= LandingWindow
    BY <1>6, FreshLandingType DEF EnterDeploy
  <2> QED
    BY <1>1, <1>3, <1>4, <1>5, <1>6, <2>1
    DEF TickDrogue, FlightTick, FsmStep, EnterDeploy, TInv, TypeOK, Undecided, States, sensors
<1>7. CASE mainDeployConfirmCount' < MainDeployConfirmSamples /\ Stay /\ UNCHANGED landing
  BY <1>1, <1>3, <1>4, <1>5, <1>7
  DEF TickDrogue, FlightTick, FsmStep, Stay, TInv, TypeOK, Undecided, sensors, stamps, sequence, pyro
<1>8. mainDeployConfirmCount' < MainDeployConfirmSamples \/ mainDeployConfirmCount' >= MainDeployConfirmSamples
  BY <1>5, CountsPositive
<1> QED
  BY <1>6, <1>7, <1>8 DEF TickDrogue

LEMMA TickDeployTyped == ASSUME TInv, TickDeploy PROVE TInv'
<1>1. MailboxTypeOK' /\ state = "DEPLOY" /\ TypeOK
  BY FlightTickMailbox DEF TickDeploy, FlightTick, TInv
<1>2. landing' \in LandingScratch /\ Len(landing'.window) <= LandingWindow
  <2>1. landing \in LandingScratch /\ Len(landing.window) <= LandingWindow
    BY <1>1 DEF TypeOK
  <2>2. landing' = LandingSampleTaken \/ landing' = landing
    BY DEF TickDeploy
  <2> QED
    BY <1>1, <2>1, <2>2, LandingTakenType
<1>3. /\ mainPyroOff' \in BOOLEAN /\ mainSequenceComplete' \in BOOLEAN /\ mainPyro' \in BOOLEAN
      /\ droguePyro' \in BOOLEAN
  BY <1>1 DEF TypeOK, TickDeploy, MainOutDue, LandingOpen, PyroAllOff
<1>4. state' \in {"DEPLOY", "GROUND"}
  BY <1>1 DEF TickDeploy
<1> QED
  BY <1>1, <1>2, <1>3, <1>4
  DEF TickDeploy, FlightTick, FsmStep, TInv, TypeOK, Undecided, States, sensors, stamps

LEMMA UplinkTyped == ASSUME TInv, Uplink PROVE TInv'
<1>1. MailboxTypeOK'
  BY MailboxKept DEF Uplink, TInv, TypeOK
<1>2. now' \in Times
  BY FlightAssumption DEF Uplink, TInv, TypeOK, Times
<1> QED
  BY <1>1, <1>2
  DEF Uplink, TInv, TypeOK, Undecided, sensors, stamps, sequence, detectors, pyro

LEMMA UnchangedTyped == ASSUME TInv, UNCHANGED vars PROVE TInv'
BY DEF vars, TInv, TypeOK, Undecided, sensors, stamps, sequence, detectors, pyro, mailbox, MailboxTypeOK

LEMMA TypeStep == TInv /\ [Next]_vars => TInv'
BY SenseTyped, AbortToSafeTyped, ExecuteBenchResetTyped, ExecuteArmTyped, ExecuteForceTyped,
   TickInitTyped, TickIdleTyped, TickArmedTyped, TickLaunchTyped, CoastTimeoutTyped,
   CoastTiltTyped, CoastBarometerTyped, TickApogeeTyped, TickDrogueTyped, TickDeployTyped,
   UplinkTyped, UnchangedTyped
DEF Next, Horizon

LEMMA Typed == Spec => []TInv
BY InitTyped, TypeStep, PTL DEF Spec

(* Every variable keeps its type: no confirmation count passes its limit,  *)
(* no window its length, whatever readings, commands and faults arrive.    *)
THEOREM TypeCorrect == Spec => []TypeOK
<1>1. TInv => TypeOK
  BY DEF TInv
<1> QED
  BY Typed, <1>1, PTL

-----------------------------------------------------------------------------
(* Pulses. *)

LEMMA PulseStep == ASSUME TInv, PulseInv, [Next]_vars PROVE PulseInv'
<1> USE DEF PulseInv
<1>1. CASE Sense
  BY <1>1 DEF Sense, sequence, pyro
<1>2. CASE AbortToSafe
  BY <1>2 DEF AbortToSafe, EnterSafe, PyroAllOff, ResetFlightScratch
<1>3. CASE ExecuteBenchReset
  BY <1>3 DEF ExecuteBenchReset, PyroAllOff, ResetFlightScratch
<1>4. CASE ExecuteArm
  BY <1>4 DEF ExecuteArm, ArmPending, sequence, pyro
<1>5. CASE ExecuteForce
  BY <1>5 DEF ExecuteForce, ForcePending, StateAllowsForceRecoveryDeploy, EnterApogee
<1>6. CASE TickInit
  BY <1>6 DEF TickInit, EnterSafe, PyroAllOff, ResetFlightScratch
<1>7. CASE TickIdle
  BY <1>7 DEF TickIdle, Stay, sequence, pyro
<1>8. CASE TickArmed
  BY <1>8 DEF TickArmed, FlightTick, Stay, EnterLaunch, sequence, pyro
<1>9. CASE TickLaunch
  BY <1>9 DEF TickLaunch, FlightTick, Stay, EnterCoast, sequence, pyro
<1>10. CASE CoastTimeout
  BY <1>10 DEF CoastTimeout, CoastTick, FlightTick, EnterApogee
<1>11. CASE CoastTilt
  BY <1>11 DEF CoastTilt, CoastTick, FlightTick, Stay, EnterApogee, sequence, pyro
<1>12. CASE CoastBarometer
  BY <1>12 DEF CoastBarometer, CoastTick, FlightTick, Stay, EnterApogee, sequence, pyro
<1>13. CASE TickApogee
  <2>1. state = "APOGEE" /\ ~mainPyro
    BY <1>13 DEF TickApogee, FlightTick
  <2>2. CASE droguePyro' = FALSE /\ EnterDrogue(now) /\ UNCHANGED mainPyro
    BY <2>1, <2>2 DEF EnterDrogue
  <2>3. CASE Stay
    BY <2>1, <2>3 DEF Stay, sequence, pyro
  <2> QED
    BY <1>13, <2>2, <2>3 DEF TickApogee
<1>14. CASE TickDrogue
  BY <1>14 DEF TickDrogue, FlightTick, Stay, EnterDeploy, sequence, pyro
<1>15. CASE TickDeploy
  <2>1. /\ state = "DEPLOY" /\ mainPyroOff' = (mainPyroOff \/ MainOutDue)
        /\ mainSequenceComplete' = (mainSequenceComplete \/ MainOutDue)
        /\ mainPyroOff \in BOOLEAN /\ mainPyro \in BOOLEAN /\ mainSequenceComplete \in BOOLEAN
    BY <1>15 DEF TickDeploy, FlightTick, LandingOpen, TInv, TypeOK
  <2>2. CASE state' = "GROUND" /\ PyroAllOff
    BY <2>2 DEF PyroAllOff
  <2>3. CASE mainPyro' = (mainPyro /\ ~MainOutDue) /\ UNCHANGED <<state, droguePyro>>
    BY <2>1, <2>3, Zenon DEF MainOutDue
  <2> QED
    BY <1>15, <2>2, <2>3 DEF TickDeploy
<1>16. CASE Uplink
  BY <1>16 DEF Uplink, sequence, pyro
<1>17. CASE UNCHANGED vars
  BY <1>17 DEF vars, sequence, pyro
<1> QED
  BY <1>1, <1>2, <1>3, <1>4, <1>5, <1>6, <1>7, <1>8, <1>9, <1>10, <1>11, <1>12, <1>13, <1>14,
     <1>15, <1>16, <1>17
  DEF Next, Horizon

LEMMA Pulses == Spec => []PulseInv
<1>1. Init => PulseInv
  BY DEF Init, PulseInv
<1>2. TInv /\ PulseInv /\ [Next]_vars => PulseInv'
  BY PulseStep
<1> QED
  BY <1>1, <1>2, Typed, PTL DEF Spec

(* Neither channel is energised outside its own state, and never both.     *)
THEOREM Interlocked == Spec => []PyroInterlock
<1>1. PulseInv => PyroInterlock
  BY DEF PulseInv, PyroInterlock
<1> QED
  BY <1>1, Pulses, PTL
-----------------------------------------------------------------------------
(* What every tick leaves behind.  A step that does not end at turn        *)
(* "uplink" has nothing to show; the others are ticks and stuttering.      *)

LEMMA NotYetUplink ==
  ASSUME Sense \/ Uplink
  PROVE  turn' # "uplink"
BY DEF Sense, Uplink

LEMMA AbortStep == ASSUME PulseInv, AbortGrounds, [Next]_vars PROVE AbortGrounds'
<1> USE DEF AbortGrounds
<1>1. CASE Sense \/ Uplink
  BY <1>1, NotYetUplink
<1>2. CASE AbortToSafe
  BY <1>2 DEF AbortToSafe, EnterSafe, PyroAllOff
<1>3. CASE ExecuteBenchReset
  BY <1>3 DEF ExecuteBenchReset, PyroAllOff
<1>4. CASE ExecuteArm
  BY <1>4 DEF ExecuteArm, ArmPending, FsmStep, sensors
<1>5. CASE ExecuteForce
  BY <1>5 DEF ExecuteForce, ForcePending, StateAllowsForceRecoveryDeploy, Aborting, FsmStep, sensors
<1>6. CASE TickIdle
  <2>1. abort' = abort /\ state' = state /\ droguePyro' = droguePyro /\ mainPyro' = mainPyro
    BY <1>6 DEF TickIdle, FlightTick, FsmStep, Stay, sensors, pyro
  <2>2. abort => state = "SAFE"
    BY <1>6 DEF TickIdle, FlightTick, Aborting
  <2> QED
    BY <2>1, <2>2 DEF PulseInv
<1>7. CASE \/ TickInit \/ TickArmed \/ TickLaunch \/ CoastTimeout \/ CoastTilt
           \/ CoastBarometer \/ TickApogee \/ TickDrogue \/ TickDeploy
  <2>1. \E s \in States \ {"SAFE"} : FlightTick(s)
    BY <1>7 DEF TickInit, TickArmed, TickLaunch, CoastTimeout, CoastTilt, CoastBarometer, CoastTick,
                TickApogee, TickDrogue, TickDeploy, States
  <2>2. ~abort'
    BY <2>1 DEF FlightTick, FsmStep, Aborting, sensors
  <2> QED
    BY <2>2
<1>8. CASE UNCHANGED vars
  BY <1>8 DEF vars, sensors, pyro
<1> QED
  BY <1>1, <1>2, <1>3, <1>4, <1>5, <1>6, <1>7, <1>8 DEF Next, Horizon

(* One tick after the abort is up the vehicle is on the ground's side of   *)
(* safe with both channels off, whatever it was doing.                     *)
THEOREM AbortSafe == Spec => []AbortGrounds
<1>1. Init => AbortGrounds
  BY DEF Init, AbortGrounds
<1>2. PulseInv /\ AbortGrounds /\ [Next]_vars => AbortGrounds'
  BY AbortStep
<1> QED
  BY <1>1, <1>2, Pulses, PTL DEF Spec

LEMMA CoastStep == ASSUME TInv, CoastBounded, [Next]_vars PROVE CoastBounded'
<1> USE DEF CoastBounded
<1>1. CASE Sense \/ Uplink
  BY <1>1, NotYetUplink
<1>2. CASE AbortToSafe
  BY <1>2 DEF AbortToSafe, EnterSafe
<1>3. CASE ExecuteBenchReset
  BY <1>3 DEF ExecuteBenchReset
<1>4. CASE ExecuteArm
  BY <1>4 DEF ExecuteArm
<1>5. CASE ExecuteForce
  BY <1>5 DEF ExecuteForce, EnterApogee
<1>6. CASE TickInit
  BY <1>6 DEF TickInit, EnterSafe
<1>7. CASE TickIdle
  BY <1>7 DEF TickIdle, FlightTick, Stay
<1>8. CASE TickArmed
  BY <1>8 DEF TickArmed, FlightTick, Stay, EnterLaunch
<1>9. CASE TickLaunch
  <2>1. CASE Stay
    BY <1>9, <2>1 DEF TickLaunch, FlightTick, Stay
  <2>2. CASE NewAccel(burnout) /\ EnterCoast(AccelSample.ms)
    <3>1. now' = now /\ coastMs' = AccelSample.ms
      BY <1>9, <2>2 DEF TickLaunch, FlightTick, FsmStep, EnterCoast
    <3>2. Since(now, AccelSample.ms) <= AccelMaxSampleAge
      BY <2>2 DEF NewAccel, AccelSample, AccelFresh
    <3>3. /\ Since(now, AccelSample.ms) \in Int
          /\ AccelMaxSampleAge < ApogeeTimeout /\ AccelMaxSampleAge \in Nat /\ ApogeeTimeout \in Nat
      BY AccelSampleType, FlightAssumption, ThresholdAssumption DEF Since, TInv, TypeOK, Times
    <3>4. Since(now, AccelSample.ms) < ApogeeTimeout
      BY <3>2, <3>3
    <3> QED
      BY <3>1, <3>4 DEF Since
  <2> QED
    BY <1>9, <2>1, <2>2 DEF TickLaunch
<1>10. CASE CoastTimeout
  BY <1>10 DEF CoastTimeout, EnterApogee
<1>11. ASSUME state = "COAST", ~CoastTimedOut, UNCHANGED now, Stay PROVE CoastBounded'
  <2>1. Since(now, coastMs) < ApogeeTimeout
    BY <1>11, FlightAssumption, ThresholdAssumption DEF CoastTimedOut, Since, TInv, TypeOK, Times
  <2>2. now' = now /\ coastMs' = coastMs
    BY <1>11 DEF Stay, stamps
  <2> QED
    BY <2>1, <2>2 DEF Since
<1>12. CASE CoastTilt
  BY <1>11, <1>12 DEF CoastTilt, CoastTick, FlightTick, FsmStep, EnterApogee
<1>13. CASE CoastBarometer
  BY <1>11, <1>13 DEF CoastBarometer, CoastTick, FlightTick, FsmStep, EnterApogee
<1>14. CASE TickApogee
  BY <1>14 DEF TickApogee, FlightTick, Stay, EnterDrogue
<1>15. CASE TickDrogue
  BY <1>15 DEF TickDrogue, FlightTick, Stay, EnterDeploy
<1>16. CASE TickDeploy
  BY <1>16 DEF TickDeploy, FlightTick
<1>17. CASE UNCHANGED vars
  BY <1>17 DEF vars, stamps, Since
<1> QED
  BY <1>1, <1>2, <1>3, <1>4, <1>5, <1>6, <1>7, <1>8, <1>9, <1>10, <1>12, <1>13, <1>14, <1>15,
     <1>16, <1>17
  DEF Next, Horizon

(* No tick leaves COAST standing past its timeout: with or without a       *)
(* working barometer the drogue is fired.                                  *)
THEOREM CoastIsBounded == Spec => []CoastBounded
<1>1. Init => CoastBounded
  BY DEF Init, CoastBounded
<1>2. TInv /\ CoastBounded /\ [Next]_vars => CoastBounded'
  BY CoastStep
<1> QED
  BY <1>1, <1>2, Typed, PTL DEF Spec

-----------------------------------------------------------------------------
(* What the time stamps say.  None lies ahead of the clock, and a sample   *)
(* that is new to COAST was published in this pass, unless COAST has not   *)
(* judged any: the first may be from long ago, even from before launch.    *)

StampsPast ==
  /\ launchMs <= now /\ apogeeMs <= now /\ drogueMs <= now /\ deployMs <= now
  /\ baro.updated <= now /\ imu.updated <= now /\ highG.updated <= now
  /\ turn = "sensors" => baro.updated < now /\ imu.updated < now /\ highG.updated < now

SamplesFresh ==
  state = "COAST" /\ NewSample(apogee.lastBaro)
    => \/ turn = "fsm" /\ baro.updated = now
       \/ apogee.confirm = 0 /\ apogee.descent = 0

TimeInv == StampsPast /\ SamplesFresh

LEMMA StampsPastStep == ASSUME TInv, StampsPast, [Next]_vars PROVE StampsPast'
<1> USE DEF StampsPast
<1>1. /\ now \in Nat /\ baro.updated \in Nat /\ imu.updated \in Nat /\ highG.updated \in Nat
      /\ launchMs \in Nat /\ apogeeMs \in Nat /\ drogueMs \in Nat /\ deployMs \in Nat
  BY ZeroIsATime DEF TInv, TypeOK, Barometer
<1>2. CASE Sense
  <2>1. now' = now /\ turn' = "fsm" /\ UNCHANGED stamps
    BY <1>2 DEF Sense
  <2>2. baro'.updated \in {baro.updated, now}
    BY <1>2 DEF Sense, SenseBarometer, TInv, TypeOK, Barometer
  <2>3. imu'.updated \in {imu.updated, now}
    BY <1>2 DEF Sense, SenseImu
  <2>4. highG'.updated \in {highG.updated, now}
    BY <1>2 DEF Sense, SenseHighG, TInv, TypeOK
  <2> QED
    BY <1>1, <2>1, <2>2, <2>3, <2>4 DEF stamps
<1>3. CASE Uplink
  BY <1>1, <1>3 DEF Uplink, stamps, sensors
<1>4. CASE FsmStep
  <2>1. now' = now /\ turn' = "uplink" /\ UNCHANGED <<imu, highG>>
    BY <1>4 DEF FsmStep, sensors
  <2>2. baro'.updated = baro.updated
    BY <1>4 DEF Next, Sense, FsmStep, AbortToSafe, ExecuteBenchReset, ExecuteArm, ExecuteForce,
       TickInit, TickIdle, TickArmed, TickLaunch, CoastTimeout, CoastTilt, CoastBarometer, TickApogee,
       TickDrogue, TickDeploy, Uplink, Horizon, vars, TrackBarometerStuck, TInv, TypeOK, Barometer
  <2>3. /\ launchMs' \in {launchMs, 0, AccelSample.ms} /\ apogeeMs' \in {apogeeMs, 0, now, baro.updated}
        /\ drogueMs' \in {drogueMs, 0, now} /\ deployMs' \in {deployMs, 0, now}
    BY <1>4 DEF Next, Sense, FsmStep, AbortToSafe, ExecuteBenchReset, ExecuteArm, ExecuteForce,
       TickInit, TickIdle, TickArmed, TickLaunch, CoastTimeout, CoastTilt, CoastBarometer, TickApogee,
       TickDrogue, TickDeploy, Uplink, Horizon, vars, stamps, Stay, EnterSafe, EnterLaunch, EnterCoast,
       EnterApogee, EnterDrogue, EnterDeploy
  <2>4. AccelSample.ms \in {imu.updated, highG.updated, 0}
    BY DEF AccelSample
  <2> QED
    BY <1>1, <2>1, <2>2, <2>3, <2>4
<1>5. CASE UNCHANGED vars
  BY <1>5 DEF vars, stamps, sensors
<1>6. Sense \/ Uplink \/ FsmStep \/ UNCHANGED vars
  BY DEF Next, AbortToSafe, ExecuteBenchReset, ExecuteArm, ExecuteForce,
     TickInit, TickIdle, TickArmed, TickLaunch, CoastTimeout, CoastTilt, CoastBarometer, CoastTick,
     TickApogee, TickDrogue, TickDeploy, Horizon, FlightTick
<1> QED
  BY <1>2, <1>3, <1>4, <1>5, <1>6

LEMMA SamplesFreshStep == ASSUME TInv, SamplesFresh, [Next]_vars PROVE SamplesFresh'
<1> USE DEF SamplesFresh
<1>1. baro \in Barometer
  BY DEF TInv, TypeOK
<1>2. CASE Sense
  <2>1. /\ turn = "sensors" /\ turn' = "fsm" /\ now' = now /\ state' = state /\ apogee' = apogee
    BY <1>2 DEF Sense, detectors
  <2>2. CASE baro' = baro
    BY <2>1, <2>2 DEF NewSample
  <2>3. CASE baro'.updated = now
    BY <2>1, <2>3
  <2>4. CASE baro'.fault
    BY <2>4 DEF NewSample
  <2> QED
    BY <1>1, <1>2, <2>2, <2>3, <2>4 DEF Sense, SenseBarometer, Barometer
<1>3. CASE state' # "COAST"
  BY <1>3
<1>4. CASE TickLaunch
  <2>1. CASE Stay
    BY <1>3, <1>4, <2>1 DEF TickLaunch, FlightTick, Stay
  <2>2. CASE EnterCoast(AccelSample.ms)
    <3>1. apogee'.confirm = 0 /\ apogee'.descent = 0
      BY <2>2, CoastApogeeType, <1>1 DEF EnterCoast, Barometer
    <3> QED
      BY <3>1
  <2> QED
    BY <1>4, <2>1, <2>2 DEF TickLaunch
<1>5. CASE CoastTilt
  BY <1>5 DEF CoastTilt, NewSample
<1>6. CASE CoastBarometer
  <2>1. CASE ~NewSample(apogee.lastBaro) /\ UNCHANGED <<baro, apogee>>
    BY <2>1 DEF NewSample
  <2>2. CASE NewSample(apogee.lastBaro) /\ TrackBarometerStuck /\ state' = "COAST"
    <3>1. baro'.updated = baro.updated
      BY <1>1, <2>2 DEF TrackBarometerStuck, Barometer
    <3>2. apogee'.lastBaro = baro.updated
      <4>1. SampleTaken.lastBaro = baro.updated /\ SamplePushed.lastBaro = baro.updated
        <5>1. SampleTaken \in ApogeeScratch /\ apogee \in ApogeeScratch
          BY SampleTakenType DEF TInv, TypeOK
        <5>2. SampleTaken.lastBaro = baro.updated
          BY <5>1 DEF SampleTaken, ApogeeScratch
        <5> QED
          BY <5>1, <5>2 DEF SamplePushed, ApogeeScratch
      <4>2. SamplePushed \in ApogeeScratch
        BY SamplePushedType DEF TInv
      <4>3. \A outcome \in PredictionOutcomes : ApogeeJudged(outcome).lastBaro = baro.updated
        BY <4>1, <4>2 DEF ApogeeJudged, ApogeeScratch
      <4>4. [SamplePushed EXCEPT !.confirm = 0, !.descent = 0].lastBaro = baro.updated
        BY <4>1, <4>2 DEF ApogeeScratch
      <4> QED
        BY <1>6, <2>2, <4>1, <4>3, <4>4 DEF CoastBarometer
    <3> QED
      BY <3>1, <3>2 DEF NewSample
  <2> QED
    BY <1>3, <1>6, <2>1, <2>2 DEF CoastBarometer
<1>7. CASE Uplink
  BY <1>7 DEF Uplink, detectors, NewSample
<1>8. CASE UNCHANGED vars
  BY <1>8 DEF vars, detectors, NewSample
<1> QED
  BY <1>2, <1>3, <1>4, <1>5, <1>6, <1>7, <1>8
  DEF Next, Horizon, AbortToSafe, EnterSafe, ExecuteBenchReset, ExecuteArm, ExecuteForce, TickInit,
      TickIdle, FlightTick, TickArmed, EnterLaunch, CoastTimeout, TickApogee, TickDrogue,
      TickDeploy, EnterApogee, EnterDrogue, EnterDeploy, Stay

LEMMA Stamped == Spec => []TimeInv
<1>1. Init => TimeInv
  BY DEF Init, TimeInv, StampsPast, SamplesFresh, NoApogee
<1>2. TInv /\ TimeInv /\ [Next]_vars => TimeInv'
  BY StampsPastStep, SamplesFreshStep DEF TimeInv
<1> QED
  BY <1>1, <1>2, Typed, PTL DEF Spec

(* The sample that decides on apogee is of this pass: one sample alone     *)
(* confirms nothing, so an old one cannot be the last of a confirmation.   *)
LEMMA DecidedNow ==
  ASSUME TInv, SamplesFresh, CoastBarometer, ~Stay
  PROVE  EnterApogee(now) /\ baro.updated = now /\ ~TooEarlyForApogee
<1>1. PICK outcome \in PredictionOutcomes :
        /\ NewSample(apogee.lastBaro) /\ ~TooEarlyForApogee /\ apogee' = ApogeeJudged(outcome)
        /\ apogee'.confirm >= ApogeeConfirmSamples \/ apogee'.descent >= ApogeeDescentConfirmSamples
        /\ EnterApogee(baro.updated)
  BY DEF CoastBarometer
<1>2. state = "COAST" /\ turn = "fsm"
  BY DEF CoastBarometer, CoastTick, FlightTick, FsmStep
<1>3. CASE apogee.confirm = 0 /\ apogee.descent = 0
  <2>1. SamplePushed \in ApogeeScratch /\ SamplePushed.confirm = 0 /\ SamplePushed.descent = 0
    BY <1>3, SamplePushedType DEF TInv
  <2>2. apogee'.confirm \in {0, 1} /\ apogee'.descent \in {0, 1}
    BY <1>1, <2>1 DEF ApogeeJudged, ApogeeScratch
  <2> QED
    BY <1>1, <2>2, ApogeeAssumption, CountsPositive
<1> QED
  BY <1>1, <1>2, <1>3 DEF SamplesFresh

LEMMA PulsesStep == ASSUME TInv, PulseInv, PulseInv', TimeInv, PulsesBounded, [Next]_vars PROVE PulsesBounded'
<1> USE DEF PulsesBounded
<1>1. /\ now \in Nat /\ apogeeMs \in Nat /\ deployMs \in Nat
      /\ PyroFireDuration \in Nat \ {0}
  BY ZeroIsATime, ThresholdAssumption DEF TInv, TypeOK
<1>2. CASE Sense \/ Uplink
  BY <1>2, NotYetUplink
<1>3. CASE ~droguePyro' /\ ~mainPyro'
  BY <1>3
<1>4. ASSUME EnterApogee(now), UNCHANGED now, state = "COAST" \/ state = "LAUNCH" PROVE PulsesBounded'
  <2>1. apogeeMs' = now' /\ mainPyro' = mainPyro
    BY <1>4 DEF EnterApogee
  <2>2. ~mainPyro'
    BY <1>4, <2>1 DEF PulseInv
  <2> QED
    BY <1>1, <1>4, <2>1, <2>2 DEF Since
<1>5. CASE ExecuteForce
  BY <1>4, <1>5 DEF ExecuteForce, ForcePending, StateAllowsForceRecoveryDeploy, FsmStep
<1>6. ASSUME Stay, state \notin {"APOGEE", "DEPLOY"} PROVE PulsesBounded'
  BY <1>3, <1>6 DEF Stay, PulseInv
<1>7. CASE CoastTimeout \/ CoastTilt \/ CoastBarometer
  <2>1. state = "COAST" /\ UNCHANGED now /\ (Stay \/ EnterApogee(now))
    BY <1>7, DecidedNow DEF CoastTimeout, CoastTilt, CoastTick, CoastBarometer, FlightTick, FsmStep, TimeInv
  <2> QED
    BY <1>4, <1>6, <2>1
<1>8. CASE TickApogee
  <2>1. state = "APOGEE" /\ ~mainPyro /\ ~primaryDrogueOff /\ now' = now
    BY <1>8 DEF TickApogee, FlightTick, FsmStep, PulseInv
  <2>2. CASE droguePyro' = FALSE /\ UNCHANGED mainPyro
    BY <1>3, <2>1, <2>2
  <2>3. CASE ~PulseOver(apogeeMs) /\ Stay
    <3>1. apogeeMs' = apogeeMs /\ mainPyro' = mainPyro
      BY <2>3 DEF Stay, stamps, pyro
    <3> QED
      BY <1>1, <2>1, <2>3, <3>1, FlightAssumption DEF PulseOver, Since
  <2> QED
    BY <1>8, <2>1, <2>2, <2>3 DEF TickApogee
<1>9. CASE TickDrogue
  <2>1. state = "DROGUE" /\ ~droguePyro /\ ~mainPyro /\ now' = now
    BY <1>9 DEF TickDrogue, FlightTick, FsmStep, PulseInv
  <2>2. CASE EnterDeploy(now)
    <3>1. deployMs' = now /\ droguePyro' = droguePyro
      BY <2>2 DEF EnterDeploy
    <3> QED
      BY <1>1, <2>1, <3>1 DEF Since
  <2> QED
    BY <1>6, <1>9, <2>1, <2>2 DEF TickDrogue
<1>10. CASE TickDeploy
  <2>1. state = "DEPLOY" /\ ~droguePyro /\ now' = now /\ deployMs' = deployMs
    BY <1>10 DEF TickDeploy, FlightTick, FsmStep, PulseInv, stamps
  <2>2. CASE PyroAllOff
    BY <1>3, <2>2 DEF PyroAllOff
  <2>3. CASE mainPyro' = (mainPyro /\ ~MainOutDue) /\ UNCHANGED <<state, droguePyro>>
    <3>1. ASSUME mainPyro' PROVE mainPyro /\ ~MainOutDue
      BY <2>3, <3>1
    <3>2. ASSUME mainPyro' PROVE ~PulseOver(deployMs)
      BY <2>1, <3>1, <3>2 DEF PulseInv, MainOutDue
    <3> QED
      BY <1>1, <2>1, <2>3, <3>2, FlightAssumption DEF PulseOver, Since
  <2> QED
    BY <1>10, <2>2, <2>3 DEF TickDeploy
<1>11. CASE AbortToSafe \/ ExecuteBenchReset \/ TickInit
  BY <1>3, <1>11 DEF AbortToSafe, ExecuteBenchReset, TickInit, EnterSafe, PyroAllOff
<1>12. CASE ExecuteArm
  BY <1>3, <1>12 DEF ExecuteArm, ArmPending, PulseInv, pyro
<1>13. CASE TickIdle
  BY <1>6, <1>13 DEF TickIdle, FlightTick
<1>14. CASE TickArmed \/ TickLaunch
  <2>1. state \in {"ARMED", "LAUNCH"} /\ UNCHANGED pyro
    BY <1>14 DEF TickArmed, TickLaunch, FlightTick, Stay, EnterLaunch, EnterCoast
  <2> QED
    BY <1>3, <2>1 DEF PulseInv, pyro
<1>15. CASE UNCHANGED vars
  BY <1>15 DEF vars, stamps, pyro, Since
<1> QED
  BY <1>2, <1>5, <1>7, <1>8, <1>9, <1>10, <1>11, <1>12, <1>13, <1>14, <1>15 DEF Next, Horizon

(* No tick leaves a channel energised past its pulse, whichever way the    *)
(* state was entered: the stamp the pulse is counted from is never late.   *)
THEOREM PulsesEnd == Spec => []PulsesBounded
<1>1. Init => PulsesBounded
  BY DEF Init, PulsesBounded
<1>2. TInv /\ PulseInv /\ PulseInv' /\ TimeInv /\ PulsesBounded /\ [Next]_vars => PulsesBounded'
  BY PulsesStep
<1> QED
  BY <1>1, <1>2, Typed, Pulses, Stamped, PTL DEF Spec

(* On the sensors' word alone the drogue is not fired before its minimum   *)
(* flight time, whatever old sample COAST opened on.                       *)
THEOREM ApogeeInItsTime == Spec => SensorApogeeNotEarly
<1> DEFINE InTime ==
      state = "COAST" /\ state' = "APOGEE" /\ ~ForcePending /\ ~CoastTimedOut
      => now - launchMs >= IF baro.fault THEN TiltMinFlightTime ELSE ApogeeMinFlightTime
<1>1. TInv /\ TimeInv /\ [Next]_vars => [InTime]_vars
  <2> SUFFICES ASSUME TInv, TimeInv, Next, state = "COAST", state' = "APOGEE",
                      ~ForcePending, ~CoastTimedOut
               PROVE  InTime
    OBVIOUS
  <2>1. now \in Nat /\ launchMs \in Nat /\ launchMs <= now
    BY ZeroIsATime DEF TInv, TypeOK, TimeInv, StampsPast
  <2>2. CoastTilt \/ CoastBarometer
    BY DEF Next, Sense, AbortToSafe, EnterSafe, ExecuteBenchReset, ExecuteArm, ExecuteForce, TickInit,
       TickIdle, TickArmed, TickLaunch, CoastTimeout, TickApogee, TickDrogue, TickDeploy, Uplink,
       Horizon, vars, FlightTick, Stay
  <2>3. CASE CoastTilt
    <3>1. baro.fault /\ apogee' = TiltObserved /\ apogee'.tilt >= TiltConfirmSamples
      BY <2>3 DEF CoastTilt, Stay
    <3>2. apogee \in ApogeeScratch /\ apogee.tilt < TiltConfirmSamples
      BY DEF TInv, TypeOK, Undecided
    <3>3. ASSUME Since(now, launchMs) < TiltMinFlightTime PROVE FALSE
      <4>1. apogee'.tilt = 0
        BY <3>1, <3>2, <3>3 DEF TiltObserved, ApogeeScratch
      <4> QED
        BY <3>1, <4>1, CountsPositive
    <3> QED
      BY <2>1, <3>1, <3>3, ThresholdAssumption DEF Since
  <2>4. CASE CoastBarometer
    <3>1. ~Stay /\ ~baro.fault
      BY <2>4 DEF Stay, CoastBarometer
    <3>2. baro.updated = now /\ ~TooEarlyForApogee
      BY <2>4, <3>1, DecidedNow DEF TimeInv
    <3> QED
      BY <2>1, <3>1, <3>2, ThresholdAssumption DEF TooEarlyForApogee, Since
  <2> QED
    BY <2>2, <2>3, <2>4
<1> QED
  BY <1>1, Typed, Stamped, PTL DEF Spec, SensorApogeeNotEarly

(* A latched fault is never taken back; under it main waits for its timer  *)
(* and no landing is declared.                                             *)
THEOREM FaultIsFinal == Spec => FaultedBarometerIgnored
<1> DEFINE Final == baro.fault =>
                      /\ baro'.fault
                      /\ state = "DROGUE" /\ state' = "DEPLOY" => now - drogueMs >= MainFaultTimeout
                      /\ state' = "GROUND" => state = "GROUND"
<1>1. TInv /\ TimeInv /\ [Next]_vars => [Final]_vars
  <2> SUFFICES ASSUME TInv, TimeInv, Next, baro.fault PROVE Final
    BY DEF Final
  <2>1. baro'.fault
    <3>1. baro \in Barometer
      BY DEF TInv, TypeOK
    <3>2. CASE Sense
      BY <3>1, <3>2 DEF Sense, SenseBarometer, Barometer
    <3>3. CASE TrackBarometerStuck
      BY <3>1, <3>3 DEF TrackBarometerStuck, Barometer
    <3> QED
      BY <3>2, <3>3 DEF Next, AbortToSafe, ExecuteBenchReset, ExecuteArm, ExecuteForce, TickInit,
         TickIdle, TickArmed, TickLaunch, CoastTimeout, CoastTilt, CoastBarometer, TickApogee,
         TickDrogue, TickDeploy, Uplink, Horizon, vars
  <2>2. state = "DROGUE" /\ state' = "DEPLOY" => TickDrogue
    BY DEF Next, Sense, AbortToSafe, ExecuteBenchReset, ExecuteArm, ExecuteForce, TickInit,
       TickIdle, TickArmed, TickLaunch, CoastTimeout, CoastTilt, CoastBarometer, CoastTick, TickApogee,
       TickDeploy, Uplink, Horizon, vars, EnterSafe, FlightTick, EnterApogee, Stay, ArmPending
  <2>3. TickDrogue /\ state' = "DEPLOY" => now - drogueMs >= MainFaultTimeout
    <3>1. SUFFICES ASSUME TickDrogue, state' = "DEPLOY" PROVE now - drogueMs >= MainFaultTimeout
      OBVIOUS
    <3>2. mainDeployConfirmCount' = 0
      BY <2>1, <3>1 DEF TickDrogue, NewDrogueSample, BarometerPrimaryUsable, MainDeployCounted
    <3>3. state = "DROGUE"
      BY <3>1 DEF TickDrogue, FlightTick
    <3>4. MainFaultTimerReached(baro'.fault)
      BY <3>1, <3>2, <3>3, CountsPositive DEF TickDrogue, Stay
    <3>5. now \in Nat /\ drogueMs \in Nat
      BY ZeroIsATime DEF TInv, TypeOK
    <3> QED
      BY <3>4, <3>5 DEF MainFaultTimerReached, Since, TimeInv, StampsPast
  <2>4. state' = "GROUND" => state = "GROUND"
    <3>1. ~TouchDown
      BY DEF TouchDown, NewSample
    <3> QED
      BY <3>1 DEF Next, Sense, AbortToSafe, ExecuteBenchReset, ExecuteArm, ExecuteForce, TickInit,
         TickIdle, TickArmed, TickLaunch, CoastTimeout, CoastTilt, CoastBarometer, CoastTick,
         TickApogee, TickDrogue, TickDeploy, Uplink, Horizon, vars, EnterSafe, FlightTick,
         EnterLaunch, EnterCoast, EnterApogee, EnterDrogue, EnterDeploy, Stay
  <2> QED
    BY <2>1, <2>2, <2>3, <2>4 DEF Final
<1> QED
  BY <1>1, Typed, Stamped, PTL DEF Spec, FaultedBarometerIgnored

-----------------------------------------------------------------------------
(* The state machine implements RecoverySequence. *)

AbstractStutter == UNCHANGED <<PhaseOf(state), droguePyro, mainPyro>>

LEMMA RefinedStep == ASSUME TInv, PulseInv, [Next]_vars PROVE R!Next \/ AbstractStutter
<1> USE DEF PhaseOf
<1>1. CASE Sense \/ Uplink \/ TickIdle \/ UNCHANGED vars
  BY <1>1 DEF Sense, Uplink, TickIdle, vars, Stay, pyro, AbstractStutter
<1>2. CASE AbortToSafe \/ ExecuteBenchReset \/ TickInit
  BY <1>2 DEF AbortToSafe, ExecuteBenchReset, TickInit, EnterSafe, PyroAllOff, R!MakeSafe, R!Next
<1>3. CASE ExecuteArm
  BY <1>3 DEF ExecuteArm, ArmPending, pyro, R!Arm, R!Next
<1>4. ASSUME state \in {"LAUNCH", "COAST"}, NEW t, EnterApogee(t) PROVE R!FireDrogue
  BY <1>4 DEF EnterApogee, R!FireDrogue
<1>5. CASE ExecuteForce
  BY <1>4, <1>5 DEF ExecuteForce, ForcePending, StateAllowsForceRecoveryDeploy, R!Next
<1>6. CASE TickArmed
  BY <1>6 DEF TickArmed, FlightTick, Stay, EnterLaunch, pyro, AbstractStutter, R!Launch, R!Next
<1>7. CASE TickLaunch
  BY <1>7 DEF TickLaunch, FlightTick, Stay, EnterCoast, pyro, AbstractStutter
<1>8. CASE CoastTimeout \/ CoastTilt \/ CoastBarometer
  <2>1. state = "COAST" /\ (Stay \/ \E t : EnterApogee(t))
    BY <1>8 DEF CoastTimeout, CoastTilt, CoastBarometer, CoastTick, FlightTick
  <2> QED
    BY <1>4, <2>1 DEF Stay, pyro, AbstractStutter, R!Next
<1>9. CASE TickApogee
  <2>1. state = "APOGEE"
    BY <1>9 DEF TickApogee, FlightTick
  <2>2. CASE droguePyro' = FALSE /\ EnterDrogue(now) /\ UNCHANGED mainPyro
    BY <2>1, <2>2 DEF EnterDrogue, R!DrogueOut, R!Next
  <2>3. CASE Stay
    BY <2>3 DEF Stay, pyro, AbstractStutter
  <2> QED
    BY <1>9, <2>2, <2>3 DEF TickApogee
<1>10. CASE TickDrogue
  BY <1>10 DEF TickDrogue, FlightTick, Stay, EnterDeploy, pyro, AbstractStutter, R!FireMain, R!Next
<1>11. CASE TickDeploy
  <2>1. /\ state = "DEPLOY" /\ mainPyro \in BOOLEAN /\ mainPyroOff \in BOOLEAN
        /\ mainSequenceComplete \in BOOLEAN /\ droguePyro \in BOOLEAN
    BY <1>11 DEF TickDeploy, FlightTick, TInv, TypeOK
  <2>2. (mainPyro <=> ~mainPyroOff) /\ (mainSequenceComplete <=> mainPyroOff) /\ ~droguePyro
    BY <2>1 DEF PulseInv
  <2>3. CASE TouchDown /\ state' = "GROUND" /\ PyroAllOff
    <3>1. UNCHANGED droguePyro /\ mainPyro' = FALSE
      BY <2>1, <2>2, <2>3 DEF PyroAllOff
    <3>4. PhaseOf(state) = "MainDeployed" /\ PhaseOf(state)' = "Ground"
      BY <2>1, <2>3
    <3>2. CASE mainPyro
      BY <3>4, <3>1, <3>2 DEF R!MainOut, R!Next
    <3>3. CASE ~mainPyro
      <4>1. UNCHANGED mainPyro
        BY <2>1, <3>1, <3>3
      <4> QED
        BY <3>4, <3>1, <3>3, <4>1 DEF R!Land, R!Next
    <3> QED
      BY <3>2, <3>3
  <2>4. CASE mainPyro' = (mainPyro /\ ~MainOutDue) /\ UNCHANGED <<state, droguePyro>>
    <3>1. CASE mainPyro /\ MainOutDue
      BY <2>1, <2>4, <3>1 DEF R!MainOut, R!Next
    <3>2. CASE ~(mainPyro /\ MainOutDue)
      <4>1. mainPyro' = mainPyro
        BY <2>1, <2>4, <3>2, Zenon
      <4> QED
        BY <2>4, <4>1 DEF AbstractStutter
    <3> QED
      BY <3>1, <3>2
  <2> QED
    BY <1>11, <2>3, <2>4 DEF TickDeploy
<1> QED
  BY <1>1, <1>2, <1>3, <1>5, <1>6, <1>7, <1>8, <1>9, <1>10, <1>11 DEF Next, Horizon

(* Every behaviour of the state machine is one of RecoverySequence: one    *)
(* direction of flight, one channel per phase, and safety from anywhere.   *)
THEOREM Refined == Spec => RecoveryRefined
<1>1. Init => R!Init
  BY DEF Init, R!Init, PhaseOf
<1>2. TInv /\ PulseInv /\ [Next]_vars => [R!Next]_(R!vars)
  BY RefinedStep DEF AbstractStutter, R!vars
<1> QED
  BY <1>1, <1>2, Typed, Pulses, PTL DEF Spec, RecoveryRefined, R!Spec

-----------------------------------------------------------------------------
(* What the observer of MCFlight sees of a flight. *)

(* The flights of the runs are among those the theorems are about. *)
LEMMA RunsAreWatched == MCSpec => WatchedSpec
<1>1. [MCNext]_<<vars, observer>> => [Watched]_<<vars, observer>>
  BY DEF MCNext, Over
<1> QED
  BY <1>1, PTL DEF MCSpec, WatchedSpec

LEMMA WatchedStep == [Watched]_<<vars, observer>> => Watched \/ UNCHANGED <<vars, observer>>
OBVIOUS

LEMMA IsAFlight == WatchedSpec => Spec
<1>1. MCInit => Init
  BY DEF MCInit
<1>2. [Watched]_<<vars, observer>> => [Next]_vars
  BY WatchedStep DEF Watched
<1> QED
  BY <1>1, <1>2, PTL DEF WatchedSpec, Spec

LEMMA FlightFacts == WatchedSpec => [](TInv /\ PulseInv /\ TimeInv)
BY IsAFlight, Typed, Pulses, Stamped, PTL

(* How a channel goes on and off. *)
LEMMA Switching ==
  ASSUME TInv, PulseInv, TimeInv, Next
  PROVE  /\ droguePyro' => apogeeMs' = IF droguePyro THEN apogeeMs ELSE now
         /\ mainPyro' => deployMs' = IF mainPyro THEN deployMs ELSE now
         /\ droguePyro /\ ~droguePyro' => abort \/ ResetPending \/ PulseOver(apogeeMs)
         /\ mainPyro /\ ~mainPyro' => abort \/ ResetPending \/ PulseOver(deployMs)
<1> USE DEF PulseInv
<1>1. CASE UNCHANGED <<stamps, pyro>>
  BY <1>1 DEF stamps, pyro
<1>2. CASE AbortToSafe \/ ExecuteBenchReset \/ TickInit
  BY <1>2 DEF AbortToSafe, ExecuteBenchReset, TickInit, EnterSafe, PyroAllOff, Aborting, FlightTick
<1>3. CASE TickLaunch \/ TickArmed
  BY <1>3 DEF TickLaunch, TickArmed, FlightTick, Stay, EnterLaunch, EnterCoast, stamps, pyro
<1>4. ASSUME EnterApogee(now), state \in {"LAUNCH", "COAST"}
      PROVE  apogeeMs' = now /\ ~droguePyro /\ droguePyro' /\ ~mainPyro /\ ~mainPyro'
  <2>1. mainPyro' = mainPyro /\ droguePyro' = TRUE /\ apogeeMs' = now
    BY <1>4 DEF EnterApogee
  <2>2. mainPyro \in BOOLEAN
    BY DEF TInv, TypeOK
  <2> QED
    BY <1>4, <2>1, <2>2
<1>5. CASE ExecuteForce
  BY <1>4, <1>5 DEF ExecuteForce, ForcePending, StateAllowsForceRecoveryDeploy
<1>6. CASE CoastTimeout \/ CoastTilt \/ CoastBarometer
  <2>1. state = "COAST" /\ (Stay \/ EnterApogee(now))
    BY <1>6, DecidedNow DEF CoastTimeout, CoastTilt, CoastTick, CoastBarometer, FlightTick, TimeInv
  <2> QED
    BY <1>1, <1>4, <2>1 DEF Stay
<1>7. CASE TickApogee
  <2>1. state = "APOGEE"
    BY <1>7 DEF TickApogee, FlightTick
  <2>2. CASE droguePyro' = FALSE /\ PulseOver(apogeeMs) /\ mainPyro' = mainPyro
    BY <2>1, <2>2
  <2>3. CASE Stay
    BY <1>1, <2>3 DEF Stay
  <2> QED
    BY <1>7, <2>2, <2>3 DEF TickApogee
<1>8. CASE TickDrogue
  <2>1. state = "DROGUE" /\ ~droguePyro /\ ~mainPyro
    BY <1>8 DEF TickDrogue, FlightTick
  <2>2. CASE EnterDeploy(now)
    BY <2>1, <2>2 DEF EnterDeploy
  <2> QED
    BY <1>1, <1>8, <2>2 DEF TickDrogue, Stay
<1>9. CASE TickDeploy
  <2>1. state = "DEPLOY" /\ ~droguePyro /\ deployMs' = deployMs /\ mainPyro \in BOOLEAN
    BY <1>9 DEF TickDeploy, FlightTick, stamps, TInv, TypeOK
  <2>2. CASE TouchDown /\ PyroAllOff
    BY <2>1, <2>2 DEF PyroAllOff, TouchDown, LandingOpen, MainOutDue
  <2>3. CASE mainPyro' = (mainPyro /\ ~MainOutDue) /\ UNCHANGED droguePyro
    <3>1. ~droguePyro'
      BY <2>1, <2>3
    <3>2. mainPyro' => mainPyro
      BY <2>3
    <3>3. mainPyro /\ ~mainPyro' => MainOutDue
      BY <2>3
    <3> QED
      BY <2>1, <3>1, <3>2, <3>3 DEF MainOutDue
  <2> QED
    BY <1>9, <2>2, <2>3 DEF TickDeploy
<1>10. CASE ExecuteArm
  BY <1>1, <1>10 DEF ExecuteArm
<1> QED
  BY <1>1, <1>2, <1>3, <1>5, <1>6, <1>7, <1>8, <1>9, <1>10
  DEF Next, Sense, TickIdle, Stay, Uplink, Horizon, vars

(* A channel went on no later than the stamp its pulse is counted from.    *)
PulseClock ==
  /\ energised.drogue \in Nat /\ energised.drogue <= now
  /\ energised.main \in Nat /\ energised.main <= now
  /\ droguePyro => energised.drogue <= apogeeMs
  /\ mainPyro => energised.main <= deployMs

LEMMA PulseClockStep ==
  ASSUME TInv, TInv', PulseInv, TimeInv, PulseClock, [Watched]_<<vars, observer>>
  PROVE  PulseClock'
<1> USE DEF PulseClock
<1>1. CASE UNCHANGED <<vars, observer>>
  BY <1>1 DEF vars, observer, stamps, pyro
<1>2. CASE Watched
  <2>1. now \in Nat /\ now' \in Nat /\ now <= now' /\ apogeeMs \in Nat /\ deployMs \in Nat
    <3>1. now \in Nat /\ now' \in Nat /\ apogeeMs \in Nat /\ deployMs \in Nat
      BY ZeroIsATime DEF TInv, TypeOK
    <3>2. Next
      BY <1>2 DEF Watched
    <3>3. CASE Uplink
      BY <3>1, <3>3 DEF Uplink
    <3>4. CASE ~Uplink
      <4>1. now' = now
        BY <3>2, <3>4 DEF Next, Sense, FsmStep, AbortToSafe, ExecuteBenchReset, ExecuteArm,
           ExecuteForce, TickInit, TickIdle, TickArmed, TickLaunch, CoastTimeout, CoastTilt,
           CoastBarometer, CoastTick, TickApogee, TickDrogue, TickDeploy, FlightTick, Horizon, vars
      <4> QED BY <3>1, <4>1
    <3> QED BY <3>1, <3>3, <3>4
  <2>2. /\ energised'.drogue = energised.drogue \/ (energised'.drogue = now /\ ~droguePyro)
        /\ energised'.main = energised.main \/ (energised'.main = now /\ ~mainPyro)
    BY <1>2 DEF Watched, ObservePulses
  <2>3. /\ droguePyro' => apogeeMs' = IF droguePyro THEN apogeeMs ELSE now
        /\ mainPyro' => deployMs' = IF mainPyro THEN deployMs ELSE now
    BY <1>2, Switching DEF Watched
  <2> QED
    BY <2>1, <2>2, <2>3
<1> QED
  BY <1>1, <1>2, WatchedStep

(* Unless the vehicle is made safe, a channel that goes off has been on    *)
(* for the whole pulse, counted from the tick that really switched it on.  *)
THEOREM PulsesAreWhole == WatchedSpec => PulsesComplete
<1> DEFINE Whole ==
      abort \/ (BenchResetBuild /\ resetRequest # None)
      \/ /\ droguePyro /\ ~droguePyro' => now - energised.drogue >= PyroFireDuration
         /\ mainPyro /\ ~mainPyro' => now - energised.main >= PyroFireDuration
<1>1. MCInit => PulseClock
  BY DEF MCInit, Init, ObserverInit, PulseClock
<1>2. /\ TInv /\ TInv' /\ PulseInv /\ TimeInv /\ PulseClock /\ [Watched]_<<vars, observer>>
      => PulseClock'
  BY PulseClockStep
<1>3. TInv /\ PulseInv /\ TimeInv /\ PulseClock /\ [Watched]_<<vars, observer>>
      => [Whole]_<<vars, observer>>
  <2> SUFFICES ASSUME TInv, PulseInv, TimeInv, PulseClock, Watched,
                      ~abort, ~ResetPending
               PROVE  /\ droguePyro /\ ~droguePyro' => now - energised.drogue >= PyroFireDuration
                      /\ mainPyro /\ ~mainPyro' => now - energised.main >= PyroFireDuration
    BY WatchedStep DEF ResetPending
  <2>1. /\ now \in Nat /\ apogeeMs \in Nat /\ deployMs \in Nat /\ PyroFireDuration \in Nat
        /\ apogeeMs <= now /\ deployMs <= now
    BY ZeroIsATime, ThresholdAssumption DEF TInv, TypeOK, TimeInv, StampsPast
  <2>2. /\ droguePyro /\ ~droguePyro' => PulseOver(apogeeMs)
        /\ mainPyro /\ ~mainPyro' => PulseOver(deployMs)
    BY Switching DEF Watched
  <2> QED
    BY <2>1, <2>2 DEF PulseOver, Since, PulseClock
<1> QED
  BY <1>1, <1>2, <1>3, FlightFacts, PTL DEF WatchedSpec, PulsesComplete

-----------------------------------------------------------------------------
(* The last n elements of a sequence, counted from its end. *)

LEMMA LastOfElements ==
  ASSUME NEW S, NEW s \in Seq(S), NEW n \in Nat
  PROVE  /\ LastOf(s, n) \in Seq(S)
         /\ Len(LastOf(s, n)) = IF Len(s) <= n THEN Len(s) ELSE n
         /\ \A i \in 0..(Len(LastOf(s, n)) - 1) : LastOf(s, n)[Len(LastOf(s, n)) - i] = s[Len(s) - i]
<1>1. CASE Len(s) <= n
  BY <1>1 DEF LastOf
<1>2. CASE Len(s) > n
  <2> DEFINE m == Len(s) - n + 1
             t == SubSeq(s, m, Len(s))
  <2>1. m \in 1..(Len(s) + 1)
    BY <1>2
  <2>2. LastOf(s, n) = t
    BY <1>2 DEF LastOf
  <2>3. t \in Seq(S) /\ Len(t) = n /\ \A j \in 1..n : t[j] = s[m + j - 1]
    BY <1>2, <2>1, SubSeqProperties
  <2> HIDE DEF t
  <2>4. ASSUME NEW i \in 0..(n - 1)
        PROVE  t[n - i] = s[Len(s) - i]
    <3>1. n - i \in 1..n /\ m + (n - i) - 1 = Len(s) - i
      BY <1>2
    <3> QED
      BY <2>3, <3>1
  <2>5. \A i \in 0..(Len(t) - 1) : t[Len(t) - i] = s[Len(s) - i]
    BY <2>3, <2>4
  <2>6. Len(t) = IF Len(s) <= n THEN Len(s) ELSE n
    BY <1>2, <2>3
  <2> HIDE DEF m
  <2> QED
    BY <2>2, <2>3, <2>5, <2>6, Zenon
<1>3. Len(s) <= n \/ Len(s) > n
  OBVIOUS
<1> QED
  BY <1>1, <1>2, <1>3, Zenon

(* t is s with a added, of which the last n are kept. *)
Follows(t, s, a, n) ==
  /\ Len(t) = IF Len(s) < n THEN Len(s) + 1 ELSE n
  /\ t[Len(t)] = a
  /\ \A i \in 1..(Len(t) - 1) : t[Len(t) - i] = s[Len(s) + 1 - i]

LEMMA LastOfAppended ==
  ASSUME NEW S, NEW s \in Seq(S), NEW a \in S, NEW n \in Nat \ {0},
         NEW t, t = LastOf(Append(s, a), n)
  PROVE  t \in Seq(S) /\ Follows(t, s, a, n)
<1> DEFINE full == Append(s, a)
           last == LastOf(full, n)
<1>1. /\ full \in Seq(S) /\ Len(full) = Len(s) + 1 /\ full[Len(full)] = a
      /\ \A j \in 1..Len(s) : full[j] = s[j]
  OBVIOUS
<1> HIDE DEF full
<1>2. /\ t \in Seq(S) /\ Len(t) = IF Len(full) <= n THEN Len(full) ELSE n
      /\ \A i \in 0..(Len(t) - 1) : t[Len(t) - i] = full[Len(full) - i]
  <2>1. /\ last \in Seq(S) /\ Len(last) = IF Len(full) <= n THEN Len(full) ELSE n
        /\ \A i \in 0..(Len(last) - 1) : last[Len(last) - i] = full[Len(full) - i]
    BY <1>1, LastOfElements
  <2>2. t = last
    BY DEF full
  <2> HIDE DEF last
  <2> QED
    BY <2>1, <2>2
<1>3. Len(t) \in Nat /\ Len(t) > 0 /\ Len(s) \in Nat
  BY <1>1, <1>2
<1>4. t[Len(t)] = a
  <2>1. 0 \in 0..(Len(t) - 1)
    BY <1>3
  <2>2. t[Len(t) - 0] = full[Len(full) - 0]
    BY <1>2, <2>1
  <2>3. Len(t) - 0 = Len(t) /\ Len(full) - 0 = Len(full)
    BY <1>1, <1>3
  <2> QED
    BY <1>1, <2>2, <2>3
<1>5. ASSUME NEW i \in 1..(Len(t) - 1) PROVE t[Len(t) - i] = s[Len(s) + 1 - i]
  <2>1. t[Len(t) - i] = full[Len(full) - i]
    BY <1>2, <1>3
  <2> QED
    BY <1>1, <1>2, <1>3, <2>1
<1>6. Len(t) = IF Len(s) < n THEN Len(s) + 1 ELSE n
  BY <1>1, <1>2, <1>3
<1> QED
  BY <1>2, <1>4, <1>5, <1>6 DEF Follows

-----------------------------------------------------------------------------
(* The altitudes published from APOGEE on, against what the state machine  *)
(* makes of them.  The newest is still to be judged between the sensors'   *)
(* step and the tick; every older one has been.                            *)

Recovering == {"APOGEE", "DROGUE", "DEPLOY"}

AltitudesKnown ==
  /\ altitudes \in Seq(Int)
  /\ state \in Recovering /\ altitudes # <<>> => altitudes[Len(altitudes)] = baro.altitude
  /\ state = "APOGEE" /\ altitudes = <<>> => baro.updated <= apogeeMs
  /\ state = "DROGUE" /\ altitudes = <<>> => baro.updated + PyroFireDuration <= now
  /\ state = "DEPLOY" => altitudes # <<>> \/ baro.fault

(* The n altitudes before the last k are at or below the deployment altitude. *)
Below(n, k) ==
  n + k <= Len(altitudes)
  /\ \A i \in 0..(n - 1) : altitudes[Len(altitudes) - k - i] <= MainDeployAltitude

MainCounted ==
  state = "DROGUE" =>
    \/ mainDeployConfirmCount = 0
    \/ turn = "fsm" /\ (baro.fault \/ NewDrogueSample) /\ Below(mainDeployConfirmCount, 1)
    \/ baro.updated = apogee.lastBaro /\ Below(mainDeployConfirmCount, 0)

(* A landing window is what the altitudes before the last k end in, as far *)
(* as both reach.                                                          *)
Mirrored(window, k) ==
  \A i \in 0..(Len(window) - 1) :
    i + k < LandingWindow => /\ i + k < Len(altitudes)
                             /\ window[Len(window) - i] = altitudes[Len(altitudes) - k - i]

LandingFollowed ==
  state = "DEPLOY" =>
    \/ baro.fault
    \/ landing.window = <<>>
    \/ /\ turn = "fsm" /\ NewSample(landing.last)
       /\ mainSequenceComplete /\ Mirrored(landing.window, 1)
    \/ baro.updated = landing.last /\ mainSequenceComplete /\ Mirrored(landing.window, 0)

(* The ways the observer's altitudes go on. *)
Memory == Larger(MainDeployConfirmSamples, LandingWindow)

LEMMA MemoryLength ==
  Memory \in Nat \ {0} /\ Memory >= MainDeployConfirmSamples /\ Memory >= LandingWindow
BY CountsPositive DEF Memory, Larger

LEMMA AltitudesStep ==
  ASSUME scenario # "all", TInv', AltitudesKnown, ObserveAltitudes
  PROVE  /\ altitudes' \in Seq(Int)
         /\ state \notin Recovering => altitudes' = <<>>
         /\ state \in Recovering /\ baro'.updated = baro.updated => altitudes' = altitudes
         /\ state \in Recovering /\ baro'.updated # baro.updated =>
              Follows(altitudes', altitudes, baro'.altitude, Memory)
<1>1. altitudes \in Seq(Int) /\ baro'.altitude \in Int
  BY DEF AltitudesKnown, TInv, TypeOK, Barometer
<1>2. CASE state \notin Recovering
  BY <1>2 DEF ObserveAltitudes, Recovering
<1>3. CASE state \in Recovering /\ baro'.updated = baro.updated
  BY <1>3, <1>1 DEF ObserveAltitudes, Recovering
<1>4. CASE state \in Recovering /\ baro'.updated # baro.updated
  <2>1. altitudes' = LastOf(Append(altitudes, baro'.altitude), Memory)
    BY <1>4 DEF ObserveAltitudes, Recovering, Memory
  <2> QED
    BY <1>1, <1>4, <2>1, LastOfAppended, MemoryLength, Zenon
<1> QED
  BY <1>2, <1>3, <1>4

(* A sample that is judged in DROGUE is the newest of the altitudes: one   *)
(* from before APOGEE is too old, the drogue pulse having come between.    *)
LEMMA JudgedIsNewest ==
  ASSUME TInv, AltitudesKnown, BarometerMaxGap < PyroFireDuration, state = "DROGUE", NewDrogueSample
  PROVE  altitudes # <<>> /\ altitudes[Len(altitudes)] = baro.altitude
<1>1. now \in Nat /\ baro.updated \in Nat /\ BarometerMaxGap \in Nat /\ PyroFireDuration \in Nat
  BY ZeroIsATime, ThresholdAssumption DEF TInv, TypeOK, Barometer
<1>2. Since(now, baro.updated) <= BarometerMaxGap
  BY DEF NewDrogueSample, BarometerPrimaryUsable
<1>3. ~(baro.updated + PyroFireDuration <= now)
  BY <1>1, <1>2 DEF Since
<1> QED
  BY <1>3 DEF AltitudesKnown, Recovering

LEMMA MainCounts ==
  ASSUME TInv, AltitudesKnown, MainCounted, BarometerMaxGap < PyroFireDuration,
         TickDrogue, mainDeployConfirmCount' # 0
  PROVE  /\ ~baro'.fault /\ Below(mainDeployConfirmCount', 0)
         /\ baro'.updated = apogee'.lastBaro /\ altitudes # <<>>
<1> DEFINE count == mainDeployConfirmCount
<1>1. /\ state = "DROGUE" /\ count \in Nat /\ altitudes \in Seq(Int) /\ baro \in Barometer
      /\ apogee \in ApogeeScratch
  BY CountsPositive DEF TickDrogue, FlightTick, TInv, TypeOK, AltitudesKnown
<1>2. count' = MainDeployCounted(NewDrogueSample, baro'.fault)
  BY DEF TickDrogue
<1>3. ~baro'.fault
  BY <1>2 DEF MainDeployCounted
<1>4. baro'.updated = baro.updated /\ (baro.fault => baro'.fault)
  BY <1>1 DEF TickDrogue, TrackBarometerStuck, Barometer
<1>5. CASE NewDrogueSample
  <2>1. count' = count + 1 /\ baro.altitude <= MainDeployAltitude
    BY <1>2, <1>5 DEF MainDeployCounted
  <2>2. altitudes # <<>> /\ altitudes[Len(altitudes)] = baro.altitude
    BY <1>1, <1>5, JudgedIsNewest
  <2>3. apogee'.lastBaro = baro.updated
    BY <1>1, <1>5 DEF TickDrogue, ApogeeScratch
  <2>4. count + 1 <= Len(altitudes)
        /\ \A i \in 1..count : altitudes[Len(altitudes) - i] <= MainDeployAltitude
    <3>1. CASE count = 0
      BY <1>1, <2>2, <3>1
    <3>2. CASE Below(count, 1)
      <4>1. count + 1 <= Len(altitudes)
        BY <3>2 DEF Below
      <4>2. ASSUME NEW i \in 1..count PROVE altitudes[Len(altitudes) - i] <= MainDeployAltitude
        <5>1. i - 1 \in 0..(count - 1) /\ Len(altitudes) - 1 - (i - 1) = Len(altitudes) - i
          BY <1>1
        <5>2. altitudes[Len(altitudes) - 1 - (i - 1)] <= MainDeployAltitude
          BY <3>2, <5>1 DEF Below
        <5> QED
          BY <5>1, <5>2
      <4> QED
        BY <4>1, <4>2
    <3> QED
      BY <1>1, <1>5, <3>1, <3>2 DEF MainCounted, NewDrogueSample
  <2>5. ASSUME NEW i \in 0..count PROVE altitudes[Len(altitudes) - 0 - i] <= MainDeployAltitude
    <3>1. CASE i = 0
      <4>1. Len(altitudes) - 0 - i = Len(altitudes)
        BY <1>1, <3>1
      <4> QED
        BY <2>1, <2>2, <4>1
    <3>2. CASE i \in 1..count
      <4>1. Len(altitudes) - 0 - i = Len(altitudes) - i
        BY <1>1, <3>2
      <4> QED
        BY <2>4, <3>2, <4>1
    <3> QED
      BY <1>1, <3>1, <3>2
  <2>6. Below(count + 1, 0)
    BY <1>1, <2>4, <2>5 DEF Below
  <2> QED
    BY <1>3, <1>4, <2>1, <2>2, <2>3, <2>6
<1>6. CASE ~NewDrogueSample
  <2>1. count' = count /\ UNCHANGED <<baro, apogee>>
    BY <1>2, <1>3, <1>6 DEF MainDeployCounted, TickDrogue
  <2>2. baro.updated = apogee.lastBaro /\ Below(count, 0)
    BY <1>1, <1>3, <1>4, <1>6, <2>1 DEF MainCounted
  <2>3. count <= Len(altitudes)
    BY <1>1, <2>2 DEF Below
  <2>4. altitudes # <<>>
    BY <1>1, <2>1, <2>3
  <2> QED
    BY <1>3, <2>1, <2>2, <2>4
<1> QED
  BY <1>5, <1>6

(* How a step changes the last sample: Sense publishes one of this pass,   *)
(* anything else leaves the sample alone, save that a fault may be latched. *)
LEMMA SampleStep ==
  ASSUME TInv, TimeInv, Next
  PROVE  \/ baro' = baro
         \/ baro'.fault /\ baro'.updated = baro.updated /\ baro'.altitude = baro.altitude
         \/ Sense /\ /\ baro'.updated = now /\ baro.updated < now /\ now # 0
                     /\ baro'.valid /\ baro'.fault = baro.fault
<1>1. baro \in Barometer /\ now \in Nat /\ baro.updated \in Nat
  BY ZeroIsATime DEF TInv, TypeOK, Barometer
<1>2. CASE Sense
  <2>1. baro.updated < now /\ now # 0
    BY <1>1, <1>2 DEF Sense, TimeInv, StampsPast
  <2> QED
    BY <1>1, <1>2, <2>1 DEF Sense, SenseBarometer, Barometer
<1>3. CASE TrackBarometerStuck
  BY <1>1, <1>3 DEF TrackBarometerStuck, Barometer
<1> QED
  BY <1>2, <1>3 DEF Next, AbortToSafe, ExecuteBenchReset, ExecuteArm, ExecuteForce, TickInit,
     TickIdle, TickArmed, TickLaunch, CoastTimeout, CoastTilt, CoastBarometer, TickApogee,
     TickDrogue, TickDeploy, Uplink, Horizon, vars

(* How a step moves through the descent. *)
LEMMA DescentMoves ==
  ASSUME TInv, TimeInv, Next
  PROVE  /\ now <= now'
         /\ \/ state' \notin Recovering
            \/ state' = state /\ apogeeMs' = apogeeMs
            \/ state \notin Recovering /\ state' = "APOGEE" /\ apogeeMs' = now
            \/ state = "APOGEE" /\ state' = "DROGUE" /\ PulseOver(apogeeMs) /\ UNCHANGED baro
            \/ TickDrogue /\ state = "DROGUE" /\ state' = "DEPLOY"
<1>1. now \in Nat
  BY ZeroIsATime DEF TInv, TypeOK
<1>2. CASE Stay /\ UNCHANGED now
  BY <1>1, <1>2 DEF Stay, stamps
<1>3. CASE Sense \/ Uplink \/ Horizon
  BY <1>1, <1>3 DEF Sense, Uplink, Horizon, vars, stamps
<1>4. CASE AbortToSafe \/ ExecuteBenchReset \/ TickInit \/ ExecuteArm
  BY <1>1, <1>4 DEF AbortToSafe, ExecuteBenchReset, TickInit, FlightTick, FsmStep, EnterSafe,
     ExecuteArm, Recovering
<1>5. CASE TickArmed \/ TickLaunch
  BY <1>1, <1>2, <1>5 DEF TickArmed, TickLaunch, FlightTick, FsmStep, EnterLaunch, EnterCoast, Recovering
<1>6. CASE ExecuteForce
  BY <1>1, <1>6 DEF ExecuteForce, FsmStep, ForcePending, StateAllowsForceRecoveryDeploy, EnterApogee,
     Recovering
<1>7. CASE CoastTimeout \/ CoastTilt \/ CoastBarometer
  <2>1. state = "COAST" /\ UNCHANGED now /\ (Stay \/ EnterApogee(now))
    BY <1>7, DecidedNow DEF CoastTimeout, CoastTilt, CoastTick, CoastBarometer, FlightTick, FsmStep, TimeInv
  <2> QED
    BY <1>1, <1>2, <2>1 DEF EnterApogee, Recovering
<1>8. CASE TickApogee
  BY <1>1, <1>2, <1>8 DEF TickApogee, FlightTick, FsmStep, EnterDrogue
<1>9. CASE TickDrogue
  <2>1. state = "DROGUE" /\ now' = now /\ (Stay \/ EnterDeploy(now))
    BY <1>9 DEF TickDrogue, FlightTick, FsmStep
  <2> QED
    BY <1>1, <1>2, <1>9, <2>1 DEF EnterDeploy
<1>10. CASE TickDeploy
  BY <1>1, <1>10 DEF TickDeploy, FlightTick, FsmStep, stamps, Recovering
<1>11. CASE TickIdle
  BY <1>2, <1>11 DEF TickIdle, FlightTick, FsmStep
<1> QED
  BY <1>3, <1>4, <1>5, <1>6, <1>7, <1>8, <1>9, <1>10, <1>11 DEF Next

LEMMA AltitudesKnownStep ==
  ASSUME scenario # "all", BarometerMaxGap < PyroFireDuration, TInv, TInv', TimeInv,
         AltitudesKnown, MainCounted, Next, ObserveAltitudes
  PROVE  AltitudesKnown'
<1>1. /\ now \in Nat /\ now' \in Nat /\ apogeeMs \in Nat /\ baro.updated \in Nat
      /\ PyroFireDuration \in Nat /\ MainDeployConfirmSamples \in Nat \ {0}
      /\ baro.updated <= now /\ apogeeMs <= now /\ now <= now'
  BY ZeroIsATime, ThresholdAssumption, DescentMoves
  DEF TInv, TypeOK, Barometer, TimeInv, StampsPast
<1>2. altitudes' \in Seq(Int)
  BY AltitudesStep
<1>3. CASE baro'.updated # baro.updated
  <2>1. Sense
    BY <1>3, SampleStep
  <2>2. state' = state
    BY <2>1 DEF Sense
  <2>3. CASE state \notin Recovering
    BY <1>2, <2>2, <2>3, AltitudesStep DEF AltitudesKnown, Recovering
  <2>4. CASE state \in Recovering
    <3>1. /\ altitudes'[Len(altitudes')] = baro'.altitude
          /\ Len(altitudes') = IF Len(altitudes) < Memory THEN Len(altitudes) + 1 ELSE Memory
      BY <1>3, <2>4, AltitudesStep DEF Follows
    <3>2. altitudes' # <<>>
      BY <3>1, MemoryLength DEF AltitudesKnown
    <3> QED
      BY <1>2, <3>1, <3>2 DEF AltitudesKnown
  <2> QED
    BY <2>3, <2>4
<1>4. CASE baro'.updated = baro.updated
  <2>1. baro'.altitude = baro.altitude /\ (baro.fault => baro'.fault)
    <3>1. CASE Sense /\ baro'.updated = now /\ baro.updated < now
      BY <1>1, <1>4, <3>1
    <3> QED
      BY <3>1, SampleStep
  <2>2. CASE state' \notin Recovering
    BY <1>2, <2>2 DEF AltitudesKnown, Recovering
  <2>3. CASE state' = state /\ apogeeMs' = apogeeMs /\ state \in Recovering
    <3>1. altitudes' = altitudes
      BY <1>4, <2>3, AltitudesStep
    <3>2. baro.updated + PyroFireDuration <= now => baro'.updated + PyroFireDuration <= now'
      BY <1>1, <1>4
    <3> QED
      BY <1>2, <1>4, <2>1, <2>3, <3>1, <3>2 DEF AltitudesKnown
  <2>4. CASE state \notin Recovering /\ state' = "APOGEE" /\ apogeeMs' = now
    <3>1. altitudes' = <<>>
      BY <2>4, AltitudesStep
    <3> QED
      BY <1>1, <1>2, <1>4, <2>4, <3>1 DEF AltitudesKnown
  <2>5. CASE state = "APOGEE" /\ state' = "DROGUE" /\ PulseOver(apogeeMs)
    <3>1. altitudes' = altitudes
      BY <1>4, <2>5, AltitudesStep DEF Recovering
    <3>2. apogeeMs + PyroFireDuration <= now
      BY <1>1, <2>5 DEF PulseOver, Since
    <3>3. baro.updated <= apogeeMs => baro'.updated + PyroFireDuration <= now'
      BY <1>1, <1>4, <3>2
    <3> QED
      BY <1>2, <2>1, <2>5, <3>1, <3>3 DEF AltitudesKnown, Recovering
  <2>6. CASE TickDrogue /\ state = "DROGUE" /\ state' = "DEPLOY"
    <3>1. altitudes' = altitudes
      BY <1>4, <2>6, AltitudesStep DEF Recovering
    <3>2. altitudes # <<>> \/ baro'.fault
      <4>1. CASE mainDeployConfirmCount' # 0
        BY <2>6, <4>1, MainCounts
      <4>2. CASE mainDeployConfirmCount' = 0
        BY <1>1, <2>6, <4>2 DEF TickDrogue, Stay, MainFaultTimerReached
      <4> QED
        BY <4>1, <4>2
    <3> QED
      BY <1>2, <2>1, <2>6, <3>1, <3>2 DEF AltitudesKnown, Recovering
  <2> QED
    BY <2>2, <2>3, <2>4, <2>5, <2>6, DescentMoves
<1> QED
  BY <1>3, <1>4

LEMMA MainCountedStep ==
  ASSUME scenario # "all", BarometerMaxGap < PyroFireDuration, TInv, TInv', TimeInv,
         AltitudesKnown, MainCounted, Next, ObserveAltitudes
  PROVE  MainCounted'
<1> DEFINE count == mainDeployConfirmCount
<1>1. count \in Nat /\ altitudes \in Seq(Int) /\ altitudes' \in Seq(Int)
  BY CountsPositive, AltitudesStep DEF TInv, TypeOK, AltitudesKnown
<1>2. CASE count' = 0 \/ state' # "DROGUE"
  BY <1>2 DEF MainCounted
<1>3. CASE UNCHANGED <<state, mainDeployConfirmCount, apogee, baro>> /\ turn # "fsm"
  <2>1. state = "DROGUE" => altitudes' = altitudes
    BY <1>3, AltitudesStep DEF Recovering
  <2> QED
    BY <1>3, <2>1 DEF MainCounted, Below
<1>4. CASE Sense
  <2>1. /\ state' = state /\ count' = count /\ apogee' = apogee /\ now' = now /\ turn' = "fsm"
        /\ turn = "sensors"
    BY <1>4 DEF Sense, detectors
  <2>2. SUFFICES ASSUME state = "DROGUE", count # 0 PROVE MainCounted'
    BY <1>2, <2>1
  <2>3. baro.updated = apogee.lastBaro /\ Below(count, 0)
    BY <2>1, <2>2 DEF MainCounted
  <2>4. CASE baro'.updated = baro.updated
    <3>1. altitudes' = altitudes
      BY <2>2, <2>4, AltitudesStep DEF Recovering
    <3> QED
      BY <2>1, <2>3, <2>4, <3>1 DEF MainCounted, Below
  <2>5. CASE baro'.updated # baro.updated
    <3>1. baro'.updated = now /\ now # 0 /\ baro'.valid
      BY <2>5, SampleStep
    <3>2. baro'.fault \/ NewDrogueSample'
      <4>1. Since(now, now) = 0 /\ BarometerMaxGap \in Nat
        BY ZeroIsATime, ThresholdAssumption DEF Since, TInv, TypeOK
      <4> QED
        BY <2>1, <2>3, <2>5, <3>1, <4>1 DEF NewDrogueSample, BarometerPrimaryUsable, Since
    <3>3. Follows(altitudes', altitudes, baro'.altitude, Memory)
      BY <2>2, <2>5, AltitudesStep DEF Recovering
    <3>4. count < MainDeployConfirmSamples /\ count <= Len(altitudes)
      BY <2>2, <2>3, <1>1 DEF TInv, Undecided, Below
    <3>5. count + 1 <= Len(altitudes')
      BY <1>1, <3>3, <3>4, MemoryLength, CountsPositive DEF Follows
    <3>6. ASSUME NEW i \in 0..(count - 1) PROVE altitudes'[Len(altitudes') - 1 - i] <= MainDeployAltitude
      <4>1. i + 1 \in 1..(Len(altitudes') - 1)
        BY <1>1, <3>5
      <4>2. altitudes'[Len(altitudes') - (i + 1)] = altitudes[Len(altitudes) + 1 - (i + 1)]
        BY <3>3, <4>1 DEF Follows
      <4>3. /\ Len(altitudes') - (i + 1) = Len(altitudes') - 1 - i
            /\ Len(altitudes) + 1 - (i + 1) = Len(altitudes) - 0 - i
        BY <1>1
      <4>4. altitudes[Len(altitudes) - 0 - i] <= MainDeployAltitude
        BY <2>3 DEF Below
      <4> QED
        BY <4>2, <4>3, <4>4
    <3>7. Below(count, 1)'
      BY <2>1, <3>5, <3>6 DEF Below
    <3> QED
      BY <2>1, <3>2, <3>7 DEF MainCounted
  <2> QED
    BY <2>4, <2>5
<1>5. CASE TickDrogue
  <2>1. SUFFICES ASSUME count' # 0 PROVE MainCounted'
    BY <1>2
  <2>2. state = "DROGUE" /\ baro'.updated = baro.updated
    BY <1>5 DEF TickDrogue, TrackBarometerStuck, FlightTick, TInv, TypeOK, Barometer
  <2>3. altitudes' = altitudes
    BY <2>2, AltitudesStep DEF Recovering
  <2>4. Below(count', 0) /\ baro'.updated = apogee'.lastBaro
    BY <1>5, <2>1, MainCounts
  <2> QED
    BY <2>3, <2>4 DEF MainCounted, Below
<1>6. CASE TickApogee
  BY <1>2, <1>6 DEF TickApogee, FlightTick, EnterDrogue, Stay
<1>7. CASE Uplink \/ Horizon
  BY <1>3, <1>7 DEF Uplink, Horizon, vars, detectors
<1> QED
  BY <1>2, <1>4, <1>5, <1>6, <1>7
  DEF Next, AbortToSafe, EnterSafe, ExecuteBenchReset, ExecuteArm, ExecuteForce, TickInit, TickIdle,
      FlightTick, TickArmed, TickLaunch, EnterLaunch, EnterCoast, CoastTimeout, CoastTilt,
      CoastBarometer, CoastTick, TickDeploy, EnterApogee, EnterDeploy, Stay

(* A sample joins the landing window, of which the last ones are kept. *)
LEMMA LandingTaken ==
  ASSUME TypeOK
  PROVE  LET taken == LandingSampleTaken.window
         IN  /\ taken \in Seq(Int) /\ Len(taken) \in 1..LandingWindow
             /\ taken[Len(taken)] = baro.altitude
             /\ Len(taken) <= Len(landing.window) + 1
             /\ \A i \in 1..(Len(taken) - 1) :
                  taken[Len(taken) - i] = landing.window[Len(landing.window) + 1 - i]
<1> DEFINE kept == IF landing.last # 0 /\ Since(baro.updated, landing.last) > LandingMaxGap
                   THEN <<>> ELSE landing.window
           full == Append(kept, baro.altitude)
           taken == IF Len(full) > LandingWindow THEN Tail(full) ELSE full
<1>1. landing.window \in Seq(Int) /\ Len(landing.window) <= LandingWindow /\ baro.altitude \in Int
  BY DEF TypeOK, LandingScratch, Barometer
<1>2. /\ kept \in Seq(Int) /\ Len(kept) <= LandingWindow /\ Len(kept) <= Len(landing.window)
      /\ \A i \in 1..Len(kept) : kept[Len(kept) + 1 - i] = landing.window[Len(landing.window) + 1 - i]
  <2>1. CASE kept = <<>>
    <3>1. Len(kept) = 0 /\ kept \in Seq(Int) /\ LandingWindow \in Nat /\ Len(landing.window) \in Nat
      BY <1>1, <2>1, CountsPositive
    <3> QED
      BY <3>1
  <2>2. CASE kept = landing.window
    BY <1>1, <2>2
  <2> QED
    BY <2>1, <2>2
<1> HIDE DEF kept
<1>3. /\ full \in Seq(Int) /\ Len(full) = Len(kept) + 1 /\ full[Len(full)] = baro.altitude
      /\ \A j \in 1..Len(kept) : full[j] = kept[j]
  BY <1>1, <1>2
<1> HIDE DEF full
<1>4. LandingSampleTaken.window = taken
  BY DEF LandingSampleTaken, full, kept
<1>5. LandingWindow \in Nat \ {0}
  BY CountsPositive
<1>6. ASSUME NEW i \in 1..Len(kept) PROVE full[Len(full) - i] = landing.window[Len(landing.window) + 1 - i]
  <2>1. Len(full) - i \in 1..Len(kept) /\ Len(full) - i = Len(kept) + 1 - i
    BY <1>2, <1>3
  <2> QED
    BY <1>2, <1>3, <2>1
<1>7. CASE Len(full) > LandingWindow
  <2>1. /\ taken \in Seq(Int) /\ Len(taken) = Len(full) - 1
        /\ \A j \in 1..Len(taken) : taken[j] = full[j + 1]
    BY <1>3, <1>7
  <2>2. Len(taken) \in 1..LandingWindow /\ Len(taken) = LandingWindow /\ Len(kept) = LandingWindow
    BY <1>2, <1>3, <1>5, <1>7, <2>1
  <2>3. taken[Len(taken)] = baro.altitude
    BY <1>3, <2>1, <2>2
  <2>4. ASSUME NEW i \in 1..(Len(taken) - 1)
        PROVE  taken[Len(taken) - i] = landing.window[Len(landing.window) + 1 - i]
    <3>1. Len(taken) - i \in 1..Len(taken) /\ Len(taken) - i + 1 = Len(full) - i /\ i \in 1..Len(kept)
      BY <1>3, <2>1, <2>2
    <3> QED
      BY <1>6, <2>1, <3>1
  <2> HIDE DEF taken
  <2> QED
    BY <1>1, <1>2, <1>4, <2>1, <2>2, <2>3, <2>4
<1>8. CASE Len(full) <= LandingWindow
  <2>1. taken = full
    BY <1>3, <1>5, <1>8
  <2>2. Len(full) \in 1..LandingWindow /\ Len(full) <= Len(landing.window) + 1 /\ Len(full) - 1 = Len(kept)
    BY <1>1, <1>2, <1>3, <1>5, <1>8
  <2> HIDE DEF taken
  <2> QED
    BY <1>3, <1>4, <1>6, <2>1, <2>2
<1> QED
  BY <1>3, <1>5, <1>7, <1>8

LEMMA LandingTakenMirrors ==
  ASSUME TInv, AltitudesKnown, LandingFollowed, state = "DEPLOY", turn = "fsm", NewSample(landing.last)
  PROVE  Mirrored(LandingSampleTaken.window, 0)
<1> DEFINE taken == LandingSampleTaken.window
           window == landing.window
<1>1. /\ taken \in Seq(Int) /\ Len(taken) \in 1..LandingWindow
      /\ taken[Len(taken)] = baro.altitude /\ Len(taken) <= Len(window) + 1
      /\ \A i \in 1..(Len(taken) - 1) : taken[Len(taken) - i] = window[Len(window) + 1 - i]
  BY LandingTaken DEF TInv
<1> HIDE DEF taken
<1>2. /\ altitudes \in Seq(Int) /\ altitudes # <<>> /\ altitudes[Len(altitudes)] = baro.altitude
      /\ window \in Seq(Int) /\ LandingWindow \in Nat
  BY CountsPositive DEF AltitudesKnown, Recovering, NewSample, TInv, TypeOK, LandingScratch
<1>3. Len(window) \in Nat /\ Len(taken) \in Nat
  BY <1>1, <1>2
<1>4. ASSUME NEW i \in 1..(Len(taken) - 1)
      PROVE  i < Len(altitudes) /\ taken[Len(taken) - i] = altitudes[Len(altitudes) - i]
  <2>1. i <= Len(window) /\ i < LandingWindow
    BY <1>1, <1>2, <1>3
  <2>2. i - 1 \in 0..(Len(window) - 1) /\ i - 1 + 1 < LandingWindow /\ window # <<>>
    BY <1>2, <1>3, <2>1
  <2>3. Mirrored(window, 1)
    BY <2>2 DEF LandingFollowed, NewSample
  <2>4. i - 1 + 1 < Len(altitudes) /\ window[Len(window) - (i - 1)] = altitudes[Len(altitudes) - 1 - (i - 1)]
    BY <2>2, <2>3 DEF Mirrored
  <2>5. /\ Len(window) - (i - 1) = Len(window) + 1 - i /\ i - 1 + 1 = i
        /\ Len(altitudes) - 1 - (i - 1) = Len(altitudes) - i
    BY <1>2
  <2> QED
    BY <1>1, <2>4, <2>5
<1>5. ASSUME NEW i \in 0..(Len(taken) - 1)
      PROVE  i + 0 < Len(altitudes) /\ taken[Len(taken) - i] = altitudes[Len(altitudes) - 0 - i]
  <2>1. i + 0 = i /\ Len(altitudes) - 0 - i = Len(altitudes) - i
    BY <1>2
  <2>2. CASE i = 0
    <3>1. Len(taken) - i = Len(taken) /\ Len(altitudes) - i = Len(altitudes) /\ i < Len(altitudes)
      BY <1>1, <1>2, <2>2
    <3> QED
      BY <1>1, <1>2, <2>1, <3>1
  <2>3. CASE i \in 1..(Len(taken) - 1)
    BY <1>4, <2>1, <2>3
  <2> QED
    BY <1>1, <2>2, <2>3
<1> QED
  BY <1>5 DEF Mirrored, taken

LEMMA LandingFollowedStep ==
  ASSUME scenario # "all", TInv, TInv', PulseInv, TimeInv, AltitudesKnown, LandingFollowed, Next, ObserveAltitudes
  PROVE  LandingFollowed'
<1> DEFINE window == landing.window
<1>1. /\ window \in Seq(Int) /\ Len(window) <= LandingWindow /\ LandingWindow \in Nat
      /\ altitudes \in Seq(Int) /\ altitudes' \in Seq(Int)
  BY CountsPositive, AltitudesStep DEF TInv, TypeOK, LandingScratch, AltitudesKnown
<1>2. CASE state' # "DEPLOY" \/ baro'.fault \/ landing'.window = <<>>
  BY <1>2 DEF LandingFollowed
<1>3. CASE UNCHANGED <<state, landing, baro, mainSequenceComplete>> /\ turn # "fsm"
  <2>1. state = "DEPLOY" => altitudes' = altitudes
    BY <1>3, AltitudesStep DEF Recovering
  <2> QED
    BY <1>3, <2>1 DEF LandingFollowed, Mirrored
<1>4. CASE Sense
  <2>1. /\ state' = state /\ landing' = landing /\ mainSequenceComplete' = mainSequenceComplete
        /\ now' = now /\ turn' = "fsm" /\ turn = "sensors"
    BY <1>4 DEF Sense, detectors, sequence
  <2>2. SUFFICES ASSUME state = "DEPLOY", window # <<>>, ~baro'.fault PROVE LandingFollowed'
    BY <1>2, <2>1
  <2>3. ~baro.fault
    BY <2>2, SampleStep
  <2>4. baro.updated = landing.last /\ mainSequenceComplete /\ Mirrored(window, 0)
    BY <2>1, <2>2, <2>3 DEF LandingFollowed
  <2>5. CASE baro'.updated = baro.updated
    <3>1. altitudes' = altitudes
      BY <2>2, <2>5, AltitudesStep DEF Recovering
    <3> QED
      BY <2>1, <2>4, <2>5, <3>1 DEF LandingFollowed, Mirrored
  <2>6. CASE baro'.updated # baro.updated
    <3>1. baro'.updated = now /\ now # 0 /\ baro'.valid
      BY <2>6, SampleStep
    <3>2. NewSample(landing.last)'
      BY <2>1, <2>2, <2>4, <2>6, <3>1 DEF NewSample
    <3>3. Follows(altitudes', altitudes, baro'.altitude, Memory)
      BY <2>2, <2>6, AltitudesStep DEF Recovering
    <3>4. ASSUME NEW i \in 0..(Len(window) - 1), i + 1 < LandingWindow
          PROVE  /\ i + 1 < Len(altitudes')
                 /\ window[Len(window) - i] = altitudes'[Len(altitudes') - 1 - i]
      <4>1. i + 0 < LandingWindow
        BY <1>1, <3>4
      <4>2. i + 0 < Len(altitudes) /\ window[Len(window) - i] = altitudes[Len(altitudes) - 0 - i]
        BY <2>4, <4>1 DEF Mirrored
      <4>3. i + 1 \in 1..(Len(altitudes') - 1) /\ i + 1 < Len(altitudes')
        <5>1. Len(altitudes') = IF Len(altitudes) < Memory THEN Len(altitudes) + 1 ELSE Memory
          BY <3>3 DEF Follows
        <5>2. i \in Nat /\ Len(altitudes) \in Nat /\ Memory \in Nat
          BY <1>1, MemoryLength
        <5>3. i + 1 < Len(altitudes')
          BY <1>1, <3>4, <4>2, <5>1, <5>2, MemoryLength
        <5> QED
          BY <5>1, <5>2, <5>3
      <4>4. altitudes'[Len(altitudes') - (i + 1)] = altitudes[Len(altitudes) + 1 - (i + 1)]
        BY <3>3, <4>3 DEF Follows
      <4>5. /\ Len(altitudes') - (i + 1) = Len(altitudes') - 1 - i
            /\ Len(altitudes) + 1 - (i + 1) = Len(altitudes) - 0 - i
        BY <1>1
      <4> QED
        BY <4>2, <4>3, <4>4, <4>5
    <3>5. Mirrored(window, 1)'
      BY <2>1, <3>4 DEF Mirrored
    <3> QED
      BY <2>1, <2>4, <3>2, <3>5 DEF LandingFollowed
  <2> QED
    BY <2>5, <2>6
<1>5. CASE TickDeploy
  <2>1. /\ state = "DEPLOY" /\ turn = "fsm" /\ baro' = baro /\ mainSequenceComplete' = LandingOpen
        /\ landing' = IF LandingOpen /\ NewSample(landing.last) THEN LandingSampleTaken ELSE landing
    BY <1>5 DEF TickDeploy, FlightTick, FsmStep
  <2>2. altitudes' = altitudes
    BY <2>1, AltitudesStep DEF Recovering
  <2>3. CASE LandingOpen /\ NewSample(landing.last)
    <3>1. landing'.last = baro.updated /\ landing' = LandingSampleTaken
      BY <2>1, <2>3 DEF LandingSampleTaken
    <3>2. Mirrored(LandingSampleTaken.window, 0)
      BY <2>1, <2>3, LandingTakenMirrors
    <3>3. Mirrored(window, 0)'
      BY <2>2, <3>1, <3>2 DEF Mirrored
    <3> QED
      BY <2>1, <2>3, <3>1, <3>3 DEF LandingFollowed
  <2>4. CASE ~(LandingOpen /\ NewSample(landing.last))
    <3>1. landing' = landing
      BY <2>1, <2>4
    <3>2. SUFFICES ASSUME window # <<>>, ~baro.fault PROVE LandingFollowed'
      BY <1>2, <2>1, <3>1
    <3>3. baro.updated = landing.last /\ mainSequenceComplete /\ Mirrored(window, 0)
      BY <2>1, <2>4, <3>2 DEF LandingFollowed, LandingOpen
    <3> QED
      BY <2>1, <2>2, <3>1, <3>3 DEF LandingFollowed, Mirrored, LandingOpen
  <2> QED
    BY <2>3, <2>4
<1>6. CASE TickDrogue
  <2>1. CASE EnterDeploy(now)
    BY <1>2, <2>1 DEF EnterDeploy, NoLanding
  <2> QED
    BY <1>2, <1>6, <2>1 DEF TickDrogue, FlightTick, Stay
<1>7. CASE Uplink \/ Horizon
  BY <1>3, <1>7 DEF Uplink, Horizon, vars, detectors, sequence
<1> QED
  BY <1>2, <1>4, <1>5, <1>6, <1>7
  DEF Next, AbortToSafe, EnterSafe, ExecuteBenchReset, ExecuteArm, ExecuteForce, TickInit, TickIdle,
      FlightTick, TickArmed, TickLaunch, EnterLaunch, EnterCoast, CoastTimeout, CoastTilt,
      CoastBarometer, CoastTick, TickApogee, EnterApogee, EnterDrogue, Stay

DescentInv == scenario # "all" => AltitudesKnown /\ MainCounted /\ LandingFollowed

LEMMA DescentUnchanged ==
  ASSUME DescentInv, UNCHANGED <<vars, observer>> PROVE DescentInv'
BY DEF DescentInv, AltitudesKnown, MainCounted, LandingFollowed, Below, Mirrored, NewSample,
   NewDrogueSample, BarometerPrimaryUsable, Since, vars, observer, stamps, detectors, sequence

LEMMA DescentFollowed ==
  ASSUME BarometerMaxGap < PyroFireDuration
  PROVE  WatchedSpec => []DescentInv
<1>1. MCInit => DescentInv
  BY DEF MCInit, Init, ObserverInit, DescentInv, AltitudesKnown, MainCounted, LandingFollowed, Recovering
<1>2. TInv /\ TInv' /\ PulseInv /\ TimeInv /\ DescentInv /\ [Watched]_<<vars, observer>> => DescentInv'
  <2> SUFFICES ASSUME TInv, TInv', PulseInv, TimeInv, DescentInv, Watched PROVE DescentInv'
    BY WatchedStep, DescentUnchanged
  <2>1. scenario' = scenario /\ Next /\ ObserveAltitudes
    BY DEF Watched
  <2> QED
    BY <2>1, AltitudesKnownStep, MainCountedStep, LandingFollowedStep DEF DescentInv
<1> QED
  BY <1>1, <1>2, FlightFacts, PTL DEF WatchedSpec

LEMMA ScenarioKept == WatchedSpec => [](scenario \in Scenarios)
<1>1. MCInit => scenario \in Scenarios
  BY DEF MCInit, ObserverInit
<1>2. scenario \in Scenarios /\ [Watched]_<<vars, observer>> => (scenario \in Scenarios)'
  BY WatchedStep DEF Watched, observer
<1> QED
  BY <1>1, <1>2, PTL DEF WatchedSpec

LEMMA LastOfInts ==
  ASSUME NEW n \in Nat, altitudes \in Seq(Int), n <= Len(altitudes)
  PROVE  /\ Len(LastOf(altitudes, n)) = n
         /\ \A j \in 1..n : LastOf(altitudes, n)[j] = altitudes[Len(altitudes) - (n - j)]
<1> DEFINE lastOnes == LastOf(altitudes, n)
<1>1. /\ Len(lastOnes) = IF Len(altitudes) <= n THEN Len(altitudes) ELSE n
      /\ \A i \in 0..(Len(lastOnes) - 1) : lastOnes[Len(lastOnes) - i] = altitudes[Len(altitudes) - i]
  BY LastOfElements
<1> HIDE DEF lastOnes
<1>2. Len(lastOnes) = n
  BY <1>1
<1>3. ASSUME NEW j \in 1..n PROVE lastOnes[j] = altitudes[Len(altitudes) - (n - j)]
  <2>1. n - j \in 0..(n - 1) /\ n - (n - j) = j
    OBVIOUS
  <2> QED
    BY <1>1, <1>2, <2>1
<1> QED
  BY <1>2, <1>3 DEF lastOnes

(* Main is deployed on the last altitudes published, every one of them at  *)
(* or below the deployment altitude, or by the timer under a fault.        *)
THEOREM MainOnEvidence ==
  ASSUME "all" \notin Scenarios, BarometerMaxGap < PyroFireDuration
  PROVE  WatchedSpec => MainEvidence
<1> DEFINE lastOnes == LastOf(altitudes, MainDeployConfirmSamples)
           Evidence == state = "DROGUE" /\ state' = "DEPLOY" =>
             \/ baro'.fault /\ now - drogueMs >= MainFaultTimeout
             \/ /\ Len(lastOnes) = MainDeployConfirmSamples
                /\ \A i \in 1..Len(lastOnes) : lastOnes[i] <= MainDeployAltitude
<1>1. TInv /\ TimeInv /\ DescentInv /\ scenario \in Scenarios /\ [Watched]_<<vars, observer>>
      => [Evidence]_<<vars, observer>>
  <2> SUFFICES ASSUME TInv, TimeInv, DescentInv, scenario \in Scenarios, Watched,
                      state = "DROGUE", state' = "DEPLOY"
               PROVE  Evidence
    BY WatchedStep
  <2>1. AltitudesKnown /\ MainCounted
    BY DEF DescentInv
  <2>2. TickDrogue
    BY DescentMoves DEF Watched, Recovering
  <2>3. CASE mainDeployConfirmCount' >= MainDeployConfirmSamples
    <3>1. mainDeployConfirmCount' # 0
      BY <2>3, CountsPositive
    <3>2. Below(mainDeployConfirmCount', 0)
      BY <2>1, <2>2, <3>1, MainCounts
    <3> DEFINE count == mainDeployConfirmCount'
               needed == MainDeployConfirmSamples
    <3>3. /\ count \in Int /\ needed \in Nat /\ altitudes \in Seq(Int) /\ count + 0 <= Len(altitudes)
          /\ \A i \in 0..(count - 1) : altitudes[Len(altitudes) - 0 - i] <= MainDeployAltitude
      <4>1. mainDeployConfirmCount \in Int
        BY CountsPositive DEF TInv, TypeOK
      <4>2. count \in Int
        BY <2>2, <4>1 DEF TickDrogue, MainDeployCounted
      <4> QED
        BY <2>1, <3>2, <4>2, CountsPositive DEF Below, AltitudesKnown
    <3>4. needed <= count /\ needed <= Len(altitudes)
      BY <2>3, <3>3
    <3>5. Len(lastOnes) = needed /\ \A j \in 1..needed : lastOnes[j] = altitudes[Len(altitudes) - (needed - j)]
      BY <3>3, <3>4, LastOfInts
    <3> HIDE DEF lastOnes, count, needed
    <3>6. ASSUME NEW j \in 1..needed PROVE lastOnes[j] <= MainDeployAltitude
      <4>1. needed - j \in 0..(count - 1) /\ Len(altitudes) - 0 - (needed - j) = Len(altitudes) - (needed - j)
        BY <3>3, <3>4
      <4> QED
        BY <3>3, <3>5, <4>1
    <3> QED
      BY <3>5, <3>6 DEF needed
  <2>4. CASE MainFaultTimerReached(baro'.fault)
    <3>1. now \in Nat /\ drogueMs \in Nat /\ drogueMs <= now
      BY ZeroIsATime DEF TInv, TypeOK, TimeInv, StampsPast
    <3> QED
      BY <2>4, <3>1 DEF MainFaultTimerReached, Since
  <2> QED
    BY <2>2, <2>3, <2>4 DEF TickDrogue, Stay
<1>2. WatchedSpec => [](TInv /\ TimeInv /\ DescentInv /\ scenario \in Scenarios)
  BY FlightFacts, DescentFollowed, ScenarioKept, PTL
<1> QED
  BY <1>1, <1>2, PTL DEF WatchedSpec, MainEvidence

(* A landing is declared on the last altitudes published, all of which lie *)
(* in the narrow band: the window holds just those, in whatever way gaps,  *)
(* passes without a sample and the end of the main pulse have shaped it.   *)
THEOREM LandingOnEvidence ==
  ASSUME "all" \notin Scenarios, BarometerMaxGap < PyroFireDuration
  PROVE  WatchedSpec => LandingEvidence
<1> DEFINE lastOnes == LastOf(altitudes, LandingWindow)
           Evidence == state = "DEPLOY" /\ state' = "GROUND" =>
             /\ Len(lastOnes) = LandingWindow
             /\ \A i, j \in 1..Len(lastOnes) : lastOnes[i] - lastOnes[j] <= LandingRange
<1>1. TInv /\ TimeInv /\ DescentInv /\ scenario \in Scenarios /\ [Watched]_<<vars, observer>>
      => [Evidence]_<<vars, observer>>
  <2> SUFFICES ASSUME TInv, TimeInv, DescentInv, scenario \in Scenarios, Watched,
                      state = "DEPLOY", state' = "GROUND"
               PROVE  Evidence
    BY WatchedStep
  <2>1. AltitudesKnown /\ LandingFollowed
    BY DEF DescentInv
  <2>2. turn = "fsm" /\ TouchDown
    BY DEF Watched, Next, Sense, AbortToSafe, EnterSafe, ExecuteBenchReset, ExecuteArm, ExecuteForce,
       TickInit, TickIdle, TickArmed, TickLaunch, CoastTimeout, CoastTilt, CoastBarometer, CoastTick,
       TickApogee, TickDrogue, TickDeploy, Uplink, Horizon, vars, FlightTick, FsmStep, Stay,
       EnterLaunch, EnterCoast, EnterApogee, EnterDrogue, EnterDeploy
  <2> DEFINE taken == LandingSampleTaken.window
  <2>3. /\ taken \in Seq(Int) /\ Len(taken) \in 1..LandingWindow /\ Len(taken) >= LandingWindow
        /\ \A i, j \in 1..Len(taken) : taken[i] - taken[j] <= LandingRange
    BY <2>2, LandingTaken DEF TouchDown, LandingStable, TInv
  <2>4. Mirrored(taken, 0)
    BY <2>1, <2>2, LandingTakenMirrors DEF TouchDown
  <2> HIDE DEF taken
  <2>5. LandingWindow \in Nat \ {0} /\ Len(taken) = LandingWindow /\ altitudes \in Seq(Int)
    BY <2>1, <2>3, CountsPositive DEF AltitudesKnown
  <2>6. ASSUME NEW j \in 1..LandingWindow
        PROVE  /\ LandingWindow - j < Len(altitudes)
               /\ taken[j] = altitudes[Len(altitudes) - (LandingWindow - j)]
    <3> DEFINE i == LandingWindow - j
    <3>1. i \in 0..(Len(taken) - 1) /\ i + 0 < LandingWindow /\ Len(taken) - i = j
      BY <2>5
    <3>2. i + 0 < Len(altitudes) /\ taken[Len(taken) - i] = altitudes[Len(altitudes) - 0 - i]
      BY <2>4, <3>1 DEF Mirrored
    <3>3. i + 0 = i /\ Len(altitudes) - 0 - i = Len(altitudes) - i
      BY <2>5
    <3> QED
      BY <3>1, <3>2, <3>3
  <2>7. LandingWindow <= Len(altitudes)
    <3>1. 1 \in 1..LandingWindow /\ LandingWindow - 1 < Len(altitudes)
      BY <2>5, <2>6
    <3> QED
      BY <2>5, <3>1
  <2>8. /\ Len(lastOnes) = LandingWindow
        /\ \A j \in 1..LandingWindow : lastOnes[j] = altitudes[Len(altitudes) - (LandingWindow - j)]
    BY <2>5, <2>7, LastOfInts
  <2> HIDE DEF lastOnes
  <2>9. \A j \in 1..LandingWindow : lastOnes[j] = taken[j]
    BY <2>6, <2>8
  <2> QED
    BY <2>3, <2>5, <2>8, <2>9
<1>2. WatchedSpec => [](TInv /\ TimeInv /\ DescentInv /\ scenario \in Scenarios)
  BY FlightFacts, DescentFollowed, ScenarioKept, PTL
<1> QED
  BY <1>1, <1>2, PTL DEF WatchedSpec, LandingEvidence

------------------------------------
(* The readings ARMED was offered, against the launch detector.            *)

(* The last n of the readings seen are boosts. *)
Boosts(seen, n) ==
  /\ n <= Len(seen)
  /\ \A i \in 0..(n - 1) : seen[Len(seen) - i].accel = "boost"

(* The detector stands at the newest reading seen, and no sensor still     *)
(* offers an older one: a low-g reading the high-g sensor stood in for has *)
(* gone stale for good.                                                    *)
AtNewest ==
  LET newest == accels[Len(accels)]
  IN  /\ newest.source = launch.source /\ newest.ms = launch.ms
      /\ launch.source = "low" =>
           launch.ms <= imu.updated /\ (launch.ms = imu.updated => newest.accel = imu.accel)
      /\ launch.source = "high" =>
           /\ launch.ms <= highG.updated
           /\ launch.ms = highG.updated => newest.accel = highG.accel
           /\ imu.updated > launch.ms \/ (imu.updated < launch.ms /\ ~AccelFresh(imu.updated))

Readings == [source : {"low", "high"}, ms : Times, accel : AccelClasses]

AccelsSeen ==
  /\ accels \in Seq(Readings)
  /\ state = "ARMED" =>
       /\ accels = <<>> => launch.source = "none" /\ launch.count = 0
       /\ accels # <<>> => AtNewest
       /\ \A i \in 1..Len(accels) : accels[i].ms <= launch.ms
       /\ Boosts(accels, launch.count)

AccelInv == scenario # "all" => AccelsSeen

LEMMA ReadingType ==
  ASSUME TInv, AccelSample.source # "none"
  PROVE  AccelSample \in Readings
BY AccelSampleType DEF TInv, Readings

(* A reading is new to the detector just when the observer has not seen it. *)
LEMMA NewIsUnseen ==
  ASSUME TInv, TimeInv, AccelsSeen, state = "ARMED", AccelSample.source # "none"
  PROVE  \/ NewAccel(launch) /\ AccelSample \notin ToSet(accels)
            /\ \A i \in 1..Len(accels) : accels[i].ms <= AccelSample.ms
         \/ ~NewAccel(launch) /\ AccelSample \in ToSet(accels)
<1>1. /\ now \in Nat /\ imu.updated \in Nat /\ highG.updated \in Nat /\ launch.ms \in Nat
      /\ AccelMaxSampleAge \in Nat /\ imu.updated <= now /\ highG.updated <= now
  BY ZeroIsATime, ThresholdAssumption DEF TInv, TypeOK, TimeInv, StampsPast, AccelDetectors
<1>2. accels \in Seq(Readings) /\ AccelSample \in Readings
  BY ReadingType DEF AccelsSeen
<1>3. CASE accels = <<>>
  BY <1>3 DEF AccelsSeen, NewAccel, ToSet
<1>4. CASE accels # <<>>
  <2> DEFINE newest == accels[Len(accels)]
  <2>1. AtNewest /\ newest \in Readings /\ Len(accels) \in 1..Len(accels)
    BY <1>2, <1>4 DEF AccelsSeen
  <2>2. AccelSample.ms >= launch.ms
        /\ (AccelSample.ms = launch.ms => AccelSample = newest)
    <3>1. CASE AccelFresh(imu.updated)
      <4>1. AccelSample = [source |-> "low", ms |-> imu.updated, accel |-> imu.accel]
        BY <3>1 DEF AccelSample
      <4>2. CASE launch.source = "low"
        BY <1>1, <2>1, <4>1, <4>2 DEF AtNewest, Readings
      <4>3. CASE launch.source = "high"
        BY <1>1, <2>1, <3>1, <4>1, <4>3 DEF AtNewest
      <4> QED
        BY <2>1, <4>2, <4>3 DEF AtNewest, Readings
    <3>2. CASE ~AccelFresh(imu.updated)
      <4>1. /\ AccelSample = [source |-> "high", ms |-> highG.updated, accel |-> highG.accel]
            /\ AccelFresh(highG.updated)
        BY <3>2 DEF AccelSample
      <4>2. CASE launch.source = "low"
        <5>1. imu.updated < highG.updated
          BY <1>1, <3>2, <4>1 DEF AccelFresh, Since
        <5> QED
          BY <1>1, <2>1, <4>1, <4>2, <5>1 DEF AtNewest
      <4>3. CASE launch.source = "high"
        BY <1>1, <2>1, <4>1, <4>3 DEF AtNewest, Readings
      <4> QED
        BY <2>1, <4>2, <4>3 DEF AtNewest, Readings
    <3> QED
      BY <3>1, <3>2
  <2>3. ASSUME NEW i \in 1..Len(accels)
        PROVE  accels[i].ms \in Nat /\ accels[i].ms <= AccelSample.ms /\ accels[i].ms <= launch.ms
    <3>1. accels[i] \in Readings /\ accels[i].ms <= launch.ms
      BY <1>2 DEF AccelsSeen
    <3>2. accels[i].ms \in Nat /\ AccelSample.ms \in Nat
      BY <1>2, <3>1, ZeroIsATime DEF Readings
    <3> QED
      BY <1>1, <2>2, <3>1, <3>2
  <2>4. CASE AccelSample.ms = launch.ms
    <3>1. ~NewAccel(launch)
      BY <2>1, <2>2, <2>4 DEF NewAccel, AtNewest
    <3>2. AccelSample \in ToSet(accels)
      BY <1>2, <2>1, <2>2, <2>4 DEF ToSet
    <3> QED
      BY <3>1, <3>2
  <2>5. CASE AccelSample.ms > launch.ms
    <3>1. NewAccel(launch)
      BY <1>1, <2>5 DEF NewAccel
    <3>2. AccelSample \notin ToSet(accels)
      <4>1. SUFFICES ASSUME NEW i \in 1..Len(accels), accels[i] = AccelSample PROVE FALSE
        BY <1>2 DEF ToSet
      <4>2. accels[i].ms <= launch.ms /\ accels[i].ms > launch.ms
        BY <2>3, <2>5, <4>1
      <4>3. accels[i].ms \in Nat
        BY <2>3
      <4> QED
        BY <1>1, <4>2, <4>3
    <3> QED
      BY <2>3, <3>1, <3>2
  <2>6. AccelSample.ms \in Nat
    BY <1>2, ZeroIsATime DEF Readings
  <2> QED
    BY <1>1, <2>2, <2>4, <2>5, <2>6
<1> QED
  BY <1>3, <1>4

(* A reading that the detector takes is the newest seen, and the count is  *)
(* of the boosts the readings seen end in.                                 *)
LEMMA AccelTaken ==
  ASSUME TInv, TimeInv, AccelsSeen, scenario # "all", ObserveAccels, state = "ARMED", turn = "fsm",
         NewAccel(launch), launch' = AccelCounted(launch, "boost")
  PROVE  /\ accels' \in Seq(Readings) /\ accels' # <<>> /\ Len(accels') <= LaunchConfirmSamples
         /\ accels'[Len(accels')] = AccelSample
         /\ \A i \in 1..Len(accels') : accels'[i].ms <= launch'.ms
         /\ Boosts(accels', launch'.count)
<1>1. AccelSample.source # "none"
  BY DEF NewAccel
<1>2. /\ accels \in Seq(Readings) /\ AccelSample \in Readings
      /\ LaunchConfirmSamples \in Nat \ {0}
  BY <1>1, ReadingType, CountsPositive DEF AccelsSeen
<1>3. accels' = LastOf(Append(accels, AccelSample), LaunchConfirmSamples)
  BY <1>1, NewIsUnseen DEF ObserveAccels
<1>4. accels' \in Seq(Readings) /\ Follows(accels', accels, AccelSample, LaunchConfirmSamples)
  BY <1>2, <1>3, LastOfAppended, Zenon
<1>5. /\ Len(accels') = IF Len(accels) < LaunchConfirmSamples THEN Len(accels) + 1 ELSE LaunchConfirmSamples
      /\ accels'[Len(accels')] = AccelSample
      /\ \A i \in 1..(Len(accels') - 1) : accels'[Len(accels') - i] = accels[Len(accels) + 1 - i]
  BY <1>4 DEF Follows
<1>6. /\ Len(accels') \in Nat \ {0} /\ Len(accels) \in Nat /\ Len(accels') <= LaunchConfirmSamples
      /\ Len(accels') <= Len(accels) + 1
  BY <1>2, <1>5
<1>7. accels' # <<>>
  BY <1>4, <1>6
<1>8. launch'.ms = AccelSample.ms
      /\ launch'.count = IF AccelSample.accel = "boost" THEN launch.count + 1 ELSE 0
  BY DEF AccelCounted
<1>9. ASSUME NEW i \in 1..Len(accels') PROVE accels'[i].ms <= launch'.ms
  <2>1. CASE i = Len(accels')
    <3>1. AccelSample.ms \in Nat
      BY <1>2, ZeroIsATime DEF Readings
    <3> QED
      BY <1>5, <1>8, <2>1, <3>1
  <2>2. CASE i < Len(accels')
    <3> DEFINE j == Len(accels') - i
    <3>1. j \in 1..(Len(accels') - 1) /\ Len(accels') - j = i /\ Len(accels) + 1 - j \in 1..Len(accels)
      BY <1>6, <2>2
    <3>2. accels'[i] = accels[Len(accels) + 1 - j]
      BY <1>5, <3>1
    <3> QED
      BY <1>1, <1>8, <3>1, <3>2, NewIsUnseen
  <2> QED
    BY <1>6, <2>1, <2>2
<1>10. Boosts(accels', launch'.count)
  <2>1. launch.count \in Nat /\ launch.count < LaunchConfirmSamples /\ Boosts(accels, launch.count)
    BY CountsPositive DEF TInv, TypeOK, Undecided, AccelsSeen, AccelDetectors
  <2>2. CASE AccelSample.accel # "boost"
    BY <1>6, <1>8, <2>2 DEF Boosts
  <2>3. CASE AccelSample.accel = "boost"
    <3>1. launch'.count = launch.count + 1 /\ launch.count <= Len(accels)
      BY <1>8, <2>1, <2>3 DEF Boosts
    <3>2. launch.count + 1 <= Len(accels')
      BY <1>2, <1>5, <1>6, <2>1, <3>1
    <3>3. ASSUME NEW i \in 0..launch.count PROVE accels'[Len(accels') - i].accel = "boost"
      <4>1. CASE i = 0
        <5>1. Len(accels') - i = Len(accels')
          BY <1>6, <4>1
        <5> QED
          BY <1>5, <2>3, <5>1
      <4>2. CASE i # 0
        <5>1. i \in 1..(Len(accels') - 1) /\ i - 1 \in 0..(launch.count - 1)
              /\ Len(accels) + 1 - i = Len(accels) - (i - 1)
          BY <1>6, <2>1, <3>2, <4>2
        <5> QED
          BY <1>5, <2>1, <5>1 DEF Boosts
      <4> QED
        BY <4>1, <4>2
    <3> DEFINE count == launch'.count
    <3>4. count - 1 = launch.count /\ count <= Len(accels')
      BY <2>1, <3>1, <3>2
    <3> HIDE DEF count
    <3>5. Boosts(accels', count)
      BY <3>3, <3>4 DEF Boosts
    <3> QED
      BY <3>5 DEF count
  <2> QED
    BY <2>2, <2>3
<1> QED
  BY <1>4, <1>5, <1>6, <1>7, <1>9, <1>10

LEMMA AccelsSeenStep ==
  ASSUME TInv, TInv', TimeInv, TimeInv', AccelsSeen, scenario # "all", Next, ObserveAccels
  PROVE  AccelsSeen'
<1> DEFINE newest == accels[Len(accels)]
<1>1. /\ now \in Nat /\ now' \in Nat /\ imu.updated \in Nat /\ highG.updated \in Nat /\ launch.ms \in Nat
      /\ AccelMaxSampleAge \in Nat /\ imu.updated <= now /\ highG.updated <= now
  BY ZeroIsATime, ThresholdAssumption DEF TInv, TypeOK, TimeInv, StampsPast, AccelDetectors
<1>2. accels' \in Seq(Readings)
  <2>1. accels \in Seq(Readings) /\ <<>> \in Seq(Readings)
    BY DEF AccelsSeen
  <2>2. CASE AccelSample.source # "none" /\ accels' = LastOf(Append(accels, AccelSample), LaunchConfirmSamples)
    <3>1. AccelSample \in Readings /\ accels \in Seq(Readings) /\ LaunchConfirmSamples \in Nat \ {0}
      BY <2>2, ReadingType, CountsPositive DEF AccelsSeen
    <3> QED
      BY <2>2, <3>1, LastOfAppended, Zenon
  <2>3. \/ accels' = <<>> \/ accels' = accels
        \/ AccelSample.source # "none" /\ accels' = LastOf(Append(accels, AccelSample), LaunchConfirmSamples)
    BY DEF ObserveAccels
  <2> QED
    BY <2>1, <2>2, <2>3, Zenon
<1>3. CASE state' # "ARMED"
  BY <1>2, <1>3 DEF AccelsSeen
<1>4. ASSUME state = "ARMED", state' = "ARMED", accels' = accels, launch' = launch,
             accels # <<>> => AtNewest'
      PROVE  AccelsSeen'
  BY <1>2, <1>4 DEF AccelsSeen, Boosts
<1>5. CASE state = "ARMED" /\ state' = "ARMED" /\ Sense
  <2>1. /\ turn = "sensors" /\ now' = now /\ accels' = accels /\ launch' = launch
        /\ imu.updated < now /\ highG.updated < now
    BY <1>5 DEF Sense, detectors, ObserveAccels, TimeInv, StampsPast
  <2>2. imu' = imu \/ imu'.updated = now
    BY <1>5 DEF Sense, SenseImu
  <2>3. \/ highG'.updated = highG.updated /\ highG'.accel = highG.accel
        \/ highG'.updated = now
    BY <1>5 DEF Sense, SenseHighG, TInv, TypeOK
  <2>4. ASSUME accels # <<>> PROVE AtNewest'
    <3>1. AtNewest
      BY <1>5, <2>4 DEF AccelsSeen
    <3>2. CASE launch.source = "low"
      BY <1>1, <2>1, <2>2, <3>1, <3>2 DEF AtNewest
    <3>3. CASE launch.source = "high"
      <4>1. launch.ms < now
        BY <1>1, <2>1, <3>1, <3>3 DEF AtNewest
      <4>2. imu'.updated > launch.ms \/ (imu'.updated < launch.ms /\ ~AccelFresh(imu'.updated))
        BY <1>1, <2>2, <3>1, <3>3, <4>1 DEF AtNewest
      <4>3. AccelFresh(imu.updated)' <=> AccelFresh(imu'.updated)
        BY <2>1 DEF AccelFresh
      <4>4. /\ launch.ms <= highG'.updated
            /\ launch.ms = highG'.updated => newest.accel = highG'.accel
        BY <1>1, <2>3, <3>1, <3>3, <4>1 DEF AtNewest
      <4> QED
        BY <2>1, <3>1, <3>3, <4>2, <4>3, <4>4 DEF AtNewest
    <3> QED
      BY <2>1, <3>1, <3>2, <3>3 DEF AtNewest
  <2> QED
    BY <1>4, <1>5, <2>1, <2>4
<1>6. CASE state = "ARMED" /\ state' = "ARMED" /\ Uplink
  <2>1. /\ now < now' /\ accels' = accels /\ launch' = launch /\ imu' = imu /\ highG' = highG
    BY <1>1, <1>6 DEF Uplink, detectors, sensors, ObserveAccels
  <2>2. AccelFresh(imu.updated)' => AccelFresh(imu.updated)
    BY <1>1, <2>1 DEF AccelFresh, Since
  <2>3. AtNewest => AtNewest'
    BY <2>1, <2>2 DEF AtNewest
  <2> QED
    BY <1>4, <1>6, <2>1, <2>3 DEF AccelsSeen
<1>7. CASE state = "ARMED" /\ state' = "ARMED" /\ Horizon
  <2>1. /\ accels' = accels /\ UNCHANGED <<launch, imu, highG, now>>
    BY <1>7 DEF Horizon, vars, detectors, sensors, ObserveAccels
  <2>2. AtNewest => AtNewest'
    BY <2>1 DEF AtNewest, AccelFresh
  <2> QED
    BY <1>4, <1>7, <2>1, <2>2 DEF AccelsSeen
<1>8. CASE state = "ARMED" /\ state' = "ARMED" /\ TickArmed
  <2>1. turn = "fsm" /\ UNCHANGED <<imu, highG, now>>
    BY <1>8 DEF TickArmed, FlightTick, FsmStep, sensors
  <2>2. CASE ~NewAccel(launch) /\ launch' = launch
    <3>1. accels' = accels
      BY <1>8, <2>1, <2>2, NewIsUnseen DEF ObserveAccels
    <3>2. AtNewest => AtNewest'
      BY <2>1, <2>2, <3>1 DEF AtNewest, AccelFresh
    <3> QED
      BY <1>4, <1>8, <2>2, <3>1, <3>2 DEF AccelsSeen
  <2>3. CASE NewAccel(launch) /\ launch' = AccelCounted(launch, "boost")
    <3>1. /\ accels' # <<>> /\ accels'[Len(accels')] = AccelSample
          /\ \A i \in 1..Len(accels') : accels'[i].ms <= launch'.ms
          /\ Boosts(accels', launch'.count)
      BY <1>8, <2>1, <2>3, AccelTaken
    <3>2. launch'.source = AccelSample.source /\ launch'.ms = AccelSample.ms
      BY <2>3 DEF AccelCounted
    <3>3. CASE AccelFresh(imu.updated)
      <4>1. AccelSample = [source |-> "low", ms |-> imu.updated, accel |-> imu.accel]
        BY <3>3 DEF AccelSample
      <4> QED
        BY <1>1, <1>2, <2>1, <3>1, <3>2, <4>1 DEF AccelsSeen, AtNewest
    <3>4. CASE ~AccelFresh(imu.updated)
      <4>1. /\ AccelSample = [source |-> "high", ms |-> highG.updated, accel |-> highG.accel]
            /\ AccelFresh(highG.updated)
        BY <2>3, <3>4 DEF AccelSample, NewAccel
      <4>2. imu.updated < highG.updated
        BY <1>1, <3>4, <4>1 DEF AccelFresh, Since
      <4>3. ~AccelFresh(imu.updated)'
        BY <2>1, <3>4 DEF AccelFresh
      <4>4. AtNewest'
        BY <1>1, <2>1, <3>1, <3>2, <4>1, <4>2, <4>3 DEF AtNewest
      <4> QED
        BY <1>2, <3>1, <4>4 DEF AccelsSeen
    <3> QED
      BY <3>3, <3>4
  <2> QED
    BY <1>8, <2>2, <2>3 DEF TickArmed
<1>9. CASE ExecuteArm
  <2>1. accels' = <<>> /\ launch' = NoAccel
    BY <1>9 DEF ExecuteArm, ArmPending, ObserveAccels
  <2> QED
    BY <1>2, <2>1 DEF AccelsSeen, NoAccel, Boosts
<1>10. state' = "ARMED" => ExecuteArm \/ (state = "ARMED" /\ (Sense \/ Uplink \/ Horizon \/ TickArmed))
  <2>1. CASE state' = state
    BY <2>1 DEF Next, AbortToSafe, EnterSafe, ExecuteBenchReset, ExecuteForce, ForcePending,
       StateAllowsForceRecoveryDeploy, TickInit, TickIdle, FlightTick, TickLaunch, CoastTimeout,
       CoastTilt, CoastBarometer, CoastTick, TickApogee, TickDrogue, TickDeploy
  <2>2. CASE state' # state
    BY <2>2 DEF Next, AbortToSafe, EnterSafe, ExecuteBenchReset, ExecuteForce, TickInit, TickIdle,
       TickArmed, EnterLaunch, TickLaunch, EnterCoast, CoastTimeout, CoastTilt, CoastBarometer,
       TickApogee, EnterApogee, TickDrogue, EnterDrogue, EnterDeploy, TickDeploy, Stay, Sense, Uplink,
       Horizon, vars
  <2> QED
    BY <2>1, <2>2
<1> QED
  BY <1>3, <1>5, <1>6, <1>7, <1>8, <1>9, <1>10

LEMMA AccelsFollowed == WatchedSpec => []AccelInv
<1>1. MCInit => AccelInv
  BY DEF MCInit, Init, ObserverInit, AccelInv, AccelsSeen
<1>2. /\ TInv /\ TInv' /\ TimeInv /\ TimeInv' /\ AccelInv /\ [Watched]_<<vars, observer>>
      => AccelInv'
  <2> SUFFICES ASSUME TInv, TInv', TimeInv, TimeInv', AccelInv, [Watched]_<<vars, observer>> PROVE AccelInv'
    OBVIOUS
  <2>1. CASE UNCHANGED <<vars, observer>>
    BY <2>1 DEF AccelInv, AccelsSeen, AtNewest, AccelFresh, Boosts, vars, observer, detectors, sensors
  <2>2. CASE Watched
    BY <2>2, AccelsSeenStep DEF AccelInv, Watched
  <2> QED
    BY <2>1, <2>2, WatchedStep
<1> QED
  BY <1>1, <1>2, FlightFacts, PTL DEF WatchedSpec

(* LAUNCH is entered on as many boosts in a row as the code asks for, each *)
(* a reading of its own: none counts twice, not even across a change from  *)
(* one sensor to the other, and no quiet one lies between them.            *)
THEOREM LaunchOnEvidence ==
  ASSUME "all" \notin Scenarios
  PROVE  WatchedSpec => LaunchEvidence
<1> DEFINE Evidence == state = "ARMED" /\ state' = "LAUNCH" =>
             /\ Len(accels') = LaunchConfirmSamples
             /\ \A i \in 1..Len(accels') : accels'[i].accel = "boost"
<1>1. TInv /\ TimeInv /\ AccelInv /\ scenario \in Scenarios /\ [Watched]_<<vars, observer>>
      => [Evidence]_<<vars, observer>>
  <2> SUFFICES ASSUME TInv, TimeInv, AccelInv, scenario \in Scenarios, Watched,
                      state = "ARMED", state' = "LAUNCH"
               PROVE  Evidence
    BY WatchedStep
  <2>1. AccelsSeen /\ scenario # "all"
    BY DEF AccelInv
  <2>2. TickArmed
    BY DEF Watched, Next, Sense, AbortToSafe, EnterSafe, ExecuteBenchReset, ExecuteArm, ExecuteForce,
       EnterApogee, TickInit, TickIdle, TickLaunch, CoastTimeout, CoastTilt, CoastBarometer, CoastTick,
       TickApogee, TickDrogue, TickDeploy, Uplink, Horizon, vars, FlightTick, Stay, ArmPending
  <2>3. /\ turn = "fsm" /\ NewAccel(launch) /\ launch' = AccelCounted(launch, "boost")
        /\ launch'.count >= LaunchConfirmSamples
    BY <2>2 DEF TickArmed, FlightTick, FsmStep, Stay
  <2>4. /\ accels' \in Seq(Readings) /\ Len(accels') <= LaunchConfirmSamples
        /\ Boosts(accels', launch'.count)
    BY <2>1, <2>3, AccelTaken DEF Watched
  <2> DEFINE n == launch'.count
             seen == accels'
  <2>5. n \in Nat /\ LaunchConfirmSamples \in Nat
    BY <2>3, CountsPositive DEF AccelCounted, TInv, TypeOK, AccelDetectors
  <2>6. /\ Len(seen) \in Nat /\ Len(seen) <= LaunchConfirmSamples /\ n >= LaunchConfirmSamples
        /\ n <= Len(seen) /\ \A i \in 0..(n - 1) : seen[Len(seen) - i].accel = "boost"
    BY <2>3, <2>4 DEF Boosts
  <2> HIDE DEF n, seen
  <2>7. Len(seen) = LaunchConfirmSamples /\ n = Len(seen)
    BY <2>5, <2>6
  <2>8. ASSUME NEW i \in 1..Len(seen) PROVE seen[i].accel = "boost"
    <3>1. Len(seen) - i \in 0..(n - 1) /\ Len(seen) - (Len(seen) - i) = i
      BY <2>6, <2>7
    <3> QED
      BY <2>6, <3>1
  <2> QED
    BY <2>7, <2>8 DEF seen
<1>2. WatchedSpec => [](TInv /\ TimeInv /\ AccelInv /\ scenario \in Scenarios)
  BY FlightFacts, AccelsFollowed, ScenarioKept, PTL
<1> QED
  BY <1>1, <1>2, PTL DEF WatchedSpec, LaunchEvidence
=============================================================================
