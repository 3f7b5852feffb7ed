------------------------------ MODULE MCSensors ------------------------------
(* The sensors for TLC.  The devices under the watchdog and the barometer, *)
(* which retries on its own, share nothing: a behaviour is one of either.  *)
EXTENDS SensorRecovery

CONSTANTS
  Period, MaxLate, ConversionTimeout, InitRetry,
  ReadFailFault, BadFault, BadTotalFault, StaleFault, Window

ASSUME BarometerAssumption ==
  /\ {Period, ConversionTimeout, InitRetry, ReadFailFault, BadFault, BadTotalFault, StaleFault,
      Window} \subseteq Nat \ {0}
  /\ MaxLate \in Nat

VARIABLES
  part,         \* what this behaviour is about
  sick,         \* ticks of the watchdog since it last found the device reading, or began it
  sinceBegin,   \* ... since it last began it, or tried to
  present, initialized, conversion, silent, counts, sampled, flags, valid, window

Baro == INSTANCE Barometer

barometer == <<present, initialized, conversion, silent, counts, sampled, flags, valid, window>>
observer == <<sick, sinceBegin>>

Patience == (MaxRecoveryAttempts - 1) * RecoveryInterval

MCInit ==
  /\ Init /\ Baro!Init
  /\ sick = [d \in Devices |-> 0] /\ sinceBegin = [d \in Devices |-> RecoveryInterval]
  /\ \/ part = "watchdog" /\ ~present
     \/ part = "barometer" /\ chip = [d \in Devices |-> "well"]

Watched ==
  /\ WatchdogTick
  /\ sick' = [d \in Devices |->
       IF task[d].success \/ (Recovers(d) /\ Begin(d)) THEN 0 ELSE CountedTo(Patience, sick[d])]
  /\ sinceBegin' = [d \in Devices |->
       IF Recovers(d) THEN 0 ELSE CountedTo(RecoveryInterval, sinceBegin[d])]

MCNext ==
  \/ /\ part = "watchdog" /\ UNCHANGED <<part, barometer>>
     /\ \/ Watched
        \/ (\E d \in Devices : Read(d) \/ Changes(d)) /\ UNCHANGED observer
  \/ part = "barometer" /\ Baro!Next /\ UNCHANGED <<part, vars, observer>>

MCSpec == MCInit /\ [][MCNext]_<<part, vars, observer, barometer>>

MCFairSpec ==
  /\ MCSpec
  /\ WF_vars(part = "watchdog" /\ WatchdogTick)
  /\ \A d \in Devices : WF_vars(part = "watchdog" /\ Read(d))
  /\ WF_barometer(part = "barometer" /\ Baro!Tick)

-----------------------------------------------------------------------------
(* The watchdog raises the abort only for a critical sensor that neither   *)
(* read nor began at any of its ticks for as long as all of the attempts   *)
(* take: a glitch of a sensor never aborts the flight (handleRecovery).    *)
AbortNotHasty == [][~abort /\ abort' => \E d \in Critical : sick'[d] >= Patience]_vars

(* A sensor that answers again is in use again: one under the watchdog,    *)
(* unless it was given up, and the barometer that missed its boot.         *)
SensorsReturn == WellAgainNormal /\ (part = "barometer" => Baro!BarometerStarts)

(* A silent barometer is declared faulty (Barometer, SilenceIsFault). *)
SilenceIsFault == Baro!SilenceIsFault

(* The median is taken of current samples (Barometer, WindowCurrent). *)
WindowCurrent == Baro!WindowCurrent

(* documents/sensors.md:107: one begin per recovery interval (shouldRecover). *)
OneBeginPerInterval ==
  [][\A d \in Devices : sinceBegin'[d] = 0 => sinceBegin[d] + 1 >= RecoveryInterval]_<<task, sinceBegin>>
=============================================================================
