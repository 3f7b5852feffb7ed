------------------------------- MODULE Downlink -------------------------------
(***************************************************************************)
(* What the vehicle says: the cooperative scheduler (core/scheduler.cpp),  *)
(* the telemetry task it runs (missions/telemetry/telemetry_task.cpp) and  *)
(* the radio driver below (hal/sx127x_lora_hal.cpp in the flight build,    *)
(* hal/sx1262_lora_hal.cpp in builds without NURA_USE_SX127X_LORA).        *)
(* One other task, run after telemetry, stands for the rest: it may hold   *)
(* the processor.  millis() wraps at ClockModulus.  What a command does    *)
(* is CommandLink's subject; here it only leaves acknowledgements.         *)
(***************************************************************************)
EXTENDS Integers

CONSTANTS
  None,
  Drivers,               \* the builds looked at
  ClockModulus,          \* 2^32
  StartTimes,            \* what millis() may show at the start
  TelemetryPeriod, OtherPeriod,
  MaxBlock,              \* how long the other tasks may hold the processor in a pass
  FastPeriod, GpsPeriod,
  Airtime, TxGap, TxTimeout,
  AckQueueDepth

Tasks  == {"telemetry", "other"}
Period == [task \in Tasks |-> IF task = "telemetry" THEN TelemetryPeriod ELSE OtherPeriod]
Time   == 0..(ClockModulus - 1)

ASSUME DownlinkAssumption ==
  /\ {ClockModulus, TelemetryPeriod, OtherPeriod, FastPeriod, GpsPeriod, Airtime, TxGap, TxTimeout,
      AckQueueDepth} \subseteq Nat \ {0}
  /\ MaxBlock \in Nat /\ StartTimes \subseteq Time
  /\ Drivers \subseteq {"SX127x", "SX1262"}

(* The longest a pass takes: one frame of the driver that waits for it,    *)
(* and what the other tasks hold the processor for.                        *)
Longest == Airtime + MaxBlock

(* Two moments are compared by the sign of their difference in 32 bits,    *)
(* which is right when they are less than half of the clock apart: 24      *)
(* days, for a pass as well as for a period.                               *)
ASSUME ClockAssumption ==
  /\ Longest < ClockModulus \div 2
  /\ \A task \in Tasks : Period[task] <= ClockModulus \div 2

VARIABLES
  driver,
  now,       \* what loop() gave the scheduler: millis() when the pass began
  late,      \* how long the pass has taken since
  at,        \* the task the pass has come to; "setup", "end" or "panic"
  nextRun,   \* nextRunMs of each task
  lastTx,    \* lastFastTxMs_ and lastGpsTxMs_, or None before the first
  acks,      \* how many acknowledgements are queued
  radio,     \* the driver's state
  sent       \* what the pass has transmitted

downlink == <<lastTx, acks, radio, sent>>
vars     == <<driver, now, late, at, nextRun, downlink>>

Lower(a, b) == IF a < b THEN a ELSE b

Millis     == (now + late) % ClockModulus
Since(t)   == (now - t) % ClockModulus
Elapsed(t) == (Millis - t) % ClockModulus

\* txStart is None while no transmission runs (txBusy_), txDone before the first one has ended;
\* listened is how much of a frame the radio may have taken in.
Radios ==
  [initialized : BOOLEAN, listening : BOOLEAN, listened : 0..Airtime,
   txStart : Time \cup {None}, txDone : Time \cup {None}]

Busy(r) == r.txStart # None

TypeOK ==
  /\ driver \in Drivers /\ now \in Time /\ late \in Nat
  /\ at \in Tasks \cup {"setup", "end", "panic"} /\ nextRun \in [Tasks -> Time]
  /\ lastTx \in [{"FAST", "GPS"} -> Time \cup {None}]
  /\ acks \in 0..AckQueueDepth /\ radio \in Radios /\ sent \in {None, "ACK", "FAST", "GPS"}
  /\ driver = "SX127x" => radio.txStart = None
  /\ radio.listening => radio.initialized /\ ~Busy(radio)

-----------------------------------------------------------------------------
(* The drivers.  Serviced, Heard and Sends are the ways a call may go.     *)

Fresh == [initialized |-> TRUE, listening |-> TRUE, listened |-> 0, txStart |-> None, txDone |-> None]

(* begin of the SX1262, called again when the chip has refused something:  *)
(* it receives, or it is dead.                                             *)
Begun(r) ==
  {[r EXCEPT !.initialized = ok, !.listening = ok, !.listened = 0, !.txStart = None] : ok \in BOOLEAN}

\* Variant: the receiver is left off.
FinishedDeaf(r) == {[r EXCEPT !.txStart = None, !.txDone = Millis]}

\* Variant: txBusy_ is left set.
FinishedBusy(r) == {[r EXCEPT !.txDone = Millis, !.listening = TRUE]} \cup Begun(r)

(* finishTransmitAndRestartReceive: either call may fail.                  *)
Finished(r) ==
  LET ended == [r EXCEPT !.txStart = None, !.txDone = Millis]
  IN  {[ended EXCEPT !.listening = TRUE]} \cup Begun(ended)

(* abortTransmit: whether the receiver starts is not looked at.            *)
Aborted(r) == {[r EXCEPT !.txStart = None, !.listening = ok] : ok \in BOOLEAN}

(* service.  DIO1 tells the end of a transmission, unless it never comes.  *)
Serviced(r) ==
  IF ~(r.initialized /\ Busy(r)) THEN {r}
  ELSE (IF Since(r.txStart) >= Airtime THEN Finished(r) ELSE {})
       \cup IF Since(r.txStart) > TxTimeout THEN Aborted(r) ELSE {r}

(* receive: the radio after it and how many acknowledgements the frame     *)
(* leaves.  A frame needs the radio for all of its time on the air; the    *)
(* SX1262 loses it when the receiver does not start again.                 *)
Heard(r) ==
  LET read == [r EXCEPT !.listened = 0]
  IN  {[radio |-> r, acks |-> 0]}
      \cup IF ~(r.listening /\ r.listened = Airtime) THEN {}
           ELSE [radio : {read}, acks : 1..2]
                \cup IF driver = "SX127x" THEN {}
                     ELSE {[radio |-> [read EXCEPT !.listening = FALSE], acks |-> 0]}

Refused(r) == [radio |-> r, ok |-> FALSE, took |-> 0]

(* send of the SX127x returns when the frame is out, and receives again.   *)
SendsSx127x(r) ==
  LET after == [r EXCEPT !.listened = 0]
  IN  IF ~r.initialized \/ Busy(r) THEN {Refused(r)}
      ELSE {Refused(after), [radio |-> after, ok |-> TRUE, took |-> Airtime]}

InGap(r) == IF r.txDone = None THEN FALSE ELSE Elapsed(r.txDone) < TxGap

(* send of the SX1262 starts the transmission; a chip that refuses it is   *)
(* begun again, and the frame is lost.                                     *)
SendsSx1262(r) ==
  IF ~r.initialized \/ Busy(r) \/ InGap(r) THEN {Refused(r)}
  ELSE {[radio |-> [r EXCEPT !.listening = FALSE, !.listened = 0, !.txStart = Millis],
         ok |-> TRUE, took |-> 0]}
       \cup {Refused(b) : b \in Begun(r)}

Sends(r) == IF driver = "SX127x" THEN SendsSx127x(r) ELSE SendsSx1262(r)

(* The receiver goes on while the processor is held.  A gap that is over   *)
(* is forgotten: nothing tells it from one that is longer ago.             *)
Listening(r, time) ==
  [r EXCEPT !.listened = IF r.listening THEN Lower(Airtime, @ + time) ELSE 0,
            !.txDone = IF InGap(r) THEN @ ELSE None]

-----------------------------------------------------------------------------
(* Scheduler: add and init, then tick, a step for each task.               *)

Init ==
  /\ driver \in Drivers /\ now \in StartTimes /\ late = 0 /\ at = "setup"
  /\ nextRun = [task \in Tasks |-> 0]
  /\ lastTx = [kind \in {"FAST", "GPS"} |-> None] /\ acks = 0 /\ sent = None
  /\ radio = [Fresh EXCEPT !.initialized = FALSE, !.listening = FALSE]

(* TelemetryTask::init: one of its attempts begins the radio.              *)
TelemetryInit == radio' = Fresh

(* Scheduler::init; the tasks take their time over it.                     *)
InitTasks ==
  TelemetryInit /\ nextRun' = [task \in Tasks |-> now] /\ late' \in 0..MaxBlock

(* Without a card, or when a task's init fails (telemetry's when no        *)
(* attempt begins the radio), the program blinks for ever.                 *)
Panic == at' = "panic" /\ UNCHANGED <<late, nextRun, radio>>

Setup ==
  /\ at = "setup"
  /\ Panic \/ (at' = "end" /\ InitTasks)
  /\ UNCHANGED <<driver, now, lastTx, acks, sent>>

\* Variant: a comparison of unsigned times.
ReachedUnsigned(t) == now >= t

(* (int32_t)(now - t) >= 0 *)
Reached(t) == Since(t) < ClockModulus \div 2

Rescheduled(task) ==
  LET next == (nextRun[task] + Period[task]) % ClockModulus
  IN  IF Reached(next) THEN (now + Period[task]) % ClockModulus ELSE next

After(task) == IF task = "telemetry" THEN "other" ELSE "end"

Skip ==
  \E task \in Tasks :
    /\ at = task /\ ~Reached(nextRun[task]) /\ at' = After(task)
    /\ UNCHANGED <<driver, now, late, nextRun, downlink>>

RunOther ==
  /\ at = "other" /\ Reached(nextRun["other"]) /\ at' = After("other")
  /\ nextRun' = [nextRun EXCEPT !["other"] = Rescheduled("other")]
  /\ \E time \in 0..MaxBlock : late' = late + time /\ radio' = Listening(radio, time)
  /\ UNCHANGED <<driver, now, lastTx, acks, sent>>

(* loop() comes round again: at once when time has passed, else when it    *)
(* has; in between no task is due.                                         *)
EndPass ==
  /\ at = "end" /\ at' = "telemetry"
  /\ now' = (now + IF late = 0 THEN 1 ELSE late) % ClockModulus /\ late' = 0
  /\ radio' = Listening(radio, IF late = 0 THEN 1 ELSE 0)
  /\ sent' = None
  /\ UNCHANGED <<driver, nextRun, lastTx, acks>>

-----------------------------------------------------------------------------
(* TelemetryTask::tick. *)

\* Variant: either frame sets both times.
AttemptedBoth(kind) == [k \in {"FAST", "GPS"} |-> now]

(* sendFastTelemetry and sendGpsTelemetry: a frame that failed counts as   *)
(* sent.                                                                   *)
Attempted(kind) == [lastTx EXCEPT ![kind] = now]

IsDue(kind, period) == IF lastTx[kind] = None THEN TRUE ELSE Since(lastTx[kind]) >= period

Chosen ==
  IF IsDue("FAST", FastPeriod) THEN "FAST" ELSE IF IsDue("GPS", GpsPeriod) THEN "GPS" ELSE None

\* Variant: it leaves the queue before it is sent.
AcksLeftAnyway(queue, ok) == IF queue > 0 THEN queue - 1 ELSE 0

(* sendAckIfQueued: an acknowledgement leaves the queue when it was sent.  *)
AcksLeft(queue, ok) == IF ok THEN queue - 1 ELSE queue

RunTelemetry ==
  /\ at = "telemetry" /\ Reached(nextRun["telemetry"]) /\ at' = After("telemetry")
  /\ nextRun' = [nextRun EXCEPT !["telemetry"] = Rescheduled("telemetry")]
  /\ \E serviced \in Serviced(radio) : \E heard \in Heard(serviced) :
       LET queue == Lower(AckQueueDepth, acks + heard.acks)
       IN  \E ack \in IF queue = 0 THEN {Refused(heard.radio)} ELSE Sends(heard.radio) :
             /\ acks' = AcksLeft(queue, ack.ok)
             /\ \/ /\ ack.ok \/ Chosen = None
                   /\ radio' = ack.radio /\ late' = late + ack.took
                   /\ sent' = IF ack.ok THEN "ACK" ELSE None
                   /\ UNCHANGED lastTx
                \/ /\ ~ack.ok /\ Chosen # None
                   /\ \E frame \in Sends(ack.radio) :
                        /\ radio' = frame.radio /\ late' = late + frame.took
                        /\ lastTx' = Attempted(Chosen)
                        /\ sent' = IF frame.ok THEN Chosen ELSE None
  /\ UNCHANGED <<driver, now>>

Next == Setup \/ Skip \/ RunOther \/ RunTelemetry \/ EndPass

Spec == Init /\ [][Next]_vars

Sending(kind) == RunTelemetry /\ sent' = kind
Reopening     == RunTelemetry /\ Busy(radio) /\ radio'.listening

(* loop() goes on for ever; a radio does not refuse every frame of a kind, *)
(* nor does the receiver fail to start after every transmission.           *)
Fairness ==
  /\ WF_vars(Next)
  /\ SF_vars(Sending("ACK")) /\ SF_vars(Sending("FAST")) /\ SF_vars(Sending("GPS"))
  /\ SF_vars(Reopening)

FairSpec == Spec /\ Fairness

-----------------------------------------------------------------------------
Stopped == at = "panic" \/ (at # "setup" /\ ~radio.initialized)

(* A task that has been passed is due within its period: none is left      *)
(* behind and none runs ahead, also when millis() wraps, and although a    *)
(* task may be late and only learns when the pass began                    *)
(* (scheduler.cpp, tick).                                                  *)
OnTime ==
  at = "end" =>
    \A task \in Tasks : (nextRun[task] - now) % ClockModulus \in 0..Period[task]

(* FAST and GPS frames go on with the driver that flies: acknowledgements  *)
(* do not crowd them out, nor FAST the GPS frame that only goes when none  *)
(* else is due, and a frame that failed and was taken as sent is followed  *)
(* by another (telemetry_task.cpp, tick).                                  *)
FramesFlow ==
  \A kind \in {"FAST", "GPS"} : []<>(sent = kind \/ Stopped \/ driver = "SX1262")

(* An acknowledgement is kept until the radio took it. *)
AcksGoOut == acks > 0 ~> (sent = "ACK" \/ Stopped)

(* A receiver that failed to start does not stay off: the next             *)
(* transmission starts it again.                                           *)
HearsAgain == (~radio.listening /\ at # "setup") ~> (radio.listening \/ Stopped)
=============================================================================
