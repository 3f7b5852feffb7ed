---------------------------- MODULE SensorRecovery ----------------------------
(***************************************************************************)
(* The watchdog (missions/system/watchdog_task.cpp) over the sensors whose *)
(* tasks are recoverable (core/recoverable_task, sensors/imu_task.cpp,     *)
(* high_g_imu_task.cpp, magnetometer_task.cpp).  A sensor task reads and   *)
(* counts; the watchdog judges, begins the device again and raises the     *)
(* abort.  Each runs at its own period and may be late, so that their      *)
(* steps come in any order; time is counted in ticks of the watchdog.      *)
(***************************************************************************)
EXTENDS Naturals

CONSTANTS
  Devices, Critical,       \* IMUTask is CRITICAL, the others are not
  ReadFailureThreshold, MaxRecoveryAttempts,
  RecoveryInterval         \* imuRecoveryIntervalMs, in ticks of the watchdog

ASSUME SensorRecoveryAssumption ==
  /\ Critical \subseteq Devices
  /\ {ReadFailureThreshold, MaxRecoveryAttempts, RecoveryInterval} \subseteq Nat \ {0}

VARIABLES
  chip,     \* what the device does: "well", "silent" (it begins but does not read) or "dead"
  begun,    \* initialized_ of its driver
  task,     \* TaskHealthInfo and the members of RecoverableTask
  abort     \* abortState_.status.active

vars == <<chip, begun, task, abort>>

Chips == {"well", "silent", "dead"}

\* fails is consecutiveReadFails_, since the age of lastRecoveryAttemptMs; both stop where nothing
\* tells them apart.  (readFails is only logged; connected and the flags of the status word follow
\* the reads.)
Tasks ==
  [health : {"NORMAL", "DEGRADED", "FAILED"}, fails : 0..ReadFailureThreshold,
   attempts : 0..MaxRecoveryAttempts, since : 0..RecoveryInterval, success : BOOLEAN]

CountedTo(limit, n) == IF n < limit THEN n + 1 ELSE limit

TypeOK ==
  /\ chip \in [Devices -> Chips] /\ begun \in [Devices -> BOOLEAN]
  /\ task \in [Devices -> Tasks] /\ abort \in BOOLEAN

-----------------------------------------------------------------------------
(* RecoverableTask. *)

markInitialized ==
  [health |-> "NORMAL", fails |-> 0, attempts |-> 0, since |-> RecoveryInterval, success |-> TRUE]

markReadSuccess(t) == [t EXCEPT !.fails = 0, !.success = TRUE]
markReadFailure(t) == [t EXCEPT !.fails = CountedTo(ReadFailureThreshold, @), !.success = FALSE]

shouldDegrade(t)    == t.health = "NORMAL" /\ t.fails >= ReadFailureThreshold
hasRecoveredRead(t) == t.health = "DEGRADED" /\ t.success

\* Variant: the interval does not count.
shouldRecoverAtOnce(t) ==
  /\ t.health = "DEGRADED" /\ t.fails >= ReadFailureThreshold /\ ~t.success

shouldRecover(t) ==
  /\ t.health = "DEGRADED" /\ t.fails >= ReadFailureThreshold /\ ~t.success
  /\ t.attempts = 0 \/ t.since >= RecoveryInterval

markRecoveryAttempt(t) ==
  [t EXCEPT !.health = "DEGRADED", !.attempts = CountedTo(MaxRecoveryAttempts, @), !.since = 0]

\* Variant: a failure is not the last one.
markRecoveryFailureForEver(t) == [t EXCEPT !.health = "DEGRADED"]

markRecoveryFailure(t) ==
  [t EXCEPT !.health = IF t.attempts >= MaxRecoveryAttempts THEN "FAILED" ELSE "DEGRADED"]

-----------------------------------------------------------------------------
(* begin of the drivers: a device that does not answer is not initialised, *)
(* and no read of it succeeds until a begin has.                           *)
Begin(d) == chip[d] # "dead"

Reads(d) == begun[d] /\ chip[d] = "well"

(* init of the tasks, after boot.  Without a critical device there is no   *)
(* boot; another that does not begin counts as one that failed to read.    *)
Booted(d) == IF Begin(d) THEN markInitialized ELSE markReadFailure(markInitialized)

Init ==
  /\ chip \in [Devices -> Chips] /\ \A d \in Critical : Begin(d)
  /\ begun = [d \in Devices |-> Begin(d)] /\ task = [d \in Devices |-> Booted(d)]
  /\ abort = FALSE

(* tick of a sensor's task. *)
AfterRead(d) == IF Reads(d) THEN markReadSuccess(task[d]) ELSE markReadFailure(task[d])

Read(d) ==
  /\ task' = [task EXCEPT ![d] = AfterRead(d)]
  /\ UNCHANGED <<chip, begun, abort>>

-----------------------------------------------------------------------------
(* The watchdog. *)
Degraded(t) == IF shouldDegrade(t) THEN [t EXCEPT !.health = "DEGRADED"] ELSE t

\* The tick comes one period after the last.
Judged(t) == Degraded([t EXCEPT !.since = CountedTo(RecoveryInterval, @)])

\* recover is called: at most one begin in a tick.
Recovers(d) == shouldRecover(Judged(task[d]))

handleRecovery(d) ==
  LET judged == Judged(task[d])
  IN  IF hasRecoveredRead(judged) \/ (Recovers(d) /\ Begin(d)) THEN markInitialized
      ELSE IF Recovers(d) THEN markRecoveryFailure(markRecoveryAttempt(judged))
      ELSE judged

handleAbort(d) == d \in Critical /\ task'[d].health = "FAILED"

WatchdogTick ==
  /\ task' = [d \in Devices |-> handleRecovery(d)]
  /\ begun' = [d \in Devices |-> IF Recovers(d) THEN Begin(d) ELSE begun[d]]
  /\ abort' = (abort \/ \E d \in Devices : handleAbort(d))
  /\ UNCHANGED chip

(* A device may break and mend at any time. *)
Changes(d) ==
  /\ \E c \in Chips \ {chip[d]} : chip' = [chip EXCEPT ![d] = c]
  /\ UNCHANGED <<begun, task, abort>>

Next == WatchdogTick \/ \E d \in Devices : Read(d) \/ Changes(d)

(* The scheduler runs every task again and again (Downlink, OnTime). *)
Fairness == WF_vars(WatchdogTick) /\ \A d \in Devices : WF_vars(Read(d))

Spec == Init /\ [][Next]_vars

-----------------------------------------------------------------------------
(* A critical sensor that is dead for good raises the abort, however the   *)
(* reads of its task and the ticks of the watchdog interleave              *)
(* (handleRecovery, handleAbort).                                          *)
DeadCriticalAborts == \A d \in Critical : <>[](chip[d] = "dead") => <>abort

(* A sensor that is well again is judged normal again unless it has been   *)
(* given up: whether it mends by itself or needs a begin, and whatever its *)
(* reads did before (hasRecoveredRead, recover).                           *)
WellAgainNormal ==
  \A d \in Devices :
    <>[](chip[d] = "well") => <>[](task[d].health = "FAILED" \/ (begun[d] /\ task[d].health = "NORMAL"))

(* A task is given up only after all of its attempts, and the abort stands *)
(* for a critical task that is: no other sensor raises it                  *)
(* (markRecoveryFailure, handleAbort).                                     *)
GivenUp ==
  /\ \A d \in Devices : task[d].health = "FAILED" => task[d].attempts = MaxRecoveryAttempts
  /\ abort <=> \E d \in Critical : task[d].health = "FAILED"

(* While a task is not normal its driver is not initialised: nothing is    *)
(* read from a device that is being recovered or was given up, and only a  *)
(* begin, never a read, ends its recovery (recover, markDegraded).         *)
OutOfUse == \A d \in Devices : task[d].health # "NORMAL" => ~begun[d]
=============================================================================
