---------------------------- MODULE SensorProofs ----------------------------
(***************************************************************************)
(* The sensors of MCSensors for every set of devices, every threshold,     *)
(* budget and interval: the watchdog's tasks, the patience with which it   *)
(* aborts, and the barometer that watches over itself.                     *)
(* The inductive invariant of the tasks is GivenUp and OutOfUse with the   *)
(* types and WholeBudget: without it a task might degrade with its budget  *)
(* spent and wait for an interval while its driver still reads.            *)
(***************************************************************************)
EXTENDS MCSensors, Integers, TLAPS

(* A normal task has its whole budget: when it degrades, it is begun in    *)
(* the same tick.                                                          *)
WholeBudget == \A d \in Devices : task[d].health = "NORMAL" => task[d].attempts = 0

IInv == TypeOK /\ GivenUp /\ OutOfUse /\ WholeBudget

(* What the bookkeeping of one task returns.                               *)
LEMMA Counts ==
  ASSUME NEW limit \in Nat, NEW n \in 0..limit
  PROVE  CountedTo(limit, n) \in 0..limit
  BY DEF CountedTo

LEMMA InitializedTask ==
  markInitialized \in Tasks /\ markInitialized.health = "NORMAL" /\ markInitialized.attempts = 0
  BY SensorRecoveryAssumption DEF markInitialized, Tasks

LEMMA SuccessfulRead ==
  ASSUME NEW t \in Tasks
  PROVE  /\ markReadSuccess(t) \in Tasks
         /\ markReadSuccess(t).health = t.health /\ markReadSuccess(t).attempts = t.attempts
  <1>1. 0 \in 0..ReadFailureThreshold
    BY SensorRecoveryAssumption
  <1> QED BY <1>1 DEF markReadSuccess, Tasks

LEMMA FailedRead ==
  ASSUME NEW t \in Tasks
  PROVE  /\ markReadFailure(t) \in Tasks
         /\ markReadFailure(t).health = t.health /\ markReadFailure(t).attempts = t.attempts
  <1>1. CountedTo(ReadFailureThreshold, t.fails) \in 0..ReadFailureThreshold
    BY Counts, SensorRecoveryAssumption DEF Tasks
  <1> QED BY <1>1 DEF markReadFailure, Tasks

LEMMA JudgedTask ==
  ASSUME NEW t \in Tasks
  PROVE  /\ Judged(t) \in Tasks /\ Judged(t).attempts = t.attempts
         /\ t.health # "NORMAL" => Judged(t).health = t.health
         /\ t.health = "NORMAL" =>
              \/ Judged(t).health = "NORMAL"
              \/ Judged(t).health = "DEGRADED" /\ Judged(t).fails >= ReadFailureThreshold
  <1> DEFINE aged == [t EXCEPT !.since = CountedTo(RecoveryInterval, @)]
  <1>1. CountedTo(RecoveryInterval, t.since) \in 0..RecoveryInterval
    BY Counts, SensorRecoveryAssumption DEF Tasks
  <1>2. /\ aged \in Tasks /\ aged.health = t.health /\ aged.attempts = t.attempts
        /\ t.health \in {"NORMAL", "DEGRADED", "FAILED"}
    BY <1>1 DEF Tasks
  <1> HIDE DEF aged
  <1>3. Judged(t) = IF shouldDegrade(aged) THEN [aged EXCEPT !.health = "DEGRADED"] ELSE aged
    BY DEF Judged, Degraded, aged
  <1>4. CASE shouldDegrade(aged)
    BY <1>2, <1>3, <1>4 DEF Tasks, shouldDegrade
  <1>5. CASE ~shouldDegrade(aged)
    BY <1>2, <1>3, <1>5, SMT DEF Tasks
  <1> QED BY <1>4, <1>5

LEMMA FailedAttempt ==
  ASSUME NEW t \in Tasks
  PROVE  LET failed == markRecoveryFailure(markRecoveryAttempt(t))
         IN  /\ failed \in Tasks /\ failed.health \in {"DEGRADED", "FAILED"}
             /\ failed.health = "FAILED" => failed.attempts = MaxRecoveryAttempts
  <1> DEFINE tried == markRecoveryAttempt(t)
  <1>1. CountedTo(MaxRecoveryAttempts, t.attempts) \in 0..MaxRecoveryAttempts
    BY Counts, SensorRecoveryAssumption DEF Tasks
  <1>2. 0 \in 0..RecoveryInterval
    BY SensorRecoveryAssumption
  <1>3. tried \in Tasks
    BY <1>1, <1>2 DEF markRecoveryAttempt, Tasks
  <1> HIDE DEF tried
  <1>4. /\ markRecoveryFailure(tried) \in Tasks
        /\ markRecoveryFailure(tried).health \in {"DEGRADED", "FAILED"}
        /\ markRecoveryFailure(tried).health = "FAILED"
             => markRecoveryFailure(tried).attempts = MaxRecoveryAttempts
    BY <1>3, SensorRecoveryAssumption DEF markRecoveryFailure, Tasks
  <1> QED BY <1>4 DEF tried

(* One task at a tick of the watchdog: what is not normal afterwards is not *)
(* initialised, and a task that was given up stays so.                     *)
LEMMA HandledTask ==
  ASSUME IInv, NEW d \in Devices
  PROVE  /\ handleRecovery(d) \in Tasks
         /\ handleRecovery(d).health = "FAILED" => handleRecovery(d).attempts = MaxRecoveryAttempts
         /\ task[d].health = "FAILED" => handleRecovery(d).health = "FAILED"
         /\ handleRecovery(d).health = "NORMAL" => handleRecovery(d).attempts = 0
         /\ handleRecovery(d).health # "NORMAL" => ~(IF Recovers(d) THEN Begin(d) ELSE begun[d])
  <1> DEFINE judged == Judged(task[d])
  <1>1. task[d] \in Tasks /\ (task[d].health = "FAILED" => task[d].attempts = MaxRecoveryAttempts)
        /\ (task[d].health = "NORMAL" => task[d].attempts = 0)
        /\ (task[d].health # "NORMAL" => ~begun[d])
    BY DEF IInv, TypeOK, GivenUp, OutOfUse, WholeBudget
  <1>2. /\ judged \in Tasks /\ judged.attempts = task[d].attempts
        /\ task[d].health # "NORMAL" => judged.health = task[d].health
        /\ task[d].health = "NORMAL" =>
             \/ judged.health = "NORMAL"
             \/ judged.health = "DEGRADED" /\ judged.fails >= ReadFailureThreshold
    BY <1>1, JudgedTask
  <1>3. CASE hasRecoveredRead(judged) \/ (Recovers(d) /\ Begin(d))
    <2>1. handleRecovery(d) = markInitialized
      BY <1>3 DEF handleRecovery
    <2>2. task[d].health # "FAILED"
      BY <1>2, <1>3 DEF hasRecoveredRead, Recovers, shouldRecover
    <2> QED BY <2>1, <2>2, InitializedTask
  <1>4. CASE ~hasRecoveredRead(judged) /\ Recovers(d) /\ ~Begin(d)
    <2>1. handleRecovery(d) = markRecoveryFailure(markRecoveryAttempt(judged))
      BY <1>4 DEF handleRecovery
    <2>2. task[d].health # "FAILED"
      BY <1>2, <1>4 DEF Recovers, shouldRecover
    <2> HIDE DEF judged
    <2> QED BY <1>2, <1>4, <2>1, <2>2, FailedAttempt
  <1>5. CASE ~hasRecoveredRead(judged) /\ ~Recovers(d)
    <2>1. handleRecovery(d) = judged
      BY <1>5 DEF handleRecovery
    <2>2. CASE task[d].health = "NORMAL" /\ judged.health # "NORMAL"
      BY <1>1, <1>2, <1>5, <2>2 DEF hasRecoveredRead, Recovers, shouldRecover
    <2>3. CASE ~(task[d].health = "NORMAL" /\ judged.health # "NORMAL")
      BY <1>1, <1>2, <1>5, <2>1, <2>3
    <2> QED BY <2>2, <2>3
  <1> QED BY <1>3, <1>4, <1>5

LEMMA InvInit == Init => IInv
  <1> SUFFICES ASSUME Init PROVE IInv
    OBVIOUS
  <1>1. ASSUME NEW d \in Devices
        PROVE  task[d] \in Tasks /\ task[d].health = "NORMAL" /\ task[d].attempts = 0
    BY InitializedTask, FailedRead DEF Init, Booted
  <1>2. TypeOK
    BY <1>1 DEF Init, TypeOK, Begin
  <1> QED BY <1>1, <1>2, SensorRecoveryAssumption DEF IInv, GivenUp, OutOfUse, WholeBudget, Init

LEMMA InvNext == IInv /\ [Next]_vars => IInv'
  <1> SUFFICES ASSUME IInv, [Next]_vars PROVE IInv'
    OBVIOUS
  <1>1. CASE WatchdogTick
    <2>1. /\ task' = [d \in Devices |-> handleRecovery(d)]
          /\ begun' = [d \in Devices |-> IF Recovers(d) THEN Begin(d) ELSE begun[d]]
          /\ abort' = (abort \/ \E d \in Devices : handleAbort(d))
          /\ chip' = chip
      BY <1>1 DEF WatchdogTick
    <2>2. TypeOK'
      BY <2>1, HandledTask DEF IInv, TypeOK, Begin
    <2>3. OutOfUse' /\ WholeBudget'
      BY <2>1, HandledTask DEF OutOfUse, WholeBudget
    <2>4. abort' <=> \E d \in Critical : task'[d].health = "FAILED"
      BY <2>1, HandledTask, SensorRecoveryAssumption DEF IInv, GivenUp, handleAbort
    <2> QED BY <2>1, <2>2, <2>3, <2>4, HandledTask DEF IInv, GivenUp
  <1>2. ASSUME NEW d \in Devices, Read(d) PROVE IInv'
    <2>1. /\ task' = [task EXCEPT ![d] = AfterRead(d)]
          /\ UNCHANGED <<chip, begun, abort>>
      BY <1>2 DEF Read
    <2>2. \A e \in Devices : /\ task'[e] \in Tasks /\ task'[e].health = task[e].health
                             /\ task'[e].attempts = task[e].attempts
      BY <2>1, SuccessfulRead, FailedRead DEF AfterRead, IInv, TypeOK
    <2>3. TypeOK'
      BY <2>1, <2>2 DEF IInv, TypeOK
    <2> QED BY <2>1, <2>2, <2>3, SensorRecoveryAssumption DEF IInv, GivenUp, OutOfUse, WholeBudget
  <1>3. ASSUME NEW d \in Devices, Changes(d) PROVE IInv'
    BY <1>3 DEF Changes, IInv, TypeOK, GivenUp, OutOfUse, WholeBudget
  <1>4. CASE UNCHANGED vars
    BY <1>4 DEF vars, IInv, TypeOK, GivenUp, OutOfUse, WholeBudget
  <1> QED BY <1>1, <1>2, <1>3, <1>4 DEF Next

(* The health of every task keeps its type, its budget included            *)
(* (markRecoveryAttempt, markReadFailure).                                 *)
THEOREM TypeCorrect == Spec => []TypeOK
  <1>1. IInv => TypeOK
    BY DEF IInv
  <1> QED BY <1>1, InvInit, InvNext, PTL DEF Spec

(* For any number of sensors and any budget: the abort stands exactly for  *)
(* a critical task whose attempts are used up (handleAbort).               *)
THEOREM AbortIsGivenUp == Spec => []GivenUp
  <1>1. IInv => GivenUp
    BY DEF IInv
  <1> QED BY <1>1, InvInit, InvNext, PTL DEF Spec

(* ... and no reading comes from a device that is being recovered: the     *)
(* branch of the watchdog for a task that recovers by reading alone        *)
(* (watchdog_task.cpp:55) is never taken after a begin has failed.         *)
THEOREM DegradedOutOfUse == Spec => []OutOfUse
  <1>1. IInv => OutOfUse
    BY DEF IInv
  <1> QED BY <1>1, InvInit, InvNext, PTL DEF Spec

-----------------------------------------------------------------------------
(* The patience of the watchdog.                                           *)

(* A sensor on which attempts were spent has been sick for an interval for *)
(* each but the first, and since the last of them.                         *)
SickFor(ticks, attempts, since) ==
  ticks >= Patience \/ ticks >= (attempts - 1) * RecoveryInterval + since

Observed ==
  /\ sick \in [Devices -> 0..Patience]
  /\ \A d \in Devices :
       task[d].health = "DEGRADED" /\ task[d].attempts > 0
         => SickFor(sick[d], task[d].attempts, task[d].since)

PatientInv == IInv /\ Observed

LEMMA PatienceType == Patience \in Nat
  <1>1. MaxRecoveryAttempts - 1 \in Nat /\ RecoveryInterval \in Nat
    BY SensorRecoveryAssumption
  <1> QED BY <1>1 DEF Patience

LEMMA JudgedTimes ==
  ASSUME NEW t \in Tasks
  PROVE  /\ Judged(t).since = CountedTo(RecoveryInterval, t.since)
         /\ Judged(t).success = t.success
  <1> DEFINE since == CountedTo(RecoveryInterval, t.since)
             aged == [t EXCEPT !.since = since]
  <1>1. aged.since = since /\ aged.success = t.success
        /\ [aged EXCEPT !.health = "DEGRADED"].since = since
        /\ [aged EXCEPT !.health = "DEGRADED"].success = t.success
    BY DEF Tasks
  <1>2. Judged(t) = IF shouldDegrade(aged) THEN [aged EXCEPT !.health = "DEGRADED"] ELSE aged
    BY DEF Judged, Degraded
  <1> HIDE DEF aged
  <1> QED BY <1>1, <1>2

LEMMA AttemptSpent ==
  ASSUME NEW t \in Tasks
  PROVE  LET failed == markRecoveryFailure(markRecoveryAttempt(t))
         IN  /\ failed.attempts = CountedTo(MaxRecoveryAttempts, t.attempts) /\ failed.since = 0
             /\ failed.health = "FAILED" => failed.attempts = MaxRecoveryAttempts
  <1> DEFINE attempts == CountedTo(MaxRecoveryAttempts, t.attempts)
             tried == [t EXCEPT !.health = "DEGRADED", !.attempts = attempts, !.since = 0]
             failed == [tried EXCEPT !.health = IF tried.attempts >= MaxRecoveryAttempts THEN "FAILED" ELSE "DEGRADED"]
  <1>1. tried.attempts = attempts /\ tried.since = 0
    BY DEF Tasks
  <1>2. failed.attempts = tried.attempts /\ failed.since = tried.since
    BY DEF Tasks
  <1>3. failed = markRecoveryFailure(markRecoveryAttempt(t))
    BY DEF markRecoveryFailure, markRecoveryAttempt
  <1> HIDE DEF failed, tried
  <1> QED BY <1>1, <1>2, <1>3, FailedAttempt

(* The watchdog at a sensor that does not read and does not begin.         *)
LEMMA SickTask ==
  ASSUME PatientInv, NEW d \in Devices,
         ~(task[d].success \/ (Recovers(d) /\ Begin(d)))
  PROVE  LET after == handleRecovery(d)
             ticks == CountedTo(Patience, sick[d])
         IN  /\ after.health = "DEGRADED" /\ after.attempts > 0 => SickFor(ticks, after.attempts, after.since)
             /\ task[d].health # "FAILED" /\ after.health = "FAILED" => ticks >= Patience
  <1> DEFINE after == handleRecovery(d)
             ticks == CountedTo(Patience, sick[d])
             t == task[d]
             judged == Judged(t)
             spent == markRecoveryFailure(markRecoveryAttempt(judged))
  <1>1. /\ t \in Tasks /\ (t.health = "NORMAL" => t.attempts = 0) /\ sick[d] \in 0..Patience
        /\ t.health = "DEGRADED" /\ t.attempts > 0 => SickFor(sick[d], t.attempts, t.since)
    BY DEF PatientInv, IInv, TypeOK, WholeBudget, Observed
  <1>2. /\ judged \in Tasks /\ judged.attempts = t.attempts
        /\ t.health # "NORMAL" => judged.health = t.health
        /\ t.health = "NORMAL" => judged.health \in {"NORMAL", "DEGRADED"}
        /\ judged.since = CountedTo(RecoveryInterval, t.since) /\ ~judged.success
    BY <1>1, JudgedTask, JudgedTimes
  <1>3. after = IF Recovers(d) THEN spent ELSE judged
    BY <1>2 DEF handleRecovery, hasRecoveredRead
  <1>4. /\ t.attempts \in Nat /\ t.since \in 0..RecoveryInterval /\ Patience \in Nat
        /\ MaxRecoveryAttempts \in Nat \ {0} /\ RecoveryInterval \in Nat \ {0}
        /\ t.attempts <= MaxRecoveryAttempts /\ t.health \in {"NORMAL", "DEGRADED", "FAILED"}
    BY <1>1, SensorRecoveryAssumption, PatienceType DEF Tasks
  <1>5. ticks = IF sick[d] < Patience THEN sick[d] + 1 ELSE Patience
    BY <1>1, <1>4 DEF CountedTo
  <1>6. Recovers(d) => judged.health = "DEGRADED" /\ (t.attempts = 0 \/ judged.since >= RecoveryInterval)
    BY <1>2 DEF Recovers, shouldRecover
  <1> HIDE DEF after, ticks, t
  <1>7. CASE ~Recovers(d)
    <2>1. after = judged
      BY <1>3, <1>7
    <2>2. ASSUME judged.health = "DEGRADED", judged.attempts > 0
          PROVE  SickFor(ticks, judged.attempts, judged.since)
      <3> DEFINE before == (t.attempts - 1) * RecoveryInterval
      <3>1. t.health = "DEGRADED" /\ t.attempts > 0
        BY <1>1, <1>2, <1>4, <2>2
      <3>2. before \in Int
        BY <1>4
      <3>3. sick[d] >= Patience \/ sick[d] >= before + t.since
        BY <1>1, <3>1 DEF SickFor
      <3>4. judged.since <= t.since + 1 /\ judged.since \in Int
        BY <1>2, <1>4 DEF CountedTo
      <3> HIDE DEF before
      <3>5. ticks >= Patience \/ ticks >= before + judged.since
        BY <1>1, <1>4, <1>5, <3>2, <3>3, <3>4
      <3> QED BY <1>2, <3>5 DEF SickFor, before
    <2>3. judged.health = "FAILED" => t.health = "FAILED"
      BY <1>2, <1>4
    <2> QED BY <2>1, <2>2, <2>3 DEF after, ticks, t
  <1>8. CASE Recovers(d)
    <2>1. /\ after.attempts = CountedTo(MaxRecoveryAttempts, t.attempts) /\ after.since = 0
          /\ after.health = "FAILED" => after.attempts = MaxRecoveryAttempts
      BY <1>2, <1>3, <1>8, AttemptSpent
    <2>2. ticks >= Patience \/ ticks >= (after.attempts - 1) * RecoveryInterval
      <3>1. CASE t.attempts = 0
        <4>1. after.attempts = 1
          BY <1>4, <2>1, <3>1 DEF CountedTo
        <4>2. (after.attempts - 1) * RecoveryInterval = 0
          BY <1>4, <4>1
        <4> QED BY <1>1, <1>4, <1>5, <4>2
      <3>2. CASE t.attempts > 0
        <4> DEFINE before == (t.attempts - 1) * RecoveryInterval
        <4>1. t.health = "DEGRADED"
          BY <1>1, <1>2, <1>4, <1>6, <1>8, <3>2
        <4>2. before \in Int /\ (t.attempts - 1 + 1) * RecoveryInterval = before + RecoveryInterval
          BY <1>4
        <4>3. sick[d] >= Patience \/ sick[d] >= before + t.since
          BY <1>1, <3>2, <4>1 DEF SickFor
        <4>4. t.since + 1 >= RecoveryInterval
          BY <1>2, <1>4, <1>6, <1>8, <3>2 DEF CountedTo
        <4>5. CASE t.attempts < MaxRecoveryAttempts
          <5>1. after.attempts - 1 = t.attempts - 1 + 1
            BY <1>4, <2>1, <4>5 DEF CountedTo
          <5>2. (after.attempts - 1) * RecoveryInterval = before + RecoveryInterval
            BY <4>2, <5>1
          <5> HIDE DEF before
          <5> QED BY <1>1, <1>4, <1>5, <4>2, <4>3, <4>4, <5>2
        <4>6. CASE t.attempts = MaxRecoveryAttempts
          <5>1. before = Patience
            BY <4>6 DEF Patience
          <5> HIDE DEF before
          <5> QED BY <1>1, <1>4, <1>5, <4>3, <5>1
        <4> QED BY <1>4, <4>5, <4>6
      <3> QED BY <1>4, <3>1, <3>2
    <2>3. SickFor(ticks, after.attempts, after.since)
      <3> DEFINE due == (after.attempts - 1) * RecoveryInterval
      <3>1. due \in Int
        <4>1. after.attempts \in Int
          BY <1>4, <2>1 DEF CountedTo
        <4> QED BY <1>4, <4>1
      <3> HIDE DEF due
      <3>2. ticks >= Patience \/ ticks >= due + after.since
        BY <2>1, <2>2, <3>1 DEF due
      <3> QED BY <3>2 DEF due, SickFor
    <2>4. after.health = "FAILED" => ticks >= Patience
      <3>1. SUFFICES ASSUME after.attempts = MaxRecoveryAttempts
                     PROVE  ticks >= Patience
        BY <2>1
      <3> QED BY <2>2, <3>1 DEF Patience
    <2> QED BY <2>3, <2>4 DEF after, ticks, t
  <1> QED BY <1>7, <1>8

(* ... and at one that does either: it is normal afterwards, or was given  *)
(* up before.                                                              *)
LEMMA WellTask ==
  ASSUME PatientInv, NEW d \in Devices,
         task[d].success \/ (Recovers(d) /\ Begin(d))
  PROVE  handleRecovery(d).health = "NORMAL" \/ task[d].health = "FAILED"
  <1> DEFINE judged == Judged(task[d])
  <1>1. task[d] \in Tasks
    BY DEF PatientInv, IInv, TypeOK
  <1>2. /\ task[d].health \in {"NORMAL", "DEGRADED", "FAILED"}
        /\ judged.health \in {"NORMAL", "DEGRADED", "FAILED"}
        /\ judged.health = "FAILED" => task[d].health = "FAILED"
        /\ judged.success = task[d].success
    BY <1>1, JudgedTask, JudgedTimes DEF Tasks
  <1>3. Recovers(d) => judged.health = "DEGRADED" /\ ~judged.success
    BY DEF Recovers, shouldRecover
  <1>4. handleRecovery(d) = IF hasRecoveredRead(judged) \/ (Recovers(d) /\ Begin(d)) THEN markInitialized
                            ELSE IF Recovers(d) THEN markRecoveryFailure(markRecoveryAttempt(judged))
                            ELSE judged
    BY DEF handleRecovery
  <1> HIDE DEF judged
  <1> QED BY <1>2, <1>3, <1>4, InitializedTask DEF hasRecoveredRead

-----------------------------------------------------------------------------
(* The steps of MCSensors that are the watchdog's and its tasks'.          *)
LEMMA ObservedKept ==
  ASSUME PatientInv, [MCNext]_<<part, vars, observer, barometer>>
  PROVE  Observed'
  <1>1. /\ task \in [Devices -> Tasks] /\ sick \in [Devices -> 0..Patience]
        /\ 0 \in 0..Patience
    BY PatienceType DEF PatientInv, IInv, TypeOK, Observed
  <1>2. CASE Watched
    <2>1. /\ \A d \in Devices : task'[d] = handleRecovery(d)
          /\ sick' = [d \in Devices |->
               IF task[d].success \/ (Recovers(d) /\ Begin(d)) THEN 0 ELSE CountedTo(Patience, sick[d])]
      BY <1>2 DEF Watched, WatchdogTick
    <2>2. sick' \in [Devices -> 0..Patience]
      BY <1>1, <2>1, Counts, PatienceType
    <2>3. ASSUME NEW d \in Devices, task'[d].health = "DEGRADED", task'[d].attempts > 0
          PROVE  SickFor(sick'[d], task'[d].attempts, task'[d].since)
      <3>1. CASE task[d].success \/ (Recovers(d) /\ Begin(d))
        <4>1. task[d].health = "FAILED"
          BY <2>1, <2>3, <3>1, WellTask
        <4> QED BY <2>1, <2>3, <4>1, HandledTask DEF PatientInv
      <3>2. CASE ~(task[d].success \/ (Recovers(d) /\ Begin(d)))
        BY <2>1, <2>3, <3>2, SickTask
      <3> QED BY <3>1, <3>2
    <2> QED BY <2>2, <2>3 DEF Observed
  <1>3. ASSUME NEW d \in Devices, Read(d), UNCHANGED observer
        PROVE  Observed'
    <2>1. task' = [task EXCEPT ![d] = AfterRead(d)] /\ sick' = sick
      BY <1>3 DEF Read, observer
    <2>2. AfterRead(d).health = task[d].health /\ AfterRead(d).attempts = task[d].attempts
          /\ AfterRead(d).since = task[d].since
      <3>1. task[d] \in Tasks
        BY <1>1
      <3>2. AfterRead(d).since = task[d].since
        BY <3>1 DEF AfterRead, markReadSuccess, markReadFailure, Tasks
      <3> QED BY <3>1, <3>2, SuccessfulRead, FailedRead DEF AfterRead
    <2> QED BY <1>1, <2>1, <2>2 DEF PatientInv, Observed
  <1>4. CASE task' = task /\ sick' = sick
    BY <1>4 DEF PatientInv, Observed
  <1>5. ASSUME NEW d \in Devices, Changes(d), UNCHANGED observer
        PROVE  Observed'
    BY <1>4, <1>5 DEF Changes, observer
  <1> QED BY <1>2, <1>3, <1>4, <1>5 DEF MCNext, vars, observer

LEMMA StepOfTasks ==
  [MCNext]_<<part, vars, observer, barometer>> => [Next]_vars
  BY DEF MCNext, Watched, Next

LEMMA PatientInvariance == MCSpec => []PatientInv
  <1>1. MCInit => PatientInv
    <2> SUFFICES ASSUME MCInit
                 PROVE  PatientInv
      OBVIOUS
    <2>1. IInv
      BY InvInit DEF MCInit
    <2>2. \A d \in Devices : task[d].health = "NORMAL"
      BY InitializedTask, FailedRead DEF MCInit, Init, Booted
    <2> QED BY <2>1, <2>2, PatienceType DEF PatientInv, Observed, MCInit
  <1>2. PatientInv /\ [MCNext]_<<part, vars, observer, barometer>> => PatientInv'
    BY ObservedKept, StepOfTasks, InvNext DEF PatientInv
  <1> QED BY <1>1, <1>2, PTL DEF MCSpec

(* However the reads of the tasks and the ticks of the watchdog interleave *)
(* with devices that break and mend: a glitch of a sensor never aborts the *)
(* flight (handleRecovery, handleAbort).                                   *)
THEOREM AbortIsPatient == MCSpec => AbortNotHasty
  <1>1. ASSUME PatientInv, [MCNext]_<<part, vars, observer, barometer>>, ~abort, abort'
        PROVE  \E d \in Critical : sick'[d] >= Patience
    <2>1. CASE abort' = abort
      BY <1>1, <2>1
    <2>2. CASE Watched
      <3>1. PICK d \in Devices : d \in Critical /\ task'[d].health = "FAILED"
        BY <1>1, <2>2 DEF Watched, WatchdogTick, handleAbort
      <3>2. task[d].health # "FAILED"
        BY <1>1, <3>1 DEF PatientInv, IInv, GivenUp
      <3>3. task'[d] = handleRecovery(d)
        BY <2>2 DEF Watched, WatchdogTick
      <3>4. ~(task[d].success \/ (Recovers(d) /\ Begin(d)))
        BY <1>1, <3>1, <3>2, <3>3, WellTask
      <3>5. sick'[d] = CountedTo(Patience, sick[d])
        BY <2>2, <3>4 DEF Watched
      <3> QED BY <1>1, <3>1, <3>2, <3>3, <3>4, <3>5, SickTask
    <2> QED BY <1>1, <2>1, <2>2 DEF MCNext, Read, Changes, vars
  <1>2. PatientInv /\ [MCNext]_<<part, vars, observer, barometer>>
          => [~abort /\ abort' => \E d \in Critical : sick'[d] >= Patience]_vars
    BY <1>1
  <1> QED BY <1>2, PatientInvariance, PTL DEF MCSpec, AbortNotHasty

-----------------------------------------------------------------------------
(* The barometer.  Its silence is bounded by what was counted meanwhile:   *)
(* before the first sample by the failures to read, after it by the age at *)
(* which a failure finds it stale and by the values out of range.          *)

(* What a poll may add, and what was spent when the conversion began.      *)
Turn == Baro!ResultWithin + Baro!Gap
Polled == IF conversion = Baro!None THEN 0 ELSE Baro!Gap + conversion

Unsampled == silent <= counts.reads * Turn + Polled

Sampled ==
  IF conversion = Baro!None THEN silent < StaleFault
  ELSE silent < StaleFault + counts.bad * Baro!ResultWithin + Polled

SilenceInv ==
  /\ Baro!TypeOK
  /\ ~initialized => conversion = Baro!None /\ ~sampled /\ counts.reads = 0 /\ counts.bad = 0
  /\ initialized /\ flags = {} =>
       /\ counts.reads < ReadFailFault /\ counts.bad < BadFault
       /\ IF sampled THEN Sampled ELSE Unsampled

LEMMA Limits ==
  /\ Baro!Gap \in Nat \ {0} /\ Baro!ResultWithin \in Nat /\ Turn \in Nat /\ Baro!None = -1
  /\ Baro!ResultWithin = ConversionTimeout + Baro!Gap /\ ConversionTimeout \in Nat
  /\ Turn = ConversionTimeout + Baro!Gap + Baro!Gap
  /\ Baro!Silence \in Nat /\ ReadFailFault * Turn <= Baro!Silence
  /\ StaleFault + Baro!Gap + BadFault * Baro!ResultWithin <= Baro!Silence
  /\ {ReadFailFault, BadFault, BadTotalFault, StaleFault, Window, Period} \subseteq Nat \ {0} /\ MaxLate \in Nat
  <1>1. /\ Baro!Gap \in Nat \ {0} /\ Baro!ResultWithin \in Nat /\ Turn \in Nat /\ Baro!None = -1
        /\ Baro!ResultWithin = ConversionTimeout + Baro!Gap /\ ConversionTimeout \in Nat
        /\ Turn = ConversionTimeout + Baro!Gap + Baro!Gap
        /\ {ReadFailFault, BadFault, BadTotalFault, StaleFault, Window, Period} \subseteq Nat \ {0}
        /\ MaxLate \in Nat
    BY BarometerAssumption DEF Baro!Gap, Baro!ResultWithin, Baro!None, Turn
  <1> DEFINE never == ReadFailFault * Turn
             lost  == BadFault * Baro!ResultWithin
  <1>2. never \in Nat /\ lost \in Nat
    BY <1>1
  <1>3. Baro!NeverSampled = never /\ Baro!SampleLost = StaleFault + Baro!Gap + lost
    BY DEF Baro!NeverSampled, Baro!SampleLost, Turn
  <1> HIDE DEF never, lost
  <1>4. /\ Baro!Silence \in Nat /\ never <= Baro!Silence
        /\ StaleFault + Baro!Gap + lost <= Baro!Silence
    BY <1>1, <1>2, <1>3 DEF Baro!Silence
  <1> QED BY <1>1, <1>4 DEF never, lost

(* One more of what is counted.                                            *)
LEMMA OneMore ==
  ASSUME NEW n \in Nat, NEW cost \in Nat
  PROVE  n * cost \in Nat /\ (n + 1) * cost = n * cost + cost
  OBVIOUS

LEMMA NoMore ==
  ASSUME NEW n \in Nat, NEW cost \in Nat, NEW limit \in Nat, n + 1 <= limit
  PROVE  n * cost + cost <= limit * cost
  <1>1. limit * cost = n * cost + (limit - n) * cost
    OBVIOUS
  <1>2. (limit - n) * cost = cost + (limit - n - 1) * cost
    OBVIOUS
  <1>3. limit - n - 1 \in Nat
    OBVIOUS
  <1>4. (limit - n - 1) * cost \in Nat
    BY <1>3
  <1> DEFINE a == n * cost
             b == (limit - n) * cost
             c == (limit - n - 1) * cost
  <1>5. a \in Nat /\ limit * cost = a + b /\ b = cost + c /\ c \in Nat
    BY <1>1, <1>2, <1>4
  <1> HIDE DEF a, b, c
  <1>6. a + cost <= a + b
    BY <1>5
  <1> QED BY <1>5, <1>6 DEF a

(* The times of a poll.                                                    *)
LEMMA PollTimes ==
  ASSUME Baro!TypeOK, NEW dt \in Period..Baro!Gap
  PROVE  /\ dt \in Nat /\ dt <= Baro!Gap
         /\ Baro!Later(Baro!Silence, silent, dt) \in 0..Baro!Silence
         /\ Baro!Later(Baro!Silence, silent, dt) <= silent + dt
         /\ silent \in Nat
  BY Limits DEF Baro!TypeOK, Baro!Later

LEMMA CountsTypes ==
  ASSUME Baro!TypeOK
  PROVE  /\ counts.reads \in 0..ReadFailFault /\ counts.bad \in 0..BadFault /\ counts.total \in 0..BadTotalFault
         /\ counts = [reads |-> counts.reads, bad |-> counts.bad, total |-> counts.total]
         /\ counts.reads \in Nat /\ counts.bad \in Nat
  BY Limits DEF Baro!TypeOK

LEMMA ForgetTypes ==
  Baro!NoSamples \in [entry : [Baro!Slots -> 0..Window], head : Baro!Slots, count : 0..Window]
  BY Limits DEF Baro!NoSamples, Baro!Slots

LEMMA FilterTypes ==
  ASSUME NEW w \in [entry : [Baro!Slots -> 0..Window], head : Baro!Slots, count : 0..Window]
  PROVE  Baro!filterAltitude(w) \in [entry : [Baro!Slots -> 0..Window], head : Baro!Slots, count : 0..Window]
  <1>1. /\ w.entry \in [Baro!Slots -> 0..Window] /\ w.head \in Baro!Slots /\ w.count \in 0..Window
        /\ Window \in Nat \ {0} /\ 0 \in 0..Window
    BY Limits
  <1>2. \A n \in 0..Window : Baro!CountedTo(Window, n) \in 0..Window
    BY <1>1 DEF Baro!CountedTo
  <1>3. (w.head + 1) % Window \in Baro!Slots
    BY <1>1 DEF Baro!Slots
  <1> DEFINE older == [i \in Baro!Slots |-> Baro!CountedTo(Window, w.entry[i])]
             next  == (w.head + 1) % Window
  <1>4. [older EXCEPT ![w.head] = 0] \in [Baro!Slots -> 0..Window]
    BY <1>1, <1>2
  <1>5. Baro!filterAltitude(w) = [entry |-> [older EXCEPT ![w.head] = 0], head |-> next,
                                  count |-> Baro!CountedTo(Window, w.count)]
    BY DEF Baro!filterAltitude
  <1>6. next \in Baro!Slots
    BY <1>3
  <1> HIDE DEF older, next
  <1> QED BY <1>1, <1>2, <1>4, <1>5, <1>6

(* A failure to read, and a value out of range.                            *)
LEMMA ReadFails ==
  ASSUME SilenceInv, NEW age \in 0..Baro!Silence, Baro!recordReadFailure(age)
  PROVE  /\ counts' \in [reads : 0..ReadFailFault, bad : 0..BadFault, total : 0..BadTotalFault]
         /\ flags' \subseteq {"READ_FAIL", "STALE", "BAD_VALUE"} /\ valid' \in BOOLEAN
         /\ window' \in [entry : [Baro!Slots -> 0..Window], head : Baro!Slots, count : 0..Window]
         /\ silent' = age /\ sampled' = sampled
         /\ counts'.bad = counts.bad
         /\ flags' = {} => /\ flags = {} /\ (sampled => age < StaleFault)
                           /\ counts'.reads = counts.reads + 1 /\ counts'.reads < ReadFailFault
  <1> DEFINE reads == Baro!CountedTo(ReadFailFault, counts.reads)
             raised == {f \in {"READ_FAIL", "STALE"} :
                          IF f = "READ_FAIL" THEN reads >= ReadFailFault ELSE Baro!Stale(reads, age)}
  <1>1. /\ counts' = [counts EXCEPT !.reads = reads]
        /\ flags' = flags \cup raised
        /\ IF raised = {} THEN UNCHANGED <<valid, window>> ELSE valid' = FALSE /\ window' = Baro!NoSamples
        /\ silent' = age /\ sampled' = sampled
    BY DEF Baro!recordReadFailure, Baro!markFault, Baro!Forget
  <1>2. reads \in 0..ReadFailFault /\ (reads < ReadFailFault => reads = counts.reads + 1)
    BY CountsTypes, Limits DEF SilenceInv, Baro!CountedTo
  <1>3. raised = {} => reads < ReadFailFault /\ (sampled => age < StaleFault)
    <2>1. raised = {} => ~(reads >= ReadFailFault) /\ ~Baro!Stale(reads, age)
      OBVIOUS
    <2> QED BY <1>2, <2>1, Limits DEF Baro!Stale
  <1>4. raised \subseteq {"READ_FAIL", "STALE"}
    OBVIOUS
  <1> HIDE DEF reads, raised
  <1>5. /\ counts' \in [reads : 0..ReadFailFault, bad : 0..BadFault, total : 0..BadTotalFault]
        /\ counts'.reads = reads /\ counts'.bad = counts.bad
    BY <1>1, <1>2 DEF SilenceInv, Baro!TypeOK
  <1>6. /\ valid' \in BOOLEAN
        /\ window' \in [entry : [Baro!Slots -> 0..Window], head : Baro!Slots, count : 0..Window]
    BY <1>1, ForgetTypes DEF SilenceInv, Baro!TypeOK
  <1> QED BY <1>1, <1>2, <1>3, <1>4, <1>5, <1>6 DEF SilenceInv, Baro!TypeOK

LEMMA ValueBad ==
  ASSUME SilenceInv, NEW age \in 0..Baro!Silence, Baro!recordBadValue(age)
  PROVE  /\ counts' \in [reads : 0..ReadFailFault, bad : 0..BadFault, total : 0..BadTotalFault]
         /\ flags' \subseteq {"READ_FAIL", "STALE", "BAD_VALUE"} /\ valid' \in BOOLEAN
         /\ window' \in [entry : [Baro!Slots -> 0..Window], head : Baro!Slots, count : 0..Window]
         /\ silent' = age /\ sampled' = sampled
         /\ counts'.reads = 0
         /\ flags' = {} => /\ flags = {} /\ counts'.bad = counts.bad + 1 /\ counts'.bad < BadFault
  <1> DEFINE bad == Baro!CountedTo(BadFault, counts.bad)
             total == Baro!CountedTo(BadTotalFault, counts.total)
             raised == IF bad >= BadFault \/ total >= BadTotalFault THEN {"BAD_VALUE"} ELSE {}
  <1>1. /\ counts' = [reads |-> 0, bad |-> bad, total |-> total]
        /\ flags' = flags \cup raised
        /\ IF raised = {} THEN UNCHANGED <<valid, window>> ELSE valid' = FALSE /\ window' = Baro!NoSamples
        /\ silent' = age /\ sampled' = sampled
    BY DEF Baro!recordBadValue, Baro!markFault, Baro!Forget
  <1>2. bad \in 0..BadFault /\ total \in 0..BadTotalFault /\ (bad < BadFault => bad = counts.bad + 1)
    BY CountsTypes, Limits DEF SilenceInv, Baro!CountedTo
  <1>3. raised = {} => bad < BadFault
    BY <1>2, Limits
  <1>4. raised \subseteq {"BAD_VALUE"} /\ 0 \in 0..ReadFailFault
    BY Limits
  <1> HIDE DEF bad, total, raised
  <1>5. /\ counts' \in [reads : 0..ReadFailFault, bad : 0..BadFault, total : 0..BadTotalFault]
        /\ counts'.reads = 0 /\ counts'.bad = bad
    BY <1>1, <1>2, <1>4
  <1>6. /\ valid' \in BOOLEAN
        /\ window' \in [entry : [Baro!Slots -> 0..Window], head : Baro!Slots, count : 0..Window]
    BY <1>1, ForgetTypes DEF SilenceInv, Baro!TypeOK
  <1> QED BY <1>1, <1>2, <1>3, <1>4, <1>5, <1>6 DEF SilenceInv, Baro!TypeOK

(* A poll of a device that is initialised.                                 *)
LEMMA PollSilence ==
  ASSUME SilenceInv, Baro!Poll
  PROVE  SilenceInv'
  <1>1. initialized /\ present' = present /\ initialized' = initialized
    BY DEF Baro!Poll
  <1>2. PICK dt \in Period..Baro!Gap :
          LET age == Baro!Later(Baro!Silence, silent, dt)
          IN  \/ Baro!StartConversion(age) \/ Baro!Wait(dt, age) \/ Baro!TimeOut(dt, age)
              \/ Baro!Unreadable(age) \/ Baro!OutOfRange(age) \/ Baro!Good
    BY DEF Baro!Poll
  <1> DEFINE age == Baro!Later(Baro!Silence, silent, dt)
  <1>3. dt \in Nat /\ dt <= Baro!Gap /\ age \in 0..Baro!Silence /\ age <= silent + dt /\ silent \in Nat
    BY PollTimes DEF SilenceInv
  <1>4. \/ Baro!StartConversion(age) \/ Baro!Wait(dt, age) \/ Baro!TimeOut(dt, age)
        \/ Baro!Unreadable(age) \/ Baro!OutOfRange(age) \/ Baro!Good
    BY <1>2
  <1> HIDE DEF age
  <1>5. /\ Baro!TypeOK /\ conversion \in {-1} \cup (0..ConversionTimeout)
        /\ counts.reads \in Nat /\ counts.bad \in Nat /\ sampled \in BOOLEAN
    BY Limits, CountsTypes DEF SilenceInv, Baro!TypeOK
  <1>6. flags = {} => /\ counts.reads < ReadFailFault /\ counts.bad < BadFault
                      /\ sampled => Sampled
                      /\ ~sampled => Unsampled
    BY <1>1 DEF SilenceInv
  <1> DEFINE failed == counts.reads * Turn
             spoilt == counts.bad * Baro!ResultWithin
  <1>7. /\ failed \in Nat /\ (counts.reads + 1) * Turn = failed + Turn
        /\ spoilt \in Nat /\ (counts.bad + 1) * Baro!ResultWithin = spoilt + Baro!ResultWithin
    BY <1>5, Limits, OneMore
  <1>8. /\ Unsampled <=> silent <= failed + Polled
        /\ Sampled <=> IF conversion = -1 THEN silent < StaleFault ELSE silent < StaleFault + spoilt + Polled
        /\ Polled = IF conversion = -1 THEN 0 ELSE Baro!Gap + conversion
    BY Limits DEF Unsampled, Sampled, Polled
  <1> HIDE DEF failed, spoilt
  <1>9. CASE Baro!StartConversion(age)
    <2>1. /\ conversion = -1 /\ conversion' = 0 /\ silent' = age
          /\ UNCHANGED <<counts, sampled, flags, valid, window>>
      BY <1>9, Limits DEF Baro!StartConversion, Baro!Pending
    <2>2. Baro!TypeOK'
      BY <1>1, <1>3, <1>5, <2>1, Limits DEF Baro!TypeOK
    <2>3. ~sampled /\ flags = {} => Unsampled'
      <3>1. ~sampled /\ flags = {} => age <= failed + (Baro!Gap + 0)
        BY <1>3, <1>6, <1>7, <1>8, <2>1, Limits
      <3> QED BY <2>1, <3>1, Limits DEF Unsampled, Polled, failed
    <2>4. sampled /\ flags = {} => Sampled'
      <3>1. sampled /\ flags = {} => age < StaleFault + spoilt + (Baro!Gap + 0)
        BY <1>3, <1>6, <1>7, <1>8, <2>1, Limits
      <3> QED BY <2>1, <3>1, Limits DEF Sampled, Polled, spoilt
    <2> QED BY <1>1, <1>6, <2>1, <2>2, <2>3, <2>4 DEF SilenceInv
  <1>10. CASE Baro!Wait(dt, age)
    <2>1. /\ conversion # -1 /\ conversion' = conversion + dt /\ silent' = age
          /\ conversion + dt <= ConversionTimeout
          /\ UNCHANGED <<counts, sampled, flags, valid, window>>
      BY <1>10, Limits DEF Baro!Wait, Baro!Pending, Baro!Converting
    <2>2. conversion' \in 0..ConversionTimeout
      BY <1>3, <1>5, <2>1
    <2>3. Baro!TypeOK'
      BY <1>1, <1>3, <1>5, <2>1, <2>2, Limits DEF Baro!TypeOK
    <2>4. ~sampled /\ flags = {} => Unsampled'
      <3>1. ~sampled /\ flags = {} => age <= failed + (Baro!Gap + conversion')
        BY <1>3, <1>5, <1>6, <1>7, <1>8, <2>1, Limits
      <3> QED BY <2>1, <2>2, <3>1, Limits DEF Unsampled, Polled, failed
    <2>5. sampled /\ flags = {} => Sampled'
      <3>1. sampled /\ flags = {} => age < StaleFault + spoilt + (Baro!Gap + conversion')
        BY <1>3, <1>5, <1>6, <1>7, <1>8, <2>1, Limits
      <3> QED BY <2>1, <2>2, <3>1, Limits DEF Sampled, Polled, spoilt
    <2> QED BY <1>1, <1>6, <2>1, <2>3, <2>4, <2>5 DEF SilenceInv
  <1>11. ASSUME conversion # -1, Baro!recordReadFailure(age), conversion' \in {-1, 0}
         PROVE  SilenceInv'
    <2>1. /\ counts' \in [reads : 0..ReadFailFault, bad : 0..BadFault, total : 0..BadTotalFault]
          /\ flags' \subseteq {"READ_FAIL", "STALE", "BAD_VALUE"} /\ valid' \in BOOLEAN
          /\ window' \in [entry : [Baro!Slots -> 0..Window], head : Baro!Slots, count : 0..Window]
          /\ silent' = age /\ sampled' = sampled
          /\ counts'.bad = counts.bad
          /\ flags' = {} => /\ flags = {} /\ (sampled => age < StaleFault)
                            /\ counts'.reads = counts.reads + 1 /\ counts'.reads < ReadFailFault
      BY <1>3, <1>11, ReadFails
    <2>2. Baro!TypeOK'
      BY <1>1, <1>3, <1>5, <1>11, <2>1, Limits DEF Baro!TypeOK
    <2> DEFINE polled == Polled'
    <2>5. polled \in Nat
      <3>1. polled \in {0, Baro!Gap + 0}
        BY <1>11, Limits DEF Polled
      <3> QED BY <3>1, Limits
    <2>3. ~sampled /\ flags' = {} => Unsampled'
      <3>1. ~sampled /\ flags' = {} => age <= failed + Turn
        BY <1>3, <1>5, <1>6, <1>7, <1>8, <1>11, <2>1, Limits
      <3>2. flags' = {} => (Unsampled' <=> age <= failed + Turn + polled)
        BY <1>7, <2>1 DEF Unsampled
      <3> HIDE DEF polled
      <3> QED BY <1>3, <1>7, <2>5, <3>1, <3>2, Limits
    <2>4. sampled /\ flags' = {} => Sampled'
      <3>1. counts'.bad * Baro!ResultWithin = spoilt
        BY <2>1 DEF spoilt
      <3>2. Sampled' <=> IF conversion' = -1 THEN age < StaleFault ELSE age < StaleFault + spoilt + polled
        BY <2>1, <3>1, Limits DEF Sampled
      <3> HIDE DEF polled
      <3> QED BY <1>3, <1>7, <2>1, <2>5, <3>2, Limits
    <2> QED BY <1>1, <1>6, <2>1, <2>2, <2>3, <2>4 DEF SilenceInv
  <1>12. CASE Baro!TimeOut(dt, age) \/ Baro!Unreadable(age)
    BY <1>11, <1>12, Limits DEF Baro!TimeOut, Baro!Unreadable
  <1>13. CASE Baro!OutOfRange(age)
    <2>1. conversion # -1 /\ sampled /\ conversion' = 0 /\ Baro!recordBadValue(age)
      BY <1>13, Limits DEF Baro!OutOfRange
    <2>2. /\ counts' \in [reads : 0..ReadFailFault, bad : 0..BadFault, total : 0..BadTotalFault]
          /\ flags' \subseteq {"READ_FAIL", "STALE", "BAD_VALUE"} /\ valid' \in BOOLEAN
          /\ window' \in [entry : [Baro!Slots -> 0..Window], head : Baro!Slots, count : 0..Window]
          /\ silent' = age /\ sampled' = sampled
          /\ counts'.reads = 0
          /\ flags' = {} => /\ flags = {} /\ counts'.bad = counts.bad + 1 /\ counts'.bad < BadFault
      BY <1>3, <2>1, ValueBad
    <2>3. Baro!TypeOK'
      BY <1>1, <1>3, <1>5, <2>1, <2>2, Limits DEF Baro!TypeOK
    <2>4. flags' = {} => Sampled'
      <3>1. flags' = {} => age < StaleFault + (spoilt + Baro!ResultWithin) + (Baro!Gap + 0)
        BY <1>3, <1>5, <1>6, <1>7, <1>8, <2>1, <2>2, Limits
      <3>2. flags' = {} => counts'.bad * Baro!ResultWithin = spoilt + Baro!ResultWithin
        BY <1>7, <2>2
      <3> QED BY <2>1, <2>2, <3>1, <3>2, Limits DEF Sampled, Polled
    <2> QED BY <1>1, <1>6, <2>1, <2>2, <2>3, <2>4, Limits DEF SilenceInv
  <1>14. CASE Baro!Good
    <2>1. /\ conversion' = 0 /\ counts' = [counts EXCEPT !.reads = 0, !.bad = 0]
          /\ valid' = TRUE /\ window' = Baro!filterAltitude(window)
          /\ silent' = 0 /\ sampled' = TRUE /\ flags' = flags
      BY <1>14 DEF Baro!Good, Baro!publishValidSample
    <2>2. /\ counts' \in [reads : 0..ReadFailFault, bad : 0..BadFault, total : 0..BadTotalFault]
          /\ counts'.reads = 0 /\ counts'.bad = 0
      <3>1. 0 \in 0..ReadFailFault /\ 0 \in 0..BadFault
        BY Limits
      <3>2. counts \in [reads : 0..ReadFailFault, bad : 0..BadFault, total : 0..BadTotalFault]
        BY <1>5 DEF Baro!TypeOK
      <3> QED BY <2>1, <3>1, <3>2
    <2>3. Baro!filterAltitude(window) \in [entry : [Baro!Slots -> 0..Window], head : Baro!Slots, count : 0..Window]
      BY <1>5, FilterTypes DEF Baro!TypeOK
    <2>4. Baro!TypeOK'
      BY <1>1, <1>5, <2>1, <2>2, <2>3, Limits DEF Baro!TypeOK
    <2>5. Sampled'
      <3>1. counts'.bad * Baro!ResultWithin = 0
        BY <2>2, Limits
      <3> QED BY <2>1, <3>1, Limits DEF Sampled, Polled
    <2> QED BY <1>1, <2>1, <2>2, <2>4, <2>5, Limits DEF SilenceInv
  <1> QED BY <1>4, <1>9, <1>10, <1>12, <1>13, <1>14

LEMMA SilenceKept ==
  ASSUME SilenceInv, [Baro!Next]_barometer
  PROVE  SilenceInv'
  <1>1. CASE Baro!Poll
    BY <1>1, PollSilence
  <1>2. CASE Baro!Initialize
    <2>1. PICK dt \in Period..Baro!Gap :
            LET age == Baro!Later(Baro!Silence, silent, dt)
            IN  IF age >= InitRetry THEN silent' = 0 /\ initialized' = present ELSE Baro!WaitForRetry(age)
      BY <1>2 DEF Baro!Initialize
    <2>2. ~initialized /\ UNCHANGED <<present, conversion, counts, sampled, flags, valid, window>>
      BY <1>2 DEF Baro!Initialize
    <2>3. silent' \in 0..Baro!Silence /\ initialized' \in BOOLEAN /\ (initialized' => silent' = 0)
      BY <2>1, <2>2, PollTimes, Limits DEF SilenceInv, Baro!TypeOK, Baro!WaitForRetry
    <2>4. Baro!TypeOK'
      BY <2>2, <2>3 DEF SilenceInv, Baro!TypeOK
    <2>5. initialized' => Unsampled' /\ counts'.reads < ReadFailFault
      <3>1. counts'.reads = 0 /\ conversion' = Baro!None
        BY <2>2 DEF SilenceInv
      <3>2. counts'.reads * Turn = 0 /\ Polled' = 0
        BY <3>1, Limits DEF Polled
      <3> QED BY <2>3, <3>1, <3>2, Limits DEF Unsampled
    <2>6. initialized' => counts'.bad < BadFault
      BY <2>2, Limits DEF SilenceInv
    <2> QED BY <2>2, <2>4, <2>5, <2>6 DEF SilenceInv
  <1>3. CASE Baro!Connects \/ UNCHANGED barometer
    <2>1. /\ UNCHANGED <<initialized, conversion, silent, counts, sampled, flags, valid, window>>
          /\ present' \in BOOLEAN
      BY <1>3 DEF Baro!Connects, barometer, SilenceInv, Baro!TypeOK
    <2>2. Polled' = Polled
      BY <2>1 DEF Polled
    <2>3. Sampled' = Sampled /\ Unsampled' = Unsampled
      BY <2>1, <2>2 DEF Sampled, Unsampled
    <2>4. Baro!TypeOK'
      BY <2>1 DEF SilenceInv, Baro!TypeOK
    <2> QED BY <2>1, <2>3, <2>4 DEF SilenceInv
  <1> QED BY <1>1, <1>2, <1>3 DEF Baro!Next, Baro!Tick

(* The window of the median: going back from the head, the samples are     *)
(* those stored last, in their order; until it is full it begins at 0.     *)
BackFrom(head, i) == (head - 1 - i) % Window

Ordered(w) ==
  /\ w.count < Window => w.head = w.count
  /\ \A i \in 0..(w.count - 1) : w.entry[i] = BackFrom(w.head, i)

BaroInv == SilenceInv /\ Ordered(window)

LEMMA BackSteps ==
  ASSUME NEW head \in Baro!Slots, NEW i \in Baro!Slots
  PROVE  /\ BackFrom(head, i) = (IF i < head THEN head - 1 - i ELSE head - 1 - i + Window)
         /\ (head + 1) % Window = (IF head + 1 < Window THEN head + 1 ELSE 0)
         /\ BackFrom(head, i) \in Baro!Slots
  <1> DEFINE n == Window
  <1>1. n \in Nat \ {0} /\ head \in 0..(n - 1) /\ i \in 0..(n - 1)
    BY Limits DEF Baro!Slots
  <1> HIDE DEF n
  <1>2. /\ (head - 1 - i) % n = (IF i < head THEN head - 1 - i ELSE head - 1 - i + n)
        /\ (head + 1) % n = (IF head + 1 < n THEN head + 1 ELSE 0)
        /\ (head - 1 - i) % n \in 0..(n - 1)
    BY <1>1
  <1> QED BY <1>2 DEF n, BackFrom, Baro!Slots

LEMMA FilterOrdered ==
  ASSUME NEW w \in [entry : [Baro!Slots -> 0..Window], head : Baro!Slots, count : 0..Window], Ordered(w)
  PROVE  Ordered(Baro!filterAltitude(w))
  <1> DEFINE n == Window
             older == [i \in Baro!Slots |-> Baro!CountedTo(Window, w.entry[i])]
             entry == [older EXCEPT ![w.head] = 0]
             next  == (w.head + 1) % Window
             count == Baro!CountedTo(Window, w.count)
  <1>1. Baro!filterAltitude(w) = [entry |-> entry, head |-> next, count |-> count]
    BY DEF Baro!filterAltitude
  <1>2. /\ n \in Nat \ {0} /\ w.head \in 0..(n - 1) /\ w.count \in 0..n /\ Baro!Slots = 0..(n - 1)
        /\ w.entry \in [Baro!Slots -> 0..n]
    BY Limits DEF Baro!Slots
  <1>3. /\ next = (IF w.head + 1 < n THEN w.head + 1 ELSE 0) /\ next \in 0..(n - 1)
        /\ count = (IF w.count < n THEN w.count + 1 ELSE n)
    <2>1. w.head \in Baro!Slots
      OBVIOUS
    <2>2. next = IF w.head + 1 < n THEN w.head + 1 ELSE 0
      BY <2>1, BackSteps
    <2> HIDE DEF next, n
    <2> QED BY <1>2, <2>2 DEF Baro!CountedTo, n
  <1>4. entry[w.head] = 0 /\ \A i \in Baro!Slots \ {w.head} : entry[i] = Baro!CountedTo(Window, w.entry[i])
    BY <1>2
  <1>5. count < n => next = count
    <2> HIDE DEF n, next, count
    <2> QED BY <1>2, <1>3 DEF Ordered, n
  <1>6. ASSUME NEW i \in 0..(count - 1)
        PROVE  entry[i] = BackFrom(next, i)
    <2>1. i \in Baro!Slots /\ next \in Baro!Slots /\ w.head \in Baro!Slots
      <3> HIDE DEF n, next, count
      <3> QED BY <1>2, <1>3
    <2>2. BackFrom(next, i) = IF i < next THEN next - 1 - i ELSE next - 1 - i + n
      <3> HIDE DEF next
      <3> QED BY <2>1, BackSteps
    <2>3. CASE i = w.head
      <3> HIDE DEF n, next, count, entry
      <3> QED BY <1>2, <1>3, <1>4, <2>1, <2>2, <2>3
    <2>4. CASE i # w.head
      <3>1. i \in 0..(w.count - 1)
        <4> HIDE DEF n, next, count
        <4> QED BY <1>2, <1>3, <2>1, <2>4 DEF Ordered, n
      <3>2. w.entry[i] = BackFrom(w.head, i)
        BY <3>1 DEF Ordered
      <3>3. BackFrom(w.head, i) = IF i < w.head THEN w.head - 1 - i ELSE w.head - 1 - i + n
        BY <2>1, BackSteps
      <3>4. entry[i] = Baro!CountedTo(n, w.entry[i])
        BY <1>4, <2>1, <2>4
      <3>5. entry[i] = IF w.entry[i] < n THEN w.entry[i] + 1 ELSE n
        BY <3>4 DEF Baro!CountedTo
      <3> DEFINE back == w.entry[i]
      <3> HIDE DEF n, next, count, entry, back
      <3>6. back = (IF i < w.head THEN w.head - 1 - i ELSE w.head - 1 - i + n)
            /\ entry[i] = IF back < n THEN back + 1 ELSE n
        BY <3>2, <3>3, <3>5 DEF back
      <3>7. w.head \in 0..(n - 1) /\ i \in 0..(n - 1) /\ n \in Nat
        BY <1>2, <2>1
      <3>8. entry[i] = IF i < w.head THEN w.head - i ELSE w.head - i + n
        BY <2>4, <3>6, <3>7
      <3>9. BackFrom(next, i) = IF i < w.head THEN w.head - i ELSE w.head - i + n
        BY <1>3, <2>2, <2>4, <3>7
      <3> QED BY <3>8, <3>9
    <2> QED BY <2>3, <2>4
  <1> HIDE DEF entry, next, count
  <1>7. Ordered([entry |-> entry, head |-> next, count |-> count])
    BY <1>5, <1>6 DEF Ordered
  <1> QED BY <1>1, <1>7

LEMMA NothingOrdered == Ordered(Baro!NoSamples)
  <1>1. Baro!NoSamples.head = 0 /\ Baro!NoSamples.count = 0
    BY DEF Baro!NoSamples
  <1>2. 0..(0 - 1) = {}
    OBVIOUS
  <1> QED BY <1>1, <1>2 DEF Ordered

LEMMA OrderedKept ==
  ASSUME BaroInv, [Baro!Next]_barometer
  PROVE  Ordered(window')
  <1>1. window' \in {window, Baro!NoSamples, Baro!filterAltitude(window)}
    BY DEF Baro!Next, Baro!Tick, Baro!Poll, Baro!Initialize, Baro!Connects, Baro!StartConversion, Baro!Wait,
           Baro!Pending, Baro!TimeOut, Baro!Unreadable, Baro!OutOfRange, Baro!Good, Baro!recordReadFailure,
           Baro!recordBadValue, Baro!markFault, Baro!Forget, Baro!publishValidSample, barometer
  <1> QED BY <1>1, NothingOrdered, FilterOrdered DEF BaroInv, SilenceInv, Baro!TypeOK

LEMMA BaroInvariance == MCSpec => []BaroInv
  <1>1. MCInit => BaroInv
    <2> SUFFICES ASSUME Baro!Init
                 PROVE  BaroInv
      BY DEF MCInit
    <2>1. Baro!TypeOK
      <3>1. 0 \in 0..ReadFailFault /\ 0 \in 0..BadFault /\ 0 \in 0..BadTotalFault /\ 0 \in 0..Baro!Silence
        BY Limits
      <3>2. counts \in [reads : 0..ReadFailFault, bad : 0..BadFault, total : 0..BadTotalFault]
        BY <3>1 DEF Baro!Init
      <3> QED BY <3>1, <3>2, ForgetTypes DEF Baro!Init, Baro!TypeOK
    <2>2. counts.reads = 0 /\ counts.bad = 0 /\ silent = 0 /\ ~sampled /\ conversion = Baro!None
      BY DEF Baro!Init
    <2>3. Unsampled
      <3>1. counts.reads * Turn = 0 /\ Polled = 0
        BY <2>2, Limits DEF Polled
      <3> QED BY <2>2, <3>1 DEF Unsampled
    <2>4. Ordered(window)
      BY NothingOrdered DEF Baro!Init
    <2> QED BY <2>1, <2>2, <2>3, <2>4, Limits DEF BaroInv, SilenceInv
  <1>2. BaroInv /\ [MCNext]_<<part, vars, observer, barometer>> => BaroInv'
    <2> SUFFICES ASSUME BaroInv, [MCNext]_<<part, vars, observer, barometer>>
                 PROVE  BaroInv'
      OBVIOUS
    <2>1. [Baro!Next]_barometer
      BY DEF MCNext
    <2> QED BY <2>1, SilenceKept, OrderedKept DEF BaroInv
  <1> QED BY <1>1, <1>2, PTL DEF MCSpec

(* Whatever the thresholds, the periods and the lateness of a tick, and    *)
(* however failures of every kind mix: a barometer that says nothing for   *)
(* Silence is declared faulty (recordReadFailure, recordBadValue).         *)
THEOREM SilenceIsFound == MCSpec => []SilenceIsFault
  <1>1. ASSUME SilenceInv, initialized, flags = {}
        PROVE  silent < Baro!Silence
    <2>1. /\ counts.reads \in Nat /\ counts.bad \in Nat /\ silent \in Nat
          /\ conversion \in {-1} \cup (0..ConversionTimeout)
      BY <1>1, CountsTypes, Limits DEF SilenceInv, Baro!TypeOK
    <2>2. Polled \in Nat /\ Polled <= Baro!ResultWithin
      BY <2>1, Limits DEF Polled
    <2>3. CASE ~sampled
      <3> DEFINE failed == counts.reads * Turn
                 limit  == ReadFailFault * Turn
      <3>1. counts.reads + 1 <= ReadFailFault
        BY <1>1, <2>1, Limits DEF SilenceInv
      <3>2. failed + Turn <= limit /\ failed \in Nat /\ limit \in Nat
        BY <2>1, <3>1, NoMore, OneMore, Limits
      <3>3. silent <= failed + Polled /\ limit <= Baro!Silence
        BY <1>1, <2>3, Limits DEF SilenceInv, Unsampled
      <3> HIDE DEF failed, limit
      <3> QED BY <2>1, <2>2, <3>2, <3>3, Limits
    <2>4. CASE sampled
      <3> DEFINE spoilt == counts.bad * Baro!ResultWithin
                 limit  == BadFault * Baro!ResultWithin
      <3>1. counts.bad + 1 <= BadFault
        BY <1>1, <2>1, Limits DEF SilenceInv
      <3>2. spoilt + Baro!ResultWithin <= limit /\ spoilt \in Nat /\ limit \in Nat
        BY <2>1, <3>1, NoMore, OneMore, Limits
      <3>3. silent < StaleFault + spoilt + Polled \/ silent < StaleFault
        BY <1>1, <2>4 DEF SilenceInv, Sampled
      <3>4. StaleFault + Baro!Gap + limit <= Baro!Silence
        BY Limits
      <3> HIDE DEF spoilt, limit
      <3> QED BY <2>1, <2>2, <3>2, <3>3, <3>4, Limits
    <2> QED BY <1>1, <2>3, <2>4 DEF SilenceInv, Baro!TypeOK
  <1>2. BaroInv => SilenceIsFault
    <2> SUFFICES ASSUME BaroInv, initialized, flags = {}
                 PROVE  ~(silent >= Baro!Silence)
      BY DEF SilenceIsFault, Baro!SilenceIsFault
    <2>1. silent < Baro!Silence /\ silent \in Int
      BY <1>1, Limits DEF BaroInv, SilenceInv, Baro!TypeOK
    <2> QED BY <2>1, Limits
  <1> QED BY <1>2, BaroInvariance, PTL

(* ... and for every length of the window the median is taken of the       *)
(* samples stored last, each once (filterAltitude).                        *)
THEOREM WindowsCurrent == MCSpec => []WindowCurrent
  <1>1. BaroInv => WindowCurrent
    <2> SUFFICES ASSUME BaroInv
                 PROVE  {window.entry[i] : i \in 0..(window.count - 1)} = 0..(window.count - 1)
      BY DEF WindowCurrent, Baro!WindowCurrent
    <2> DEFINE count == window.count
               head == window.head
               n == Window
    <2>1. /\ n \in Nat \ {0} /\ head \in 0..(n - 1) /\ count \in 0..n /\ Baro!Slots = 0..(n - 1)
          /\ (count < n => head = count)
          /\ \A i \in 0..(count - 1) : window.entry[i] = BackFrom(head, i)
      BY Limits DEF BaroInv, Ordered, SilenceInv, Baro!TypeOK, Baro!Slots
    <2>2. \A i \in 0..(n - 1) : BackFrom(head, i) = IF i < head THEN head - 1 - i ELSE head - 1 - i + n
      BY <2>1, BackSteps
    <2> HIDE DEF count, head, n
    <2>3. \A i \in 0..(count - 1) : window.entry[i] \in 0..(count - 1)
      <3> TAKE i \in 0..(count - 1)
      <3>1. i \in 0..(n - 1)
        BY <2>1
      <3>2. window.entry[i] = IF i < head THEN head - 1 - i ELSE head - 1 - i + n
        BY <2>1, <2>2, <3>1
      <3> QED BY <2>1, <3>1, <3>2
    <2>4. \A age \in 0..(count - 1) : \E i \in 0..(count - 1) : window.entry[i] = age
      <3> TAKE age \in 0..(count - 1)
      <3> DEFINE i == IF age < head THEN head - 1 - age ELSE head - 1 - age + n
      <3>1. i \in 0..(count - 1) /\ i \in 0..(n - 1)
        BY <2>1
      <3>2. BackFrom(head, i) = IF i < head THEN head - 1 - i ELSE head - 1 - i + n
        BY <2>2, <3>1
      <3>3. BackFrom(head, i) = age
        BY <2>1, <3>2
      <3>4. window.entry[i] = age
        BY <2>1, <3>1, <3>3
      <3> QED BY <3>1, <3>4
    <2> QED BY <2>3, <2>4 DEF count
  <1> QED BY <1>1, BaroInvariance, PTL
=============================================================================
