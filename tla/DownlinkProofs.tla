---------------------------- MODULE DownlinkProofs ----------------------------
(***************************************************************************)
(* Downlink for every clock, every period and every time a pass may take:  *)
(* its types, and that the scheduler neither leaves a task behind nor lets *)
(* one run ahead.                                                          *)
(***************************************************************************)
EXTENDS Downlink, TLAPS

-----------------------------------------------------------------------------
(* The arithmetic of a clock that wraps.                                   *)

LEMMA Difference ==
  ASSUME NEW a \in Time, NEW b \in Time
  PROVE  (a - b) % ClockModulus = IF a >= b THEN a - b ELSE a - b + ClockModulus
  <1> DEFINE M == ClockModulus
  <1>1. M \in Nat \ {0} /\ a \in 0..(M - 1) /\ b \in 0..(M - 1)
    BY DownlinkAssumption DEF Time
  <1> HIDE DEF M
  <1>2. (a - b) % M = IF a >= b THEN a - b ELSE a - b + M
    BY <1>1
  <1> QED BY <1>2 DEF M

LEMMA Addition ==
  ASSUME NEW a \in Time, NEW n \in Nat, n <= ClockModulus
  PROVE  /\ (a + n) % ClockModulus = IF a + n < ClockModulus THEN a + n ELSE a + n - ClockModulus
         /\ (a + n) % ClockModulus \in Time
  <1> DEFINE M == ClockModulus
  <1>1. M \in Nat \ {0} /\ a \in 0..(M - 1) /\ n <= M
    BY DownlinkAssumption DEF Time
  <1> HIDE DEF M
  <1>2. (a + n) % M = (IF a + n < M THEN a + n ELSE a + n - M) /\ (a + n) % M \in 0..(M - 1)
    BY <1>1
  <1> QED BY <1>2 DEF M, Time

LEMMA Sums ==
  ASSUME NEW a \in Time, NEW n \in Int
  PROVE  (a + n) % ClockModulus \in Time
  <1> DEFINE M == ClockModulus
  <1>1. M \in Nat \ {0} /\ a + n \in Int
    BY DownlinkAssumption DEF Time
  <1> HIDE DEF M
  <1>2. (a + n) % M \in 0..(M - 1)
    BY <1>1
  <1> QED BY <1>2 DEF M, Time

-----------------------------------------------------------------------------
(* Types: what the drivers do with their radio.                            *)

RadioOK(r) ==
  /\ r \in Radios
  /\ driver = "SX127x" => r.txStart = None
  /\ r.listening => r.initialized /\ ~Busy(r)

LEMMA Fields ==
  ASSUME NEW r \in Radios
  PROVE  /\ r.initialized \in BOOLEAN /\ r.listening \in BOOLEAN /\ r.listened \in 0..Airtime
         /\ r.txStart \in Time \cup {None} /\ r.txDone \in Time \cup {None}
         /\ r = [initialized |-> r.initialized, listening |-> r.listening, listened |-> r.listened,
                 txStart |-> r.txStart, txDone |-> r.txDone]
  BY DEF Radios

LEMMA FreshOK == RadioOK(Fresh) /\ RadioOK([Fresh EXCEPT !.initialized = FALSE, !.listening = FALSE])
  <1>1. 0 \in 0..Airtime
    BY DownlinkAssumption
  <1> QED BY <1>1 DEF Fresh, RadioOK, Radios, Busy

LEMMA BegunOK ==
  ASSUME NEW r \in Radios
  PROVE  \A b \in Begun(r) : RadioOK(b)
  <1>1. 0 \in 0..Airtime
    BY DownlinkAssumption
  <1> QED BY <1>1 DEF Begun, RadioOK, Radios, Busy

LEMMA ServicedOK ==
  ASSUME TypeOK
  PROVE  \A r \in Serviced(radio) : RadioOK(r)
  <1>1. RadioOK(radio) /\ Millis \in Time
    BY Sums DEF TypeOK, RadioOK, Millis
  <1>2. CASE ~(radio.initialized /\ Busy(radio))
    BY <1>1, <1>2 DEF Serviced
  <1>3. CASE radio.initialized /\ Busy(radio)
    <2>1. Serviced(radio) \subseteq Finished(radio) \cup Aborted(radio) \cup {radio}
      BY <1>3 DEF Serviced
    <2>2. \A r \in Aborted(radio) : RadioOK(r)
      BY <1>1, <1>3 DEF Aborted, RadioOK, Radios, Busy
    <2> DEFINE ended == [radio EXCEPT !.txStart = None, !.txDone = Millis]
    <2>3. ended \in Radios /\ ended.initialized /\ ended.txStart = None
      BY <1>1, <1>3 DEF RadioOK, Radios
    <2>4. RadioOK([ended EXCEPT !.listening = TRUE])
      <3> HIDE DEF ended
      <3> QED BY <2>3 DEF RadioOK, Radios, Busy
    <2>5. \A r \in Finished(radio) : RadioOK(r)
      <3>1. Finished(radio) = {[ended EXCEPT !.listening = TRUE]} \cup Begun(ended)
        BY DEF Finished
      <3> HIDE DEF ended
      <3> QED BY <2>3, <2>4, <3>1, BegunOK
    <2> QED BY <1>1, <2>1, <2>2, <2>5
  <1> QED BY <1>2, <1>3

LEMMA HeardOK ==
  ASSUME NEW r, RadioOK(r)
  PROVE  \A heard \in Heard(r) : RadioOK(heard.radio) /\ heard.acks \in 0..2
  <1> DEFINE read == [r EXCEPT !.listened = 0]
  <1>1. 0 \in 0..Airtime
    BY DownlinkAssumption
  <1>2. RadioOK(read)
    BY <1>1 DEF RadioOK, Radios, Busy
  <1>3. RadioOK([read EXCEPT !.listening = FALSE])
    <2> HIDE DEF read
    <2> QED BY <1>2 DEF RadioOK, Radios, Busy
  <1> DEFINE deaf == [read EXCEPT !.listening = FALSE]
  <1>4. Heard(r) \subseteq {[radio |-> r, acks |-> 0]} \cup [radio : {read}, acks : 1..2]
                           \cup {[radio |-> deaf, acks |-> 0]}
    BY DEF Heard
  <1> HIDE DEF read, deaf
  <1>5. RadioOK(read) /\ RadioOK(deaf)
    BY <1>2, <1>3 DEF deaf
  <1> QED BY <1>4, <1>5

LEMMA SendsOK ==
  ASSUME NEW r, RadioOK(r), TypeOK
  PROVE  \A sending \in Sends(r) :
           RadioOK(sending.radio) /\ sending.took \in {0, Airtime} /\ sending.ok \in BOOLEAN
  <1>0. 0 \in 0..Airtime /\ Millis \in Time
    BY DownlinkAssumption, Sums DEF TypeOK, Millis
  <1> DEFINE after == [r EXCEPT !.listened = 0]
             started == [r EXCEPT !.listening = FALSE, !.listened = 0, !.txStart = Millis]
  <1>1. RadioOK(after)
    BY <1>0 DEF RadioOK, Radios, Busy
  <1>2. driver # "SX127x" => RadioOK(started)
    BY <1>0 DEF RadioOK, Radios, Busy
  <1>3. \A b \in Begun(r) : RadioOK(b)
    BY BegunOK DEF RadioOK
  <1> DEFINE Right(sending) ==
               RadioOK(sending.radio) /\ sending.took \in {0, Airtime} /\ sending.ok \in BOOLEAN
             Given(b, took) == [radio |-> b, ok |-> TRUE, took |-> took]
  <1>4. \A b : RadioOK(b) => Right(Refused(b)) /\ Right(Given(b, 0)) /\ Right(Given(b, Airtime))
    BY DEF Refused
  <1>5. CASE driver = "SX127x"
    <2>1. Sends(r) \subseteq {Refused(r), Refused(after), Given(after, Airtime)}
      BY <1>5 DEF Sends, SendsSx127x
    <2> HIDE DEF after, Right, Given
    <2>2. \A sending \in Sends(r) : Right(sending)
      BY <1>1, <1>4, <2>1
    <2> QED BY <2>2 DEF Right
  <1>6. CASE driver # "SX127x"
    <2>1. Sends(r) \subseteq {Refused(r), Given(started, 0)} \cup {Refused(b) : b \in Begun(r)}
      BY <1>6 DEF Sends, SendsSx1262
    <2> HIDE DEF started, Right, Given
    <2>2. \A sending \in Sends(r) : Right(sending)
      BY <1>2, <1>3, <1>4, <1>6, <2>1
    <2> QED BY <2>2 DEF Right
  <1> QED BY <1>5, <1>6

LEMMA ListeningOK ==
  ASSUME NEW r, RadioOK(r), NEW time \in Nat
  PROVE  RadioOK(Listening(r, time))
  <1> DEFINE heard == IF r.listening THEN Lower(Airtime, r.listened + time) ELSE 0
             over  == IF InGap(r) THEN r.txDone ELSE None
  <1>1. heard \in 0..Airtime /\ over \in Time \cup {None}
    BY Fields, DownlinkAssumption DEF RadioOK, Lower
  <1>2. Listening(r, time) = [r EXCEPT !.listened = heard, !.txDone = over]
    BY DEF Listening
  <1> HIDE DEF heard, over
  <1> QED BY <1>1, <1>2 DEF RadioOK, Radios, Busy

-----------------------------------------------------------------------------
(* What telemetry does with the radio, in the order in which it does it,   *)
(* and how much of the pass it takes.                                      *)
LEMMA TelemetryTakes ==
  ASSUME TypeOK, RunTelemetry
  PROVE  /\ RadioOK(radio') /\ acks' \in 0..AckQueueDepth
         /\ late' \in {late, late + Airtime}
         /\ lastTx' \in [{"FAST", "GPS"} -> Time \cup {None}] /\ sent' \in {None, "ACK", "FAST", "GPS"}
  <1>1. PICK serviced \in Serviced(radio) : \E heard \in Heard(serviced) :
       LET queue == Lower(AckQueueDepth, acks + heard.acks)
       IN  \E ack \in IF queue = 0 THEN {Refused(heard.radio)} ELSE Sends(heard.radio) :
             /\ acks' = AcksLeft(queue, ack.ok)
             /\ \/ /\ ack.ok \/ Chosen = None
                   /\ radio' = ack.radio /\ late' = late + ack.took
                   /\ sent' = IF ack.ok THEN "ACK" ELSE None
                   /\ UNCHANGED lastTx
                \/ /\ ~ack.ok /\ Chosen # None
                   /\ \E frame \in Sends(ack.radio) :
                        /\ radio' = frame.radio /\ late' = late + frame.took
                        /\ lastTx' = Attempted(Chosen)
                        /\ sent' = IF frame.ok THEN Chosen ELSE None
    BY DEF RunTelemetry
  <1>2. PICK heard \in Heard(serviced) :
       LET queue == Lower(AckQueueDepth, acks + heard.acks)
       IN  \E ack \in IF queue = 0 THEN {Refused(heard.radio)} ELSE Sends(heard.radio) :
             /\ acks' = AcksLeft(queue, ack.ok)
             /\ \/ /\ ack.ok \/ Chosen = None
                   /\ radio' = ack.radio /\ late' = late + ack.took
                   /\ sent' = IF ack.ok THEN "ACK" ELSE None
                   /\ UNCHANGED lastTx
                \/ /\ ~ack.ok /\ Chosen # None
                   /\ \E frame \in Sends(ack.radio) :
                        /\ radio' = frame.radio /\ late' = late + frame.took
                        /\ lastTx' = Attempted(Chosen)
                        /\ sent' = IF frame.ok THEN Chosen ELSE None
    BY <1>1
  <1> DEFINE queue == Lower(AckQueueDepth, acks + heard.acks)
  <1>3. RadioOK(heard.radio) /\ queue \in 0..AckQueueDepth
    BY ServicedOK, HeardOK, DownlinkAssumption DEF TypeOK, Lower
  <1> HIDE DEF queue
  <1>4. PICK ack \in IF queue = 0 THEN {Refused(heard.radio)} ELSE Sends(heard.radio) :
             /\ acks' = AcksLeft(queue, ack.ok)
             /\ \/ /\ ack.ok \/ Chosen = None
                   /\ radio' = ack.radio /\ late' = late + ack.took
                   /\ sent' = IF ack.ok THEN "ACK" ELSE None
                   /\ UNCHANGED lastTx
                \/ /\ ~ack.ok /\ Chosen # None
                   /\ \E frame \in Sends(ack.radio) :
                        /\ radio' = frame.radio /\ late' = late + frame.took
                        /\ lastTx' = Attempted(Chosen)
                        /\ sent' = IF frame.ok THEN Chosen ELSE None
    BY <1>2 DEF queue
  <1>5. RadioOK(ack.radio) /\ ack.took \in {0, Airtime} /\ ack.ok \in BOOLEAN /\ (ack.ok => queue # 0)
    <2>1. Refused(heard.radio).radio = heard.radio /\ Refused(heard.radio).took = 0
          /\ Refused(heard.radio).ok = FALSE
      BY DEF Refused
    <2>2. CASE queue = 0
      BY <1>3, <1>4, <2>1, <2>2
    <2>3. CASE queue # 0
      BY <1>3, <1>4, <2>3, SendsOK
    <2> QED BY <2>2, <2>3
  <1>6. Chosen \in {"FAST", "GPS", None}
    BY DEF Chosen
  <1>7. acks' \in 0..AckQueueDepth
    <2>1. queue \in Int /\ 0 <= queue /\ queue <= AckQueueDepth /\ AckQueueDepth \in Nat
      BY <1>3, DownlinkAssumption
    <2>2. acks' = queue \/ (acks' = queue - 1 /\ queue # 0)
      BY <1>4, <1>5 DEF AcksLeft
    <2> QED BY <2>1, <2>2
  <1>8. late \in Nat /\ Airtime \in Nat
    BY DownlinkAssumption DEF TypeOK
  <1>9. CASE /\ radio' = ack.radio /\ late' = late + ack.took
             /\ sent' = IF ack.ok THEN "ACK" ELSE None
             /\ UNCHANGED lastTx
    BY <1>5, <1>7, <1>8, <1>9 DEF TypeOK
  <1>10. ASSUME NEW frame \in Sends(ack.radio), Chosen # None,
                radio' = frame.radio, late' = late + frame.took,
                lastTx' = Attempted(Chosen), sent' = IF frame.ok THEN Chosen ELSE None
         PROVE  /\ RadioOK(radio') /\ late' \in {late, late + Airtime}
                /\ lastTx' \in [{"FAST", "GPS"} -> Time \cup {None}] /\ sent' \in {None, "ACK", "FAST", "GPS"}
    <2>1. RadioOK(frame.radio) /\ frame.took \in {0, Airtime} /\ frame.ok \in BOOLEAN
      BY <1>5, SendsOK
    <2>2. Attempted(Chosen) \in [{"FAST", "GPS"} -> Time \cup {None}]
      BY DEF Attempted, TypeOK
    <2> QED BY <1>6, <1>8, <1>10, <2>1, <2>2
  <1> QED BY <1>4, <1>7, <1>9, <1>10

LEMMA RescheduledTime ==
  ASSUME TypeOK, NEW task \in Tasks
  PROVE  Rescheduled(task) \in Time
  <1>1. Period[task] \in Nat /\ nextRun[task] \in Time /\ now \in Time
    BY DownlinkAssumption DEF Period, Tasks, TypeOK
  <1> QED BY <1>1, Sums DEF Rescheduled

LEMMA StepTypes ==
  ASSUME TypeOK, Next
  PROVE  TypeOK'
  <1>1. RadioOK(radio) /\ {"telemetry", "other"} = Tasks /\ MaxBlock \in Nat
    BY DownlinkAssumption DEF TypeOK, RadioOK, Tasks
  <1>2. SUFFICES /\ driver' = driver
                 /\ now' \in Time /\ late' \in Nat /\ at' \in Tasks \cup {"setup", "end", "panic"}
                 /\ nextRun' \in [Tasks -> Time] /\ lastTx' \in [{"FAST", "GPS"} -> Time \cup {None}]
                 /\ acks' \in 0..AckQueueDepth /\ sent' \in {None, "ACK", "FAST", "GPS"}
                 /\ RadioOK(radio')
    BY DEF TypeOK, RadioOK, Busy
  <1>3. CASE Setup
    BY <1>1, <1>3, FreshOK DEF Setup, Panic, InitTasks, TelemetryInit, TypeOK
  <1>4. CASE Skip
    BY <1>1, <1>4 DEF Skip, TypeOK, After, downlink
  <1>5. CASE RunOther
    <2>1. PICK time \in 0..MaxBlock : late' = late + time /\ radio' = Listening(radio, time)
      BY <1>5 DEF RunOther
    <2>2. RadioOK(Listening(radio, time)) /\ time \in Nat
      BY <1>1, <2>1, ListeningOK
    <2>3. Rescheduled("other") \in Time
      BY <1>1, RescheduledTime
    <2> QED BY <1>1, <1>5, <2>1, <2>2, <2>3 DEF RunOther, TypeOK, After
  <1>6. CASE RunTelemetry
    <2>1. Rescheduled("telemetry") \in Time
      BY <1>1, RescheduledTime
    <2>2. late' \in Nat
      BY <1>6, TelemetryTakes, DownlinkAssumption DEF TypeOK
    <2>3. /\ driver' = driver /\ now' = now /\ at' = "other"
          /\ nextRun' = [nextRun EXCEPT !["telemetry"] = Rescheduled("telemetry")]
      BY <1>6 DEF RunTelemetry, After
    <2> QED BY <1>1, <1>6, <2>1, <2>2, <2>3, TelemetryTakes DEF TypeOK
  <1>7. CASE EndPass
    <2>1. (now + IF late = 0 THEN 1 ELSE late) % ClockModulus \in Time
      BY Sums DEF TypeOK
    <2>2. RadioOK(Listening(radio, IF late = 0 THEN 1 ELSE 0))
      BY <1>1, ListeningOK
    <2> QED BY <1>1, <1>7, <2>1, <2>2 DEF EndPass, TypeOK
  <1> QED BY <1>3, <1>4, <1>5, <1>6, <1>7 DEF Next

LEMMA InitTypes ==
  ASSUME Init
  PROVE  TypeOK
  <1>1. 0 \in Time /\ 0 \in 0..AckQueueDepth
    BY DownlinkAssumption DEF Time
  <1>2. RadioOK(radio)
    BY FreshOK DEF Init
  <1> QED BY <1>1, <1>2, DownlinkAssumption DEF Init, TypeOK, RadioOK

-----------------------------------------------------------------------------
(* The pace of the tasks.  Within a pass a task that the pass has not come *)
(* to may be late by what the pass before took; one that it has passed is  *)
(* due within its period.                                                  *)

ToCome(task) == at = "telemetry" \/ (at = "other" /\ task = "other")

Ahead(task)  == (nextRun[task] - now) % ClockModulus \in 0..Period[task]
Behind(task) == (now - nextRun[task]) % ClockModulus \in 0..Longest

Paced ==
  /\ late <= IF at = "end" THEN Longest ELSE IF at = "other" THEN Airtime ELSE 0
  /\ at \in Tasks \cup {"end"} =>
       \A task \in Tasks : Ahead(task) \/ (ToCome(task) /\ Behind(task))

IInv == TypeOK /\ Paced

LEMMA Bounds ==
  /\ ClockModulus \in Nat \ {0} /\ Longest \in Nat \ {0} /\ Airtime \in Nat /\ Airtime <= Longest
  /\ \A task \in Tasks : Period[task] \in Nat \ {0}
  /\ {"telemetry", "other"} = Tasks
  BY DownlinkAssumption DEF Longest, Period, Tasks

(* A task that is ahead does not run and one that is behind does.          *)
LEMMA ReachedBehind ==
  ASSUME TypeOK, NEW task \in Tasks
  PROVE  /\ Behind(task) => Reached(nextRun[task])
         /\ Ahead(task) /\ Reached(nextRun[task]) => nextRun[task] = now
  <1> DEFINE next == nextRun[task]
             period == Period[task]
             M == ClockModulus
             half == M \div 2
  <1>1. /\ M \in Nat \ {0} /\ period \in Nat \ {0} /\ period <= half /\ half \in Nat /\ 2 * half <= M
        /\ next \in 0..(M - 1) /\ now \in 0..(M - 1) /\ Longest \in Nat /\ Longest < half
    BY Bounds, ClockAssumption DEF TypeOK, Time
  <1>2. /\ (next - now) % M = IF next >= now THEN next - now ELSE next - now + M
        /\ (now - next) % M = IF now >= next THEN now - next ELSE now - next + M
    BY Difference DEF TypeOK
  <1>3. /\ Behind(task) <=> (now - next) % M \in 0..Longest
        /\ Ahead(task) <=> (next - now) % M \in 0..period
        /\ Reached(next) <=> (now - next) % M < half
    BY DEF Behind, Ahead, Reached, Since
  <1> HIDE DEF next, period, M, half
  <1>4. (Behind(task) => Reached(next)) /\ (Ahead(task) /\ Reached(next) => next = now)
    BY <1>1, <1>2, <1>3
  <1> QED BY <1>4 DEF next

(* One that ran is due within its period, counted from when it was due, or *)
(* from now when that is past too.                                         *)
LEMMA RescheduledAhead ==
  ASSUME TypeOK, NEW task \in Tasks, Ahead(task) \/ Behind(task), Reached(nextRun[task])
  PROVE  (Rescheduled(task) - now) % ClockModulus \in 0..Period[task]
  <1> DEFINE next == nextRun[task]
             period == Period[task]
             M == ClockModulus
             half == M \div 2
             late2 == (now - next) % M
             next2 == (next + period) % M
  <1>1. /\ M \in Nat \ {0} /\ period \in Nat \ {0} /\ period <= half /\ half \in Nat /\ 2 * half <= M
        /\ next \in 0..(M - 1) /\ now \in 0..(M - 1) /\ Longest \in Nat /\ Longest < half
    BY Bounds, ClockAssumption DEF TypeOK, Time
  <1>2. Behind(task)
    <2>1. CASE Ahead(task)
      <3>1. nextRun[task] = now
        BY <2>1, ReachedBehind
      <3>2. (now - now) % M = 0
        BY <3>1, Difference, <1>1 DEF TypeOK
      <3> QED BY <1>1, <3>1, <3>2 DEF Behind
    <2> QED BY <2>1
  <1>3. /\ late2 = (IF now >= next THEN now - next ELSE now - next + M) /\ late2 \in 0..Longest
    BY <1>2, Difference DEF TypeOK, Behind
  <1>4. next2 = (IF next + period < M THEN next + period ELSE next + period - M) /\ next2 \in Time
    BY <1>1, Addition DEF TypeOK
  <1>5. /\ (now - next2) % M = (IF now >= next2 THEN now - next2 ELSE now - next2 + M)
        /\ (next2 - now) % M = (IF next2 >= now THEN next2 - now ELSE next2 - now + M)
    BY <1>4, Difference DEF TypeOK
  <1> DEFINE next3 == (now + period) % M
  <1>6. next3 = (IF now + period < M THEN now + period ELSE now + period - M) /\ next3 \in Time
    <2>1. now \in Time /\ period \in Nat /\ period <= M
      BY <1>1 DEF Time
    <2> HIDE DEF period
    <2> QED BY <2>1, Addition
  <1>7. (next3 - now) % M = (IF next3 >= now THEN next3 - now ELSE next3 - now + M)
    BY <1>6, Difference DEF TypeOK
  <1>8. next2 \in 0..(M - 1) /\ next3 \in 0..(M - 1)
    BY <1>4, <1>6 DEF Time
  <1>9. Rescheduled(task) = IF (now - next2) % M < half THEN next3 ELSE next2
    BY DEF Rescheduled, Reached, Since
  <1> HIDE DEF next, period, M, half, late2, next2, next3
  <1>10. CASE (now - next2) % M < half
    <2>1. (next3 - now) % M = period
      BY <1>1, <1>6, <1>7, <1>8
    <2> QED BY <1>1, <1>9, <1>10, <2>1 DEF M, period
  <1>11. CASE ~((now - next2) % M < half)
    <2>1. (next2 - now) % M \in 0..period
      BY <1>1, <1>3, <1>4, <1>5, <1>8, <1>11
    <2> QED BY <1>9, <1>11, <2>1 DEF M, period
  <1> QED BY <1>10, <1>11

(* While a pass ends and another begins, a task falls behind by no more    *)
(* than the pass took.                                                     *)
LEMMA PassAhead ==
  ASSUME TypeOK, NEW task \in Tasks, Ahead(task), NEW took \in 1..Longest,
         now' = (now + took) % ClockModulus, nextRun' = nextRun
  PROVE  Ahead(task)' \/ Behind(task)'
  <1> DEFINE next == nextRun[task]
             period == Period[task]
             M == ClockModulus
             now2 == (now + took) % M
  <1>1. /\ M \in Nat \ {0} /\ period \in Nat \ {0} /\ took \in 1..Longest /\ took \in Nat /\ took <= M
        /\ next \in 0..(M - 1) /\ now \in 0..(M - 1) /\ Longest \in Nat /\ Longest < M
    BY Bounds, ClockAssumption DEF TypeOK, Time
  <1>2. now2 = (IF now + took < M THEN now + took ELSE now + took - M) /\ now2 \in Time
    BY <1>1, Addition DEF TypeOK
  <1>3. now2 \in 0..(M - 1)
    BY <1>2 DEF Time
  <1>4. (next - now) % M = (IF next >= now THEN next - now ELSE next - now + M) /\ (next - now) % M \in 0..period
    BY Difference DEF TypeOK, Ahead
  <1>5. /\ (next - now2) % M = (IF next >= now2 THEN next - now2 ELSE next - now2 + M)
        /\ (now2 - next) % M = (IF now2 >= next THEN now2 - next ELSE now2 - next + M)
    BY <1>2, Difference DEF TypeOK
  <1>6. /\ Ahead(task)' <=> (next - now2) % M \in 0..period
        /\ Behind(task)' <=> (now2 - next) % M \in 0..Longest
    BY DEF Ahead, Behind
  <1> HIDE DEF next, period, M, now2
  <1>7. (next - now2) % M \in 0..period \/ (now2 - next) % M \in 0..Longest
    BY <1>1, <1>2, <1>3, <1>4, <1>5
  <1> QED BY <1>6, <1>7

LEMMA StepPaced ==
  ASSUME TypeOK, Paced, Next
  PROVE  Paced'
  <1>1. late \in Nat /\ now \in Time /\ nextRun \in [Tasks -> Time] /\ MaxBlock \in Nat
    BY DownlinkAssumption DEF TypeOK
  <1>2. ASSUME NEW task \in Tasks, now' = now, nextRun'[task] = nextRun[task], Ahead(task)
        PROVE  Ahead(task)'
    BY <1>2 DEF Ahead
  <1>3. ASSUME NEW task \in Tasks, now' = now, nextRun'[task] = nextRun[task], Behind(task)
        PROVE  Behind(task)'
    BY <1>3 DEF Behind
  <1>4. ASSUME NEW task \in Tasks, now' = now, nextRun'[task] = Rescheduled(task), Ahead(task) \/ Behind(task),
               Reached(nextRun[task])
        PROVE  Ahead(task)'
    BY <1>4, RescheduledAhead DEF Ahead
  <1>5. CASE Setup
    <2>1. CASE at' = "panic"
      BY <1>1, <1>5, <2>1, Bounds DEF Setup, Panic, InitTasks, Paced, Tasks
    <2>2. CASE at' = "end"
      <3>1. now' = now /\ nextRun' = [task \in Tasks |-> now] /\ late' \in 0..MaxBlock
        BY <1>5, <2>2 DEF Setup, Panic, InitTasks
      <3>2. (now - now) % ClockModulus = 0
        BY <1>1, Difference DEF Time
      <3>3. \A task \in Tasks : Ahead(task)'
        BY <3>1, <3>2, Bounds DEF Ahead
      <3>4. late' <= Longest
        BY <3>1, DownlinkAssumption DEF Longest
      <3> QED BY <2>2, <3>3, <3>4 DEF Paced
    <2> QED BY <1>5, <2>1, <2>2 DEF Setup, Panic
  <1>6. CASE Skip
    <2>1. PICK task \in Tasks : at = task /\ ~Reached(nextRun[task]) /\ at' = After(task)
      BY <1>6 DEF Skip
    <2>2. now' = now /\ nextRun' = nextRun /\ late' = late
      BY <1>6 DEF Skip
    <2>3. Ahead(task)
      BY <2>1, ReachedBehind DEF Paced
    <2>4. \A other \in Tasks : Ahead(other)' \/ (ToCome(other)' /\ Behind(other)')
      <3> SUFFICES ASSUME NEW other \in Tasks
                   PROVE  Ahead(other)' \/ (ToCome(other)' /\ Behind(other)')
        OBVIOUS
      <3>1. CASE Ahead(other)
        BY <1>2, <2>2, <3>1
      <3>2. CASE ToCome(other) /\ Behind(other) /\ other # task
        <4>1. other = "other" /\ task = "telemetry"
          BY <2>1, <3>2 DEF ToCome, Tasks
        <4> QED BY <1>3, <2>1, <2>2, <3>2, <4>1 DEF ToCome, After
      <3> QED BY <2>1, <2>3, <3>1, <3>2 DEF Paced
    <2>5. late' <= IF at' = "end" THEN Longest ELSE IF at' = "other" THEN Airtime ELSE 0
      BY <1>1, <2>1, <2>2, Bounds DEF Paced, After
    <2> QED BY <2>4, <2>5 DEF Paced
  <1>7. CASE RunOther
    <2>1. /\ at = "other" /\ at' = "end" /\ now' = now /\ Reached(nextRun["other"])
          /\ nextRun' = [nextRun EXCEPT !["other"] = Rescheduled("other")]
          /\ late' <= late + MaxBlock
      BY <1>1, <1>7 DEF RunOther, After
    <2>2. Ahead("telemetry")'
      BY <1>1, <1>2, <2>1, Bounds DEF Paced, ToCome
    <2>3. Ahead("other")'
      BY <1>1, <1>4, <2>1, Bounds DEF Paced
    <2>4. late' <= Longest
      <3>1. late <= Airtime /\ late' \in Nat
        BY <1>1, <1>7, <2>1 DEF Paced, RunOther
      <3> QED BY <1>1, <2>1, <3>1, DownlinkAssumption DEF Longest
    <2> QED BY <2>1, <2>2, <2>3, <2>4 DEF Paced, Tasks
  <1>8. CASE RunTelemetry
    <2>1. /\ at = "telemetry" /\ at' = "other" /\ now' = now /\ Reached(nextRun["telemetry"])
          /\ nextRun' = [nextRun EXCEPT !["telemetry"] = Rescheduled("telemetry")]
      BY <1>8 DEF RunTelemetry, After
    <2>2. Ahead("telemetry")'
      BY <1>1, <1>4, <2>1, Bounds DEF Paced
    <2>3. Ahead("other")' \/ Behind("other")'
      BY <1>1, <1>2, <1>3, <2>1, Bounds DEF Paced
    <2>4. late' <= Airtime
      BY <1>1, <1>8, <2>1, TelemetryTakes, Bounds DEF Paced
    <2> QED BY <2>1, <2>2, <2>3, <2>4 DEF Paced, ToCome, Tasks
  <1>9. CASE EndPass
    <2> DEFINE took == IF late = 0 THEN 1 ELSE late
    <2>1. at = "end" /\ at' = "telemetry" /\ late' = 0 /\ now' = (now + took) % ClockModulus /\ nextRun' = nextRun
      BY <1>9 DEF EndPass
    <2>2. took \in 1..Longest
      BY <1>1, <2>1, Bounds DEF Paced
    <2>3. \A task \in Tasks : Ahead(task)
      BY <2>1 DEF Paced, ToCome
    <2> HIDE DEF took
    <2>4. \A task \in Tasks : Ahead(task)' \/ Behind(task)'
      BY <2>1, <2>2, <2>3, PassAhead
    <2> QED BY <2>1, <2>4 DEF Paced, ToCome
  <1> QED BY <1>5, <1>6, <1>7, <1>8, <1>9 DEF Next

(* The inductive invariant.                                                *)
THEOREM Invariance == Spec => []IInv
  <1>1. Init => IInv
    <2> SUFFICES ASSUME Init
                 PROVE  IInv
      OBVIOUS
    <2>1. Paced
      BY DEF Init, Paced, Tasks
    <2> QED BY <2>1, InitTypes DEF IInv
  <1>2. IInv /\ [Next]_vars => IInv'
    <2> SUFFICES ASSUME IInv, [Next]_vars
                 PROVE  IInv'
      OBVIOUS
    <2>1. CASE Next
      BY <2>1, StepTypes, StepPaced DEF IInv
    <2>2. CASE UNCHANGED vars
      BY <2>2 DEF IInv, TypeOK, Paced, ToCome, Ahead, Behind, Busy, vars, downlink
    <2> QED BY <2>1, <2>2
  <1> QED BY <1>1, <1>2, PTL DEF Spec

(* Either driver, whatever the chip answers: the radio never listens while *)
(* it transmits or before it has begun, and the queue holds what it may.   *)
THEOREM Types == Spec => []TypeOK
  <1>1. IInv => TypeOK
    BY DEF IInv
  <1> QED BY <1>1, Invariance, PTL

(* Whatever the periods, however long the tasks hold the processor, and    *)
(* wherever millis() wraps: a task that the pass has come to is due within *)
(* its period afterwards.                                                  *)
THEOREM NoneLeftBehind == Spec => []OnTime
  <1>1. IInv => OnTime
    BY DEF IInv, Paced, OnTime, Ahead, ToCome
  <1> QED BY <1>1, Invariance, PTL
=============================================================================
