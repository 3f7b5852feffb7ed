------------------------------- MODULE Barometer -------------------------------
(***************************************************************************)
(* The barometer: its driver, which starts a conversion and polls for its  *)
(* end (hal/mpl3115a2_hal.cpp), and its task, which counts what goes       *)
(* wrong, latches faults and keeps the window of the median filter         *)
(* (sensors/barometer_task.cpp).  Time is counted in units of which the    *)
(* period of the task has several, so that a tick can be late.             *)
(***************************************************************************)
EXTENDS Integers

CONSTANTS
  Period, MaxLate,           \* barometerTaskPeriodMs, and how late a tick may come
  ConversionTimeout,         \* MPL3115A2::kConversionTimeoutMs
  InitRetry,                 \* barometerRecoveryIntervalMs
  ReadFailFault, BadFault, BadTotalFault, StaleFault,   \* Sensors::kBarometer...Fault
  Window                     \* kBarometerMedianWindowSamples

VARIABLES
  present,     \* the device answers begin
  initialized, \* initialized_ of the task and of the driver
  conversion,  \* age of the conversion under way, None: conversionPending_ is false
  silent,      \* since lastValidSampleMs_, or since the last attempt to begin when there is no sample
  counts,      \* consecutiveReadFailCount_, consecutiveBadValueCount_, totalBadValueCount_
  sampled,     \* lastValidSampleMs_ is set, and with it the reference pressure
  flags,       \* faultFlags; fault says that there are any
  valid,       \* barometerState_.valid
  window       \* altitudeWindowM_, Head_ and Count_

vars == <<present, initialized, conversion, silent, counts, sampled, flags, valid, window>>

None == -1
Slots == 0 .. Window - 1
Gap == Period + MaxLate                        \* between two ticks
\* A conversion that ends is found out, and the next one is started, within
ResultWithin == ConversionTimeout + Gap
\* and one that times out leaves a tick in which the next one is started.
NeverSampled == ReadFailFault * (ResultWithin + Gap)
SampleLost == StaleFault + Gap + BadFault * ResultWithin
Silence == IF NeverSampled > SampleLost THEN NeverSampled ELSE SampleLost

CountedTo(limit, n) == IF n < limit THEN n + 1 ELSE limit
Later(limit, age, dt) == IF age + dt < limit THEN age + dt ELSE limit

\* An entry of the window is known by how many samples were stored after it; an entry that is not
\* among the last ones, or that is from before a fault, counts as Window.
TypeOK ==
  /\ {present, initialized, sampled, valid} \subseteq BOOLEAN
  /\ conversion \in {None} \union (0 .. ConversionTimeout)
  /\ silent \in 0 .. Silence
  /\ counts \in [reads : 0..ReadFailFault, bad : 0..BadFault, total : 0..BadTotalFault]
  /\ flags \subseteq {"READ_FAIL", "STALE", "BAD_VALUE"}
  /\ window \in [entry : [Slots -> 0..Window], head : Slots, count : 0..Window]

NoSamples == [entry |-> [i \in Slots |-> Window], head |-> 0, count |-> 0]

\* clearReading and resetHealth, and a first attempt to begin the device.
Init ==
  /\ present \in BOOLEAN /\ initialized = present
  /\ conversion = None /\ silent = 0 /\ counts = [reads |-> 0, bad |-> 0, total |-> 0]
  /\ sampled = FALSE /\ flags = {} /\ valid = FALSE /\ window = NoSamples

-----------------------------------------------------------------------------
(* The task. *)

\* Variant: the count is left as it is.
ForgetButCount(w) == [NoSamples EXCEPT !.count = w.count]

Forget(w) == NoSamples

filterAltitude(w) ==
  [entry |-> [[i \in Slots |-> CountedTo(Window, w.entry[i])] EXCEPT ![w.head] = 0],
   head |-> (w.head + 1) % Window, count |-> CountedTo(Window, w.count)]

markFault(raised) ==
  /\ flags' = flags \union raised
  /\ IF raised = {} THEN UNCHANGED <<valid, window>>
     ELSE valid' = FALSE /\ window' = Forget(window)

\* Variant: a device that answers is not stale.
StaleAtEnd(reads, age) == sampled /\ age >= StaleFault /\ reads >= ReadFailFault

Stale(reads, age) == sampled /\ age >= StaleFault

recordReadFailure(age) ==
  LET reads == CountedTo(ReadFailFault, counts.reads)
  IN  /\ counts' = [counts EXCEPT !.reads = reads]
      /\ markFault({f \in {"READ_FAIL", "STALE"} :
                      IF f = "READ_FAIL" THEN reads >= ReadFailFault ELSE Stale(reads, age)})
      /\ silent' = age /\ UNCHANGED sampled

recordBadValue(age) ==
  LET bad == CountedTo(BadFault, counts.bad)
      total == CountedTo(BadTotalFault, counts.total)
  IN  /\ counts' = [reads |-> 0, bad |-> bad, total |-> total]
      /\ markFault(IF bad >= BadFault \/ total >= BadTotalFault THEN {"BAD_VALUE"} ELSE {})
      /\ silent' = age /\ UNCHANGED sampled

publishValidSample ==
  /\ counts' = [counts EXCEPT !.reads = 0, !.bad = 0]
  /\ valid' = TRUE /\ window' = filterAltitude(window)
  /\ silent' = 0 /\ sampled' = TRUE /\ UNCHANGED flags

-----------------------------------------------------------------------------
(* The polls of the driver, dt after the last: age is how long ago the     *)
(* conversion was started.  One that has ended is followed by the next.    *)
Pending(age) == silent' = age /\ UNCHANGED <<counts, sampled, flags, valid, window>>

StartConversion(age) == conversion = None /\ conversion' = 0 /\ Pending(age)

Converting(dt) == conversion # None /\ conversion + dt <= ConversionTimeout

Wait(dt, age) == Converting(dt) /\ conversion' = conversion + dt /\ Pending(age)

TimeOut(dt, age) ==
  /\ conversion # None /\ ~Converting(dt)
  /\ conversion' = None /\ recordReadFailure(age)

Unreadable(age) == conversion # None /\ conversion' = 0 /\ recordReadFailure(age)

\* The first altitude is 0: it is measured from its own pressure.
OutOfRange(age) == conversion # None /\ sampled /\ conversion' = 0 /\ recordBadValue(age)

Good == conversion # None /\ conversion' = 0 /\ publishValidSample

(* tick while the device is initialised. *)
Poll ==
  /\ initialized
  /\ \E dt \in Period..Gap :
       LET age == Later(Silence, silent, dt)
       IN  \/ StartConversion(age) \/ Wait(dt, age) \/ TimeOut(dt, age)
           \/ Unreadable(age) \/ OutOfRange(age) \/ Good
  /\ UNCHANGED <<present, initialized>>

\* Variant: lastInitAttemptMs_ is set at every tick.
WaitForRetryStamped(age) == silent' = 0 /\ UNCHANGED initialized

WaitForRetry(age) == silent' = age /\ UNCHANGED initialized

(* tick while it is not. *)
Initialize ==
  /\ ~initialized
  /\ \E dt \in Period..Gap :
       LET age == Later(Silence, silent, dt)
       IN  IF age >= InitRetry THEN silent' = 0 /\ initialized' = present ELSE WaitForRetry(age)
  /\ UNCHANGED <<present, conversion, counts, sampled, flags, valid, window>>

(* The device is connected, or lost, while it is tried. *)
Connects ==
  /\ ~initialized /\ present' = ~present
  /\ UNCHANGED <<initialized, conversion, silent, counts, sampled, flags, valid, window>>

Tick == Poll \/ Initialize

Next == Tick \/ Connects

(* The scheduler runs the task again and again (Downlink, OnTime). *)
Fairness == WF_vars(Tick)

Spec == Init /\ [][Next]_vars

-----------------------------------------------------------------------------
(* However read errors, values out of range, late conversions and late     *)
(* ticks mix, a barometer that was initialised and delivers no sample for  *)
(* Silence is declared faulty: what the flight depends on is never just    *)
(* missing (recordReadFailure, recordBadValue).                            *)
SilenceIsFault == initialized /\ silent >= Silence => flags # {}

(* The median is taken of the last samples, all of them from after the     *)
(* last fault (filterAltitude, markFault).                                 *)
WindowCurrent == {window.entry[i] : i \in 0 .. window.count - 1} = 0 .. window.count - 1

(* A barometer that did not begin at boot is begun once it answers         *)
(* (initialize).                                                           *)
BarometerStarts == <>[]present => <>initialized
=============================================================================
