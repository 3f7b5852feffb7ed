# Formal models of the NURA flight computer

TLA+ models of the firmware under `src/src`: the flight state machine that fires the two
parachute charges, the sensors it relies on and the watchdog over them, the radio commands that
reach it, what it sends down, and the flight log; and of the two bench programs, `src/receiver`
and `src/sender`, that speak its protocol. TLC checks them on small instances; TLAPS proves
every safety and action property that a passing run checks, and both refinements, for every value of
the constants that the assumptions of section 4 allow.
Paths below are relative to the repository.

The firmware is one cooperative loop on a Teensy 4.1. Nothing is preempted: what makes it hard
is the order in which tasks read and write shared state, late passes of the loop, sensors that
stop, stick or lie, commands that arrive twice, late or out of order, media that stall or fail,
and power that may go at any moment.

## 1. Inventory

| component | state it keeps | operations | interacts with |
|---|---|---|---|
| `missions/flight/fsm_task.cpp` flight state machine | flight state, time stamps, detectors, pyro levels | `tick`: abort, requests, one handler per state | reads the sensor and abort state, consumes the mailbox, drives the pyro outputs |
| `state/flight_state.h` mailbox | requests and outcomes of ARM, FORCE_DEPLOY, bench reset | posted by telemetry, consumed by the state machine | shared state between two tasks |
| `missions/telemetry/telemetry_task.cpp` command link and downlink | ack queue, recent commands, three deferred completions, times of the last frames | receive, deferred completions, send one frame | radio driver, mailbox |
| `sensors/barometer_task.cpp` on `hal/mpl3115a2_hal.cpp` | conversion under way, counters, latched faults, median window | begin and retry, poll, publish | state machine |
| `sensors/imu_task.cpp`, `high_g_imu_task.cpp`, `magnetometer_task.cpp` | samples with time stamps | read, recover | watchdog, state machine |
| `core/recoverable_task`, `missions/system/watchdog_task.cpp` | health, failure counts, attempts, the latched abort | judge, begin the device again, raise the abort | sensor tasks, state machine |
| `core/scheduler.cpp`, `app/flight_controller_app.cpp` | next run of every task | `add`, `init`, `tick`; setup, panic, loop | everything |
| `missions/logging/flight_log_task.cpp`, `logging/flight_log_ram_buffer.cpp` | 16 KiB FIFO of records, ground stop | tick: service, enqueue, drain, close | mirror storage |
| `logging/flight_log_mirror_storage.cpp` | which backends still work | append to both, service, flush, stop | two backends |
| `logging/program_flash_flight_log_storage.cpp` on `hal/w25q128_qspi_hal.cpp` | byte queue, position in the sector ring, running operation; the flash | boot scan, append, service, flush, stop | NOR flash that works on its own |
| `logging/sd_flight_log_storage.cpp` | byte queue, position in the preallocated file | append, service, flush, stop | SD card |
| `missions/flight/flight_trace.cpp` | two rings of 16 traces | push, pop | state machine, log task |
| `hal/sx127x_lora_hal.cpp` (flight build), `hal/sx1262_lora_hal.cpp` | initialised, listening, transmission under way | begin, service, send, receive | telemetry |
| `receiver/src/main.cpp` bench ground station | pending command, attempts, progress of the test | receive, send, retry, give up | the vehicle, by radio |
| `sender/src/main.cpp` bench vehicle | ack queue, recent commands, deployment | receive, acknowledge, telemetry | the ground, by radio |
| `protocol/` packets | | encode, authenticate, decode | both ends of the link |
| `core/logger`, GNSS and power sensing, tools | | | listed in `PROJECT.json`, not modelled |

What is hard, and what makes each part correct:

* **State machine.** Abort, commands, sensor faults and timers meet in any order. Each channel
  is energised in its own state only, pulses have their length, deployment rests on evidence or
  on a timer, the abort always wins.
* **Command link.** The radio loses, repeats and delays. A command is executed once, and an
  acknowledgement tells the truth about the very command it names; the completion of an accepted
  command reaches the sender.
* **Flash journal.** Power may fail within an erase or a program. What was read back is never
  lost, repeated or reordered, and nothing is programmed over anything.
* **Log and mirror.** Two media of different pace and one FIFO. Nothing is lost without being
  counted, the copies agree, a full queue costs no backend, and the log is closed after landing
  with everything in it.

* **Sensors and watchdog.** Devices fail and mend between the reads of their task and the ticks of
  the watchdog. A dead critical sensor raises the abort, a glitch does not, a sensor that answers
  again is used again, and silence of the barometer becomes a fault in bounded time.
* **Downlink.** One radio for acknowledgements, two telemetry frames and reception; calls that
  fail, transmissions that never end, a clock that wraps. Nothing starves and the receiver never
  stays off.
* **Bench pair.** Two programs, either of which may restart, over a channel that loses and damages
  frames. A command is executed once, the ground believes only what its vehicle did, and the test
  completes.

Every hazard is listed with its line in `PROJECT.json`, with the properties that cover it, or
the reason why none does yet.

## 2. Modules

| module | models | |
|---|---|---|
| `CommandMailbox` | request and outcome fields of `FlightState` | used by the next two |
| `FlightStateMachine` | `FlightStateMachineTask` in the loop | implements `RecoverySequence` |
| `RecoverySequence` | what a flight promises: phases and channels | abstract |
| `MCFlight` | an observer of readings, altitudes and pulses | three runs |
| `FlightStateMachineProofs` | theorems of `FlightStateMachine` and of `MCFlight`'s observer | TLAPS |
| `CommandLink` | command side of `TelemetryTask` | |
| `CommandHistory` | an observer of `CommandLink`: which command a request stood for | |
| `MCCommandLink` | scenarios of commands that share their numbers | two runs |
| `CommandLinkProofs` | theorems of `CommandHistory` | TLAPS |
| `DurableLog` | what a log promises to its reader | abstract |
| `FlashJournal` | `ProgramFlashFlightLogStorage` on the flash | |
| `MCFlashJournal` | the log a reader makes of the flash; refinement | two runs |
| `FlashJournalProofs` | theorems of `FlashJournal`, and that `MCFlashJournal` implements `DurableLog` | TLAPS |
| `FlightLog` | `FlightLogTask`, FIFO, mirror, both backends | one run |
| `FlightLogProofs` | theorems of `FlightLog` | TLAPS |
| `SensorRecovery` | `RecoverableTask`, `WatchdogTask` and the three sensor tasks under it | |
| `Barometer` | `BarometerTask` and `MPL3115A2HAL` | |
| `MCSensors` | both of them, with an observer of sick sensors and begins | two runs |
| `SensorProofs` | theorems of `MCSensors`: of `SensorRecovery` and of `Barometer` | TLAPS |
| `Downlink` | `Scheduler`, `TelemetryTask::tick`, both radio drivers | one run |
| `DownlinkProofs` | theorems of `Downlink` | TLAPS |
| `GroundLink` | the bench ground station and the bench vehicle | |
| `GroundHistory` | an observer of `GroundLink`: which commands were executed | |
| `MCGroundLink` | scenarios: both stay on; restarts, damage and another vehicle | one run |
| `GroundLinkProofs` | theorems of `GroundHistory` | TLAPS |
| `NatLemmas` | facts about numbers that the proofs share | TLAPS |

`PROJECT.json` "map" names the lines each definition stands for. Definitions marked
*Variant* are plausible bugs; they are used only to show that the properties notice them.

### FlightStateMachine

One pass of the loop is three steps in the order the tasks are registered
(`app/flight_controller_app.cpp:75-94`): `Sense` (sensor tasks publish, the watchdog may latch
the abort), one tick of the state machine, and `Uplink` (telemetry may post one request; time
goes on by one or more units, a late pass being a larger step). A tick is one action for each
way through `tick()`: `AbortToSafe`, `ExecuteBenchReset`, `ExecuteArm`, `ExecuteForce`, and the
handler of each state, guarded by the conditions of the code in their order. `Enter...` are the
branches of `onEnter`; `Since` is the unsigned subtraction the code uses for ages, which is huge
for a time before the reference.

Abstractions: accelerations are classes (at or above the launch threshold, between, below the
burnout threshold); tilt is tipped, upright or invalid; altitudes are integers of a small set.
The predictor's curve fit is a choice among its outcomes (`PredictionOutcomes`), which is more
than it can do. Decision traces, buzzer and text are left out. `FAULT` is left out: only the
`default` branch of `tick()` enters it, and no state reaches that branch. The outputs are taken
as implemented (`kPyroOutputImplemented`), as in the flight build; in the bench-reset build of
`platformio.ini` they are disabled and FORCE_DEPLOY is refused, so the model with
`BenchResetBuild = TRUE` is more than that build can do. In a pass in which a task is not due it
does not run; the model lets the sensors skip a pass but ticks the state machine in every one,
as its period is the shortest. A sample's time stamp is then that of the pass that consumes it;
after a resynchronisation it can be up to one period (10 ms) older, so that a pulse whose start
is stamped with its sample (`fsm_task.cpp:525`) is that much shorter than `PulsesComplete` says.

### CommandLink

A telemetry tick is `receive`, `deferred`, `send`, as in `TelemetryTask::tick`; between two of
them the state machine ticks at least once. Any command of `Commands` may arrive at any tick:
loss, delay, repetition and reordering are all in that. The state machine is reduced to the
order of its states, with the mailbox actions of `CommandMailbox`. `radio` tells the
SX1262 ("ready", "busy", "gap"), which transmits in the background and leaves a gap after it, from
the SX127x of the flight build, which blocks ("blocking").

### FlashJournal and DurableLog

`service()` finishes the operation that runs and starts the next one in the same call: `Service`
verifies (`Verified`), computes the members after it (`Finished`) and starts one operation. The
chip is on its own: `ChipDone` completes a command at any later time, and a program may come out
torn. `Restart` is a power failure or a reset of the processor alone: a running program leaves
its page as it was or torn, a running erase leaves old, torn or erased pages, or it completes
(`w25q128_qspi_hal.cpp:56-76` waits for it). `BeginRestored` and `BeginFresh` are the two ways
through `begin()`. A payload is counted in units, since only its place in the stream matters;
CRCs are assumed to tell a torn page from a valid one. Sequence numbers and offsets wrap at small
moduli, and `Newer` is the signed difference. `validSectorCount_` is left out.

`DurableLog` is what the reader of the flash may rely on: chapters of consecutive blocks, added at
the end only, the oldest chapter leaving only when a new one is opened. `MCFlashJournal` records
`Chapters`, which is what `verifyJournal` reads (per sector the valid pages before the first
erased one), whenever the flash changes, and `PromiseKept` compares every step with `DurableLog`.
Only the last `SectorCount - EraseAheadSectors` sectors count as kept; what lies beyond them may
be erased at any time.

### FlightLog

One action per kind of tick: `TickLogging`, `TickLanding` (the tick that finds GROUND) and
`TickGroundStop`. A tick is a pipeline: both backends are serviced (`Serviced` is the set of what
may come of it), new records are queued (`Enqueued`, dropping the oldest ones as
`FlightLogRamBuffer::push` does), at most `DrainRecordsPerTick` are handed to both backends
(`Drained`). Records consist of numbered units, so that a torn or misplaced one would be seen. The
flash backend is reduced to page and sector operations, the SD backend to busy or not; either may
fail at any operation. An erase ahead that is still running when the flash queue is empty delays
`idle()` in the code and not here; `FlushEnds` covers that wait. The STORAGE_FAULT record of `drainToStorage` is not modelled: it needs an
append that fails directly after `canAppend`, and `BackpressureHolds` shows that there is none.

### SensorRecovery

A device is well, silent (it begins but does not read) or dead, and changes at any time
(`Changes`). `Read` is the tick of its task, `WatchdogTick` that of the watchdog, which judges all
devices in one step; their order is free, as their periods differ and may be late. The operators
have the names of the methods of `RecoverableTask`. Time is counted in ticks of the watchdog.
`begun` is the driver's `initialized_`: the drivers clear it when `begin` is entered and refuse to
read without it, so that after a failed begin only another begin brings readings
(`DegradedOutOfUse`). The branch of the watchdog for a degraded task that recovers by reading alone
(`watchdog_task.cpp:55`) is left only for a glitch between two of its ticks, and since a task
degrades and is begun in the same tick, it is never taken. Left out: what the reads deliver, the
connected and health flags that follow them, and `readFails`, which is only logged.

### Barometer

`Tick` is one tick of the task. While the device is initialised it polls (`Poll`): a conversion is
started, goes on, ends well, ends out of range, cannot be read, or times out. While it is not,
`Initialize` tries again after the recovery interval. The counters stop at their limits, where
nothing tells them apart. `window` keeps for each slot how many samples ago it was written, so that
a stale entry under the median would show. Once initialised the task never begins the device again,
and its faults are latched: `barometer_task.cpp` has no way back. The stuck-barometer fault is
raised by the state machine (`trackBarometerStuck`) and is modelled there.

### Downlink

A pass of `loop()` is taken task by task: `RunTelemetry` is one tick of telemetry with all the
calls it makes (service, receive, one acknowledgement or one due frame), `RunOther` stands for the
tasks that hold the processor in between, `Skip` passes a task that is not due, `EndPass` brings
the next pass. `Serviced`, `Heard` and `Sends` are the sets of what may come of a driver's call:
the SX127x blocks for the air time and receives again; the SX1262 transmits in the background, may
refuse, time out, or have to be begun again, which may leave it dead. No task's tick returns false
in this code, so `Scheduler`'s deactivation of a task is never reached.

### GroundLink

Both bench programs run `loop()` again and again; a pass takes no time unless it transmits, which
blocks for one unit. Frames are records: whose vehicle, which direction, damaged or not, payload.
`decodeFrame` is `Decodes`: it refuses frames of other vehicles, of the own direction (a side hears
its echo nowhere else), and those whose CRC or tag is wrong. A command is known by identity,
sequence number and nonce, all three of which both sides compare; the nonce is drawn from `Moments`,
as it depends on `millis()`. The side that restarts loses everything, and its sequence starts at 1
again, so that commands of two lives may be the same. Modelled is the build with
`NURA_RECEIVER_AUTO_COMMAND_TEST`; the other one only listens.

## 3. Runs

| run | module, cfg | shows | bounds |
|---|---|---|---|
| flight | `MCFlight_flight` | `TypeOK`, `CoastBounded`, `PulsesBounded`, `LaunchEvidence`, `SensorApogeeNotEarly`, `MainEvidence`, `PulsesComplete`, `FaultedBarometerIgnored`, `LandingEvidence` | four scenarios, each of which frees the inputs of one part of the flight: launch (two sensors, 3 confirmations, late passes), coast (altitudes about the detection altitude, timer of 6, minimum flight time of 6), descent (altitudes about main deployment, pulse of 4, fault at any pass), landing (three altitudes, band of 1, window of 3, fault in DEPLOY) |
| commands | `MCFlight_commands` | `PyroInterlock`, `AbortGrounds`, `RecoveryRefined` | ARM, FORCE_DEPLOY, reset and abort in every pass |
| retry | `MCFlight_retry` | `DrogueRetried` is violated | |
| link | `MCCommandLink_link` | `TypeOK`, `ExecutedOnce`, `AckTruthful`, `ForceConfirmed`, `OvertakenArmRejected` | two scenarios of commands that share a sequence number on the blocking radio (an ARM and two bench resets; an ARM, a FORCE_DEPLOY and a reset), and an ARM, a FORCE_DEPLOY and an unsupported command on the background radio; ring of 4, ack queue of 2 |
| full_queue | `MCCommandLink_full_queue` | `DeferredArmAnswered` is violated | two commands, ack queue of 2 |
| power | `MCFlashJournal_power` | `TypeOK`, `ProgramsErasedPages`, `PromiseKept` | 3 sectors of 3 pages, one erased ahead, both numbers modulo 5 |
| flush | `MCFlashJournal_flush` | `FlushEnds`, `PromiseKept` | 2 sectors of 2 pages, partial pages, queue of 3 |
| logger | `FlightLog_logger` | `MirrorsAgree`, `RecordsAccounted`, `BackpressureHolds`, `ClosedComplete`, `GroundStops` | FIFO of 3 units, queues of 4, pages of 2, blocks of 3, six records |
| ground | `MCGroundLink_ground` | `ExecutedOnce`, `DoneTruthful`, `TestCompletes` | two scenarios: both sides stay on; or one restart, damaged frames and another vehicle; 3 attempts, retry interval of 2, ack queue of 3, ring of 1, sequence numbers modulo 3 |
| downlink | `Downlink_downlink` | `TypeOK`, `OnTime`, `FramesFlow`, `AcksGoOut`, `HearsAgain` | both drivers, a clock of 20 that starts at 18, periods of 1 and 2, FAST every 5, GPS every 7, tasks late by up to 1, air time and gap of 2, ack queue of 2 |
| sensors | `MCSensors_sensors` | `AbortNotHasty`, `DeadCriticalAborts`, `SensorsReturn`, `SilenceIsFault`, `WindowCurrent` | a critical and another device, 2 failures, 3 attempts, interval of 3; barometer in units of 25 ms |
| recovery_interval | `MCSensors_recovery_interval` | `OneBeginPerInterval` is violated | the same |

Why the bounds suffice. Thresholds of the flight runs are small but keep their order (the
minimum flight time ends before the apogee timer does, the landing window is shorter than the
pulse), every confirmation
count that a run is about is at least 2, so that an interrupted count differs from an
uninterrupted one, and `MaxTime` is long enough for the flight to pass the states the run is
about; each run only varies the inputs of its own part. The last pass does nothing but stutter
(`Horizon`). Three sectors with one erased ahead are the smallest ring in which a kept sector, a
current one and an erased one differ; a power failure may hit every operation, any number of
times, and the moduli are small enough for both numbers to wrap. With the ack queue of 2 a queue
fills with one command and its repetition. The FIFO of the log overflows, its queues fill at
different times, and its file ends, within the six records of a run.

Two devices are enough for the watchdog, as each is judged on its own and only the abort joins
them; three attempts tell the first (at once), one in between and the last. The barometer's limits
are scaled down for the run (read errors 4, bad values 3 in a row and 5 in all, stale after 10 units,
window 3); with the real ones (5, 5, 10, 12 units, retry after 40) the same properties were checked
over 145,593 states, and the bound of `SilenceIsFault` is then 40 units, one second. Downlink's clock
wraps several times in a behaviour; a period of each frame, an air time and the gap fit into it in
the order of the real ones. In GroundLink three attempts, an interval of two units and an ack queue of
three let an answer arrive before and after its command is given up, and the queue fill up.

The project's real values: IMU and state machine 10 ms, telemetry and log 20 ms, barometer and
watchdog 50 ms; ack queue 4, recent commands 4; 4096 sectors of 16 pages, 240 bytes of payload,
two sectors erased ahead; backend queues 8 KiB, FIFO 16 KiB, 8 records per tick.

### Fairness

* `CommandLink!Fairness`: the loop goes on ticking both tasks; a transmission and the gap after it
  end (`sx1262_lora_hal.cpp:218-263`: the chip reports, or a timeout does); the radio does not
  refuse every acknowledgement; and a telemetry tick now and then receives nothing while there is
  room for an ack, since a command takes longer on the air than a tick.
* `FlashJournal!Fairness`: the log task services its storage at every tick, and a chip command
  ends (else `operationTimedOut` fails the backend).
* `SensorRecovery!Fairness`, `Barometer!Fairness`: the scheduler goes on ticking the tasks, which
  `OnTime` is about.
* `Downlink!Fairness`: `loop()` goes on; the radio does not refuse every frame of a kind, nor does
  the receiver fail to start after every transmission. A radio that is dead after a failed begin, or
  a panic at boot, is excepted by name (`Stopped`).
* `GroundLink!Fairness`: both loops go on; a radio does not refuse every frame, and of the frames
  the other side waits for not every one is lost. Their periods (a retry every 340 ms, FAST every
  200 ms) are no multiples of each other, so that a collision does not repeat itself for ever.
* `FlightLog!FairSpec`: the task is ticked, and a busy medium becomes ready or fails: the flash
  within 20 ms over its longest operation, the SD card within 1200 ms.

Nothing is assumed fair about failures, power, sensors or commands.

### Findings

1. **One drogue pulse, not two.** `documents/flight_state_machine_v1.md:178` and `:881-886` have
   APOGEE pulse the drogue channel again after `DROGUE_BACKUP_DELAY_MS` and enter DROGUE "after
   retry OFF". The code (`fsm_task.cpp:529-540`) enters DROGUE after the first pulse;
   `backupDrogueOn_` and `backupDrogueOff_` are only ever reset. Run `retry`.
2. **A completion that meets a full queue may be lost.** `documents/arm_uplink_state_transition_v1.md:111`
   says that the deferred completion is kept and retried. The code retries the EXECUTED of an ARM
   only while the state is ARMED (`telemetry_task.cpp:240-246`): once LAUNCH is entered it is never
   queued, and `pendingArm` stays set, so that later ARM commands are refused. Run `full_queue`.
3. **More than one begin per interval.** `documents/sensors.md:107` bounds the watchdog to "one
   immediate sensor `begin()` attempt per recovery interval" (also
   `documents/flight_state_machine_v1.md:1004`). A begin that succeeds clears the attempts and their
   time (`watchdog_task.cpp:72`, `recoverable_task.cpp:24-33`), so that a sensor that begins but does
   not read is begun again after its next three failed reads, and is never given up: no abort comes
   of it. Run `recovery_interval`.

Seen while reading, without a run of their own: `documents/flight_state_machine_v1.md` gives other
numbers than `nura_constants.h` (launch confirmation 4 there, 5 in the code; burnout 1.0 g and 4,
1.5 g and 10; backup descent 4 m and 4, 5 m and 3; pulse 50 ms, 4000 ms; landing window 20 in
0.5 m, 50 in 1 m; apogee timeout 12000 ms, 11000 ms). `documents/flight_logging_v1.md` 6 requires
both stores at boot; the application stops only for the SD card, and the log task starts with
either. The ring of four recent commands forgets: a bench reset that is repeated after four others
would be executed again; ARM and FORCE_DEPLOY are protected by the flight state.
`documents/nura_lora_packet_protocol_v1.md:594` has the ground wait 150 to 250 ms for an answer; the
bench receiver gives a command up on the pass after its last attempt (`receiver/src/main.cpp:462`), so
that this attempt is not awaited. `STATUS_CRITICAL_FAULT` is set in SAFE as well (`telemetry_task.cpp:680`), where section 8 of that
document (`:320`) has it say that a flight-critical fault is active. On the
SX1262 the gap after a frame (`sx1262_lora_hal.cpp:258`) and frames that count as sent let
acknowledgements starve telemetry; the flight builds use the SX127x
(`documents/ground_receiver_telemetry_v1.md:21-23`), for which `FramesFlow` holds.

## 4. Proofs

Every invariant and every action property that a passing run checks is also a theorem, for every
value of the constants the assumptions allow; so are the two refinements, `RecoveryRefined` and
`PromiseKept`. TLC checked each inductive invariant, or the part of it that is new, on a run's
constants before it was proved.

What the proofs assume. `FlightAssumption`, `LinkAssumption`, `DownlinkAssumption` and the like only
say what kind of value a constant has and which limits are not zero. Those that say more, and what
the code has:

| assumption | says | in the code |
|---|---|---|
| `ThresholdAssumption` | the apogee timeout is longer than a reading may be old | 11000 ms, 50 ms (`nura_constants.h:233`, `:203`) |
| `ApogeeAssumption` | apogee is never declared on one sample | 3 and 3 (`nura_constants.h:213`, `:227`) |
| `FlightAssumption` | the clock does not wrap within a flight (`MaxTime < TimeModulus`) | 49 days |
| `JournalAssumption` | sequence numbers tell the whole ring apart, offsets a sector's payload, by less than half their range; more than one page to a sector, a queue of at least a page | 2^32 each, 4096 sectors of 16 pages of 240 bytes, 8 KiB |
| `ContentAssumption`, `NoneAssumption` | a blank or torn page is never a valid one, "none" is no value | CRC and magic words |
| `LogAssumption` | a record fits the FIFO, and with a page or a block the queue | 16 KiB, 8 KiB |
| `ClockAssumption` | a pass, and every period, is shorter than half the clock | 2^31 ms |
| `OthersAssumption` | a frame of another vehicle is not the own one's | vehicle identity and key |

Some theorems have hypotheses of their own. `MainOnEvidence`, `LandingOnEvidence` and
`LaunchOnEvidence` leave out the scenario "all", in which the observer is switched off, and the first
two suppose `BarometerMaxGap < PyroFireDuration`: with a gap as long as a pulse the last altitude of
COAST could be counted as the first of DROGUE (150 ms, `nura_constants.h:224`, and 4000 ms, `:237`).
`HonouredOnce` supposes `RingLargeEnough`, that there are no more commands than the ring remembers
(four; a scenario of run `link` sends three); without it the statement is false, as section 3 says
of bench resets.

`NatLemmas` has what the others share: a least element, induction stated for a set of numbers
rather than for a predicate, and the existence of a function defined by iteration. With these,
what the recursive functions of the models compute (`Newest`, `ValidPages`, `NewestEnd`, `Drained`)
can be reasoned about.

**FlightStateMachineProofs**

| theorem | statement | argument |
|---|---|---|
| `TypeCorrect` | `Spec => []TypeOK` | `TypeOK` bounds the confirmation counts, and holds after a step only if a detector that has not decided is below its count; `TInv` adds that (`Undecided`). |
| `Interlocked` | `Spec => []PyroInterlock` | `PulseInv`: the drogue channel is on exactly in APOGEE, the main channel in DEPLOY exactly until `mainPyroOff_`. |
| `AbortSafe` | `Spec => []AbortGrounds` | from `PulseInv`, by cases on who steps: only the state machine's tick ends in `turn = "uplink"`. |
| `CoastIsBounded` | `Spec => []CoastBounded` | a tick that stays in COAST has passed the timer's guard; one that enters it is at age 0. |
| `PulsesEnd` | `Spec => []PulsesBounded` | `TimeInv`: no stamp lies in the future (`StampsPast`), so that the unsigned ages are the real ones; a sample COAST has not judged is of this pass, or none has been (`SamplesFresh`). |
| `ApogeeInItsTime` | `Spec => SensorApogeeNotEarly` | the one sample that may be older than the launch has a huge unsigned age and passes the guard of the minimum flight time; `SamplesFresh` and `ApogeeAssumption` leave it without a majority. |
| `FaultIsFinal` | `Spec => FaultedBarometerIgnored` | no action clears the fault; with it only the timer's branch of DROGUE is enabled, and by `StampsPast` its age is real. |
| `Refined` | `Spec => RecoveryRefined` | each action maps to one of `RecoverySequence` or a stutter, under `TInv` and `PulseInv`. |
| `PulsesAreWhole` | `WatchedSpec => PulsesComplete` | `PulseClock`: a channel went on no later than the stamp its pulse is counted from. |
| `LaunchOnEvidence` | `WatchedSpec => LaunchEvidence` | `AccelInv`: the detector's count is the length of the run of boosts at the end of what the observer saw, over both sensors. |
| `MainOnEvidence` | `WatchedSpec => MainEvidence` | `DescentInv`: what was counted are the last altitudes, all of them or all but the one just published (`MainCounted`), none from before APOGEE (`AltitudesKnown`). |
| `LandingOnEvidence` | `WatchedSpec => LandingEvidence` | `LandingFollowed`: the window is a suffix of the altitudes published, again up to the one just published. |

`WatchedSpec` is the state machine with `MCFlight`'s observer and free surroundings. `RunsAreWatched`
proves that the scenarios of the runs, which free one part of the flight each, are among its
behaviours: the runs check instances of what the theorems say in general. `RunsAreRecorded` says the
same of `MCCommandLink` in `CommandLinkProofs`, and of `MCGroundLink` in `GroundLinkProofs`.

**CommandLinkProofs** (about `CommandHistory`, of which `MCCommandLink` restricts the commands sent)

| theorem | statement | argument |
|---|---|---|
| `Types` | `HistorySpec => []TypeOK` | with `OneCommandEach`: what is requested, awaited and executed under a kind is about the latest command of it. |
| `OutcomesTruthful` | `HistorySpec => AckTruthful` | an outcome that is set belongs to a command in `honoured \ outstanding`; sequence numbers that repeat do not matter, since a completion is consumed or swept away before its slot is given to another. |
| `HonouredOnce` | `HistorySpec => []ExecutedOnce` | `Memory`: everything honoured is still remembered, by counting the distinct entries of the ring, and what waits is new. |

**FlashJournalProofs**

| theorem | statement | argument |
|---|---|---|
| `Types` | `Spec => []TypeOK` | `IInv`, below. |
| `ErasedBeforeProgram` | `Spec => []ProgramsErasedPages` | `IInv`: pages are written without a gap (`PagesInOrder`); the valid headers are numbered backwards from one of them (`OneRing`); what the chip is in the middle of, known to the journal or not, is an erase of another sector, the header of the next one or the next page (`Erasing`, `OpeningSector`, `Appending`); a healthy journal agrees with the flash, and what it erased ahead is still erased (`InStep`). |
| `RestartFindsTheNewest` | `Spec => [](...)` | the scan keeps the leading header once it has met it, although numbers wrap: one is newer than another by their distance on the ring, less than half the range. |
| `PromiseIsKept` | `MCSpec => PromiseKept` | `StreamInv`: the sectors that erase-ahead does not reach are valid from the newest one back, without a gap (`KeptSectors`); an erase lies beyond them, a new header and the next block continue where the stream ends, and so does the journal, a page not yet verified left out (`Following`). Then each change of the flash is no change of the log (`LogKept`), one block more (`PageAdded`), or one chapter more, the oldest leaving when there are too many (`SectorOpened`). |

**FlightLogProofs**

| theorem | statement | argument |
|---|---|---|
| `RecordsKept` | `Spec => []RecordsAccounted` | the stream of a backend that works is whole records, each later than the one before, and with the FIFO and what it dropped makes up all numbers (`Backed`, `Waiting`); induction over the records a tick drains. |
| `OneLog` | `Spec => []MirrorsAgree` | `Agree`: two that work have the same stream; the store of one that was given up begins the other's. |
| `QueuesHoldUp` | `Spec => []BackpressureHolds` | nothing is appended unless both queues have room, and the drain stops where one has not. |
| `ClosedLogs` | `Spec => []ClosedComplete` | `Closing`: the flush is requested with the FIFO empty, once the log is closed, and no backend is closed before both are idle. |

**GroundLinkProofs** (about `GroundHistory`, of which `MCGroundLink` bounds the restarts)

| theorem | statement | argument |
|---|---|---|
| `ExecutedOnceLately` | `HistorySpec => []ExecutedOnce` | `Remembrance`: a command that was executed and can still arrive is the last one of the ring, however short the ring; the ground goes on to the next only when nothing is on the air (`AskedFor`). |
| `BeliefTruthful` | `HistorySpec => DoneTruthful` | `Truth`: whatever frame, in the queue, on the air or arrived, says EXECUTED, names a command that was. |

**DownlinkProofs**

| theorem | statement | argument |
|---|---|---|
| `Types` | `Spec => []TypeOK` | the driver's calls, one by one. |
| `NoneLeftBehind` | `Spec => []OnTime` | `Paced`: a task the pass has come to is ahead by at most its period, another one possibly behind by at most the longest pass; then differences modulo the clock keep their sign. |

**SensorProofs**

| theorem | statement | argument |
|---|---|---|
| `TypeCorrect` | `Spec => []TypeOK` | with the next two as one inductive invariant. |
| `AbortIsGivenUp` | `Spec => []GivenUp` | a task is given up only by the attempt that uses up its budget, and stays so. |
| `DegradedOutOfUse` | `Spec => []OutOfUse` | needs `WholeBudget`: a normal task has all its attempts, so that the tick that degrades it also begins it. |
| `AbortIsPatient` | `MCSpec => AbortNotHasty` | `Observed`: a task with attempts spent has been sick for an interval for each but the first. |
| `SilenceIsFound` | `MCSpec => []SilenceIsFault` | `SilenceInv` bounds the silence by what was counted meanwhile: failed reads before the first sample; after it the age at which a failure finds it stale and the values out of range. |
| `WindowsCurrent` | `MCSpec => []WindowCurrent` | `Ordered`: the i-th slot behind the head was written i samples ago. |

Only model-checked: liveness, which rests on fairness and ENABLED and is out of the prover's reach
(`ForceConfirmed`, `OvertakenArmRejected`, `FlushEnds`, `GroundStops`, `TestCompletes`, `FramesFlow`,
`AcksGoOut`, `HearsAgain`, `DeadCriticalAborts`, `SensorsReturn`), and the three findings.

## 5. Not modelled

Floating-point work (filters, attitude, calibration, curve fit), registers and buses, the byte
layout, CRC and message authentication of frames, the content of the downlink, text logging, the
buzzer and the offline tools. The rings of `flight_trace.cpp` feed only the log. The bench console
and automatic bench sequence of `fsm_task.cpp` are compiled out of the flight build. The GNSS and
power-sense tasks are only logged and sent down. What a device that has gone from the SPI bus reads
as is outside the code. The reasons are in `PROJECT.json`.

## 6. Plan

Done: the models of sections 2 and 3, and the proofs of section 4. Left, in this order:

1. Consequences of `DurableLog` as theorems about the abstract specification, which the journal then
   inherits by `PromiseIsKept`: the blocks of a log are one stream, each starting where the one
   before it ended, across chapters as well; there are never more chapters than are kept.
2. The safety half of the liveness properties: what bounds a retry (`MaxRecoveryAttempts`,
   `CommandMaxAttempts`) and a queue, so that only fairness is left to TLC.
