------------------------------ MODULE GroundLink ------------------------------
(***************************************************************************)
(* The bench pair: the ground station emulator (receiver/src/main.cpp)     *)
(* built for the automatic command test, and the avionics emulator         *)
(* (sender/src/main.cpp), with the frames of nura_protocol_v1_lite.h       *)
(* between them.                                                           *)
(* Either side runs its loop() over and over; a pass takes no time unless  *)
(* it transmits, which blocks it for one unit (a frame is on the air for   *)
(* about 90 ms).  Ages are in units and stop growing where no comparison   *)
(* tells them apart.                                                       *)
(***************************************************************************)
EXTENDS Naturals, Sequences

CONSTANTS
  None,
  CommandMaxAttempts, CommandRetryInterval,   \* kCommandMaxAttempts, kCommandRetryIntervalMs
  FastNeeded, GpsNeeded, StartTime, SettleTime,   \* when a command is started
  FastInterval, GpsInterval,
  AckQueueDepth, RecentDepth,
  SeqModulus,          \* 2^16
  Moments,             \* what millis() can give a nonce
  Others               \* frames of other vehicles that the ground may hear

Sides    == {"ground", "vehicle"}
Ids      == {"FORCE", "ABORT"}
Commands == [id : Ids, seq : 0..(SeqModulus - 1), nonce : Moments]
Stages   == {"ACCEPTED", "EXECUTED", "REJECTED", "DUPLICATE"}
Acks     == [command : Commands, stage : Stages]

ASSUME GroundLinkAssumption ==
  /\ {CommandMaxAttempts, CommandRetryInterval, FastNeeded, GpsNeeded, StartTime, SettleTime,
      FastInterval, GpsInterval, AckQueueDepth, RecentDepth, SeqModulus} \subseteq Nat \ {0}
  /\ None \notin Commands

VARIABLES
  \* the ground station
  pending,              \* its command, or None
  attempts, sinceTx,
  nextSeq,              \* nextCommandSeq
  received,             \* fastRxCount, gpsRxCount
  forceDone, abortDone, printed,
  uptime, sinceDone,
  \* the vehicle
  deployFired, ackQueue, recent,
  sinceFast, sinceGps,
  \* of either side
  turn,                 \* where its loop stands; "dead": its radio did not begin
  sending,              \* the frame it transmits, or None
  arrived               \* the frame its radio holds, or None

progress == <<forceDone, abortDone, printed, sinceDone>>
ground   == <<pending, attempts, sinceTx, nextSeq, received, progress, uptime>>
vehicle  == <<deployFired, ackQueue, recent, sinceFast, sinceGps>>
vars     == <<ground, vehicle, turn, sending, arrived>>

-----------------------------------------------------------------------------
(* encodeFrame and decodeFrame.  decodeFrame asks whose the frame is, and  *)
(* whether its length, CRC and tag are right; the tag covers the direction *)
(* and the contents.                                                       *)

Peer(side) == IF side = "ground" THEN "vehicle" ELSE "ground"

Encoded(payload, side) == [own |-> TRUE, from |-> side, sound |-> TRUE, payload |-> payload]
Damaged(side)          == [Encoded([type |-> "FAST"], side) EXCEPT !.sound = FALSE]

Decodes(frame, side) == frame.own /\ frame.from = Peer(side) /\ frame.sound

Payloads == [type : {"FAST", "GPS"}] \cup [type : {"CMD"}, command : Commands]
            \cup [type : {"ACK"}, command : Commands, stage : Stages]
Frames   == [own : BOOLEAN, from : Sides, sound : BOOLEAN, payload : Payloads]

(* Of the frames that decodeFrame takes, all come from the pair itself.    *)
ASSUME OthersAssumption ==
  None \notin Frames /\ Others \subseteq {frame \in Frames : ~frame.own}

(* Within a unit the sides touch nothing of each other's: the ground's     *)
(* passes are taken first.                                                 *)
Idle(side) == sending[side] # None \/ turn[side] \in {"idle", "dead"}
Due(side)  == side = "vehicle" => Idle("ground")

(* The payload a side takes from its radio, which then holds nothing.      *)
Reads(side, payload) ==
  /\ Due(side) /\ turn[side] = "receive" /\ turn' = [turn EXCEPT ![side] = "act"]
  /\ arrived[side] # None /\ Decodes(arrived[side], side) /\ payload = arrived[side].payload
  /\ arrived' = [arrived EXCEPT ![side] = None]
  /\ UNCHANGED sending

ReadsNothing(side) ==
  /\ Due(side) /\ turn[side] = "receive" /\ turn' = [turn EXCEPT ![side] = "act"]
  /\ arrived[side] # None => ~Decodes(arrived[side], side)
  /\ arrived' = [arrived EXCEPT ![side] = None]
  /\ UNCHANGED sending

(* How a pass ends: with a frame to transmit, with nothing left to do      *)
(* before time passes, or with another pass to come at once.               *)
Ends(side, next) ==
  /\ turn[side] = "act" /\ turn' = [turn EXCEPT ![side] = next]
  /\ UNCHANGED arrived

Transmits(side, payload) ==
  Ends(side, "idle") /\ sending' = [sending EXCEPT ![side] = Encoded(payload, side)]

Rests(side)   == Ends(side, "idle") /\ UNCHANGED sending
Repeats(side) == Ends(side, "receive") /\ UNCHANGED sending

-----------------------------------------------------------------------------
TypeOK ==
  /\ pending \in Commands \cup {None} /\ attempts \in 0..CommandMaxAttempts
  /\ sinceTx \in 0..CommandRetryInterval /\ nextSeq \in 0..(SeqModulus - 1)
  /\ received \in [fast : 0..FastNeeded, gps : 0..GpsNeeded]
  /\ forceDone \in BOOLEAN /\ abortDone \in BOOLEAN /\ printed \in BOOLEAN
  /\ uptime \in 0..(StartTime + 1) /\ sinceDone \in 0..(SettleTime + 1)
  /\ deployFired \in BOOLEAN
  /\ ackQueue \in Seq(Acks) /\ Len(ackQueue) <= AckQueueDepth
  /\ recent \in Seq(Commands) /\ Len(recent) <= RecentDepth
  /\ sinceFast \in 0..FastInterval /\ sinceGps \in 0..GpsInterval
  /\ turn \in [Sides -> {"setup_fast", "setup_gps", "receive", "act", "idle", "dead"}]
  /\ sending \in [Sides -> Frames \cup {None}] /\ arrived \in [Sides -> Frames \cup {None}]

(* setup.  beginRadio tries five times to read the version register, in    *)
(* one SPI mode or another, and to begin; when it cannot, loop does        *)
(* nothing for ever.                                                       *)
Started(side) == {"dead", IF side = "ground" THEN "receive" ELSE "setup_fast"}

Init ==
  /\ pending = None /\ attempts = 0 /\ sinceTx = 0 /\ nextSeq = 1 % SeqModulus
  /\ received = [fast |-> 0, gps |-> 0]
  /\ forceDone = FALSE /\ abortDone = FALSE /\ printed = FALSE /\ uptime = 0 /\ sinceDone = 0
  /\ deployFired = FALSE /\ ackQueue = <<>> /\ recent = <<>> /\ sinceFast = 0 /\ sinceGps = 0
  /\ turn \in [ground : Started("ground"), vehicle : Started("vehicle")]
  /\ sending = [side \in Sides |-> None] /\ arrived = [side \in Sides |-> None]

(* Either side may be switched off and on. *)
Restart(side) ==
  /\ turn' \in {[turn EXCEPT ![side] = t] : t \in Started(side)}
  /\ sending' = [sending EXCEPT ![side] = None] /\ arrived' = [arrived EXCEPT ![side] = None]

RestartGround ==
  /\ Restart("ground")
  /\ pending' = None /\ attempts' = 0 /\ sinceTx' = 0 /\ nextSeq' = 1 % SeqModulus
  /\ received' = [fast |-> 0, gps |-> 0]
  /\ forceDone' = FALSE /\ abortDone' = FALSE /\ printed' = FALSE /\ uptime' = 0 /\ sinceDone' = 0
  /\ UNCHANGED vehicle

RestartVehicle ==
  /\ Restart("vehicle")
  /\ deployFired' = FALSE /\ ackQueue' = <<>> /\ recent' = <<>> /\ sinceFast' = 0 /\ sinceGps' = 0
  /\ UNCHANGED ground

-----------------------------------------------------------------------------
(* The ground station: receiveFrames with handleFast, handleGps and        *)
(* handleControl.                                                          *)

CountedTo(limit, n) == IF n < limit THEN n + 1 ELSE n

HearTelemetry ==
  /\ \/ Reads("ground", [type |-> "FAST"])
        /\ received' = [received EXCEPT !.fast = CountedTo(FastNeeded, @)]
     \/ Reads("ground", [type |-> "GPS"])
        /\ received' = [received EXCEPT !.gps = CountedTo(GpsNeeded, @)]
  /\ UNCHANGED <<pending, attempts, sinceTx, nextSeq, progress, uptime, vehicle>>

HearNothing == ReadsNothing("ground") /\ UNCHANGED <<ground, vehicle>>

(* The answer that ends a command well. *)
Outcomes == {<<"FORCE", "EXECUTED">>, <<"ABORT", "REJECTED">>}

\* Variant: an ack is taken for the pending command by its kind alone.
AnswersSome(command) == pending # None /\ command.id = pending.id
Answers(command) == pending # None /\ command = pending

ReadsAck(c, stage) == Reads("ground", [type |-> "ACK", command |-> c, stage |-> stage])

HearForceDone(c) ==
  /\ ReadsAck(c, "EXECUTED") /\ Answers(c) /\ pending.id = "FORCE"
  /\ forceDone' = TRUE /\ sinceDone' = 0 /\ pending' = None
  /\ UNCHANGED <<attempts, sinceTx, nextSeq, received, abortDone, printed, uptime, vehicle>>

HearAbortRefused(c) ==
  /\ ReadsAck(c, "REJECTED") /\ Answers(c) /\ pending.id = "ABORT"
  /\ abortDone' = TRUE /\ pending' = None
  /\ UNCHANGED <<attempts, sinceTx, nextSeq, received, forceDone, printed, sinceDone, uptime, vehicle>>

(* The answer to another command, or one that is not the outcome hoped     *)
(* for: a rejection ends the command, ACCEPTED and DUPLICATE decide        *)
(* nothing.                                                                *)
HearOtherAck(c, stage) ==
  /\ ReadsAck(c, stage)
  /\ Answers(c) => <<pending.id, stage>> \notin Outcomes
  /\ pending' = IF Answers(c) /\ stage = "REJECTED" THEN None ELSE pending
  /\ UNCHANGED <<attempts, sinceTx, nextSeq, received, progress, uptime, vehicle>>

(* serviceCommandSender, with printCompletionIfReady after it.             *)

Served ==
  /\ printed' = (printed \/ (forceDone /\ abortDone))
  /\ UNCHANGED <<received, forceDone, abortDone, sinceDone, uptime, vehicle>>

Wanted ==
  IF ~forceDone
  THEN IF received = [fast |-> FastNeeded, gps |-> GpsNeeded] /\ uptime > StartTime THEN {"FORCE"} ELSE {}
  ELSE IF ~abortDone /\ sinceDone > SettleTime THEN {"ABORT"} ELSE {}

(* sendControlCommand.  An attempt counts when the radio took the frame.   *)
SendControl(command, count, since) ==
  \/ /\ Transmits("ground", [type |-> "CMD", command |-> command])
     /\ attempts' = count + 1 /\ sinceTx' = 0
  \/ Rests("ground") /\ attempts' = count /\ sinceTx' = since

(* lastTxMs starts at zero: a start that fails is tried again at once.     *)
StartCommand(id, moment) ==
  LET command == [id |-> id, seq |-> nextSeq, nonce |-> moment]
  IN  /\ pending = None /\ id \in Wanted
      /\ pending' = command /\ nextSeq' = (nextSeq + 1) % SeqModulus
      /\ SendControl(command, 0, CommandRetryInterval)
      /\ Served

RetryDue == sinceTx >= CommandRetryInterval

Retransmit ==
  /\ pending # None /\ attempts < CommandMaxAttempts /\ RetryDue
  /\ SendControl(pending, attempts, sinceTx)
  /\ UNCHANGED <<pending, nextSeq>> /\ Served

GiveUp ==
  /\ pending # None /\ attempts = CommandMaxAttempts
  /\ pending' = None /\ Repeats("ground") /\ UNCHANGED <<attempts, sinceTx, nextSeq>> /\ Served

Wait ==
  /\ IF pending = None THEN Wanted = {} ELSE attempts < CommandMaxAttempts /\ ~RetryDue
  /\ Rests("ground") /\ UNCHANGED <<pending, attempts, sinceTx, nextSeq>> /\ Served

GroundReceives ==
  \/ HearTelemetry \/ HearNothing
  \/ \E c \in Commands : HearForceDone(c) \/ HearAbortRefused(c) \/ \E stage \in Stages : HearOtherAck(c, stage)

GroundServes ==
  \/ \E id \in Ids, moment \in Moments : StartCommand(id, moment)
  \/ Retransmit \/ GiveUp \/ Wait

-----------------------------------------------------------------------------
(* The vehicle: receiveCommands with handleCommand.  The ground's commands *)
(* carry a right tag, no deadline and no parameter, so that the rejections *)
(* of those do not arise.                                                  *)

\* Variant: a queue of one.
PushedAlone(queue, command, stage) ==
  IF queue = <<>> THEN <<[command |-> command, stage |-> stage]>> ELSE queue
Pushed(queue, command, stage) ==
  IF Len(queue) < AckQueueDepth THEN Append(queue, [command |-> command, stage |-> stage]) ELSE queue

Remembered(command) ==
  IF Len(recent) < RecentDepth THEN Append(recent, command) ELSE Append(Tail(recent), command)

\* Variant: only refused commands are looked up.
RefusedBefore(command) == command.id = "ABORT" /\ \E i \in 1..Len(recent) : recent[i] = command
WasRecentlyProcessed(command) == \E i \in 1..Len(recent) : recent[i] = command

Receives(command) ==
  /\ Reads("vehicle", [type |-> "CMD", command |-> command])
  /\ UNCHANGED <<ground, sinceFast, sinceGps>>

AnswerDuplicate(c) ==
  /\ Receives(c) /\ WasRecentlyProcessed(c)
  /\ ackQueue' = Pushed(ackQueue, c, "DUPLICATE") /\ UNCHANGED <<deployFired, recent>>

Deploy(c) ==
  /\ Receives(c) /\ ~WasRecentlyProcessed(c) /\ c.id = "FORCE"
  /\ deployFired' = TRUE /\ recent' = Remembered(c)
  /\ ackQueue' = Pushed(Pushed(ackQueue, c, "ACCEPTED"), c, "EXECUTED")

RefuseAbort(c) ==
  /\ Receives(c) /\ ~WasRecentlyProcessed(c) /\ c.id = "ABORT"
  /\ recent' = Remembered(c) /\ ackQueue' = Pushed(ackQueue, c, "REJECTED")
  /\ UNCHANGED deployFired

ReceiveNothing == ReadsNothing("vehicle") /\ UNCHANGED <<ground, vehicle>>

(* loop: one acknowledgement, else FAST when it is due, else GPS.  A frame *)
(* the radio refuses is lost with its turn: the ack has left the queue,    *)
(* the period has begun; a refused ack leaves the pass to telemetry.       *)

Telemetry ==
  \/ /\ sinceFast >= FastInterval /\ sinceFast' = 0 /\ UNCHANGED sinceGps
     /\ (Transmits("vehicle", [type |-> "FAST"]) \/ Repeats("vehicle"))
  \/ /\ sinceFast < FastInterval /\ sinceGps >= GpsInterval /\ sinceGps' = 0 /\ UNCHANGED sinceFast
     /\ (Transmits("vehicle", [type |-> "GPS"]) \/ Repeats("vehicle"))
  \/ /\ sinceFast < FastInterval /\ sinceGps < GpsInterval /\ UNCHANGED <<sinceFast, sinceGps>>
     /\ IF ackQueue' = <<>> THEN Rests("vehicle") ELSE Repeats("vehicle")

SendAck ==
  /\ ackQueue # <<>> /\ ackQueue' = Tail(ackQueue)
  /\ Transmits("vehicle", [type |-> "ACK", command |-> Head(ackQueue).command, stage |-> Head(ackQueue).stage])
  /\ UNCHANGED <<ground, deployFired, recent, sinceFast, sinceGps>>

LoseAck ==
  /\ ackQueue # <<>> /\ ackQueue' = Tail(ackQueue) /\ Telemetry
  /\ UNCHANGED <<ground, deployFired, recent>>

SendTelemetry ==
  /\ ackQueue = <<>> /\ UNCHANGED ackQueue /\ Telemetry
  /\ UNCHANGED <<ground, deployFired, recent>>

VehicleReceives == ReceiveNothing \/ \E c \in Commands : AnswerDuplicate(c) \/ Deploy(c) \/ RefuseAbort(c)
VehicleSends    == SendAck \/ LoseAck \/ SendTelemetry

(* setup: FAST, then GPS, whatever becomes of them.                        *)
SetUp ==
  /\ Due("vehicle") /\ turn["vehicle"] \in {"setup_fast", "setup_gps"} /\ sending["vehicle"] = None
  /\ turn' = [turn EXCEPT !["vehicle"] = IF @ = "setup_fast" THEN "setup_gps" ELSE "idle"]
  /\ sending' = [sending EXCEPT !["vehicle"] =
       Encoded([type |-> IF turn["vehicle"] = "setup_fast" THEN "FAST" ELSE "GPS"], "vehicle")]
  /\ UNCHANGED <<ground, vehicle, arrived>>

-----------------------------------------------------------------------------
(* A unit of time passes when neither side has anything left to do in it.  *)
(* A frame that was on the air is lost (as it is to a side that transmits  *)
(* meanwhile), arrives damaged or arrives.                                 *)

Heard(side, others) ==
  LET sent == sending[Peer(side)]
  IN  {arrived[side]}
      \cup IF turn[side] = "dead" THEN {} ELSE others \cup IF sent = None THEN {} ELSE {sent, Damaged(Peer(side))}

Tick ==
  /\ Idle("ground") /\ Idle("vehicle")
  /\ arrived' \in [ground : Heard("ground", Others), vehicle : Heard("vehicle", {})]
  /\ sending' = [side \in Sides |-> None]
  /\ turn' = [side \in Sides |-> IF turn[side] = "idle" THEN "receive" ELSE turn[side]]
  /\ sinceTx' = CountedTo(CommandRetryInterval, sinceTx)
  /\ uptime' = CountedTo(StartTime + 1, uptime)
  /\ sinceDone' = IF forceDone THEN CountedTo(SettleTime + 1, sinceDone) ELSE sinceDone
  /\ sinceFast' = CountedTo(FastInterval, sinceFast) /\ sinceGps' = CountedTo(GpsInterval, sinceGps)
  /\ UNCHANGED <<pending, attempts, nextSeq, received, forceDone, abortDone, printed,
                 deployFired, ackQueue, recent>>

Next ==
  \/ GroundReceives \/ GroundServes
  \/ SetUp \/ VehicleReceives \/ VehicleSends
  \/ Tick \/ RestartGround \/ RestartVehicle

Spec == Init /\ [][Next]_vars

(* What the ground waits for, and a command the vehicle has not met. *)
Awaited(frame) ==
  frame # None /\ CASE frame.payload.type = "FAST" -> received.fast < FastNeeded
                    [] frame.payload.type = "GPS" -> received.gps < GpsNeeded
                    [] OTHER -> Answers(frame.payload.command)
                                /\ <<pending.id, frame.payload.stage>> \in Outcomes

NewCommand(frame) == frame # None /\ attempts = 1 /\ ~WasRecentlyProcessed(frame.payload.command)

ArrivesFrom(side) == Tick /\ arrived'[Peer(side)] = sending[side]

(* Either loop goes on for ever.  The radios do not refuse every frame of  *)
(* a kind, and the channel does not lose or damage every one: the periods  *)
(* of the two sides (a retry every 340 ms, FAST every 200 ms) drift        *)
(* against each other, so that no collision repeats itself for ever.       *)
Fairness ==
  /\ WF_vars(GroundReceives \/ GroundServes \/ SetUp \/ VehicleReceives \/ VehicleSends \/ Tick)
  /\ SF_vars(GroundServes /\ sending'["ground"] # None)
  /\ SF_vars(VehicleSends /\ Awaited(sending'["vehicle"]))
  /\ SF_vars(NewCommand(sending["ground"]) /\ ArrivesFrom("ground"))
  /\ SF_vars(Awaited(sending["vehicle"]) /\ ArrivesFrom("vehicle"))

FairSpec == Spec /\ Fairness
=============================================================================
