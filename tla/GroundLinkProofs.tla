--------------------------- MODULE GroundLinkProofs ---------------------------
(***************************************************************************)
(* GroundHistory for every depth of the queues, every channel and however  *)
(* often either side restarts: its types, that the ground believes only    *)
(* what its vehicle has done, and that a command is executed once while    *)
(* the vehicle stays on, although it remembers only the last ones.         *)
(***************************************************************************)
EXTENDS MCGroundLink, TLAPS

LEMMA Counting ==
  ASSUME NEW limit \in Nat, NEW n \in 0..limit
  PROVE  CountedTo(limit, n) \in 0..limit
  BY DEF CountedTo

LEMMA Frame ==
  /\ \A p \in Payloads, side \in Sides : Encoded(p, side) \in Frames
  /\ \A side \in Sides : Damaged(side) \in Frames
  /\ [type |-> "FAST"] \in Payloads /\ [type |-> "GPS"] \in Payloads
  /\ \A c \in Commands : [type |-> "CMD", command |-> c] \in Payloads
  /\ \A c \in Commands, stage \in Stages : [type |-> "ACK", command |-> c, stage |-> stage] \in Payloads
  <1>1. \A p \in Payloads, side \in Sides : Encoded(p, side) \in Frames
    BY DEF Encoded, Frames
  <1>2. [type |-> "FAST"] \in Payloads /\ [type |-> "GPS"] \in Payloads
    BY DEF Payloads
  <1>3. \A c \in Commands : [type |-> "CMD", command |-> c] \in Payloads
    BY DEF Payloads
  <1>4. \A c \in Commands, stage \in Stages : [type |-> "ACK", command |-> c, stage |-> stage] \in Payloads
    BY DEF Payloads
  <1>5. \A side \in Sides : Damaged(side) \in Frames
    <2> TAKE side \in Sides
    <2>1. Damaged(side) = [Encoded([type |-> "FAST"], side) EXCEPT !.sound = FALSE]
      BY DEF Damaged
    <2> QED BY <1>2, <2>1 DEF Encoded, Frames
  <1> QED BY <1>1, <1>2, <1>3, <1>4, <1>5

ChannelOK ==
  /\ turn \in [Sides -> {"setup_fast", "setup_gps", "receive", "act", "idle", "dead"}]
  /\ sending \in [Sides -> Frames \cup {None}] /\ arrived \in [Sides -> Frames \cup {None}]

GroundOK ==
  /\ pending \in Commands \cup {None} /\ attempts \in 0..CommandMaxAttempts
  /\ sinceTx \in 0..CommandRetryInterval /\ nextSeq \in 0..(SeqModulus - 1)
  /\ received \in [fast : 0..FastNeeded, gps : 0..GpsNeeded]
  /\ forceDone \in BOOLEAN /\ abortDone \in BOOLEAN /\ printed \in BOOLEAN
  /\ uptime \in 0..(StartTime + 1) /\ sinceDone \in 0..(SettleTime + 1)

VehicleOK ==
  /\ deployFired \in BOOLEAN
  /\ ackQueue \in Seq(Acks) /\ Len(ackQueue) <= AckQueueDepth
  /\ recent \in Seq(Commands) /\ Len(recent) <= RecentDepth
  /\ sinceFast \in 0..FastInterval /\ sinceGps \in 0..GpsInterval

LEMMA TypeParts == TypeOK <=> GroundOK /\ VehicleOK /\ ChannelOK
  BY DEF TypeOK, GroundOK, VehicleOK, ChannelOK

(* The steps that the passes of both sides are made of.                    *)
LEMMA ReadingTypes ==
  ASSUME ChannelOK, NEW side \in Sides,
         ReadsNothing(side) \/ \E payload : Reads(side, payload)
  PROVE  ChannelOK'
  BY DEF ChannelOK, Reads, ReadsNothing

LEMMA EndingTypes ==
  ASSUME ChannelOK, NEW side \in Sides,
         Rests(side) \/ Repeats(side) \/ \E payload \in Payloads : Transmits(side, payload)
  PROVE  ChannelOK'
  <1>1. CASE Rests(side) \/ Repeats(side)
    BY <1>1 DEF ChannelOK, Rests, Repeats, Ends
  <1>2. CASE \E payload \in Payloads : Transmits(side, payload)
    <2>1. PICK payload \in Payloads : Transmits(side, payload)
      BY <1>2
    <2>2. Encoded(payload, side) \in Frames
      BY Frame
    <2> HIDE DEF Frames
    <2> QED BY <2>1, <2>2 DEF ChannelOK, Transmits, Ends
  <1> QED BY <1>1, <1>2

LEMMA GroundReceivesTypes ==
  ASSUME TypeOK, GroundReceives
  PROVE  TypeOK'
  <1>1. GroundOK /\ VehicleOK /\ ChannelOK /\ "ground" \in Sides
    BY TypeParts DEF Sides
  <1>2. CountedTo(FastNeeded, received.fast) \in 0..FastNeeded
        /\ CountedTo(GpsNeeded, received.gps) \in 0..GpsNeeded
    BY <1>1, Counting, GroundLinkAssumption DEF GroundOK
  <1>3. UNCHANGED vehicle
    BY DEF GroundReceives, HearTelemetry, HearNothing, HearForceDone, HearAbortRefused, HearOtherAck
  <1>4. VehicleOK'
    BY <1>1, <1>3 DEF VehicleOK, vehicle
  <1>5. ChannelOK'
    <2>1. ReadsNothing("ground") \/ \E payload : Reads("ground", payload)
      BY DEF GroundReceives, HearTelemetry, HearNothing, HearForceDone, HearAbortRefused, HearOtherAck,
             ReadsAck
    <2> QED BY <1>1, <2>1, ReadingTypes
  <1>6. GroundOK'
    <2>1. CASE HearTelemetry
      BY <1>1, <1>2, <2>1 DEF HearTelemetry, GroundOK, progress
    <2>2. CASE HearNothing
      BY <1>1, <2>2 DEF HearNothing, GroundOK, ground, progress
    <2>3. CASE \E c \in Commands : HearForceDone(c)
      BY <1>1, <2>3, GroundLinkAssumption DEF HearForceDone, GroundOK
    <2>4. CASE \E c \in Commands : HearAbortRefused(c)
      BY <1>1, <2>4 DEF HearAbortRefused, GroundOK
    <2>5. CASE \E c \in Commands, stage \in Stages : HearOtherAck(c, stage)
      BY <1>1, <2>5 DEF HearOtherAck, GroundOK, progress
    <2> QED BY <2>1, <2>2, <2>3, <2>4, <2>5 DEF GroundReceives
  <1> QED BY <1>4, <1>5, <1>6 DEF TypeOK, GroundOK, VehicleOK, ChannelOK

LEMMA GroundServesTypes ==
  ASSUME TypeOK, GroundServes
  PROVE  TypeOK'
  <1>1. GroundOK /\ VehicleOK /\ ChannelOK /\ "ground" \in Sides
    BY TypeParts DEF Sides
  <1>2. Served
    BY DEF GroundServes, StartCommand, Retransmit, GiveUp, Wait
  <1>3. VehicleOK'
    BY <1>1, <1>2 DEF VehicleOK, Served, vehicle
  <1>4. ASSUME NEW c \in Commands, NEW count \in 0..(CommandMaxAttempts - 1),
               NEW since \in 0..CommandRetryInterval, SendControl(c, count, since)
        PROVE  ChannelOK' /\ attempts' \in 0..CommandMaxAttempts /\ sinceTx' \in 0..CommandRetryInterval
    <2>1. [type |-> "CMD", command |-> c] \in Payloads
      BY Frame
    <2>2. Rests("ground") \/ \E payload \in Payloads : Transmits("ground", payload)
      BY <1>4, <2>1 DEF SendControl
    <2>3. ChannelOK'
      BY <1>1, <2>2, EndingTypes
    <2> QED BY <1>4, <2>3, GroundLinkAssumption DEF SendControl
  <1>5. /\ received' = received /\ forceDone' = forceDone /\ abortDone' = abortDone
        /\ sinceDone' = sinceDone /\ uptime' = uptime /\ printed' \in BOOLEAN
    BY <1>1, <1>2 DEF Served, GroundOK
  <1>6. /\ pending' \in Commands \cup {None} /\ attempts' \in 0..CommandMaxAttempts
        /\ sinceTx' \in 0..CommandRetryInterval /\ nextSeq' \in 0..(SeqModulus - 1) /\ ChannelOK'
    <2>1. ASSUME NEW id \in Ids, NEW moment \in Moments, StartCommand(id, moment)
          PROVE  <1>6
      <3> DEFINE command == [id |-> id, seq |-> nextSeq, nonce |-> moment]
      <3>1. command \in Commands
        BY <1>1 DEF GroundOK, Commands
      <3> HIDE DEF command
      <3>2. pending' = command /\ nextSeq' = (nextSeq + 1) % SeqModulus
            /\ SendControl(command, 0, CommandRetryInterval)
        BY <2>1 DEF StartCommand, command
      <3>3. 0 \in 0..(CommandMaxAttempts - 1) /\ CommandRetryInterval \in 0..CommandRetryInterval
            /\ (nextSeq + 1) % SeqModulus \in 0..(SeqModulus - 1)
        BY <1>1, GroundLinkAssumption DEF GroundOK
      <3> QED BY <1>4, <3>1, <3>2, <3>3
    <2>2. CASE Retransmit
      <3>1. pending \in Commands /\ attempts \in 0..(CommandMaxAttempts - 1)
        BY <1>1, <2>2, GroundLinkAssumption DEF Retransmit, GroundOK
      <3>2. SendControl(pending, attempts, sinceTx) /\ pending' = pending /\ nextSeq' = nextSeq
        BY <2>2 DEF Retransmit
      <3> QED BY <1>1, <1>4, <3>1, <3>2 DEF GroundOK
    <2>3. CASE GiveUp \/ Wait
      <3>1. Rests("ground") \/ Repeats("ground")
        BY <2>3 DEF GiveUp, Wait
      <3>2. ChannelOK'
        BY <1>1, <3>1, EndingTypes
      <3> QED BY <1>1, <2>3, <3>2 DEF GiveUp, Wait, GroundOK
    <2> QED BY <2>1, <2>2, <2>3 DEF GroundServes
  <1>7. GroundOK'
    BY <1>1, <1>5, <1>6 DEF GroundOK
  <1> QED BY <1>3, <1>6, <1>7 DEF TypeOK, GroundOK, VehicleOK, ChannelOK

LEMMA QueueTypes ==
  ASSUME NEW queue \in Seq(Acks), Len(queue) <= AckQueueDepth, NEW c \in Commands, NEW stage \in Stages
  PROVE  Pushed(queue, c, stage) \in Seq(Acks) /\ Len(Pushed(queue, c, stage)) <= AckQueueDepth
  <1>1. [command |-> c, stage |-> stage] \in Acks
    BY DEF Acks
  <1> QED BY <1>1, GroundLinkAssumption DEF Pushed

LEMMA RecentTypes ==
  ASSUME recent \in Seq(Commands), Len(recent) <= RecentDepth, NEW c \in Commands
  PROVE  /\ Remembered(c) \in Seq(Commands) /\ Len(Remembered(c)) <= RecentDepth
         /\ Remembered(c) # <<>> /\ Remembered(c)[Len(Remembered(c))] = c
  BY GroundLinkAssumption DEF Remembered

LEMMA VehicleReceivesTypes ==
  ASSUME TypeOK, VehicleReceives
  PROVE  TypeOK'
  <1>1. GroundOK /\ VehicleOK /\ ChannelOK /\ "vehicle" \in Sides
    BY TypeParts DEF Sides
  <1>2. ReadsNothing("vehicle") \/ \E payload : Reads("vehicle", payload)
    BY DEF VehicleReceives, ReceiveNothing, AnswerDuplicate, Deploy, RefuseAbort, Receives
  <1>3. ChannelOK'
    BY <1>1, <1>2, ReadingTypes
  <1>4. UNCHANGED ground
    BY DEF VehicleReceives, ReceiveNothing, AnswerDuplicate, Deploy, RefuseAbort, Receives
  <1>5. GroundOK'
    BY <1>1, <1>4 DEF GroundOK, ground, progress
  <1>6. {"ACCEPTED", "EXECUTED", "REJECTED", "DUPLICATE"} \subseteq Stages
    BY DEF Stages
  <1>7. ASSUME NEW c \in Commands
        PROVE  /\ Remembered(c) \in Seq(Commands) /\ Len(Remembered(c)) <= RecentDepth
               /\ \A stage \in Stages :
                    /\ Pushed(ackQueue, c, stage) \in Seq(Acks)
                    /\ Len(Pushed(ackQueue, c, stage)) <= AckQueueDepth
    BY <1>1, RecentTypes, QueueTypes DEF VehicleOK
  <1>8. VehicleOK'
    <2>1. CASE ReceiveNothing
      BY <1>1, <2>1 DEF ReceiveNothing, vehicle, VehicleOK
    <2>2. ASSUME NEW c \in Commands, AnswerDuplicate(c)
          PROVE  VehicleOK'
      BY <1>1, <1>6, <1>7, <2>2 DEF AnswerDuplicate, Receives, VehicleOK
    <2>3. ASSUME NEW c \in Commands, Deploy(c)
          PROVE  VehicleOK'
      <3> DEFINE once == Pushed(ackQueue, c, "ACCEPTED")
      <3>1. once \in Seq(Acks) /\ Len(once) <= AckQueueDepth
        BY <1>6, <1>7
      <3>2. Pushed(once, c, "EXECUTED") \in Seq(Acks) /\ Len(Pushed(once, c, "EXECUTED")) <= AckQueueDepth
        <4> HIDE DEF once
        <4> QED BY <1>6, <3>1, QueueTypes
      <3> QED BY <1>1, <1>7, <2>3, <3>2 DEF Deploy, Receives, VehicleOK
    <2>4. ASSUME NEW c \in Commands, RefuseAbort(c)
          PROVE  VehicleOK'
      BY <1>1, <1>6, <1>7, <2>4 DEF RefuseAbort, Receives, VehicleOK
    <2> QED BY <2>1, <2>2, <2>3, <2>4 DEF VehicleReceives
  <1> QED BY <1>3, <1>5, <1>8 DEF TypeOK, GroundOK, VehicleOK, ChannelOK

LEMMA HeadOfQueue ==
  ASSUME VehicleOK, ackQueue # <<>>
  PROVE  /\ Head(ackQueue) = ackQueue[1] /\ ackQueue[1] \in Acks
         /\ ackQueue[1].command \in Commands /\ ackQueue[1].stage \in Stages
         /\ Tail(ackQueue) \in Seq(Acks) /\ Len(Tail(ackQueue)) = Len(ackQueue) - 1
         /\ \A i \in 1..Len(Tail(ackQueue)) : Tail(ackQueue)[i] = ackQueue[i + 1]
         /\ Len(ackQueue) \in Nat \ {0}
  <1>1. /\ ackQueue \in Seq(Acks) /\ Head(ackQueue) = ackQueue[1] /\ ackQueue[1] \in Acks
        /\ Tail(ackQueue) \in Seq(Acks) /\ Len(Tail(ackQueue)) = Len(ackQueue) - 1
        /\ \A i \in 1..Len(Tail(ackQueue)) : Tail(ackQueue)[i] = ackQueue[i + 1]
        /\ Len(ackQueue) \in Nat \ {0}
    BY DEF VehicleOK
  <1> QED BY <1>1 DEF Acks

LEMMA VehicleSendsTypes ==
  ASSUME TypeOK, VehicleSends
  PROVE  TypeOK'
  <1>1. GroundOK /\ VehicleOK /\ ChannelOK /\ "vehicle" \in Sides
    BY TypeParts DEF Sides
  <1>2. UNCHANGED <<ground, deployFired, recent>>
    BY DEF VehicleSends, SendAck, LoseAck, SendTelemetry
  <1>3. GroundOK'
    BY <1>1, <1>2 DEF GroundOK, ground, progress
  <1>4. ackQueue' \in Seq(Acks) /\ Len(ackQueue') <= AckQueueDepth
    <2>1. ackQueue' = ackQueue \/ (ackQueue # <<>> /\ ackQueue' = Tail(ackQueue))
      BY DEF VehicleSends, SendAck, LoseAck, SendTelemetry
    <2>2. Len(ackQueue) \in Nat /\ AckQueueDepth \in Nat
      BY <1>1, GroundLinkAssumption DEF VehicleOK
    <2> QED BY <1>1, <2>1, <2>2, HeadOfQueue DEF VehicleOK
  <1>5. sinceFast' \in 0..FastInterval /\ sinceGps' \in 0..GpsInterval
    <2>1. /\ 0 \in 0..FastInterval /\ 0 \in 0..GpsInterval
          /\ sinceFast \in 0..FastInterval /\ sinceGps \in 0..GpsInterval
      BY <1>1, GroundLinkAssumption DEF VehicleOK
    <2>2. sinceFast' \in {0, sinceFast} /\ sinceGps' \in {0, sinceGps}
      BY DEF VehicleSends, SendAck, LoseAck, SendTelemetry, Telemetry
    <2> QED BY <2>1, <2>2
  <1>6. Rests("vehicle") \/ Repeats("vehicle") \/ \E payload \in Payloads : Transmits("vehicle", payload)
    <2>1. CASE Telemetry
      BY <2>1, Frame DEF Telemetry
    <2>2. CASE SendAck
      BY <1>1, <2>2, HeadOfQueue, Frame DEF SendAck
    <2> QED BY <2>1, <2>2 DEF VehicleSends, LoseAck, SendTelemetry
  <1>7. ChannelOK'
    BY <1>1, <1>6, EndingTypes
  <1>8. VehicleOK'
    BY <1>1, <1>2, <1>4, <1>5 DEF VehicleOK
  <1> QED BY <1>3, <1>7, <1>8 DEF TypeOK, GroundOK, VehicleOK, ChannelOK

LEMMA SetUpTypes ==
  ASSUME TypeOK, SetUp
  PROVE  TypeOK'
  <1>1. GroundOK /\ VehicleOK /\ ChannelOK /\ "vehicle" \in Sides
    BY TypeParts DEF Sides
  <1>2. Encoded([type |-> IF turn["vehicle"] = "setup_fast" THEN "FAST" ELSE "GPS"], "vehicle") \in Frames
    BY <1>1, Frame
  <1>3. ChannelOK'
    <2> HIDE DEF Frames
    <2> QED BY <1>1, <1>2 DEF SetUp, ChannelOK
  <1>4. GroundOK' /\ VehicleOK'
    BY <1>1 DEF SetUp, GroundOK, VehicleOK, ground, vehicle, progress
  <1> QED BY <1>3, <1>4 DEF TypeOK, GroundOK, VehicleOK, ChannelOK

(* What the radio of a side may hold after a unit of time.                 *)
LEMMA HeardFrames ==
  ASSUME ChannelOK, NEW side \in Sides, NEW others \in SUBSET Frames
  PROVE  Heard(side, others) \subseteq Frames \cup {None}
  <1>1. Peer(side) \in Sides
    BY DEF Peer, Sides
  <1>2. Damaged(Peer(side)) \in Frames
    BY <1>1, Frame
  <1>3. sending[Peer(side)] \in Frames \cup {None} /\ arrived[side] \in Frames \cup {None}
    BY <1>1 DEF ChannelOK
  <1> QED BY <1>2, <1>3 DEF Heard

LEMMA TickTypes ==
  ASSUME TypeOK, Tick
  PROVE  TypeOK'
  <1>1. GroundOK /\ VehicleOK /\ ChannelOK
    BY TypeParts
  <1>2. arrived' \in [Sides -> Frames \cup {None}]
    <2>1. Heard("ground", Others) \subseteq Frames \cup {None}
      BY <1>1, HeardFrames, OthersAssumption DEF Sides
    <2>2. Heard("vehicle", {}) \subseteq Frames \cup {None}
      BY <1>1, HeardFrames DEF Sides
    <2>3. arrived' \in [ground : Heard("ground", Others), vehicle : Heard("vehicle", {})]
      BY DEF Tick
    <2> HIDE DEF Frames
    <2> QED BY <2>1, <2>2, <2>3 DEF Sides
  <1>3. ChannelOK'
    BY <1>1, <1>2 DEF ChannelOK, Tick
  <1>4. VehicleOK'
    BY <1>1, Counting, GroundLinkAssumption DEF VehicleOK, Tick
  <1>5. GroundOK'
    <2>1. StartTime + 1 \in Nat /\ SettleTime + 1 \in Nat /\ CommandRetryInterval \in Nat
      BY GroundLinkAssumption
    <2>2. sinceTx' \in 0..CommandRetryInterval /\ uptime' \in 0..(StartTime + 1)
          /\ sinceDone' \in 0..(SettleTime + 1)
      BY <1>1, <2>1, Counting DEF GroundOK, Tick
    <2> QED BY <1>1, <2>2 DEF GroundOK, Tick
  <1> QED BY <1>3, <1>4, <1>5 DEF TypeOK, GroundOK, VehicleOK, ChannelOK

(* What both sides start from.                                             *)
LEMMA StartValues ==
  /\ 1 % SeqModulus \in 0..(SeqModulus - 1)
  /\ 0 \in 0..CommandMaxAttempts /\ 0 \in 0..CommandRetryInterval
  /\ 0 \in 0..FastNeeded /\ 0 \in 0..GpsNeeded
  /\ 0 \in 0..(StartTime + 1) /\ 0 \in 0..(SettleTime + 1)
  /\ 0 \in 0..FastInterval /\ 0 \in 0..GpsInterval
  /\ <<>> \in Seq(Acks) /\ Len(<<>>) <= AckQueueDepth
  /\ <<>> \in Seq(Commands) /\ Len(<<>>) <= RecentDepth
  <1>1. Len(<<>>) = 0
    OBVIOUS
  <1>2. <<>> \in Seq(Acks) /\ <<>> \in Seq(Commands)
    OBVIOUS
  <1>3. 1 % SeqModulus \in 0..(SeqModulus - 1)
    BY GroundLinkAssumption
  <1>4. 0 <= AckQueueDepth /\ 0 <= RecentDepth
    BY GroundLinkAssumption
  <1> QED BY <1>1, <1>2, <1>3, <1>4, GroundLinkAssumption

LEMMA RestartTypes ==
  ASSUME TypeOK, RestartGround \/ RestartVehicle
  PROVE  TypeOK'
  <1>1. GroundOK /\ VehicleOK /\ ChannelOK
    BY TypeParts
  <1>2. PICK side \in Sides : Restart(side)
    BY DEF RestartGround, RestartVehicle, Sides
  <1>3. ChannelOK'
    <2> HIDE DEF Frames
    <2> QED BY <1>1, <1>2 DEF ChannelOK, Restart, Started
  <1>4. GroundOK'
    <2>1. CASE RestartGround
      BY <2>1, StartValues DEF GroundOK, RestartGround
    <2>2. CASE RestartVehicle
      BY <1>1, <2>2 DEF GroundOK, RestartVehicle, ground, progress
    <2> QED BY <2>1, <2>2
  <1>5. VehicleOK'
    <2>1. CASE RestartGround
      BY <1>1, <2>1 DEF VehicleOK, RestartGround, vehicle
    <2>2. CASE RestartVehicle
      <3> HIDE DEF Acks, Commands
      <3> QED BY <2>2, StartValues DEF VehicleOK, RestartVehicle
    <2> QED BY <2>1, <2>2
  <1> QED BY <1>3, <1>4, <1>5 DEF TypeOK, GroundOK, VehicleOK, ChannelOK

LEMMA InitTypes ==
  ASSUME Init
  PROVE  TypeOK
  <1>1. ChannelOK
    <2>1. turn \in [Sides -> {"setup_fast", "setup_gps", "receive", "act", "idle", "dead"}]
      BY DEF Init, Started, Sides
    <2> QED BY <2>1 DEF Init, ChannelOK
  <1>2. GroundOK
    BY StartValues DEF Init, GroundOK
  <1>3. VehicleOK
    BY StartValues DEF Init, VehicleOK
  <1> QED BY <1>1, <1>2, <1>3 DEF TypeOK, GroundOK, VehicleOK, ChannelOK

-----------------------------------------------------------------------------
(* The inductive invariant.                                                *)

CmdFrame(c) == Encoded([type |-> "CMD", command |-> c], "ground")

LatestOf(c) == c \in lately => recent # <<>> /\ recent[Len(recent)] = c

(* The ground changes its command only when no frame is on the air, so     *)
(* that the frame on the air asks for the command that is pending.         *)
AskedFor ==
  /\ turn["ground"] \in {"receive", "act"} => sending["ground"] = None
  /\ sending["ground"] # None => pending \in Commands /\ sending["ground"] = CmdFrame(pending)

(* What reached the vehicle and was not yet read.                          *)
HoldsCommand ==
  arrived["vehicle"] \in {None, Damaged("ground")} \/ \E c \in Commands : arrived["vehicle"] = CmdFrame(c)

(* A command that was executed and can still come is the last one of       *)
(* recent: it is not forgotten before the ground has gone on to another,   *)
(* and what is left of an older one was never executed.                    *)
Remembrance ==
  /\ lately \subseteq {c \in Commands : c.id = "FORCE"}
  /\ \A c \in Commands :
       /\ arrived["vehicle"] = CmdFrame(c) => LatestOf(c) /\ (pending \in lately => c = pending)
       /\ pending = c => LatestOf(c)

(* Whatever says that a command was executed is right.                     *)
SaysDone(frame, c) ==
  frame # None /\ frame.own /\ frame.payload = [type |-> "ACK", command |-> c, stage |-> "EXECUTED"]

Truth ==
  /\ \A i \in 1..Len(ackQueue) : ackQueue[i].stage = "EXECUTED" => ackQueue[i].command \in executed
  /\ \A c \in Commands : SaysDone(arrived["ground"], c) \/ SaysDone(sending["vehicle"], c) => c \in executed

IInv ==
  /\ TypeOK
  /\ AskedFor /\ HoldsCommand /\ Remembrance
  /\ ExecutedOnce
  /\ executed \subseteq Commands /\ Truth

-----------------------------------------------------------------------------
(* A step of GroundHistory is one of GroundLink.                           *)
LEMMA StepTypes ==
  ASSUME TypeOK, RecordedNext
  PROVE  TypeOK'
  <1>1. CASE GroundReceives
    BY <1>1, GroundReceivesTypes
  <1>2. CASE GroundServes
    BY <1>2, GroundServesTypes
  <1>3. CASE VehicleReceives
    BY <1>3, VehicleReceivesTypes
  <1>4. CASE VehicleSends
    BY <1>4, VehicleSendsTypes
  <1>5. CASE SetUp
    BY <1>5, SetUpTypes
  <1>6. CASE Tick
    BY <1>6, TickTypes
  <1>7. CASE RestartGround \/ RestartVehicle
    BY <1>7, RestartTypes
  <1> QED BY <1>1, <1>2, <1>3, <1>4, <1>5, <1>6, <1>7
         DEF RecordedNext, RecordedServe, RecordedDeploy, RecordedRestart, Unrecorded, GroundServes, VehicleReceives

(* Frames tell their commands apart.                                       *)
LEMMA FramesDiffer ==
  ASSUME NEW c \in Commands
  PROVE  /\ \A d \in Commands : CmdFrame(c) = CmdFrame(d) => c = d
         /\ CmdFrame(c) # Damaged("ground") /\ CmdFrame(c) # None
         /\ CmdFrame(c).payload = [type |-> "CMD", command |-> c]
         /\ CmdFrame(c).own /\ CmdFrame(c).from = "ground" /\ CmdFrame(c).sound
         /\ Damaged("ground") # None /\ ~Damaged("ground").sound
         /\ \A d \in Commands : ~SaysDone(Damaged("vehicle"), d)
  <1>1. CmdFrame(c) \in Frames /\ Damaged("ground") \in Frames /\ Damaged("vehicle") \in Frames
    BY Frame DEF CmdFrame, Sides
  <1>2. CmdFrame(c) # None /\ Damaged("ground") # None
    <2> HIDE DEF Frames
    <2> QED BY <1>1, OthersAssumption
  <1>3. \A d \in Commands : CmdFrame(d) = [own |-> TRUE, from |-> "ground", sound |-> TRUE,
                                           payload |-> [type |-> "CMD", command |-> d]]
    BY DEF CmdFrame, Encoded
  <1>4. \A side \in Sides : Damaged(side) = [own |-> TRUE, from |-> side, sound |-> FALSE,
                                             payload |-> [type |-> "FAST"]]
    <2> TAKE side \in Sides
    <2> DEFINE payload == [type |-> "FAST"]
    <2>1. Damaged(side) = [[own |-> TRUE, from |-> side, sound |-> TRUE, payload |-> payload] EXCEPT !.sound = FALSE]
      BY DEF Damaged, Encoded
    <2> HIDE DEF payload
    <2>2. Damaged(side) = [own |-> TRUE, from |-> side, sound |-> FALSE, payload |-> payload]
      BY <2>1
    <2> QED BY <2>2 DEF payload
  <1>5. ~Damaged("ground").sound /\ CmdFrame(c).sound
    BY <1>3, <1>4 DEF Sides
  <1>6. \A d \in Commands : ~SaysDone(Damaged("vehicle"), d)
    <2> TAKE d \in Commands
    <2>1. Damaged("vehicle").payload = [type |-> "FAST"]
      BY <1>4 DEF Sides
    <2>2. [type |-> "FAST"].type = "FAST"
          /\ [type |-> "ACK", command |-> d, stage |-> "EXECUTED"].type = "ACK"
      OBVIOUS
    <2> QED BY <2>1, <2>2 DEF SaysDone
  <1>7. \A d \in Commands : CmdFrame(c) = CmdFrame(d) => c = d
    <2> TAKE d \in Commands
    <2>1. CmdFrame(c).payload.command = c /\ CmdFrame(d).payload.command = d
      BY <1>3
    <2> QED BY <2>1
  <1> QED BY <1>2, <1>3, <1>4, <1>5, <1>6, <1>7

(* What the pass of a side leaves as it was.                               *)
LEMMA Apart ==
  ASSUME ChannelOK, NEW side \in Sides, NEW other \in Sides, side # other,
         \/ ReadsNothing(side) \/ Rests(side) \/ Repeats(side)
         \/ \E payload : Reads(side, payload) \/ Transmits(side, payload)
  PROVE  turn'[other] = turn[other] /\ sending'[other] = sending[other] /\ arrived'[other] = arrived[other]
  <1>1. turn' = [turn EXCEPT ![side] = turn'[side]] /\ sending' = [sending EXCEPT ![side] = sending'[side]]
        /\ arrived' = [arrived EXCEPT ![side] = arrived'[side]]
    BY DEF ChannelOK, ReadsNothing, Reads, Rests, Repeats, Transmits, Ends
  <1> QED BY <1>1 DEF ChannelOK

LEMMA GroundPass ==
  ASSUME TypeOK, GroundReceives \/ GroundServes
  PROVE  /\ UNCHANGED vehicle
         /\ turn'["vehicle"] = turn["vehicle"] /\ sending'["vehicle"] = sending["vehicle"]
         /\ arrived'["vehicle"] = arrived["vehicle"]
  <1>1. ChannelOK /\ {"ground", "vehicle"} \subseteq Sides /\ "ground" # "vehicle"
    BY TypeParts DEF Sides
  <1>2. \/ ReadsNothing("ground") \/ Rests("ground") \/ Repeats("ground")
        \/ \E payload : Reads("ground", payload) \/ Transmits("ground", payload)
    BY DEF GroundReceives, HearTelemetry, HearNothing, HearForceDone, HearAbortRefused, HearOtherAck, ReadsAck,
           GroundServes, StartCommand, Retransmit, GiveUp, Wait, SendControl
  <1>3. UNCHANGED vehicle
    BY DEF GroundReceives, HearTelemetry, HearNothing, HearForceDone, HearAbortRefused, HearOtherAck,
           GroundServes, StartCommand, Retransmit, GiveUp, Wait, Served
  <1> QED BY <1>1, <1>2, <1>3, Apart

LEMMA VehiclePass ==
  ASSUME TypeOK, VehicleReceives \/ VehicleSends \/ SetUp
  PROVE  /\ UNCHANGED ground
         /\ turn'["ground"] = turn["ground"] /\ sending'["ground"] = sending["ground"]
         /\ arrived'["ground"] = arrived["ground"]
  <1>1. ChannelOK /\ {"ground", "vehicle"} \subseteq Sides /\ "ground" # "vehicle"
    BY TypeParts DEF Sides
  <1>2. CASE VehicleReceives \/ VehicleSends
    <2>1. \/ ReadsNothing("vehicle") \/ Rests("vehicle") \/ Repeats("vehicle")
          \/ \E payload : Reads("vehicle", payload) \/ Transmits("vehicle", payload)
      BY <1>2 DEF VehicleReceives, ReceiveNothing, AnswerDuplicate, Deploy, RefuseAbort, Receives,
                  VehicleSends, SendAck, LoseAck, SendTelemetry, Telemetry
    <2>2. UNCHANGED ground
      BY <1>2 DEF VehicleReceives, ReceiveNothing, AnswerDuplicate, Deploy, RefuseAbort, Receives,
                  VehicleSends, SendAck, LoseAck, SendTelemetry
    <2> QED BY <1>1, <2>1, <2>2, Apart
  <1>3. CASE SetUp
    BY <1>1, <1>3 DEF SetUp, ChannelOK
  <1> QED BY <1>2, <1>3

(* How the vehicle's radio empties.                                        *)
LEMMA VehicleReads ==
  ASSUME TypeOK, VehicleReceives
  PROVE  arrived'["vehicle"] = None /\ sending' = sending
  <1>1. ChannelOK /\ "vehicle" \in Sides
    BY TypeParts DEF Sides
  <1>2. ReadsNothing("vehicle") \/ \E payload : Reads("vehicle", payload)
    BY DEF VehicleReceives, ReceiveNothing, AnswerDuplicate, Deploy, RefuseAbort, Receives
  <1> QED BY <1>1, <1>2 DEF ReadsNothing, Reads, ChannelOK

LEMMA Restarting ==
  ASSUME TypeOK
  PROVE  /\ RestartGround => /\ UNCHANGED vehicle /\ pending' = None /\ sending'["ground"] = None
                             /\ arrived'["ground"] = None
                             /\ arrived'["vehicle"] = arrived["vehicle"] /\ sending'["vehicle"] = sending["vehicle"]
         /\ RestartVehicle => /\ UNCHANGED ground /\ turn'["ground"] = turn["ground"]
                              /\ sending'["ground"] = sending["ground"] /\ arrived'["ground"] = arrived["ground"]
                              /\ arrived'["vehicle"] = None /\ sending'["vehicle"] = None
  <1>1. ChannelOK /\ {"ground", "vehicle"} \subseteq Sides /\ "ground" # "vehicle"
    BY TypeParts DEF Sides
  <1>2. ASSUME NEW side \in Sides, NEW other \in Sides, side # other, Restart(side)
        PROVE  /\ sending'[side] = None /\ arrived'[side] = None
               /\ turn'[other] = turn[other] /\ sending'[other] = sending[other] /\ arrived'[other] = arrived[other]
    BY <1>1, <1>2 DEF Restart, ChannelOK
  <1> QED BY <1>1, <1>2 DEF RestartGround, RestartVehicle

LEMMA Ticking ==
  ASSUME Tick
  PROVE  /\ pending' = pending /\ UNCHANGED <<ackQueue, recent>>
         /\ sending'["ground"] = None /\ sending'["vehicle"] = None
         /\ \/ arrived'["vehicle"] = arrived["vehicle"]
            \/ sending["ground"] # None /\ arrived'["vehicle"] \in {sending["ground"], Damaged("ground")}
         /\ \/ arrived'["ground"] \in {arrived["ground"]} \cup Others
            \/ sending["vehicle"] # None /\ arrived'["ground"] \in {sending["vehicle"], Damaged("vehicle")}
  <1>1. arrived' \in [ground : Heard("ground", Others), vehicle : Heard("vehicle", {})]
    BY DEF Tick
  <1>2. arrived'["ground"] \in Heard("ground", Others) /\ arrived'["vehicle"] \in Heard("vehicle", {})
    BY <1>1
  <1>3. Peer("ground") = "vehicle" /\ Peer("vehicle") = "ground"
    BY DEF Peer
  <1>4. /\ pending' = pending /\ UNCHANGED <<ackQueue, recent>>
        /\ sending'["ground"] = None /\ sending'["vehicle"] = None
    BY DEF Tick, Sides
  <1> QED BY <1>2, <1>3, <1>4 DEF Heard

-----------------------------------------------------------------------------
LEMMA AskedForKept ==
  ASSUME IInv, RecordedNext
  PROVE  AskedFor'
  <1>1. TypeOK /\ AskedFor /\ ChannelOK /\ "ground" \in Sides
    BY TypeParts DEF IInv, Sides
  <1>2. CASE GroundReceives
    <2>1. turn["ground"] = "receive" /\ sending' = sending
      BY <1>2 DEF GroundReceives, HearTelemetry, HearNothing, HearForceDone, HearAbortRefused, HearOtherAck,
                  ReadsAck, Reads, ReadsNothing
    <2> QED BY <1>1, <2>1 DEF AskedFor
  <1>3. CASE GroundServes
    <2>1. turn["ground"] = "act" /\ sending["ground"] = None
      BY <1>1, <1>3 DEF GroundServes, StartCommand, Retransmit, GiveUp, Wait, SendControl, Transmits, Rests,
                        Repeats, Ends, AskedFor
    <2>2. ASSUME NEW c \in Commands, NEW count, NEW since, SendControl(c, count, since), pending' = c
          PROVE  AskedFor'
      <3>1. CASE Rests("ground")
        BY <2>1, <3>1 DEF Rests, AskedFor
      <3>2. CASE Transmits("ground", [type |-> "CMD", command |-> c])
        BY <1>1, <2>2, <3>2 DEF Transmits, Ends, ChannelOK, AskedFor, CmdFrame
      <3> QED BY <2>2, <3>1, <3>2 DEF SendControl
    <2>3. CASE GiveUp \/ Wait
      BY <2>1, <2>3 DEF GiveUp, Wait, Repeats, Rests, AskedFor
    <2>4. CASE Retransmit
      BY <1>1, <2>2, <2>4 DEF Retransmit, TypeOK
    <2>5. ASSUME NEW id \in Ids, NEW moment \in Moments, StartCommand(id, moment)
          PROVE  AskedFor'
      <3> DEFINE command == [id |-> id, seq |-> nextSeq, nonce |-> moment]
      <3>1. command \in Commands
        BY <1>1 DEF TypeOK, Commands
      <3> HIDE DEF command
      <3>2. pending' = command /\ SendControl(command, 0, CommandRetryInterval)
        BY <2>5 DEF StartCommand, command
      <3> QED BY <2>2, <3>1, <3>2
    <2> QED BY <1>3, <2>3, <2>4, <2>5 DEF GroundServes
  <1>4. CASE VehicleReceives \/ VehicleSends \/ SetUp
    BY <1>1, <1>4, VehiclePass DEF AskedFor, ground
  <1>5. CASE Tick
    BY <1>5, Ticking DEF AskedFor
  <1>6. CASE RestartGround \/ RestartVehicle
    BY <1>1, <1>6, Restarting DEF AskedFor, ground
  <1> QED BY <1>2, <1>3, <1>4, <1>5, <1>6
         DEF RecordedNext, RecordedServe, RecordedDeploy, RecordedRestart, Unrecorded, GroundServes, VehicleReceives

LEMMA HoldsCommandKept ==
  ASSUME IInv, RecordedNext
  PROVE  HoldsCommand'
  <1>1. TypeOK /\ AskedFor /\ HoldsCommand /\ ChannelOK /\ "vehicle" \in Sides
    BY TypeParts DEF IInv, Sides
  <1>2. CASE arrived'["vehicle"] \in {arrived["vehicle"], None}
    BY <1>1, <1>2 DEF HoldsCommand, Damaged, CmdFrame, Encoded
  <1>3. CASE GroundReceives \/ GroundServes
    BY <1>1, <1>2, <1>3, GroundPass
  <1>4. CASE VehicleReceives
    BY <1>1, <1>2, <1>4, VehicleReads
  <1>5. CASE VehicleSends \/ SetUp
    <2>1. arrived' = arrived
      BY <1>5 DEF VehicleSends, SendAck, LoseAck, SendTelemetry, Telemetry, Transmits, Rests, Repeats, Ends, SetUp
    <2> QED BY <1>2, <2>1
  <1>6. CASE Tick
    <2>1. CASE sending["ground"] # None /\ arrived'["vehicle"] \in {sending["ground"], Damaged("ground")}
      BY <1>1, <2>1 DEF HoldsCommand, AskedFor
    <2> QED BY <1>2, <1>6, <2>1, Ticking
  <1>7. CASE RestartGround \/ RestartVehicle
    BY <1>1, <1>2, <1>7, Restarting
  <1> QED BY <1>3, <1>4, <1>5, <1>6, <1>7
         DEF RecordedNext, RecordedServe, RecordedDeploy, RecordedRestart, Unrecorded, GroundServes, VehicleReceives

(* A command that the vehicle reads is what its radio held.                *)
LEMMA ReadCommand ==
  ASSUME HoldsCommand, NEW c \in Commands, Receives(c)
  PROVE  arrived["vehicle"] = CmdFrame(c)
  <1>1. arrived["vehicle"] # None /\ arrived["vehicle"].sound
        /\ arrived["vehicle"].payload = [type |-> "CMD", command |-> c]
    BY DEF Receives, Reads, Decodes
  <1>2. arrived["vehicle"] # Damaged("ground")
    BY <1>1, FramesDiffer
  <1>3. PICK d \in Commands : arrived["vehicle"] = CmdFrame(d)
    BY <1>1, <1>2 DEF HoldsCommand
  <1>4. [type |-> "CMD", command |-> c].command = c /\ [type |-> "CMD", command |-> d].command = d
    OBVIOUS
  <1>5. CmdFrame(d).payload = [type |-> "CMD", command |-> d]
    BY FramesDiffer
  <1>6. [type |-> "CMD", command |-> c] = [type |-> "CMD", command |-> d]
    BY <1>1, <1>3, <1>5
  <1>7. c = d
    BY <1>4, <1>6
  <1> QED BY <1>3, <1>7

LEMMA RemembranceKept ==
  ASSUME IInv, RecordedNext
  PROVE  Remembrance' /\ ExecutedOnce'
  <1>1. /\ TypeOK /\ AskedFor /\ HoldsCommand /\ Remembrance /\ ExecutedOnce
        /\ None \notin Commands
    BY GroundLinkAssumption DEF IInv
  <1>2. CASE /\ pending' \in {pending, None} /\ arrived'["vehicle"] \in {arrived["vehicle"], None}
             /\ recent' = recent /\ UNCHANGED history
    BY <1>1, <1>2, FramesDiffer DEF Remembrance, LatestOf, ExecutedOnce, history
  <1>3. CASE GroundReceives /\ UNCHANGED history
    <2>1. pending' \in {pending, None}
      BY <1>3 DEF GroundReceives, HearTelemetry, HearNothing, HearForceDone, HearAbortRefused, HearOtherAck, ground
    <2> QED BY <1>1, <1>2, <1>3, <2>1, GroundPass DEF vehicle
  <1>4. CASE (Retransmit \/ GiveUp \/ Wait) /\ UNCHANGED history
    <2>1. pending' \in {pending, None}
      BY <1>4 DEF Retransmit, GiveUp, Wait
    <2> QED BY <1>1, <1>2, <1>4, <2>1, GroundPass DEF vehicle, GroundServes
  <1>5. ASSUME NEW id \in Ids, NEW moment \in Moments, StartCommand(id, moment),
               lately' = lately \ {pending'}, UNCHANGED <<executed, again>>
        PROVE  Remembrance' /\ ExecutedOnce'
    <2>1. recent' = recent /\ arrived'["vehicle"] = arrived["vehicle"]
      BY <1>1, <1>5, GroundPass DEF vehicle, GroundServes
    <2> QED BY <1>1, <1>5, <2>1 DEF Remembrance, LatestOf, ExecutedOnce
  <1>6. ASSUME NEW c \in Commands, RecordedDeploy(c)
        PROVE  Remembrance' /\ ExecutedOnce'
    <2>1. /\ arrived["vehicle"] = CmdFrame(c) /\ arrived'["vehicle"] = None /\ pending' = pending
          /\ recent' = Remembered(c) /\ lately' = lately \cup {c} /\ c.id = "FORCE"
      <3>1. Receives(c) /\ VehicleReceives
        BY <1>6 DEF RecordedDeploy, Deploy, VehicleReceives
      <3> QED BY <1>1, <1>6, <3>1, ReadCommand, VehicleReads DEF RecordedDeploy, Deploy, Receives, ground
    <2>2. Remembered(c) # <<>> /\ Remembered(c)[Len(Remembered(c))] = c
      BY <1>1, RecentTypes DEF TypeOK
    <2>3. c \notin lately
      <3>1. SUFFICES ASSUME c \in lately
                     PROVE  WasRecentlyProcessed(c)
        BY <1>6 DEF RecordedDeploy, Deploy
      <3>2. recent # <<>> /\ recent[Len(recent)] = c
        BY <1>1, <2>1, <3>1 DEF Remembrance, LatestOf
      <3>3. Len(recent) \in 1..Len(recent)
        BY <1>1, <3>2 DEF TypeOK
      <3> QED BY <3>2, <3>3 DEF WasRecentlyProcessed
    <2>4. again' = again
      BY <1>6, <2>3 DEF RecordedDeploy
    <2>5. pending \in lately => pending = c
      BY <1>1, <2>1 DEF Remembrance
    <2>6. Remembrance'
      <3>1. lately' \subseteq {d \in Commands : d.id = "FORCE"}
        BY <1>1, <2>1 DEF Remembrance
      <3>2. \A d \in Commands : arrived'["vehicle"] # CmdFrame(d)
        BY <2>1, FramesDiffer
      <3>3. ASSUME NEW d \in Commands, pending' = d
            PROVE  LatestOf(d)'
        BY <2>1, <2>2, <2>5, <3>3 DEF LatestOf
      <3> QED BY <3>1, <3>2, <3>3 DEF Remembrance, CmdFrame, Encoded
    <2> QED BY <1>1, <2>4, <2>6 DEF ExecutedOnce
  <1>7. ASSUME NEW c \in Commands, RefuseAbort(c), UNCHANGED history
        PROVE  Remembrance' /\ ExecutedOnce'
    <2>1. /\ arrived["vehicle"] = CmdFrame(c) /\ arrived'["vehicle"] = None /\ pending' = pending
          /\ c.id = "ABORT"
      <3>1. Receives(c) /\ VehicleReceives
        BY <1>7 DEF RefuseAbort, VehicleReceives
      <3> QED BY <1>1, <1>7, <3>1, ReadCommand, VehicleReads DEF RefuseAbort, Receives, ground
    <2>2. pending \notin lately
      BY <1>1, <2>1 DEF Remembrance
    <2>3. \A d \in Commands : arrived'["vehicle"] # CmdFrame(d)
      BY <2>1, FramesDiffer
    <2> QED BY <1>1, <1>7, <2>1, <2>2, <2>3 DEF Remembrance, LatestOf, ExecutedOnce, history, CmdFrame, Encoded
  <1>8. CASE (ReceiveNothing \/ \E c \in Commands : AnswerDuplicate(c)) /\ UNCHANGED history
    <2>1. VehicleReceives /\ recent' = recent
      BY <1>8 DEF ReceiveNothing, AnswerDuplicate, VehicleReceives, vehicle
    <2> QED BY <1>1, <1>2, <1>8, <2>1, VehicleReads, VehiclePass DEF ground
  <1>9. CASE (VehicleSends \/ SetUp) /\ UNCHANGED history
    <2>1. arrived' = arrived /\ recent' = recent
      BY <1>9 DEF VehicleSends, SendAck, LoseAck, SendTelemetry, Telemetry, Transmits, Rests, Repeats, Ends, SetUp,
                  vehicle
    <2> QED BY <1>1, <1>2, <1>9, <2>1, VehiclePass DEF ground
  <1>10. CASE Tick /\ UNCHANGED history
    <2>1. pending' = pending /\ recent' = recent
      BY <1>10, Ticking
    <2>2. ASSUME NEW d \in Commands, arrived'["vehicle"] = CmdFrame(d), arrived'["vehicle"] # arrived["vehicle"]
          PROVE  pending = d
      <3>1. arrived'["vehicle"] = sending["ground"] /\ sending["ground"] # None
        BY <1>10, <2>2, Ticking, FramesDiffer
      <3>2. pending \in Commands /\ CmdFrame(pending) = CmdFrame(d)
        BY <1>1, <2>2, <3>1 DEF AskedFor, CmdFrame, Encoded
      <3>3. \A c \in Commands : CmdFrame(c) = CmdFrame(d) => c = d
        BY FramesDiffer
      <3> QED BY <3>2, <3>3
    <2> QED BY <1>1, <1>10, <2>1, <2>2 DEF Remembrance, LatestOf, ExecutedOnce, history, CmdFrame, Encoded
  <1>11. CASE RecordedRestart
    <2>1. CASE RestartGround /\ UNCHANGED history
      BY <1>1, <1>2, <2>1, Restarting DEF vehicle
    <2>2. CASE RestartVehicle /\ lately' = {} /\ UNCHANGED <<executed, again>>
      BY <1>1, <2>2 DEF Remembrance, LatestOf, ExecutedOnce
    <2> QED BY <1>11, <2>1, <2>2 DEF RecordedRestart
  <1> QED BY <1>3, <1>4, <1>5, <1>6, <1>7, <1>8, <1>9, <1>10, <1>11
         DEF RecordedNext, RecordedServe, Unrecorded

-----------------------------------------------------------------------------
(* A new answer at the end of the queue. *)
LEMMA PushedTrue ==
  ASSUME NEW queue \in Seq(Acks), NEW c \in Commands, NEW stage \in Stages, NEW done,
         \A i \in 1..Len(queue) : queue[i].stage = "EXECUTED" => queue[i].command \in done,
         stage = "EXECUTED" => c \in done
  PROVE  \A i \in 1..Len(Pushed(queue, c, stage)) :
           Pushed(queue, c, stage)[i].stage = "EXECUTED" => Pushed(queue, c, stage)[i].command \in done
  <1> DEFINE ack == [command |-> c, stage |-> stage]
  <1>1. ack \in Acks /\ ack.stage = stage /\ ack.command = c
    BY DEF Acks
  <1> HIDE DEF ack
  <1>2. CASE Pushed(queue, c, stage) = queue
    BY <1>2
  <1>3. CASE Pushed(queue, c, stage) = Append(queue, ack)
    BY <1>1, <1>3
  <1> QED BY <1>2, <1>3 DEF Pushed, ack

LEMMA TruthKept ==
  ASSUME IInv, RecordedNext
  PROVE  (executed \subseteq Commands /\ Truth)'
  <1>1. /\ TypeOK /\ Truth /\ VehicleOK /\ ChannelOK /\ executed \subseteq Commands
        /\ {"ground", "vehicle"} \subseteq Sides
    BY TypeParts DEF IInv, Sides
  <1>2. executed \subseteq executed' /\ executed' \subseteq Commands
    BY <1>1 DEF RecordedNext, RecordedServe, RecordedDeploy, RecordedRestart, history
  <1>3. \A i \in 1..Len(ackQueue') : ackQueue'[i].stage = "EXECUTED" => ackQueue'[i].command \in executed'
    <2>0. \A i \in 1..Len(ackQueue) : ackQueue[i].stage = "EXECUTED" => ackQueue[i].command \in executed'
      BY <1>1, <1>2 DEF Truth
    <2>1. CASE ackQueue' = ackQueue
      BY <2>0, <2>1
    <2>2. CASE ackQueue' = <<>>
      <3>1. 1..Len(ackQueue') = {}
        BY <2>2
      <3> QED BY <3>1
    <2>3. CASE ackQueue # <<>> /\ ackQueue' = Tail(ackQueue)
      <3> SUFFICES ASSUME NEW i \in 1..Len(Tail(ackQueue))
                   PROVE  Tail(ackQueue)[i].stage = "EXECUTED" => Tail(ackQueue)[i].command \in executed'
        BY <2>3
      <3>1. Tail(ackQueue)[i] = ackQueue[i + 1] /\ i + 1 \in 1..Len(ackQueue)
        BY <1>1, <2>3, HeadOfQueue
      <3> QED BY <2>0, <3>1
    <2>4. ASSUME NEW c \in Commands, NEW stage \in Stages \ {"EXECUTED"}, ackQueue' = Pushed(ackQueue, c, stage)
          PROVE  <1>3
      BY <1>1, <2>0, <2>4, PushedTrue DEF VehicleOK
    <2>5. ASSUME NEW c \in Commands, RecordedDeploy(c)
          PROVE  <1>3
      <3> DEFINE once == Pushed(ackQueue, c, "ACCEPTED")
      <3>1. ackQueue' = Pushed(once, c, "EXECUTED") /\ c \in executed' /\ {"ACCEPTED", "EXECUTED"} \subseteq Stages
        BY <2>5 DEF RecordedDeploy, Deploy, Stages
      <3>2. once \in Seq(Acks)
        BY <1>1, <3>1, QueueTypes DEF VehicleOK
      <3>3. \A i \in 1..Len(once) : once[i].stage = "EXECUTED" => once[i].command \in executed'
        BY <1>1, <2>0, <3>1, PushedTrue DEF VehicleOK
      <3> HIDE DEF once
      <3> QED BY <3>1, <3>2, <3>3, PushedTrue
    <2>6. CASE GroundReceives \/ GroundServes \/ RestartGround \/ SetUp \/ Tick
      BY <1>1, <2>1, <2>6, GroundPass, Restarting DEF vehicle, SetUp, Tick
    <2>7. CASE VehicleSends \/ RestartVehicle \/ ReceiveNothing
      BY <2>1, <2>2, <2>3, <2>7 DEF VehicleSends, SendAck, LoseAck, SendTelemetry, RestartVehicle, ReceiveNothing,
                                    vehicle
    <2>8. CASE \E c \in Commands : AnswerDuplicate(c) \/ RefuseAbort(c)
      <3>1. {"DUPLICATE", "REJECTED"} \subseteq Stages \ {"EXECUTED"}
        BY DEF Stages
      <3> QED BY <2>4, <2>8, <3>1 DEF AnswerDuplicate, RefuseAbort
    <2> QED BY <2>5, <2>6, <2>7, <2>8
           DEF RecordedNext, RecordedServe, RecordedRestart, Unrecorded, GroundServes
  <1>4. ASSUME NEW c \in Commands, SaysDone(arrived'["ground"], c)
        PROVE  c \in executed'
    <2>1. CASE arrived'["ground"] = arrived["ground"]
      BY <1>1, <1>2, <1>4, <2>1 DEF Truth
    <2>2. CASE arrived'["ground"] = None
      BY <1>4, <2>2 DEF SaysDone
    <2>3. CASE GroundReceives \/ GroundServes
      <3>1. \/ \E payload : Reads("ground", payload)
            \/ ReadsNothing("ground") \/ arrived' = arrived
        BY <2>3 DEF GroundReceives, HearTelemetry, HearNothing, HearForceDone, HearAbortRefused, HearOtherAck,
                    ReadsAck, GroundServes, StartCommand, Retransmit, GiveUp, Wait, SendControl, Transmits, Rests,
                    Repeats, Ends
      <3> QED BY <1>1, <2>1, <2>2, <3>1 DEF Reads, ReadsNothing, ChannelOK
    <2>4. CASE VehicleReceives \/ VehicleSends \/ SetUp
      BY <1>1, <2>1, <2>4, VehiclePass
    <2>5. CASE RestartGround \/ RestartVehicle
      BY <1>1, <2>1, <2>2, <2>5, Restarting
    <2>6. CASE Tick
      <3>1. arrived'["ground"] \notin Others
        BY <1>4, OthersAssumption DEF SaysDone
      <3>2. arrived'["ground"] # Damaged("vehicle")
        BY <1>4, FramesDiffer
      <3> QED BY <1>1, <1>2, <1>4, <2>1, <2>6, <3>1, <3>2, Ticking DEF Truth
    <2> QED BY <2>3, <2>4, <2>5, <2>6
           DEF RecordedNext, RecordedServe, RecordedDeploy, RecordedRestart, Unrecorded, GroundServes, VehicleReceives
  <1>5. ASSUME NEW c \in Commands, SaysDone(sending'["vehicle"], c)
        PROVE  c \in executed'
    <2>1. CASE sending'["vehicle"] = sending["vehicle"]
      BY <1>1, <1>2, <1>5, <2>1 DEF Truth
    <2>2. CASE sending'["vehicle"] = None
      BY <1>5, <2>2 DEF SaysDone
    <2>3. CASE GroundReceives \/ GroundServes
      BY <1>1, <2>1, <2>3, GroundPass
    <2>4. CASE VehicleReceives
      BY <1>1, <2>1, <2>4, VehicleReads
    <2>5. CASE RestartGround \/ RestartVehicle \/ Tick
      BY <1>1, <2>1, <2>2, <2>5, Restarting, Ticking
    <2>6. ASSUME NEW payload, sending'["vehicle"] = Encoded(payload, "vehicle"), payload.type \in {"FAST", "GPS"}
          PROVE  FALSE
      <3>1. payload = [type |-> "ACK", command |-> c, stage |-> "EXECUTED"]
        BY <1>5, <2>6 DEF SaysDone, Encoded
      <3>2. payload.type = "ACK"
        BY <3>1
      <3> QED BY <2>6, <3>2
    <2>7. CASE Telemetry \/ SetUp
      <3>1. sending' = sending \/ \E type \in {"FAST", "GPS"} : sending'["vehicle"] = Encoded([type |-> type], "vehicle")
        BY <1>1, <2>7 DEF Telemetry, SetUp, Transmits, Rests, Repeats, ChannelOK
      <3> QED BY <2>1, <2>6, <3>1
    <2>8. CASE SendAck
      <3> DEFINE payload == [type |-> "ACK", command |-> Head(ackQueue).command, stage |-> Head(ackQueue).stage]
      <3>1. sending'["vehicle"] = Encoded(payload, "vehicle")
        BY <1>1, <2>8 DEF SendAck, Transmits, ChannelOK
      <3>2. payload = [type |-> "ACK", command |-> c, stage |-> "EXECUTED"]
        BY <1>5, <3>1 DEF SaysDone, Encoded
      <3>3. ackQueue[1].command = c /\ ackQueue[1].stage = "EXECUTED" /\ 1 \in 1..Len(ackQueue)
        BY <1>1, <2>8, <3>2, HeadOfQueue DEF SendAck
      <3> QED BY <1>1, <1>2, <3>3 DEF Truth
    <2> QED BY <2>3, <2>4, <2>5, <2>7, <2>8
           DEF RecordedNext, RecordedServe, RecordedDeploy, RecordedRestart, Unrecorded, GroundServes, VehicleReceives,
               VehicleSends, LoseAck, SendTelemetry
  <1> QED BY <1>2, <1>3, <1>4, <1>5 DEF Truth

-----------------------------------------------------------------------------
LEMMA InitInv ==
  ASSUME Init, HistoryInit
  PROVE  IInv
  <1>1. /\ sending["ground"] = None /\ arrived["vehicle"] = None
        /\ sending["vehicle"] = None /\ arrived["ground"] = None
    BY DEF Init, Sides
  <1>2. Remembrance
    BY <1>1, FramesDiffer DEF HistoryInit, Remembrance, LatestOf
  <1>3. Truth
    <2>1. 1..Len(ackQueue) = {}
      BY DEF Init
    <2> QED BY <1>1, <2>1 DEF Truth, SaysDone
  <1> QED BY <1>1, <1>2, <1>3, InitTypes DEF IInv, AskedFor, HoldsCommand, ExecutedOnce, HistoryInit

LEMMA StutterInv ==
  ASSUME IInv, UNCHANGED <<vars, history>>
  PROVE  IInv'
  BY DEF IInv, TypeOK, AskedFor, HoldsCommand, Remembrance, LatestOf, ExecutedOnce, Truth, SaysDone,
         vars, ground, vehicle, progress, history

(* The inductive invariant.                                                *)
THEOREM Invariance == HistorySpec => []IInv
  <1>1. Init /\ HistoryInit => IInv
    BY InitInv
  <1>2. IInv /\ [RecordedNext]_<<vars, history>> => IInv'
    <2> SUFFICES ASSUME IInv, [RecordedNext]_<<vars, history>>
                 PROVE  IInv'
      OBVIOUS
    <2>1. CASE RecordedNext
      <3>1. TypeOK'
        BY <2>1, StepTypes DEF IInv
      <3> QED BY <2>1, <3>1, AskedForKept, HoldsCommandKept, RemembranceKept, TruthKept DEF IInv
    <2> QED BY <2>1, StutterInv
  <1> QED BY <1>1, <1>2, PTL DEF HistorySpec

(* However deep the queues, however many commands, retries and restarts of *)
(* the ground: the vehicle, which remembers only its last commands, does   *)
(* not execute one twice while it stays on.                                *)
THEOREM ExecutedOnceLately == HistorySpec => []ExecutedOnce
  <1>1. IInv => ExecutedOnce
    BY DEF IInv
  <1> QED BY <1>1, Invariance, PTL

(* The ground believes that recovery was forced only when its own vehicle  *)
(* executed the very command that it asked about.                          *)
THEOREM BeliefTruthful == HistorySpec => DoneTruthful
  <1>1. ASSUME IInv, RecordedNext, ~forceDone, forceDone'
        PROVE  pending \in executed
    <2>1. CASE UNCHANGED forceDone
      BY <1>1, <2>1
    <2>2. ASSUME NEW c \in Commands, HearForceDone(c)
          PROVE  pending \in executed
      <3>1. SaysDone(arrived["ground"], c) /\ pending = c
        BY <2>2 DEF HearForceDone, ReadsAck, Reads, Decodes, Answers, SaysDone
      <3> QED BY <1>1, <3>1 DEF IInv, Truth
    <2>3. CASE GroundReceives
      BY <1>1, <2>1, <2>2, <2>3
         DEF GroundReceives, HearTelemetry, HearNothing, HearAbortRefused, HearOtherAck, ground, progress
    <2>4. CASE GroundServes \/ Tick \/ RestartGround
      BY <1>1, <2>1, <2>4 DEF GroundServes, StartCommand, Retransmit, GiveUp, Wait, Served, Tick, RestartGround
    <2>5. CASE VehicleReceives \/ VehicleSends \/ SetUp \/ RestartVehicle
      BY <1>1, <2>1, <2>5, VehiclePass, Restarting DEF IInv, ground, progress
    <2> QED BY <1>1, <2>3, <2>4, <2>5
           DEF RecordedNext, RecordedServe, RecordedDeploy, RecordedRestart, Unrecorded, GroundServes, VehicleReceives
  <1>2. IInv /\ [RecordedNext]_<<vars, history>> => [~forceDone /\ forceDone' => pending \in executed]_<<vars, history>>
    BY <1>1
  <1> QED BY <1>2, Invariance, PTL DEF HistorySpec, DoneTruthful

-----------------------------------------------------------------------------
(* The scenarios of the run are among what the theorems are about. *)
LEMMA RunsAreRecorded == MCSpec => HistorySpec
  <1>1. MCInit => Init /\ HistoryInit
    BY DEF MCInit
  <1>2. [MCNext]_<<vars, observer>> => [RecordedNext]_<<vars, history>>
    BY DEF MCNext, MCRestart, RecordedNext, Unrecorded, observer
  <1> QED BY <1>1, <1>2, PTL DEF MCSpec, HistorySpec
=============================================================================
