------------------------------ MODULE CommandLink ------------------------------
(***************************************************************************)
(* The command side of TelemetryTask (missions/telemetry) with the flight  *)
(* state machine it asks.  One telemetry tick is three steps that follow   *)
(* each other: receive at most one command, queue the acknowledgements     *)
(* whose outcome is known, send one.  The state machine ticks once or more *)
(* between two telemetry ticks; of its flight it keeps the order of the    *)
(* states, not the time they take.                                         *)
(* The channel may lose, delay, repeat and reorder commands: any command   *)
(* may arrive at any telemetry tick.                                       *)
(***************************************************************************)
EXTENDS Naturals, Sequences, CommandMailbox

CONSTANTS
  Commands,           \* what the ground station sends: [id, seq, nonce]
  BenchResetBuild,    \* built with NURA_ENABLE_BENCH_FSM_RESET_UPLINK
  AckQueueDepth, RecentCommandDepth,
  Radios,             \* subset of {"blocking", "ready"}: see Init
  AbortMayRise

ASSUME LinkAssumption ==
  /\ Commands \subseteq [id : {"ARM", "FORCE", "RESET", "PROPULSION"}, seq : Seqs, nonce : Nat]
  /\ BenchResetBuild \in BOOLEAN /\ Radios \subseteq {"blocking", "ready"} /\ AbortMayRise \in BOOLEAN
  /\ AckQueueDepth \in Nat \ {0} /\ RecentCommandDepth \in Nat \ {0}
  /\ None \notin Commands

VARIABLES
  turn,               \* "fsm", then "receive", "deferred", "send"
  radio,              \* "ready", "busy" transmitting, "gap" after it; or "blocking"
  state, abort, deployFired,
  ackQueue,           \* ackQueue_, oldest first
  recent,             \* recentCommands_, oldest first
  pendingArm, pendingForce, pendingReset   \* commands whose outcome is awaited

flight  == <<state, abort, deployFired>>
pending == <<pendingArm, pendingForce, pendingReset>>
vars    == <<turn, radio, flight, ackQueue, recent, pending, mailbox>>

(* LAUNCH stands for LAUNCH and COAST, APOGEE for APOGEE, DROGUE and       *)
(* DEPLOY: TelemetryTask does not tell them apart.                         *)
States == {"INIT", "SAFE", "ARMED", "LAUNCH", "APOGEE", "GROUND"}
Stages == {"ACCEPTED", "REJECTED", "EXECUTED", "DUPLICATE", "ALREADY_DONE"}
Acks   == [command : Commands, stage : Stages]

TypeOK ==
  /\ turn \in {"fsm", "receive", "deferred", "send"}
  /\ radio \in {"blocking", "ready", "busy", "gap"}
  /\ state \in States /\ abort \in BOOLEAN /\ deployFired \in BOOLEAN
  /\ ackQueue \in Seq(Acks) /\ Len(ackQueue) <= AckQueueDepth
  /\ recent \in Seq(Commands) /\ Len(recent) <= RecentCommandDepth
  /\ pendingArm \in Commands \cup {None} /\ pendingForce \in Commands \cup {None}
  /\ pendingReset \in Commands \cup {None}
  /\ MailboxTypeOK

(* The SX127x driver returns when the frame is sent, so that it is always  *)
(* ready between two steps ("blocking"); the SX1262 driver returns at once. *)
Init ==
  /\ turn = "fsm" /\ radio \in Radios /\ state = "INIT" /\ abort = FALSE /\ deployFired = FALSE
  /\ ackQueue = <<>> /\ recent = <<>>
  /\ pendingArm = None /\ pendingForce = None /\ pendingReset = None
  /\ MailboxInit

-----------------------------------------------------------------------------
(* The flight state machine's ticks. *)

RaiseAbort ==
  /\ turn = "fsm" /\ AbortMayRise /\ ~abort /\ abort' = TRUE
  /\ UNCHANGED <<turn, radio, state, deployFired, ackQueue, recent, pending, mailbox>>

FsmStep ==
  /\ turn = "fsm" /\ turn' \in {"fsm", "receive"}
  /\ UNCHANGED <<radio, abort, ackQueue, recent, pending>>

Aborting     == abort /\ state # "SAFE"
ResetPending == BenchResetBuild /\ resetRequest # None
ArmPending   == armRequest # None /\ state = "SAFE" /\ ~abort
ForcePending == forceRequest # None /\ state = "LAUNCH"

FsmAbort == FsmStep /\ Aborting /\ state' = "SAFE" /\ UNCHANGED <<deployFired, mailbox>>

FsmReset == FsmStep /\ ~Aborting /\ ResetPending /\ state' = "INIT" /\ HonourReset
            /\ UNCHANGED deployFired

FsmArm == FsmStep /\ ~Aborting /\ ~ResetPending /\ ArmPending /\ state' = "ARMED" /\ HonourArm
          /\ UNCHANGED deployFired

FsmForce == FsmStep /\ ~Aborting /\ ~ResetPending /\ ~ArmPending /\ ForcePending
            /\ state' = "APOGEE" /\ deployFired' = TRUE /\ HonourForce

(* Where a tick that honours nothing can lead. *)
NextStates(s) ==
  CASE s = "INIT" -> {"SAFE"}
    [] s = "ARMED" -> {"ARMED", "LAUNCH"}
    [] s = "LAUNCH" -> {"LAUNCH", "APOGEE"}
    [] s = "APOGEE" -> {"APOGEE", "GROUND"}
    [] OTHER -> {s}

FsmFlight ==
  /\ FsmStep /\ ~Aborting /\ ~ResetPending /\ ~ArmPending /\ ~ForcePending
  /\ state' \in NextStates(state)
  /\ deployFired' = (deployFired \/ state' = "APOGEE")
  /\ RefuseAll

-----------------------------------------------------------------------------
(* enqueueAck and rememberCommand.  A full queue refuses the new ack.      *)

\* Variant: off by one.
RoomForOneMore(queue) == Len(queue) <= AckQueueDepth
Room(queue) == Len(queue) < AckQueueDepth

Pushed(queue, command, stage) ==
  IF Room(queue) THEN Append(queue, [command |-> command, stage |-> stage]) ELSE queue

EnqueueAck(command, stage) == ackQueue' = Pushed(ackQueue, command, stage)

\* Variant: only the latest command is remembered.
LastRemembered(command) == <<command>>

(* The ring with command written over its oldest entry. *)
Remembered(command) ==
  LET longer == Append(recent, command)
  IN  IF Len(longer) > RecentCommandDepth THEN Tail(longer) ELSE longer

RememberCommand(command) == recent' = Remembered(command)

WasRecentlyProcessed(command) == \E i \in 1..Len(recent) : recent[i] = command

-----------------------------------------------------------------------------
(* radio.service, then receiveControl and handleCommand: at most one       *)
(* command a tick.  A transmission is over when the chip says so or its    *)
(* timeout passes; nothing is received while it lasts, nothing sent during *)
(* the gap that follows it.                                                *)

Serviced ==
  CASE radio = "busy" -> {"busy", "gap"}
    [] radio = "gap" -> {"gap", "ready"}
    [] OTHER -> {radio}

Serving == turn = "receive" /\ turn' = "deferred" /\ radio' \in Serviced /\ UNCHANGED flight

ReceiveNothing == Serving /\ UNCHANGED <<ackQueue, recent, pending, mailbox>>

Receiving == Serving /\ radio' # "busy"

(* A wrong tag, an expired, malformed or unknown command. *)
RejectUnread(c) ==
  Receiving /\ EnqueueAck(c, "REJECTED") /\ UNCHANGED <<recent, pending, mailbox>>

AnswerDuplicate(c) ==
  /\ Receiving /\ WasRecentlyProcessed(c) /\ EnqueueAck(c, "DUPLICATE")
  /\ UNCHANGED <<recent, pending, mailbox>>

New(c, id) == c.id = id /\ ~WasRecentlyProcessed(c)

(* validateArmFlightCommand *)
ArmAcceptable ==
  /\ state = "SAFE" /\ ~abort /\ armRequest = None /\ resetRequest = None
  /\ pendingArm = None /\ pendingReset = None

AcceptArm(c) ==
  /\ Receiving /\ New(c, "ARM") /\ ArmAcceptable
  /\ PostArm(c.seq) /\ pendingArm' = c
  /\ EnqueueAck(c, "ACCEPTED") /\ RememberCommand(c)
  /\ UNCHANGED <<pendingForce, pendingReset>>

RejectArm(c) ==
  /\ Receiving /\ New(c, "ARM") /\ ~ArmAcceptable
  /\ EnqueueAck(c, "REJECTED") /\ UNCHANGED <<recent, pending, mailbox>>

ForceDeployAlreadyActive == deployFired \/ state = "APOGEE"

AnswerForceDone(c) ==
  /\ Receiving /\ New(c, "FORCE") /\ ForceDeployAlreadyActive
  /\ RememberCommand(c) /\ EnqueueAck(c, "ALREADY_DONE")
  /\ UNCHANGED <<pending, mailbox>>

RejectForce(c) ==
  /\ Receiving /\ New(c, "FORCE") /\ ~ForceDeployAlreadyActive /\ state # "LAUNCH"
  /\ EnqueueAck(c, "REJECTED") /\ UNCHANGED <<recent, pending, mailbox>>

AcceptForce(c) ==
  /\ Receiving /\ New(c, "FORCE") /\ ~ForceDeployAlreadyActive /\ state = "LAUNCH"
  /\ PostForce(c.seq) /\ pendingForce' = c
  /\ EnqueueAck(c, "ACCEPTED") /\ RememberCommand(c)
  /\ UNCHANGED <<pendingArm, pendingReset>>

AcceptReset(c) ==
  /\ Receiving /\ New(c, "RESET") /\ BenchResetBuild
  /\ PostReset(c.seq) /\ pendingReset' = c
  /\ EnqueueAck(c, "ACCEPTED") /\ RememberCommand(c)
  /\ UNCHANGED <<pendingArm, pendingForce>>

(* Refused whatever the state, and remembered all the same. *)
RejectUnsupported(c) ==
  /\ Receiving
  /\ \/ New(c, "PROPULSION")
     \/ New(c, "RESET") /\ ~BenchResetBuild
  /\ RememberCommand(c) /\ EnqueueAck(c, "REJECTED") /\ UNCHANGED <<pending, mailbox>>

Receive(c) ==
  \/ RejectUnread(c) \/ AnswerDuplicate(c)
  \/ AcceptArm(c) \/ RejectArm(c)
  \/ AnswerForceDone(c) \/ RejectForce(c) \/ AcceptForce(c)
  \/ AcceptReset(c) \/ RejectUnsupported(c)

-----------------------------------------------------------------------------
(* enqueueDeferredCommandAcks: ARM, FORCE and RESET in turn.  An outcome   *)
(* that finds no room stays pending and is tried again at the next tick.   *)

ArmDone   == pendingArm # None /\ armExecuted = pendingArm.seq /\ state = "ARMED"
ArmDenied == pendingArm # None /\ armRejected = pendingArm.seq
ForceDone == pendingForce # None /\ forceExecuted = pendingForce.seq
ResetDone == pendingReset # None /\ resetExecuted = pendingReset.seq

\* Variant: an outcome that finds no room is given up.
Forgotten(awaited, known, queue) == IF known THEN None ELSE awaited

(* What is still awaited when the outcome is known and queue is as given. *)
StillAwaited(awaited, known, queue) == IF known /\ Room(queue) THEN None ELSE awaited

AfterArm ==
  IF ArmDone THEN Pushed(ackQueue, pendingArm, "EXECUTED")
  ELSE IF ArmDenied THEN Pushed(ackQueue, pendingArm, "REJECTED") ELSE ackQueue
AfterForce == IF ForceDone THEN Pushed(AfterArm, pendingForce, "EXECUTED") ELSE AfterArm
AfterReset == IF ResetDone THEN Pushed(AfterForce, pendingReset, "EXECUTED") ELSE AfterForce

EnqueueDeferredCommandAcks ==
  /\ turn = "deferred" /\ turn' = "send"
  /\ ackQueue' = AfterReset
  /\ pendingArm' = StillAwaited(pendingArm, ArmDone \/ ArmDenied, ackQueue)
  /\ pendingForce' = StillAwaited(pendingForce, ForceDone, AfterArm)
  /\ pendingReset' = StillAwaited(pendingReset, ResetDone, AfterForce)
  /\ UNCHANGED <<radio, flight, recent, mailbox>>

-----------------------------------------------------------------------------
(* sendAckIfQueued, and the telemetry frames that wait behind it.  The ack *)
(* leaves the queue only when the radio took it.                           *)

Sending == turn = "send" /\ turn' = "fsm" /\ UNCHANGED <<flight, recent, pending, mailbox>>

Idle        == radio \in {"blocking", "ready"}
Transmitted == IF radio = "ready" THEN "busy" ELSE radio

SendAck ==
  /\ Sending /\ Idle /\ ackQueue # <<>>
  /\ ackQueue' = Tail(ackQueue) /\ radio' = Transmitted

(* The radio may refuse a frame at any time.  A telemetry frame is tried   *)
(* when no ack went out.                                                   *)
SendNoAck ==
  /\ Sending /\ UNCHANGED ackQueue
  /\ radio' \in {radio, Transmitted}

Fsm == RaiseAbort \/ FsmAbort \/ FsmReset \/ FsmArm \/ FsmForce \/ FsmFlight

Next ==
  \/ Fsm
  \/ ReceiveNothing \/ \E c \in Commands : Receive(c)
  \/ EnqueueDeferredCommandAcks
  \/ SendAck \/ SendNoAck

Spec == Init /\ [][Next]_vars

(* The loop never stops ticking the state machine and the telemetry task;  *)
(* a transmission ends (the chip says so, or its timeout) and so does the  *)
(* gap after it; the radio does not refuse every ack; and the air is quiet *)
(* now and then: a command is longer on the air than a telemetry period,   *)
(* so no stream of commands takes every place an ack leaves in the queue.  *)
TransmissionEnds == turn = "receive" /\ Next /\ radio' # radio

Fairness ==
  /\ WF_vars(turn = "fsm" /\ turn' = "receive" /\ Next)
  /\ WF_vars(turn # "fsm" /\ Next)
  /\ SF_vars(TransmissionEnds)
  /\ SF_vars(SendAck)
  /\ SF_vars(ReceiveNothing /\ Room(ackQueue))

FairSpec == Spec /\ Fairness
=============================================================================
