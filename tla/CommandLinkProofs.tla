-------------------------- MODULE CommandLinkProofs --------------------------
(***************************************************************************)
(* CommandHistory for every set of commands and every size of the queues:  *)
(* its types, that an outcome is announced for the command it belongs to,  *)
(* and that no command is honoured twice while the ring of remembered      *)
(* commands can hold those that are sent.                                  *)
(***************************************************************************)
EXTENDS MCCommandLink, FiniteSetTheorems, TLAPS

HistoryTypeOK ==
  /\ posted \in [Kinds -> Commands \cup {None}]
  /\ outstanding \subseteq Commands /\ honoured \subseteq Commands /\ repeated \subseteq Commands

(* What is requested, awaited or executed under a kind is about the latest *)
(* command of that kind.                                                   *)
Belongs(id, request, awaited, executed) ==
  /\ posted[id] # None => posted[id].id = id
  /\ request # None => posted[id] # None
  /\ awaited # None => awaited = posted[id]
  /\ executed # None => posted[id] \in honoured \ outstanding

OneCommandEach ==
  /\ Belongs("ARM", armRequest, pendingArm, armExecuted)
  /\ Belongs("FORCE", forceRequest, pendingForce, forceExecuted)
  /\ Belongs("RESET", resetRequest, pendingReset, resetExecuted)

IInv == TypeOK /\ HistoryTypeOK /\ OneCommandEach

Step == [RecordedNext(Commands)]_<<vars, history>>

-----------------------------------------------------------------------------
(* Types. *)

LEMMA QueuesGrow ==
  ASSUME NEW queue \in Seq(Acks), Len(queue) <= AckQueueDepth,
         NEW command \in Commands, NEW stage \in Stages
  PROVE  /\ Pushed(queue, command, stage) \in Seq(Acks)
         /\ Len(Pushed(queue, command, stage)) <= AckQueueDepth
  <1>1. [command |-> command, stage |-> stage] \in Acks
    BY DEF Acks
  <1> QED BY <1>1, LinkAssumption DEF Pushed, Room

LEMMA RingKeepsItsSize ==
  ASSUME recent \in Seq(Commands), Len(recent) <= RecentCommandDepth, NEW c \in Commands
  PROVE  Remembered(c) \in Seq(Commands) /\ Len(Remembered(c)) <= RecentCommandDepth
  BY LinkAssumption DEF Remembered

LEMMA CommandFields ==
  ASSUME NEW c \in Commands
  PROVE  c.seq \in Seqs /\ c.seq # None /\ c # None
  BY LinkAssumption, NoneAssumption

LEMMA FsmTypes ==
  ASSUME TypeOK, Fsm
  PROVE  TypeOK'
  <1> USE DEF TypeOK, MailboxTypeOK, SeqOrNone, flight, pending, mailbox
  <1>1. CASE RaiseAbort
    BY <1>1 DEF RaiseAbort
  <1>2. CASE FsmAbort
    BY <1>2 DEF FsmAbort, FsmStep, States
  <1>3. CASE FsmReset
    BY <1>3 DEF FsmReset, FsmStep, HonourReset, States
  <1>4. CASE FsmArm
    BY <1>4 DEF FsmArm, FsmStep, HonourArm, States
  <1>5. CASE FsmForce
    BY <1>5 DEF FsmForce, FsmStep, HonourForce, RefuseArm, States
  <1>6. CASE FsmFlight
    <2>1. state' \in States
      BY <1>6 DEF FsmFlight, NextStates, States
    <2>2. MailboxTypeOK'
      BY <1>6 DEF FsmFlight, RefuseAll, RefuseArm
    <2>3. deployFired' \in BOOLEAN /\ turn' \in {"fsm", "receive"}
          /\ UNCHANGED <<radio, abort, ackQueue, recent, pending>>
      BY <1>6 DEF FsmFlight, FsmStep
    <2> QED BY <2>1, <2>2, <2>3
  <1> QED BY <1>1, <1>2, <1>3, <1>4, <1>5, <1>6 DEF Fsm

LEMMA ReceiveTypes ==
  ASSUME TypeOK, NEW c \in Commands, Receive(c)
  PROVE  TypeOK'
  <1>1. turn' = "deferred" /\ radio' \in {"blocking", "ready", "busy", "gap"} /\ UNCHANGED flight
    BY DEF Receive, RejectUnread, AnswerDuplicate, AcceptArm, RejectArm, AnswerForceDone, RejectForce,
           AcceptForce, AcceptReset, RejectUnsupported, Receiving, Serving, Serviced, TypeOK
  <1>2. PICK stage \in Stages : ackQueue' = Pushed(ackQueue, c, stage)
    BY DEF Receive, RejectUnread, AnswerDuplicate, AcceptArm, RejectArm, AnswerForceDone, RejectForce,
           AcceptForce, AcceptReset, RejectUnsupported, EnqueueAck, Stages
  <1>3. ackQueue' \in Seq(Acks) /\ Len(ackQueue') <= AckQueueDepth
    BY <1>2, QueuesGrow DEF TypeOK
  <1>4. recent' \in Seq(Commands) /\ Len(recent') <= RecentCommandDepth
    <2>1. recent' = recent \/ recent' = Remembered(c)
      BY DEF Receive, RejectUnread, AnswerDuplicate, AcceptArm, RejectArm, AnswerForceDone, RejectForce,
             AcceptForce, AcceptReset, RejectUnsupported, RememberCommand
    <2> QED BY <2>1, RingKeepsItsSize DEF TypeOK
  <1>5. /\ pendingArm' \in {pendingArm, c} /\ pendingForce' \in {pendingForce, c}
        /\ pendingReset' \in {pendingReset, c}
    BY DEF Receive, RejectUnread, AnswerDuplicate, AcceptArm, RejectArm, AnswerForceDone, RejectForce,
           AcceptForce, AcceptReset, RejectUnsupported, pending
  <1>6. MailboxTypeOK'
    BY CommandFields
       DEF Receive, RejectUnread, AnswerDuplicate, AcceptArm, RejectArm, AnswerForceDone, RejectForce,
           AcceptForce, AcceptReset, RejectUnsupported, PostArm, PostForce, PostReset, mailbox,
           TypeOK, MailboxTypeOK, SeqOrNone
  <1> QED BY <1>1, <1>3, <1>4, <1>5, <1>6 DEF TypeOK, flight

(* The outcomes are queued one behind the other.                           *)
LEMMA OutcomesQueued ==
  ASSUME TypeOK
  PROVE  /\ AfterArm \in Seq(Acks) /\ Len(AfterArm) <= AckQueueDepth
         /\ AfterForce \in Seq(Acks) /\ Len(AfterForce) <= AckQueueDepth
         /\ AfterReset \in Seq(Acks) /\ Len(AfterReset) <= AckQueueDepth
  <1>1. "EXECUTED" \in Stages /\ "REJECTED" \in Stages
    BY DEF Stages
  <1>2. AfterArm \in Seq(Acks) /\ Len(AfterArm) <= AckQueueDepth
    BY <1>1, QueuesGrow DEF AfterArm, TypeOK, ArmDone, ArmDenied
  <1>3. AfterForce \in Seq(Acks) /\ Len(AfterForce) <= AckQueueDepth
    BY <1>1, <1>2, QueuesGrow DEF AfterForce, TypeOK, ForceDone
  <1>4. AfterReset \in Seq(Acks) /\ Len(AfterReset) <= AckQueueDepth
    BY <1>1, <1>3, QueuesGrow DEF AfterReset, TypeOK, ResetDone
  <1> QED BY <1>2, <1>3, <1>4

LEMMA OtherTypes ==
  ASSUME TypeOK, ReceiveNothing \/ EnqueueDeferredCommandAcks \/ SendAck \/ SendNoAck
  PROVE  TypeOK'
  <1>1. CASE ReceiveNothing
    BY <1>1 DEF ReceiveNothing, Serving, Serviced, TypeOK, MailboxTypeOK, flight, pending, mailbox
  <1>2. CASE EnqueueDeferredCommandAcks
    BY <1>2, OutcomesQueued DEF EnqueueDeferredCommandAcks, StillAwaited, TypeOK, MailboxTypeOK, flight, mailbox
  <1>3. CASE SendAck
    <2>1. ackQueue' \in Seq(Acks) /\ Len(ackQueue') <= AckQueueDepth
      BY <1>3, LinkAssumption DEF SendAck, TypeOK
    <2> QED BY <1>3, <2>1 DEF SendAck, Sending, Transmitted, TypeOK, MailboxTypeOK, flight, pending, mailbox
  <1>4. CASE SendNoAck
    BY <1>4 DEF SendNoAck, Sending, Transmitted, TypeOK, MailboxTypeOK, flight, pending, mailbox
  <1> QED BY <1>1, <1>2, <1>3, <1>4

LEMMA RecordedStep ==
  ASSUME Step
  PROVE  \/ Fsm \/ \E c \in Commands : Receive(c)
         \/ ReceiveNothing \/ EnqueueDeferredCommandAcks \/ SendAck \/ SendNoAck
         \/ UNCHANGED <<vars, history>>
  BY DEF Step, RecordedNext, RecordedFsm, RecordedReceive, Fsm, Receive

LEMMA TypesKept == TypeOK /\ Step => TypeOK'
  <1> SUFFICES ASSUME TypeOK, Step
               PROVE  TypeOK'
    OBVIOUS
  <1>1. CASE UNCHANGED <<vars, history>>
    BY <1>1 DEF vars, flight, pending, mailbox, TypeOK, MailboxTypeOK
  <1> QED BY <1>1, RecordedStep, FsmTypes, ReceiveTypes, OtherTypes

-----------------------------------------------------------------------------
(* Requests, outcomes and the commands they belong to. *)

LEMMA Initially == Init /\ HistoryInit => IInv
  <1> SUFFICES ASSUME Init, HistoryInit
               PROVE  IInv
    OBVIOUS
  <1>1. TypeOK
    <2>1. /\ ackQueue \in Seq(Acks) /\ Len(ackQueue) <= AckQueueDepth
          /\ recent \in Seq(Commands) /\ Len(recent) <= RecentCommandDepth
      BY LinkAssumption DEF Init
    <2>2. radio \in {"blocking", "ready"}
      BY LinkAssumption DEF Init
    <2>3. MailboxTypeOK
      BY DEF Init, MailboxInit, MailboxTypeOK, SeqOrNone
    <2> QED BY <2>1, <2>2, <2>3 DEF Init, TypeOK, States
  <1>2. HistoryTypeOK
    BY DEF HistoryInit, HistoryTypeOK
  <1>3. OneCommandEach
    BY DEF Init, MailboxInit, HistoryInit, OneCommandEach, Belongs, Kinds
  <1> QED BY <1>1, <1>2, <1>3 DEF IInv

(* Honouring a command: its request is gone, the others are untouched or   *)
(* gone.                                                                   *)
LEMMA HonouredKept ==
  ASSUME IInv, RecordedFsm
  PROVE  HistoryTypeOK' /\ OneCommandEach'
  <1> USE DEF IInv, HistoryTypeOK, OneCommandEach, Belongs
  <1>1. /\ UNCHANGED pending
        /\ \A id \in Kinds : posted[id] \in Commands \cup {None}
    BY DEF RecordedFsm, RaiseAbort, FsmAbort, FsmReset, FsmArm, FsmForce, FsmFlight, FsmStep
  <1>2. CASE FsmArm /\ Honoured("ARM")
    <2>1. posted["ARM"] \in Commands /\ posted["ARM"] # None
      BY <1>1, <1>2 DEF FsmArm, ArmPending, Kinds
    <2>2. HistoryTypeOK'
      BY <1>2, <2>1 DEF Honoured
    <2>3. \A id \in {"FORCE", "RESET"} : posted[id] # None => posted[id] # posted["ARM"]
      BY <2>1
    <2>4. OneCommandEach'
      BY <1>1, <1>2, <2>1, <2>3 DEF Honoured, FsmArm, HonourArm, pending
    <2> QED BY <2>2, <2>4
  <1>3. CASE FsmForce /\ Honoured("FORCE")
    <2>1. posted["FORCE"] \in Commands /\ posted["FORCE"] # None
      BY <1>1, <1>3 DEF FsmForce, ForcePending, Kinds
    <2>2. HistoryTypeOK'
      BY <1>3, <2>1 DEF Honoured
    <2>3. \A id \in {"ARM", "RESET"} : posted[id] # None => posted[id] # posted["FORCE"]
      BY <2>1
    <2>4. OneCommandEach'
      BY <1>1, <1>3, <2>1, <2>3 DEF Honoured, FsmForce, HonourForce, RefuseArm, pending
    <2> QED BY <2>2, <2>4
  <1>4. CASE FsmReset /\ Honoured("RESET")
    <2>1. posted["RESET"] \in Commands /\ posted["RESET"] # None
      BY <1>1, <1>4 DEF FsmReset, ResetPending, Kinds
    <2>2. HistoryTypeOK'
      BY <1>4, <2>1 DEF Honoured
    <2>3. OneCommandEach'
      BY <1>1, <1>4, <2>1 DEF Honoured, FsmReset, HonourReset, pending
    <2> QED BY <2>2, <2>3
  <1>5. CASE (RaiseAbort \/ FsmAbort \/ FsmFlight) /\ UNCHANGED history
    <2>1. UNCHANGED <<posted, outstanding, honoured, repeated>> /\ UNCHANGED pending
      BY <1>1, <1>5 DEF history
    <2>2. /\ armRequest' \in {armRequest, None} /\ forceRequest' \in {forceRequest, None}
          /\ resetRequest' \in {resetRequest, None}
          /\ armExecuted' \in {armExecuted, None} /\ UNCHANGED <<forceExecuted, resetExecuted>>
      BY <1>5 DEF RaiseAbort, FsmAbort, FsmFlight, RefuseAll, RefuseArm, mailbox
    <2> QED BY <2>1, <2>2 DEF pending
  <1> QED BY <1>2, <1>3, <1>4, <1>5 DEF RecordedFsm

(* Accepting a command: it is posted, awaited and outstanding.             *)
LEMMA AcceptedKept ==
  ASSUME IInv, NEW c \in Commands, RecordedReceive(c)
  PROVE  HistoryTypeOK' /\ OneCommandEach'
  <1> USE DEF IInv, HistoryTypeOK, OneCommandEach, Belongs
  <1>1. c # None /\ c.seq # None
    BY CommandFields
  <1>2. CASE AcceptArm(c) /\ Accepted(c)
    <2>1. c.id = "ARM" /\ posted' = [posted EXCEPT !["ARM"] = c]
      BY <1>2 DEF AcceptArm, New, Accepted
    <2> QED BY <1>1, <1>2, <2>1 DEF AcceptArm, Accepted, PostArm, Kinds
  <1>3. CASE AcceptForce(c) /\ Accepted(c)
    <2>1. c.id = "FORCE" /\ posted' = [posted EXCEPT !["FORCE"] = c]
      BY <1>3 DEF AcceptForce, New, Accepted
    <2> QED BY <1>1, <1>3, <2>1 DEF AcceptForce, Accepted, PostForce, Kinds
  <1>4. CASE AcceptReset(c) /\ Accepted(c)
    <2>1. c.id = "RESET" /\ posted' = [posted EXCEPT !["RESET"] = c]
      BY <1>4 DEF AcceptReset, New, Accepted
    <2> QED BY <1>1, <1>4, <2>1 DEF AcceptReset, Accepted, PostReset, Kinds
  <1>5. CASE /\ \/ RejectUnread(c) \/ AnswerDuplicate(c) \/ RejectArm(c)
                \/ AnswerForceDone(c) \/ RejectForce(c) \/ RejectUnsupported(c)
             /\ UNCHANGED history
    <2>1. UNCHANGED <<pending, mailbox>>
      BY <1>5 DEF RejectUnread, AnswerDuplicate, RejectArm, AnswerForceDone, RejectForce, RejectUnsupported
    <2> QED BY <1>5, <2>1 DEF history, pending, mailbox
  <1> QED BY <1>2, <1>3, <1>4, <1>5 DEF RecordedReceive

LEMMA Stepwise == IInv /\ Step => IInv'
  <1> SUFFICES ASSUME IInv, Step
               PROVE  IInv'
    OBVIOUS
  <1>1. TypeOK'
    BY TypesKept DEF IInv
  <1>2. HistoryTypeOK' /\ OneCommandEach'
    <2>1. CASE RecordedFsm
      BY <2>1, HonouredKept
    <2>2. CASE \E c \in Commands : RecordedReceive(c)
      BY <2>2, AcceptedKept
    <2>3. CASE (ReceiveNothing \/ EnqueueDeferredCommandAcks \/ SendAck \/ SendNoAck) /\ UNCHANGED history
      <3>1. /\ UNCHANGED <<mailbox, history>>
            /\ pendingArm' \in {pendingArm, None} /\ pendingForce' \in {pendingForce, None}
            /\ pendingReset' \in {pendingReset, None}
        BY <2>3 DEF ReceiveNothing, EnqueueDeferredCommandAcks, StillAwaited, SendAck, SendNoAck, Sending, pending
      <3> QED BY <3>1 DEF IInv, HistoryTypeOK, OneCommandEach, Belongs, mailbox, history
    <2>4. CASE UNCHANGED <<vars, history>>
      BY <2>4 DEF vars, IInv, HistoryTypeOK, OneCommandEach, Belongs, pending, mailbox, history
    <2> QED BY <2>1, <2>2, <2>3, <2>4 DEF Step, RecordedNext
  <1> QED BY <1>1, <1>2 DEF IInv

THEOREM Invariance == HistorySpec => []IInv
  BY Initially, Stepwise, PTL DEF HistorySpec, Step

(* No queue or ring grows beyond its size, and what is awaited, requested  *)
(* or answered is a command or nothing (TelemetryTask, FlightState).       *)
THEOREM Types == HistorySpec => []TypeOK
  <1>1. IInv => TypeOK
    BY DEF IInv
  <1> QED BY <1>1, Invariance, PTL

(* An ack that has just been queued is in the longer queue and not in the  *)
(* one before it.                                                          *)
LEMMA WhatIsPushed ==
  ASSUME NEW queue \in Seq(Acks), NEW ack, NEW command, NEW stage,
         NEW i \in 1..Len(Pushed(queue, command, stage)), Pushed(queue, command, stage)[i] = ack
  PROVE  (\E k \in 1..Len(queue) : queue[k] = ack) \/ ack = [command |-> command, stage |-> stage]
  BY DEF Pushed

LEMMA NewOutcome ==
  ASSUME TypeOK, NEW c, NEW i \in 1..Len(AfterReset),
         AfterReset[i] = [command |-> c, stage |-> "EXECUTED"], ~Queued(c, "EXECUTED")
  PROVE  \/ ArmDone /\ c = pendingArm
         \/ ForceDone /\ c = pendingForce
         \/ ResetDone /\ c = pendingReset
  <1> DEFINE ack == [command |-> c, stage |-> "EXECUTED"]
             In(queue) == \E k \in 1..Len(queue) : queue[k] = ack
  <1>1. AfterArm \in Seq(Acks) /\ AfterForce \in Seq(Acks) /\ ackQueue \in Seq(Acks)
    BY OutcomesQueued DEF TypeOK
  <1>2. ASSUME NEW queue \in Seq(Acks), NEW command, NEW stage, In(Pushed(queue, command, stage))
        PROVE  In(queue) \/ (command = c /\ stage = "EXECUTED")
    <2>1. In(queue) \/ ack = [command |-> command, stage |-> stage]
      <3> HIDE DEF ack
      <3> QED BY <1>2, WhatIsPushed
    <2> QED BY <2>1
  <1>3. ~In(ackQueue) /\ In(AfterReset)
    BY DEF Queued
  <1> HIDE DEF In
  <1>4. CASE ArmDone /\ c = pendingArm
    BY <1>4
  <1>5. CASE ~(ArmDone /\ c = pendingArm)
    <2>1. ~In(AfterArm)
      BY <1>1, <1>2, <1>3, <1>5 DEF AfterArm
    <2>2. In(AfterForce) => ForceDone /\ c = pendingForce
      BY <1>1, <1>2, <2>1 DEF AfterForce
    <2>3. In(AfterForce) \/ (ResetDone /\ c = pendingReset)
      BY <1>1, <1>2, <1>3 DEF AfterReset
    <2> QED BY <2>2, <2>3
  <1> QED BY <1>4, <1>5

(* An outcome is announced for the very command that was honoured, after   *)
(* it was (enqueueDeferredCommandAcks): sequence numbers may repeat, but   *)
(* an outcome that is set belongs to the command that is awaited.          *)
THEOREM OutcomesTruthful == HistorySpec => AckTruthful
  <1>1. ASSUME IInv, Step
        PROVE  turn = "deferred" => \A c \in Commands :
                 Queued(c, "EXECUTED")' /\ ~Queued(c, "EXECUTED") => c \in honoured \ outstanding
    <2> SUFFICES ASSUME turn = "deferred", NEW c \in Commands, Queued(c, "EXECUTED")',
                        ~Queued(c, "EXECUTED")
                 PROVE  c \in honoured \ outstanding
      OBVIOUS
    <2>1. CASE ackQueue' = ackQueue
      BY <2>1 DEF Queued
    <2>2. CASE ackQueue' # ackQueue
      <3>1. EnqueueDeferredCommandAcks
        BY <1>1, <2>2
           DEF Step, RecordedNext, RecordedFsm, RaiseAbort, FsmAbort, FsmReset, FsmArm, FsmForce, FsmFlight,
               FsmStep, RecordedReceive, RejectUnread, AnswerDuplicate, AcceptArm, RejectArm, AnswerForceDone,
               RejectForce, AcceptForce, AcceptReset, RejectUnsupported, Receiving, Serving, ReceiveNothing,
               SendAck, SendNoAck, Sending, vars
      <3>2. \E i \in 1..Len(AfterReset) : AfterReset[i] = [command |-> c, stage |-> "EXECUTED"]
        BY <3>1 DEF EnqueueDeferredCommandAcks, Queued
      <3>3. \/ ArmDone /\ c = pendingArm
            \/ ForceDone /\ c = pendingForce
            \/ ResetDone /\ c = pendingReset
        BY <1>1, <3>2, NewOutcome DEF IInv
      <3> QED BY <1>1, <3>3, CommandFields
              DEF ArmDone, ForceDone, ResetDone, IInv, OneCommandEach, Belongs
    <2> QED BY <2>1, <2>2
  <1> QED BY <1>1, Invariance, PTL DEF HistorySpec, AckTruthful, Step

-----------------------------------------------------------------------------
(* What is remembered. *)

Distinct(s)  == \A i, k \in 1..Len(s) : s[i] = s[k] => i = k
Remembers(c) == \E i \in 1..Len(recent) : recent[i] = c

(* A request that waits is for a command that is new and remembered.       *)
WaitsNew(id, request) == request # None => posted[id] \notin honoured /\ Remembers(posted[id])

Memory ==
  /\ Distinct(recent)
  /\ \A c \in honoured : Remembers(c)
  /\ WaitsNew("ARM", armRequest) /\ WaitsNew("FORCE", forceRequest) /\ WaitsNew("RESET", resetRequest)
  /\ repeated = {}

(* The ring has a place for every command that can be sent.                *)
RingLargeEnough == IsFiniteSet(Commands) /\ Cardinality(Commands) <= RecentCommandDepth

LEMMA RoomToRemember ==
  ASSUME RingLargeEnough, TypeOK, Distinct(recent), NEW c \in Commands, ~Remembers(c)
  PROVE  Remembered(c) = Append(recent, c)
  <1> DEFINE longer == Append(recent, c)
             n == Len(recent) + 1
  <1>1. n \in Nat /\ longer \in [1..n -> Commands] /\ Len(longer) = n
    <2>1. longer \in Seq(Commands) /\ Len(longer) = n /\ n \in Nat
      BY DEF TypeOK
    <2> HIDE DEF longer, n
    <2> QED BY <2>1
  <1>2. Distinct(longer)
    BY DEF Distinct, Remembers, TypeOK
  <1>3. ~(n > RecentCommandDepth)
    <2> SUFFICES ASSUME n > RecentCommandDepth
                 PROVE  FALSE
      OBVIOUS
    <2>1. IsFiniteSet(1..n) /\ Cardinality(1..n) = n
      <3> HIDE DEF n
      <3>1. 1 \in Int /\ n \in Int /\ ~(1 > n) /\ n - 1 + 1 = n
        BY <1>1, LinkAssumption
      <3> QED BY <3>1, FS_Interval
    <2>2. Cardinality(Commands) < Cardinality(1..n)
      <3>1. Cardinality(Commands) \in Nat
        BY FS_CardinalityType DEF RingLargeEnough
      <3> HIDE DEF n
      <3> QED BY <1>1, <2>1, <3>1, LinkAssumption DEF RingLargeEnough
    <2>3. \E i, k \in 1..n : i # k /\ longer[i] = longer[k]
      <3> HIDE DEF n, longer
      <3> QED BY <1>1, <2>1, <2>2, FS_PigeonHole DEF RingLargeEnough
    <2> QED BY <1>1, <1>2, <2>3 DEF Distinct
  <1> QED BY <1>1, <1>3 DEF Remembered

LEMMA NothingForgotten ==
  ASSUME RingLargeEnough, TypeOK, Distinct(recent), NEW c \in Commands, ~Remembers(c),
         recent' = Remembered(c)
  PROVE  Distinct(recent') /\ Remembers(c)' /\ \A d : Remembers(d) => Remembers(d)'
  <1>1. recent' = Append(recent, c)
    BY RoomToRemember
  <1>2. Len(recent') = Len(recent) + 1 /\ recent'[Len(recent) + 1] = c
        /\ \A i \in 1..Len(recent) : recent'[i] = recent[i]
    BY <1>1 DEF TypeOK
  <1>3. Len(recent) \in Nat
    BY DEF TypeOK
  <1>4. Distinct(recent')
    BY <1>2, <1>3 DEF Distinct, Remembers
  <1>5. Remembers(c)'
    BY <1>2, <1>3 DEF Remembers
  <1>6. \A d : Remembers(d) => Remembers(d)'
    BY <1>2, <1>3 DEF Remembers
  <1> QED BY <1>4, <1>5, <1>6

LEMMA MemoryKept ==
  ASSUME RingLargeEnough, IInv, Memory, Step
  PROVE  Memory'
  <1> USE DEF IInv, HistoryTypeOK, OneCommandEach, Belongs
  <1>1. CASE RecordedFsm
    <2>1. recent' = recent
      BY <1>1 DEF RecordedFsm, RaiseAbort, FsmAbort, FsmReset, FsmArm, FsmForce, FsmFlight, FsmStep
    <2>2. Distinct(recent)' /\ \A c : Remembers(c)' <=> Remembers(c)
      BY <2>1 DEF Memory, Distinct, Remembers
    <2>3. CASE FsmArm /\ Honoured("ARM")
      <3>1. posted["ARM"] # None /\ posted["ARM"] \notin honoured /\ Remembers(posted["ARM"])
        BY <2>3 DEF FsmArm, ArmPending, Memory, WaitsNew
      <3>2. \A id \in {"FORCE", "RESET"} : posted[id] # None => posted[id] # posted["ARM"]
        BY <3>1
      <3> QED BY <2>2, <2>3, <3>1, <3>2 DEF FsmArm, HonourArm, Honoured, Memory, WaitsNew
    <2>4. CASE FsmForce /\ Honoured("FORCE")
      <3>1. posted["FORCE"] # None /\ posted["FORCE"] \notin honoured /\ Remembers(posted["FORCE"])
        BY <2>4 DEF FsmForce, ForcePending, Memory, WaitsNew
      <3>2. armRequest' = None /\ forceRequest' = None /\ resetRequest' = None
        BY <2>4 DEF FsmForce, HonourForce, RefuseArm
      <3> QED BY <2>2, <2>4, <3>1, <3>2 DEF Honoured, Memory, WaitsNew
    <2>5. CASE FsmReset /\ Honoured("RESET")
      <3>1. posted["RESET"] # None /\ posted["RESET"] \notin honoured /\ Remembers(posted["RESET"])
        BY <2>5 DEF FsmReset, ResetPending, Memory, WaitsNew
      <3>2. armRequest' = None /\ forceRequest' = None /\ resetRequest' = None
        BY <2>5 DEF FsmReset, HonourReset
      <3> QED BY <2>2, <2>5, <3>1, <3>2 DEF Honoured, Memory, WaitsNew
    <2>6. CASE (RaiseAbort \/ FsmAbort \/ FsmFlight) /\ UNCHANGED history
      <3>1. /\ armRequest' \in {armRequest, None} /\ forceRequest' \in {forceRequest, None}
            /\ resetRequest' \in {resetRequest, None}
        BY <2>6 DEF RaiseAbort, FsmAbort, FsmFlight, RefuseAll, RefuseArm, mailbox
      <3> QED BY <2>2, <2>6, <3>1 DEF history, Memory, WaitsNew
    <2> QED BY <1>1, <2>3, <2>4, <2>5, <2>6 DEF RecordedFsm
  <1>2. ASSUME NEW c \in Commands, RecordedReceive(c)
        PROVE  Memory'
    <2>1. WasRecentlyProcessed(c) <=> Remembers(c)
      BY DEF WasRecentlyProcessed, Remembers
    <2>2. recent' = recent \/ (~Remembers(c) /\ recent' = Remembered(c))
      BY <1>2, <2>1
         DEF RecordedReceive, RejectUnread, AnswerDuplicate, AcceptArm, RejectArm, AnswerForceDone, RejectForce,
             AcceptForce, AcceptReset, RejectUnsupported, RememberCommand, New
    <2>3. Distinct(recent)' /\ \A d : Remembers(d) => Remembers(d)'
      <3>1. CASE recent' = recent
        BY <3>1 DEF Memory, Distinct, Remembers
      <3>2. CASE ~Remembers(c) /\ recent' = Remembered(c)
        BY <3>2, NothingForgotten DEF Memory
      <3> QED BY <2>2, <3>1, <3>2
    <2>4. CASE (AcceptArm(c) \/ AcceptForce(c) \/ AcceptReset(c)) /\ Accepted(c)
      <3>1. ~Remembers(c) /\ recent' = Remembered(c) /\ c.id \in Kinds
        BY <2>1, <2>4 DEF AcceptArm, AcceptForce, AcceptReset, New, RememberCommand, Kinds
      <3>2. Remembers(c)' /\ c \notin honoured
        BY <3>1, NothingForgotten DEF Memory
      <3>3. posted' = [posted EXCEPT ![c.id] = c] /\ UNCHANGED <<honoured, repeated>>
        BY <2>4 DEF Accepted
      <3>4. \A id \in Kinds : posted'[id] = IF id = c.id THEN c ELSE posted[id]
        BY <3>1, <3>3
      <3>5. /\ c.id # "ARM" => armRequest' = armRequest
            /\ c.id # "FORCE" => forceRequest' = forceRequest
            /\ c.id # "RESET" => resetRequest' = resetRequest
        BY <2>4 DEF AcceptArm, AcceptForce, AcceptReset, New, PostArm, PostForce, PostReset
      <3> QED BY <2>3, <3>2, <3>3, <3>4, <3>5 DEF Memory, WaitsNew, Kinds
    <2>5. CASE /\ \/ RejectUnread(c) \/ AnswerDuplicate(c) \/ RejectArm(c)
                  \/ AnswerForceDone(c) \/ RejectForce(c) \/ RejectUnsupported(c)
               /\ UNCHANGED history
      <3>1. UNCHANGED mailbox
        BY <2>5 DEF RejectUnread, AnswerDuplicate, RejectArm, AnswerForceDone, RejectForce, RejectUnsupported
      <3> QED BY <2>3, <2>5, <3>1 DEF Memory, WaitsNew, mailbox, history
    <2> QED BY <1>2, <2>4, <2>5 DEF RecordedReceive
  <1>3. CASE \/ UNCHANGED <<vars, history>>
             \/ ReceiveNothing \/ EnqueueDeferredCommandAcks \/ SendAck \/ SendNoAck
    <2>1. UNCHANGED <<recent, mailbox>>
      BY <1>3 DEF vars, ReceiveNothing, EnqueueDeferredCommandAcks, SendAck, SendNoAck, Sending
    <2>2. CASE UNCHANGED history
      BY <2>1, <2>2 DEF history, mailbox, Memory, WaitsNew, Distinct, Remembers
    <2>3. CASE ~UNCHANGED history
      BY <1>1, <1>2, <2>3 DEF Step, RecordedNext
    <2> QED BY <2>2, <2>3
  <1> QED BY <1>1, <1>2, <1>3 DEF Step, RecordedNext

(* A command that the channel repeats, delays or reorders, or that the     *)
(* ground station sends again, is honoured once (wasRecentlyProcessed,     *)
(* rememberCommand), as long as no more commands are sent than the ring    *)
(* remembers.                                                              *)
THEOREM HonouredOnce ==
  ASSUME RingLargeEnough
  PROVE  HistorySpec => []ExecutedOnce
  <1>1. Init /\ HistoryInit => Memory
    BY DEF Init, HistoryInit, MailboxInit, Memory, WaitsNew, Distinct
  <1>2. IInv /\ Memory /\ Step => Memory'
    BY MemoryKept
  <1>3. Memory => ExecutedOnce
    BY DEF Memory, ExecutedOnce
  <1> QED BY <1>1, <1>2, <1>3, Invariance, PTL DEF HistorySpec, Step

-----------------------------------------------------------------------------
(* What the runs send is among what the theorems are about. *)
LEMMA RunsAreRecorded ==
  ASSUME AllCommands \subseteq Commands, Scenarios \subseteq {"resets", "forces", "flight", "arms"}
  PROVE  MCSpec => HistorySpec
  <1>1. MCInit => Init /\ HistoryInit /\ scenario \in Scenarios
    BY DEF MCInit
  <1>2. scenario \in Scenarios /\ [MCNext]_<<vars, history, scenario>> => (scenario \in Scenarios)'
    BY DEF MCNext
  <1>3. scenario \in Scenarios => Sent \subseteq Commands
    BY DEF Sent, AllCommands
  <1>4. scenario \in Scenarios /\ [MCNext]_<<vars, history, scenario>>
          => [RecordedNext(Commands)]_<<vars, history>>
    BY <1>3 DEF MCNext, RecordedNext
  <1> QED BY <1>1, <1>2, <1>4, PTL DEF MCSpec, HistorySpec
=============================================================================
