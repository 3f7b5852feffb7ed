---------------------------- MODULE CommandHistory ----------------------------
(***************************************************************************)
(* CommandLink with an observer that knows which command each request      *)
(* stands for: the vehicle itself keeps only sequence numbers.             *)
(***************************************************************************)
EXTENDS CommandLink

VARIABLES
  posted,       \* the command behind the latest request of each kind
  outstanding,  \* commands accepted and not honoured since
  honoured,     \* commands the flight state machine has honoured
  repeated      \* ... more than once

history == <<posted, outstanding, honoured, repeated>>

Kinds == {"ARM", "FORCE", "RESET"}

HistoryInit ==
  /\ posted = [id \in Kinds |-> None]
  /\ outstanding = {} /\ honoured = {} /\ repeated = {}

Accepted(c) ==
  /\ posted' = [posted EXCEPT ![c.id] = c] /\ outstanding' = outstanding \cup {c}
  /\ UNCHANGED <<honoured, repeated>>

Honoured(id) ==
  /\ outstanding' = outstanding \ {posted[id]}
  /\ honoured' = honoured \cup {posted[id]} /\ repeated' = repeated \cup (honoured \cap {posted[id]})
  /\ UNCHANGED posted

RecordedFsm ==
  \/ FsmArm /\ Honoured("ARM")
  \/ FsmForce /\ Honoured("FORCE")
  \/ FsmReset /\ Honoured("RESET")
  \/ (RaiseAbort \/ FsmAbort \/ FsmFlight) /\ UNCHANGED history

RecordedReceive(c) ==
  \/ (AcceptArm(c) \/ AcceptForce(c) \/ AcceptReset(c)) /\ Accepted(c)
  \/ (\/ RejectUnread(c) \/ AnswerDuplicate(c) \/ RejectArm(c)
      \/ AnswerForceDone(c) \/ RejectForce(c) \/ RejectUnsupported(c)) /\ UNCHANGED history

RecordedNext(sent) ==
  \/ RecordedFsm
  \/ \E c \in sent : RecordedReceive(c)
  \/ (ReceiveNothing \/ EnqueueDeferredCommandAcks \/ SendAck \/ SendNoAck) /\ UNCHANGED history

HistorySpec == Init /\ HistoryInit /\ [][RecordedNext(Commands)]_<<vars, history>>

-----------------------------------------------------------------------------
Queued(c, stage) == \E i \in 1..Len(ackQueue) : ackQueue[i] = [command |-> c, stage |-> stage]

(* An outcome is announced for the very command that was honoured, after   *)
(* it was: not for one that shares its sequence number, not for one whose  *)
(* request a reset or an abort swept away.                                 *)
AckTruthful ==
  [][turn = "deferred" => \A c \in Commands :
       Queued(c, "EXECUTED")' /\ ~Queued(c, "EXECUTED") => c \in honoured \ outstanding
    ]_<<vars, history>>

(* A command retransmitted, delayed or repeated by the channel is honoured *)
(* once.                                                                   *)
ExecutedOnce == repeated = {}
=============================================================================
