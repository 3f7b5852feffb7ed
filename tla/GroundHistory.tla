---------------------------- MODULE GroundHistory ----------------------------
(***************************************************************************)
(* GroundLink with an observer that knows what the vehicle has executed.   *)
(***************************************************************************)
EXTENDS GroundLink

VARIABLES
  executed,    \* commands the vehicle has executed
  lately,      \* ... since it was switched on
  again        \* ... more than once

history == <<executed, lately, again>>

HistoryInit == executed = {} /\ lately = {} /\ again = {}

RecordedDeploy(c) ==
  /\ Deploy(c) /\ executed' = executed \cup {c} /\ lately' = lately \cup {c}
  /\ again' = again \cup (lately \cap {c})

(* A new command that has the identity of an old one is another command. *)
RecordedServe ==
  \/ /\ \E id \in Ids, moment \in Moments : StartCommand(id, moment)
     /\ lately' = lately \ {pending'} /\ UNCHANGED <<executed, again>>
  \/ (Retransmit \/ GiveUp \/ Wait) /\ UNCHANGED history

RecordedRestart ==
  \/ RestartGround /\ UNCHANGED history
  \/ RestartVehicle /\ lately' = {} /\ UNCHANGED <<executed, again>>

Unrecorded ==
  \/ GroundReceives
  \/ SetUp \/ ReceiveNothing \/ \E c \in Commands : AnswerDuplicate(c) \/ RefuseAbort(c)
  \/ VehicleSends \/ Tick

RecordedNext ==
  \/ RecordedServe \/ (\E c \in Commands : RecordedDeploy(c)) \/ RecordedRestart
  \/ Unrecorded /\ UNCHANGED history

HistorySpec == Init /\ HistoryInit /\ [][RecordedNext]_<<vars, history>>

-----------------------------------------------------------------------------
(* The ground believes that recovery was forced only when its vehicle      *)
(* executed the very command it asked about: not an earlier one, whose     *)
(* answer came after it was given up, and not another vehicle.             *)
DoneTruthful == [][~forceDone /\ forceDone' => pending \in executed]_<<vars, history>>

(* However often a command is repeated, it is executed once while the      *)
(* vehicle stays on (wasRecentlyProcessed, rememberCommand).               *)
ExecutedOnce == again = {}
=============================================================================
