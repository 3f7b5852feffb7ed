----------------------------- MODULE MCCommandLink -----------------------------
(* CommandHistory for TLC: small sets of commands that share their numbers. *)
EXTENDS CommandHistory

Arm    == [id |-> "ARM", seq |-> 1, nonce |-> 1]
Deploy == [id |-> "FORCE", seq |-> 1, nonce |-> 2]
Reset  == [id |-> "RESET", seq |-> 1, nonce |-> 3]
Reset2 == [id |-> "RESET", seq |-> 1, nonce |-> 4]   \* the ground station restarted
Old    == [id |-> "PROPULSION", seq |-> 2, nonce |-> 5]

AllCommands == {Arm, Deploy, Reset, Reset2, Old}

CONSTANT Scenarios   \* subset of {"resets", "forces", "flight", "arms"}

VARIABLE scenario   \* chosen once

(* "resets" and "forces" mix bench resets with commands of the same number *)
(* on the radio that blocks, and "arms" has an ARM of a flight; "flight"   *)
(* has its commands on the radio that sends in the background.             *)
Sent == CASE scenario = "resets" -> {Arm, Reset, Reset2}
          [] scenario = "forces" -> {Arm, Deploy, Reset}
          [] scenario = "flight" -> {Arm, Deploy, Old}
          [] scenario = "arms" -> {Arm, Old}

RadioOf(s) == IF s = "flight" THEN "ready" ELSE "blocking"

MCInit ==
  /\ Init /\ HistoryInit
  /\ scenario \in Scenarios /\ radio = RadioOf(scenario)

MCNext == RecordedNext(Sent) /\ UNCHANGED scenario

MCSpec     == MCInit /\ [][MCNext]_<<vars, history, scenario>>
MCFairSpec == MCSpec /\ Fairness

-----------------------------------------------------------------------------
(* A FORCE_DEPLOY that was accepted is confirmed, whatever else is in the  *)
(* queues and however often the radio is busy, unless the flight is        *)
(* aborted.                                                                *)
ForceConfirmed ==
  scenario = "flight" /\ pendingForce = Deploy ~> abort \/ Queued(Deploy, "EXECUTED")

(* An abort that overtakes an accepted ARM has it answered as rejected.    *)
OvertakenArmRejected ==
  scenario = "flight" /\ pendingArm = Arm /\ armRequest # None /\ abort ~> Queued(Arm, "REJECTED")

(* What documents/arm_uplink_state_transition_v1.md says of a full queue:  *)
(* the completion of an ARM that finds it full is kept and queued later.   *)
DeferredArmAnswered ==
  turn = "send" /\ pendingArm = Arm /\ Arm \in honoured /\ state = "ARMED" ~> Queued(Arm, "EXECUTED")
=============================================================================
