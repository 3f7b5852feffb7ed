----------------------------- MODULE MCGroundLink -----------------------------
(***************************************************************************)
(* GroundLink for TLC.  "plain" leaves both sides on, so that the test has *)
(* to complete; "restarts" switches them off and on, and lets the ground   *)
(* hear another vehicle that answers the very same command.                *)
(***************************************************************************)
EXTENDS GroundHistory

CONSTANTS Scenarios, MaxRestarts, MaxSeq   \* bounds of "restarts"

VARIABLES scenario, restarts

observer == <<scenario, restarts, history>>

OtherVehicles == [own : {FALSE}, from : {"vehicle"}, sound : {TRUE},
                  payload : [type : {"ACK"}, command : Commands, stage : {"EXECUTED"}]]

(* Damage and another vehicle are left to "restarts", where on the other   *)
(* hand no radio refuses a frame; the other vehicle says what would        *)
(* confuse the ground.                                                     *)
Heeded(frame) ==
  frame # None =>
    \/ frame.own /\ frame.sound
    \/ scenario = "restarts"
        /\ (IF frame.own THEN TRUE ELSE pending # None /\ pending = frame.payload.command)

MCInit ==
  /\ Init /\ HistoryInit /\ scenario \in Scenarios /\ restarts = 0
  /\ scenario = "plain" => \A side \in Sides : turn[side] # "dead"

MCRestart ==
  /\ scenario = "restarts" /\ restarts < MaxRestarts /\ restarts' = restarts + 1
  /\ RecordedRestart /\ UNCHANGED scenario

MCNext ==
  \/ /\ \/ RecordedServe /\ (scenario = "restarts" => nextSeq' <= MaxSeq)
        \/ \E c \in Commands : RecordedDeploy(c)
        \/ /\ \/ GroundReceives
              \/ SetUp \/ ReceiveNothing \/ \E c \in Commands : AnswerDuplicate(c) \/ RefuseAbort(c)
              \/ VehicleSends /\ (scenario = "restarts" => turn'["vehicle"] = "idle")
              \/ Tick /\ Heeded(arrived'["ground"]) /\ Heeded(arrived'["vehicle"])
           /\ UNCHANGED history
     /\ UNCHANGED <<scenario, restarts>>
  \/ MCRestart

MCSpec     == MCInit /\ [][MCNext]_<<vars, observer>>
MCFairSpec == MCSpec /\ Fairness

-----------------------------------------------------------------------------
(* The pair test completes, although any frame may be lost, an outcome     *)
(* that is lost is never repeated (LoseAck, handleCommand), and DUPLICATE  *)
(* decides nothing: a command that was given up is followed by a new one.  *)
TestCompletes == scenario = "plain" => <>printed
=============================================================================
