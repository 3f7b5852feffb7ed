--------------------------- MODULE RecoverySequence ---------------------------
(***************************************************************************)
(* What the flight state machine promises, without sensors, timers or      *)
(* commands: a flight runs through its phases in one direction, each pyro  *)
(* channel is energised by one phase only, and from anywhere the vehicle   *)
(* can be made safe, which takes the power off both channels at once.      *)
(***************************************************************************)
VARIABLES
  phase,    \* where the flight is
  drogue,   \* the drogue channel is energised
  main      \* the main channel is energised

vars == <<phase, drogue, main>>

Phases == {"Pad", "Armed", "Ascent", "DrogueFiring", "Descent", "MainDeployed", "Ground"}

TypeOK == phase \in Phases /\ drogue \in BOOLEAN /\ main \in BOOLEAN

Init == phase = "Pad" /\ drogue = FALSE /\ main = FALSE

Arm        == phase = "Pad"          /\ phase' = "Armed"        /\ UNCHANGED <<drogue, main>>
Launch     == phase = "Armed"        /\ phase' = "Ascent"       /\ UNCHANGED <<drogue, main>>
FireDrogue == phase = "Ascent"       /\ phase' = "DrogueFiring" /\ drogue' = TRUE /\ UNCHANGED main
DrogueOut  == phase = "DrogueFiring" /\ phase' = "Descent"      /\ drogue' = FALSE /\ UNCHANGED main
FireMain   == phase = "Descent"      /\ phase' = "MainDeployed" /\ main' = TRUE /\ UNCHANGED drogue
MainOut    == phase = "MainDeployed" /\ main /\ main' = FALSE   /\ phase' \in {"MainDeployed", "Ground"}
                                     /\ UNCHANGED drogue
Land       == phase = "MainDeployed" /\ ~main /\ phase' = "Ground" /\ UNCHANGED <<drogue, main>>
MakeSafe   == phase' = "Pad" /\ drogue' = FALSE /\ main' = FALSE

Next == Arm \/ Launch \/ FireDrogue \/ DrogueOut \/ FireMain \/ MainOut \/ Land \/ MakeSafe

Spec == Init /\ [][Next]_vars

-----------------------------------------------------------------------------
(* Each channel is energised in its own phase only, so never both. *)
Interlock ==
  /\ drogue <=> phase = "DrogueFiring"
  /\ main => phase = "MainDeployed"
=============================================================================
