---------------------------- MODULE CommandMailbox ----------------------------
(***************************************************************************)
(* The request and outcome fields of FlightState (state/flight_state.h)    *)
(* through which TelemetryTask asks the flight state machine for something *)
(* and learns what became of it.  A flag and the sequence number written   *)
(* with it are one variable: the sequence number, or None when the flag is *)
(* false (the number is never read then).                                  *)
(***************************************************************************)
CONSTANTS
  Seqs,   \* command sequence numbers
  None    \* no request, no outcome

ASSUME NoneAssumption == None \notin Seqs

VARIABLES
  armRequest,      \* armRequested, armRequestSeq
  armExecuted,     \* armExecuted, armExecutedSeq
  armRejected,     \* armRejected, armRejectedSeq
  forceRequest,    \* forceRecoveryDeployRequested, ...RequestSeq
  forceExecuted,   \* forceRecoveryDeployExecuted, ...ExecutedSeq
  resetRequest,    \* benchResetRequested, benchResetRequestSeq
  resetExecuted    \* benchResetExecuted, benchResetExecutedSeq

mailbox == <<armRequest, armExecuted, armRejected, forceRequest, forceExecuted,
             resetRequest, resetExecuted>>

SeqOrNone == Seqs \cup {None}

MailboxTypeOK ==
  /\ armRequest \in SeqOrNone /\ armExecuted \in SeqOrNone /\ armRejected \in SeqOrNone
  /\ forceRequest \in SeqOrNone /\ forceExecuted \in SeqOrNone
  /\ resetRequest \in SeqOrNone /\ resetExecuted \in SeqOrNone

MailboxInit ==
  /\ armRequest = None /\ armExecuted = None /\ armRejected = None
  /\ forceRequest = None /\ forceExecuted = None
  /\ resetRequest = None /\ resetExecuted = None

-----------------------------------------------------------------------------
(* TelemetryTask's side: an accepted command posts its sequence number and *)
(* forgets the outcome of the one before.                                  *)

PostArm(seq) ==
  /\ armRequest' = seq /\ armExecuted' = None /\ armRejected' = None
  /\ UNCHANGED <<forceRequest, forceExecuted, resetRequest, resetExecuted>>

PostForce(seq) ==
  /\ forceRequest' = seq /\ forceExecuted' = None
  /\ UNCHANGED <<armRequest, armExecuted, armRejected, resetRequest, resetExecuted>>

\* Variant: the outcome of the reset before is kept.
PostResetKeeping(seq) ==
  /\ resetRequest' = seq
  /\ UNCHANGED <<armRequest, armExecuted, armRejected, forceRequest, forceExecuted, resetExecuted>>

PostReset(seq) ==
  /\ resetRequest' = seq /\ resetExecuted' = None
  /\ UNCHANGED <<armRequest, armExecuted, armRejected, forceRequest, forceExecuted>>

-----------------------------------------------------------------------------
(* The flight state machine's side. *)

\* Variant: an ARM that cannot be honoured is only dropped.
RefuseArmSilently == armRequest' = None /\ UNCHANGED <<armExecuted, armRejected>>

(* A pending ARM that cannot be honoured is answered; no ARM, no change. *)
RefuseArm ==
  IF armRequest = None
  THEN UNCHANGED <<armRequest, armExecuted, armRejected>>
  ELSE armRequest' = None /\ armExecuted' = None /\ armRejected' = armRequest

HonourArm ==
  /\ armRequest' = None /\ armExecuted' = armRequest /\ armRejected' = None
  /\ resetRequest' = None
  /\ UNCHANGED <<forceRequest, forceExecuted, resetExecuted>>

HonourForce ==
  /\ RefuseArm
  /\ forceRequest' = None /\ forceExecuted' = forceRequest
  /\ resetRequest' = None
  /\ UNCHANGED resetExecuted

(* A tick that honours nothing still empties the mailbox: a FORCE_DEPLOY   *)
(* refused by state leaves no outcome behind, a refused ARM does.          *)
RefuseAll ==
  /\ RefuseArm
  /\ forceRequest' = None /\ resetRequest' = None
  /\ UNCHANGED <<forceExecuted, resetExecuted>>

(* The bench reset assigns a fresh FlightState: every request and outcome  *)
(* goes, and the reset records its own execution.                          *)
HonourReset ==
  /\ resetExecuted' = resetRequest /\ resetRequest' = None
  /\ armRequest' = None /\ armExecuted' = None /\ armRejected' = None
  /\ forceRequest' = None /\ forceExecuted' = None
=============================================================================
