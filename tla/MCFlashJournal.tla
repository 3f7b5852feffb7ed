---------------------------- MODULE MCFlashJournal ----------------------------
(* FlashJournal with what a reader makes of the flash, recorded whenever   *)
(* the flash changes, so that each step is compared with DurableLog once.  *)
EXTENDS FlashJournal

VARIABLES chapters, end

mcvars == <<vars, chapters, end>>

Promise == INSTANCE DurableLog WITH BlockUnits <- PageUnits

MCInit == Init /\ chapters = Chapters /\ end = StreamEnd

Recorded(step) ==
  /\ step
  /\ IF flash' = flash THEN UNCHANGED <<chapters, end>>
     ELSE chapters' = Chapters' /\ end' = StreamEnd'

MCSpec == MCInit /\ [][Recorded(Next)]_mcvars

MCFairSpec ==
  /\ MCSpec
  /\ WF_mcvars(Recorded(Service \/ VerifyFails))
  /\ WF_mcvars(Recorded(ChipDone))

(* The flash journal keeps the promise of DurableLog through power         *)
(* failures, restarts and failed operations (ProgramFlashFlightLogStorage).*)
PromiseKept == Promise!Spec

(* A flush ends: the queue runs empty and the chip is left alone, unless   *)
(* the journal fails or is restarted (requestFlush, service, idle).        *)
FlushEnds == (status = "healthy" /\ flushRequested) ~> (Idle \/ status # "healthy")
=============================================================================
