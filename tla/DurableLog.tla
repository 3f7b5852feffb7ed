------------------------------ MODULE DurableLog ------------------------------
(***************************************************************************)
(* What the flash journal promises of the log that can be read back: it is *)
(* a stream of blocks in chapters, each block starting where the one       *)
(* before it ended.  Blocks are only added at the end, and only a new      *)
(* chapter pushes the oldest one out.  Nothing else happens to the log:    *)
(* no crash and no error takes a block away or repeats a part of the       *)
(* stream.                                                                 *)
(***************************************************************************)
EXTENDS Naturals, Sequences

CONSTANTS
  Kept,            \* chapters, at most
  BlockUnits,      \* size of a block, at most
  OffsetModulus    \* offsets wrap

VARIABLES chapters, end

log == <<chapters, end>>

Init == chapters = <<>> /\ end = 0

Store(units) ==
  /\ chapters # <<>>
  /\ chapters' = [chapters EXCEPT ![Len(chapters)] = Append(@, [from |-> end, units |-> units])]
  /\ end' = (end + units) % OffsetModulus

OpenChapter ==
  /\ LET longer == Append(chapters, <<>>)
     IN  chapters' = IF Len(longer) > Kept THEN Tail(longer) ELSE longer
  /\ UNCHANGED end

Next == OpenChapter \/ \E units \in 1..BlockUnits : Store(units)

Spec == Init /\ [][Next]_log
=============================================================================
