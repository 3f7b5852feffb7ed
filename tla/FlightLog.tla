------------------------------ MODULE FlightLog ------------------------------
(***************************************************************************)
(* FlightLogTask with its RAM FIFO, the mirror storage and the two         *)
(* backends behind it (missions/logging, logging).  Every tick services    *)
(* both media, queues the new records, hands the oldest ones to both       *)
(* backends, and after landing closes the log.                             *)
(* Records and byte queues are measured in units.  The flash journal is    *)
(* reduced to what its queue sees of it; FlashJournal has the rest.        *)
(* External: a medium that is busy becomes ready, or its operation fails.  *)
(***************************************************************************)
EXTENDS Naturals, Sequences, FiniteSets, SequencesExt

CONSTANTS
  FrameUnits,                \* sizes of records
  FramesPerTick, MaxFrames,  \* bounds: new records per tick, and in all
  RamUnits, QueueUnits,      \* capacities of the FIFO and of a backend's queue
  DrainRecordsPerTick,
  PageUnits, PagesPerSector, \* QSPI: payload of a page; data pages of a sector
  BlockUnits, FileBlocks,    \* SD: payload of a block; blocks of the file
  BenchResetBuild            \* a bench reset may leave GROUND again

ASSUME LogAssumption ==
  /\ FrameUnits \subseteq Nat \ {0} /\ 1 \in FrameUnits
  /\ FramesPerTick \in Nat /\ MaxFrames \in Nat \ {0} /\ DrainRecordsPerTick \in Nat \ {0}
  /\ RamUnits \in Nat /\ QueueUnits \in Nat /\ PagesPerSector \in Nat \ {0} /\ FileBlocks \in Nat
  /\ PageUnits \in Nat \ {0} /\ BlockUnits \in Nat \ {0}
  /\ \A u \in FrameUnits : u <= RamUnits /\ PageUnits + u <= QueueUnits + 1
                           /\ BlockUnits + u <= QueueUnits + 1
  /\ BenchResetBuild \in BOOLEAN

VARIABLES
  fifo,               \* records in RAM, the room they take, how many were given up
  nextSequence,
  primary, mirror,    \* QSPI flash and SD card, as the mirror storage sees them
  storageStarted, storageOk, flushRequested, groundStopRequested, stopped,
  landed              \* FlightState.state is GROUND

flags == <<flushRequested, groundStopRequested, stopped>>
store == <<fifo, nextSequence, primary, mirror, storageStarted, storageOk>>
vars  == <<store, flags, landed>>

Frames == [seq : Nat, units : FrameUnits]
(* A unit of a record, with the number of units of it that follow.         *)
Units  == [seq : Nat, left : Nat]
Fifos  == [records : Seq(Frames), used : 0..RamUnits, dropped : Nat]

(* "active"; "failed"; "refused": given up because it took no record.      *)
Statuses  == {"active", "failed", "refused", "stopped"}
Primaries == [status : Statuses, queue : Seq(Units), stored : Seq(Units), busy : BOOLEAN,
              operation : {"none", "page", "sector"}, payload : 0..PageUnits,
              pagesLeft : 0..PagesPerSector]
Mirrors   == [status : Statuses, queue : Seq(Units), stored : Seq(Units), busy : BOOLEAN,
              blocksLeft : 0..FileBlocks]

TypeOK ==
  /\ fifo \in Fifos /\ nextSequence \in 0..(MaxFrames + 1)
  /\ primary \in Primaries /\ Len(primary.queue) <= QueueUnits
  /\ mirror \in Mirrors /\ Len(mirror.queue) <= QueueUnits
  /\ storageStarted \in BOOLEAN /\ storageOk \in BOOLEAN /\ flushRequested \in BOOLEAN
  /\ groundStopRequested \in BOOLEAN /\ stopped \in BOOLEAN /\ landed \in BOOLEAN

(* A tick works on a record of the FIFO, the next sequence number, the two *)
(* backends and storageStarted.                                            *)

-----------------------------------------------------------------------------
(* The RAM FIFO. *)

Popped(q) == [q EXCEPT !.records = Tail(@), !.used = @ - Head(q.records).units]

\* Variant: a record that is given up is not counted.
DropOldestUncounted(q) == Popped(q)
DropOldest(q) == [Popped(q) EXCEPT !.dropped = @ + 1]

Squeezed(q, units) ==
  IF q.used + units > RamUnits /\ q.records # <<>> THEN DropOldest(q) ELSE q

(* The oldest records make room for a new one. *)
RoomFor(q, units) ==
  LET after[n \in 0..Len(q.records)] == IF n = 0 THEN q ELSE Squeezed(after[n - 1], units)
  IN  after[Len(q.records)]

Push(q, frame) ==
  [RoomFor(q, frame.units) EXCEPT !.records = Append(@, frame), !.used = @ + frame.units]

EnqueueFrame(w, units) ==
  [w EXCEPT !.fifo = Push(@, [seq |-> w.next, units |-> units]), !.next = @ + 1]

(* The samples, transitions and decisions of one tick. *)
Enqueued(w, lengths) ==
  LET after[n \in 0..Len(lengths)] ==
        IF n = 0 THEN w ELSE EnqueueFrame(after[n - 1], lengths[n])
  IN  after[Len(lengths)]

NewFrames == {lengths \in SeqOf(FrameUnits, FramesPerTick) : nextSequence + Len(lengths) <= MaxFrames}

-----------------------------------------------------------------------------
(* The backends. *)

Active(b) == b.status = "active"
Failed(b) == [b EXCEPT !.status = "failed"]

Smaller(a, b) == IF a < b THEN a ELSE b

(* A full block, or what is left once a flush is requested. *)
Wanted(b, block) == Len(b.queue) >= block \/ (flushRequested /\ b.queue # <<>>)

Stored(b, units) ==
  [b EXCEPT !.stored = @ \o SubSeq(b.queue, 1, units), !.queue = SubSeq(@, units + 1, Len(@))]

\* Variant: a page that was written stays in the queue.
PageRepeated(b) ==
  [b EXCEPT !.stored = @ \o SubSeq(b.queue, 1, b.payload), !.payload = 0, !.operation = "none",
            !.pagesLeft = CASE b.operation = "page" -> @ - 1 [] b.operation = "sector" -> PagesPerSector
                            [] OTHER -> @]

(* QSPI: a page leaves the queue when it has been read back. *)
PageFinished(b) ==
  [Stored(b, b.payload) EXCEPT
     !.payload = 0, !.operation = "none",
     !.pagesLeft = CASE b.operation = "page" -> @ - 1 [] b.operation = "sector" -> PagesPerSector
                     [] OTHER -> @]

PageStarted(b) ==
  IF flushRequested /\ b.queue = <<>> THEN b
  ELSE IF b.pagesLeft = 0 THEN [b EXCEPT !.operation = "sector", !.busy = TRUE]
  ELSE IF ~Wanted(b, PageUnits) THEN b
  ELSE [b EXCEPT !.operation = "page", !.busy = TRUE, !.payload = Smaller(PageUnits, Len(b.queue))]

PrimaryIdle(b) == b.queue = <<>> /\ b.operation = "none"

(* Sectors are erased ahead of need, so that an operation may fail even    *)
(* when no page is due.  A page may have been written although its         *)
(* operation is taken as failed.                                           *)
PrimaryServiced ==
  IF ~storageStarted \/ ~Active(primary) \/ (flushRequested /\ PrimaryIdle(primary)) THEN {primary}
  ELSE IF primary.operation # "none" /\ primary.busy THEN {primary, Failed(primary)}
  ELSE {PageStarted(PageFinished(primary)), Failed(primary), Failed(PageFinished(primary))}

(* SD: a block leaves the queue when the card has taken it. *)
MirrorServiced ==
  IF ~storageStarted \/ ~Active(mirror) THEN {mirror}
  ELSE IF mirror.busy THEN {mirror, Failed(mirror)}
  ELSE IF ~Wanted(mirror, BlockUnits) THEN {mirror}
  ELSE IF mirror.blocksLeft = 0 THEN {Failed(mirror)}
  ELSE LET written == [Stored(mirror, Smaller(BlockUnits, Len(mirror.queue)))
                         EXCEPT !.busy = TRUE, !.blocksLeft = @ - 1]
       IN  {written, Failed(mirror), Failed(written)}

MirrorIdle(b) == b.queue = <<>> /\ ~b.busy

-----------------------------------------------------------------------------
(* The mirror storage. *)

Healthy(p, m) == Active(p) \/ Active(m)

(* service, at the beginning of a tick. *)
Serviced ==
  {[fifo |-> fifo, next |-> nextSequence, primary |-> p, mirror |-> m,
    started |-> storageStarted /\ Healthy(p, m)] : p \in PrimaryServiced, m \in MirrorServiced}

Fits(b, frame) == frame.units <= QueueUnits - Len(b.queue)

\* Variant: room in one backend is enough.
CanAppendToOne(w, frame) ==
  /\ Healthy(w.primary, w.mirror) /\ ~flushRequested
  /\ (Active(w.primary) /\ Fits(w.primary, frame)) \/ (Active(w.mirror) /\ Fits(w.mirror, frame))
CanAppend(w, frame) ==
  /\ Healthy(w.primary, w.mirror) /\ ~flushRequested
  /\ Active(w.primary) => Fits(w.primary, frame)
  /\ Active(w.mirror) => Fits(w.mirror, frame)

UnitsOf(frame) == [i \in 1..frame.units |-> [seq |-> frame.seq, left |-> frame.units - i]]

Appended(b, frame) ==
  IF ~Active(b) THEN b
  ELSE IF Fits(b, frame) THEN [b EXCEPT !.queue = @ \o UnitsOf(frame)]
  ELSE [b EXCEPT !.status = "refused"]

Drainable(w) == w.started /\ w.fifo.records # <<>> /\ CanAppend(w, Head(w.fifo.records))

(* drainToStorage.  Its STORAGE_FAULT record would need an append that     *)
(* fails after canAppend, which none does.                                 *)
DrainOne(w) ==
  LET front == Head(w.fifo.records)
  IN  IF ~Drainable(w) THEN w
      ELSE [w EXCEPT !.primary = Appended(@, front), !.mirror = Appended(@, front),
                     !.fifo = Popped(@)]

Drained(w) ==
  LET after[n \in 0..DrainRecordsPerTick] == IF n = 0 THEN w ELSE DrainOne(after[n - 1])
  IN  after[DrainRecordsPerTick]

\* Variant: a backend that was given up must be idle, too.
AllIdle(p, m) == PrimaryIdle(p) /\ MirrorIdle(m)
Idle(p, m) == (Active(p) => PrimaryIdle(p)) /\ (Active(m) => MirrorIdle(m))

Stop(b) == IF Active(b) THEN [b EXCEPT !.status = "stopped"] ELSE b

-----------------------------------------------------------------------------
(* FlightLogTask. *)

Init ==
  /\ fifo = [records |-> <<[seq |-> 0, units |-> 1]>>, used |-> 1, dropped |-> 0]  \* BOOT
  /\ nextSequence = 1
  /\ \E status \in {"active", "failed"} :   \* only the SD card is required at boot
       primary = [status |-> status, queue |-> <<>>, stored |-> <<>>, busy |-> FALSE,
                  operation |-> "none", payload |-> 0, pagesLeft |-> PagesPerSector]
  /\ mirror = [status |-> "active", queue |-> <<>>, stored |-> <<>>, busy |-> FALSE,
               blocksLeft |-> FileBlocks]
  /\ storageStarted = TRUE /\ storageOk = TRUE /\ flushRequested = FALSE
  /\ groundStopRequested = FALSE /\ stopped = FALSE /\ landed = FALSE

(* A tick without the closing of the log. *)
Queued == {Enqueued(w, lengths) : w \in Serviced, lengths \in NewFrames}
Logged == {Drained(w) : w \in Queued}

Leave(w) ==
  /\ fifo' = w.fifo /\ nextSequence' = w.next /\ storageStarted' = w.started

TickLogging ==
  /\ ~stopped /\ ~groundStopRequested /\ ~landed
  /\ \E w \in Logged :
       /\ Leave(w) /\ primary' = w.primary /\ mirror' = w.mirror /\ storageOk' = w.started
  /\ UNCHANGED <<flags, landed>>

\* Variant: the flush does not wait for the FIFO.
FlushAtOnce(w) == TRUE
FlushDue(w) == flushRequested \/ w.fifo.records = <<>>

(* serviceGroundStop, when there is a backend left and when there is none. *)
CloseLog(w) ==
  LET done == FlushDue(w) /\ Idle(w.primary, w.mirror)
  IN  /\ w.started /\ Leave(w)
      /\ primary' = IF done THEN Stop(w.primary) ELSE w.primary
      /\ mirror' = IF done THEN Stop(w.mirror) ELSE w.mirror
      /\ flushRequested' = FlushDue(w) /\ stopped' = done /\ storageOk' = (storageOk /\ ~done)

GiveUpLog(w) ==
  /\ ~w.started /\ Leave(w) /\ primary' = w.primary /\ mirror' = w.mirror
  /\ stopped' = TRUE /\ storageOk' = FALSE /\ UNCHANGED flushRequested

ServiceGroundStop(w) == CloseLog(w) \/ GiveUpLog(w)

(* The tick that finds the vehicle landed: it logs once more, ends the     *)
(* stream with GROUND_STOP and begins to close.                            *)
TickLanding ==
  /\ ~stopped /\ ~groundStopRequested /\ landed
  /\ \E w \in {Drained(w) : w \in {EnqueueFrame(logged, 1) : logged \in Logged}} :
       ServiceGroundStop(w)
  /\ groundStopRequested' = TRUE /\ UNCHANGED landed

TickGroundStop ==
  /\ ~stopped /\ groundStopRequested
  /\ \E w \in {Drained(serviced) : serviced \in Serviced} :
       ServiceGroundStop(w)
  /\ UNCHANGED <<groundStopRequested, landed>>

Tick == TickLogging \/ TickLanding \/ TickGroundStop

PrimaryReady ==
  /\ primary.busy /\ primary' = [primary EXCEPT !.busy = FALSE]
  /\ UNCHANGED <<fifo, nextSequence, mirror, storageStarted, storageOk, flags, landed>>

MirrorReady ==
  /\ mirror.busy /\ mirror' = [mirror EXCEPT !.busy = FALSE]
  /\ UNCHANGED <<fifo, nextSequence, primary, storageStarted, storageOk, flags, landed>>

(* The state machine enters GROUND, or a bench reset leaves it. *)
ChangeGround ==
  /\ landed' = ~landed /\ (landed => BenchResetBuild) /\ UNCHANGED <<store, flags>>

Next == Tick \/ PrimaryReady \/ MirrorReady \/ ChangeGround

Spec == Init /\ [][Next]_vars

(* The scheduler runs the task every period.  No medium is busy for ever:  *)
(* the backends give up after a timeout.                                   *)
FairSpec == Spec /\ WF_vars(Tick) /\ WF_vars(PrimaryReady) /\ WF_vars(MirrorReady)

-----------------------------------------------------------------------------
(* What a backend holds of the log, on its medium and in its queue.        *)
Stream(b) == b.stored \o b.queue

(* Whatever is lost is lost in the FIFO and counted there: every other     *)
(* record is, whole and in order, in the FIFO or in the stream of every    *)
(* backend that still works (enqueueFrame, FlightLogRamBuffer::push,       *)
(* drainToStorage).                                                        *)
RecordsAccounted ==
  \A b \in {primary, mirror} : Active(b) =>
    LET s == Stream(b) \o FlattenSeq([i \in 1..Len(fifo.records) |-> UnitsOf(fifo.records[i])])
    IN  /\ Cardinality({s[i].seq : i \in 1..Len(s)}) + fifo.dropped = nextSequence
        /\ \A i \in 1..(Len(s) - 1) :
             IF s[i].left > 0 THEN s[i + 1] = [s[i] EXCEPT !.left = @ - 1]
             ELSE s[i].seq < s[i + 1].seq

(* The two media never hold different logs: the one that was given up      *)
(* holds the beginning of what the other one has (FlightLogMirrorStorage,  *)
(* documents/flight_logging_v1.md 6).                                      *)
MirrorsAgree ==
  /\ IsPrefix(primary.stored, mirror.stored) \/ IsPrefix(mirror.stored, primary.stored)
  /\ Active(primary) /\ Active(mirror) => Stream(primary) = Stream(mirror)

(* A full queue holds the log up but costs no backend (canAppend).         *)
BackpressureHolds == primary.status # "refused" /\ mirror.status # "refused"

(* A backend that is closed has everything: the FIFO and its queue are     *)
(* empty, and its last record is GROUND_STOP (serviceGroundStop).          *)
ClosedComplete ==
  \A b \in {primary, mirror} : b.status = "stopped" =>
    /\ fifo.records = <<>> /\ b.queue = <<>>
    /\ b.stored[Len(b.stored)] = [seq |-> nextSequence - 1, left |-> 0]

(* After landing the log is closed: no medium and no queue holds it up     *)
(* for ever (serviceGroundStop).                                           *)
GroundStops == groundStopRequested ~> stopped
=============================================================================
