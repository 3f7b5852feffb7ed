----------------------------- MODULE FlashJournal -----------------------------
(***************************************************************************)
(* ProgramFlashFlightLogStorage (logging) over a NOR flash: a ring of      *)
(* sectors, each a header page and data pages that are programmed once     *)
(* after an erase.  The chip works on its own once a command is started;   *)
(* the power may fail at any moment, and begin() then finds the end of the *)
(* log from what the flash holds.                                          *)
(* Payload is counted in units, PageUnits of them to a page.  Sequence     *)
(* numbers and stream offsets wrap.  Left out: validSectorCount_, which    *)
(* only usedBytes() reports.                                               *)
(* External (W25Q128): a command that was started ends on its own, an      *)
(* erase clears its sector unless it is cut short, a program may come out  *)
(* wrong.                                                                  *)
(***************************************************************************)
EXTENDS Naturals, Sequences, FiniteSets

CONSTANTS
  SectorCount, PagesPerSector, EraseAheadSectors,
  PageUnits,                       \* kDataPayloadBytes
  QueueUnits,                      \* capacity of the byte queue
  SequenceModulus, OffsetModulus,  \* 2^32
  Blank, Torn, None

ASSUME JournalAssumption ==
  /\ SectorCount \in Nat /\ PagesPerSector \in Nat /\ EraseAheadSectors \in Nat
  /\ EraseAheadSectors > 0 /\ SectorCount > EraseAheadSectors /\ PagesPerSector > 1
  /\ PageUnits \in Nat \ {0} /\ QueueUnits \in Nat /\ QueueUnits >= PageUnits
  /\ SequenceModulus \in Nat /\ SequenceModulus >= 2 * SectorCount - 1
  /\ OffsetModulus \in Nat /\ OffsetModulus > 2 * PageUnits * (PagesPerSector - 1)

VARIABLES
  flash,    \* per sector its header and data pages
  chip,     \* None, or the command it works on
  status,   \* "off", "healthy", "failed" (or given up by the mirror), "stopped"
  flushRequested,
  journal   \* the other members of the class

vars == <<flash, chip, status, flushRequested, journal>>

Sectors   == 0..(SectorCount - 1)
Pages     == 1..(PagesPerSector - 1)
Sequences == 0..(SequenceModulus - 1)
Offsets   == 0..(OffsetModulus - 1)
Headers   == [seq : Sequences, first : Offsets]
Blocks    == [from : Offsets, units : 1..PageUnits]
Programs  == [kind : {"program"}, sector : Sectors, page : {0}, content : Headers]
             \cup [kind : {"program"}, sector : Sectors, page : Pages, content : Blocks]
Erases    == [kind : {"erase"}, sector : Sectors]

(* What an empty page, a page cut short and an idle chip show is no data.  *)
ASSUME ContentAssumption ==
  /\ Blank # Torn /\ {Blank, Torn} \cap (Headers \cup Blocks) = {}
  /\ None \notin Programs \cup Erases /\ None \notin Sectors

SectorContents == [header : Headers \cup {Blank, Torn}, pages : [Pages -> Blocks \cup {Blank, Torn}]]
Journals  == [operation : {"NONE", "DATA_PAGE_PROGRAM", "SECTOR_HEADER_PROGRAM", "SECTOR_ERASE"},
              payload : 0..PageUnits, used : 0..QueueUnits,
              current : Sectors, seq : Sequences, stream : Offsets,
              nextPage : 1..PagesPerSector, nextErase : Sectors,
              erasedAhead : 0..EraseAheadSectors]

TypeOK ==
  /\ flash \in [Sectors -> SectorContents]
  /\ chip \in Programs \cup Erases \cup {None}
  /\ status \in {"off", "healthy", "failed", "stopped"} /\ flushRequested \in BOOLEAN
  /\ journal \in Journals

-----------------------------------------------------------------------------
(* What the flash holds. *)

Filled(content) == [header |-> content, pages |-> [p \in Pages |-> content]]

After(s) == (s + 1) % SectorCount

Advanced(offset, units) == (offset + units) % OffsetModulus

(* sequenceNewer: the difference as a signed number of the same width. *)
Newer(candidate, current, modulus) ==
  (candidate + modulus - current) % modulus \in 1..((modulus - 1) \div 2)

Valid(s) == flash[s].header \in Headers
ValidSectors == {s \in Sectors : Valid(s)}

(* scanJournal: the newest of the valid sectors, met in this order. *)
Newest ==
  LET found[n \in 0..SectorCount] ==
        IF n = 0 THEN None
        ELSE IF /\ Valid(n - 1)
                /\ \/ found[n - 1] = None
                   \/ Newer(flash[n - 1].header.seq, flash[found[n - 1]].header.seq, SequenceModulus)
             THEN n - 1 ELSE found[n - 1]
  IN  found[SectorCount]

\* Variant: the page after the last valid one, torn or not.
PageAfterLastValid == [s \in Sectors |->
  CHOOSE p \in 1..PagesPerSector :
    /\ p > 1 => flash[s].pages[p - 1] \in Blocks
    /\ \A q \in Pages : q >= p => flash[s].pages[q] \notin Blocks]

(* The first page that reads erased. *)
RestoredPage == [s \in Sectors |->
  CHOOSE p \in 1..PagesPerSector :
    /\ p \in Pages => flash[s].pages[p] = Blank
    /\ \A q \in Pages : q < p => flash[s].pages[q] # Blank]

(* The valid ones of the first n pages of a sector, for every n. *)
ValidPages(sector) ==
  LET read[n \in 0..(PagesPerSector - 1)] ==
        IF n = 0 THEN <<>>
        ELSE IF sector.pages[n] \in Blocks THEN Append(read[n - 1], sector.pages[n]) ELSE read[n - 1]
  IN  read

(* What can be read: the valid pages before the first erased one. *)
Readable == [s \in Sectors |-> ValidPages(flash[s])[RestoredPage[s] - 1]]

\* Variant: a torn page counts as written.
TornCounted(s) ==
  Advanced(flash[s].header.first, PageUnits * (RestoredPage[s] - 1))

Later(a, b) == IF Newer(b, a, OffsetModulus) THEN b ELSE a

(* The newest end of a valid page among the first n, for every n. *)
NewestEnd(sector) ==
  LET newest[n \in 0..(PagesPerSector - 1)] ==
        IF n = 0 THEN sector.header.first
        ELSE LET page == sector.pages[n]
             IN  IF page \in Blocks THEN Later(newest[n - 1], Advanced(page.from, page.units))
                 ELSE newest[n - 1]
  IN  newest

(* Where the stream goes on. *)
RestoredOffset(s) == NewestEnd(flash[s])[RestoredPage[s] - 1]

-----------------------------------------------------------------------------
(* begin: the flash is off until it succeeds, or for good until it fails.  *)

Started(s, seq, page, offset) ==
  [operation |-> "NONE", payload |-> 0, used |-> 0, current |-> s, seq |-> seq, stream |-> offset,
   nextPage |-> page, nextErase |-> After(s), erasedAhead |-> 0]

Off == Started(0, 0, 1, 0)

(* The flash is new, or holds something other than a journal.              *)
Init ==
  /\ \E content \in {Blank, Torn} : flash = [s \in Sectors |-> Filled(content)]
  /\ chip = None /\ status = "off" /\ flushRequested = FALSE /\ journal = Off

BeginRestored ==
  /\ status = "off" /\ ValidSectors # {}
  /\ journal' = Started(Newest, flash[Newest].header.seq, RestoredPage[Newest], RestoredOffset(Newest))
  /\ status' = "healthy" /\ flushRequested' = FALSE /\ UNCHANGED <<flash, chip>>

BeginFresh ==
  /\ status = "off" /\ ValidSectors = {}
  /\ flash' = [flash EXCEPT ![0] = [Filled(Blank) EXCEPT !.header = [seq |-> 0, first |-> 0]]]
  /\ journal' = Off
  /\ status' = "healthy" /\ flushRequested' = FALSE /\ UNCHANGED chip

(* The power fails, or the chip reports an error, before the first header  *)
(* is complete or when it is read back.                                    *)
BeginFreshCut ==
  /\ status = "off" /\ ValidSectors = {}
  /\ \E header \in {Blank, Torn, [seq |-> 0, first |-> 0]} :
       flash' = [flash EXCEPT ![0] = [Filled(Blank) EXCEPT !.header = header]]
  /\ status' \in {"off", "failed"} /\ UNCHANGED <<chip, flushRequested, journal>>

BeginFails ==
  /\ status = "off" /\ status' = "failed" /\ UNCHANGED <<flash, chip, flushRequested, journal>>

-----------------------------------------------------------------------------
(* The chip. *)

Write(sector, page, content) ==
  flash' = IF page = 0 THEN [flash EXCEPT ![sector].header = content]
           ELSE [flash EXCEPT ![sector].pages[page] = content]

Holds(sector, page) == IF page = 0 THEN flash[sector].header ELSE flash[sector].pages[page]

(* Bits can only be cleared: a program over anything but a blank page      *)
(* leaves neither the old nor the new content.                             *)
ProgramDone(op) ==
  \/ Holds(op.sector, op.page) = Blank /\ Write(op.sector, op.page, op.content)
  \/ Write(op.sector, op.page, Torn)

EraseDone(op) == flash' = [flash EXCEPT ![op.sector] = Filled(Blank)]

Complete == IF chip.kind = "erase" THEN EraseDone(chip) ELSE ProgramDone(chip)

ChipDone ==
  chip # None /\ Complete /\ chip' = None /\ UNCHANGED <<status, flushRequested, journal>>

(* A program cut short leaves its page as it was or torn.  An erase cut    *)
(* short leaves a header and data pages as they were, torn or erased.      *)
Interrupted ==
  IF chip.kind = "erase"
  THEN \E header \in {flash[chip.sector].header, Torn, Blank} :
         \E pages \in {flash[chip.sector].pages, Filled(Torn).pages} :
           flash' = [flash EXCEPT ![chip.sector] = [header |-> header, pages |-> pages]]
  ELSE \E content \in {Holds(chip.sector, chip.page), Torn} : Write(chip.sector, chip.page, content)

(* The power fails, or the processor alone restarts and begin() waits for  *)
(* the chip.                                                               *)
Restart ==
  /\ status # "off" /\ status' = "off"
  /\ IF chip = None THEN UNCHANGED flash ELSE Interrupted \/ Complete
  /\ chip' = None /\ flushRequested' = FALSE /\ journal' = Off

-----------------------------------------------------------------------------
(* append, requestFlush and stop, as FlightLogTask calls them. *)

CanAppend(units) == status = "healthy" /\ ~flushRequested /\ units <= QueueUnits - journal.used

AppendUnits(units) ==
  /\ CanAppend(units) /\ journal' = [journal EXCEPT !.used = @ + units]
  /\ UNCHANGED <<flash, chip, status, flushRequested>>

RequestFlush ==
  /\ status = "healthy" /\ ~flushRequested /\ flushRequested' = TRUE
  /\ UNCHANGED <<flash, chip, status, journal>>

Idle == journal.used = 0 /\ journal.operation = "NONE"

Stop ==
  /\ status = "healthy" /\ flushRequested /\ Idle /\ status' = "stopped"
  /\ UNCHANGED <<flash, chip, flushRequested, journal>>

-----------------------------------------------------------------------------
(* service: the operation that runs is finished first, then the next one   *)
(* is started in the same call.                                            *)

Header(j) == [seq |-> j.seq, first |-> j.stream]

DataUnits(j) == IF j.used < PageUnits THEN j.used ELSE PageUnits

\* Variant: what was written is not read back.
Unverified(j) == TRUE

Verified(j) ==
  CASE j.operation = "SECTOR_ERASE" -> flash[j.nextErase].header = Blank
    [] j.operation = "SECTOR_HEADER_PROGRAM" -> flash[j.current].header = Header(j)
    [] j.operation = "DATA_PAGE_PROGRAM" ->
         flash[j.current].pages[j.nextPage] = [from |-> j.stream, units |-> j.payload]
    [] OTHER -> TRUE

Finished(j) ==
  CASE j.operation = "SECTOR_ERASE" ->
         [j EXCEPT !.operation = "NONE", !.nextErase = After(@), !.erasedAhead = @ + 1]
    [] j.operation = "SECTOR_HEADER_PROGRAM" ->
         [j EXCEPT !.operation = "NONE", !.nextPage = 1, !.payload = 0]
    [] j.operation = "DATA_PAGE_PROGRAM" ->
         [j EXCEPT !.operation = "NONE", !.used = @ - j.payload, !.payload = 0,
                   !.stream = Advanced(@, j.payload), !.nextPage = @ + 1]
    [] OTHER -> j

(* The journal as service goes on with it. *)
Ready == Finished(journal)

SectorFull(j) == j.nextPage >= PagesPerSector

\* Variant: one sector too many.
EraseOneMoreWanted(j) ==
  IF SectorFull(j) THEN j.erasedAhead = 0 ELSE ~flushRequested /\ j.erasedAhead <= EraseAheadSectors

EraseWanted(j) ==
  IF SectorFull(j) THEN j.erasedAhead = 0 ELSE ~flushRequested /\ j.erasedAhead < EraseAheadSectors

\* Variant: only full pages are written.
FullPageWanted(j) == ~SectorFull(j) /\ ~EraseWanted(j) /\ j.used >= PageUnits

DataWanted(j) ==
  ~SectorFull(j) /\ ~EraseWanted(j) /\ (j.used >= PageUnits \/ (flushRequested /\ j.used > 0))

FlushDone(j) == flushRequested /\ j.used = 0

Start(j, op) == journal' = j /\ chip' = op

StartEraseAhead(j) ==
  /\ ~FlushDone(j) /\ EraseWanted(j)
  /\ Start([j EXCEPT !.operation = "SECTOR_ERASE", !.payload = 0],
           [kind |-> "erase", sector |-> j.nextErase])

RotateSector(j) ==
  /\ ~FlushDone(j) /\ SectorFull(j) /\ ~EraseWanted(j)
  /\ LET next == [j EXCEPT !.current = After(@), !.seq = (@ + 1) % SequenceModulus,
                           !.erasedAhead = @ - 1, !.nextPage = 1, !.payload = 0,
                           !.operation = "SECTOR_HEADER_PROGRAM"]
     IN  Start(next, [kind |-> "program", sector |-> next.current, page |-> 0,
                      content |-> Header(next)])

StartDataPage(j) ==
  /\ ~FlushDone(j) /\ DataWanted(j)
  /\ Start([j EXCEPT !.operation = "DATA_PAGE_PROGRAM", !.payload = DataUnits(j)],
           [kind |-> "program", sector |-> j.current, page |-> j.nextPage,
            content |-> [from |-> j.stream, units |-> DataUnits(j)]])

Wants(j) == ~FlushDone(j) /\ (SectorFull(j) \/ EraseWanted(j) \/ DataWanted(j))

StartNothing(j) == ~Wants(j) /\ Start(j, None)

Serviceable == status = "healthy" /\ chip = None /\ Verified(journal)

Service ==
  /\ Serviceable
  /\ \/ StartEraseAhead(Ready) \/ RotateSector(Ready) \/ StartDataPage(Ready) \/ StartNothing(Ready)
  /\ UNCHANGED <<flash, status, flushRequested>>

(* A command reported as failed that the chip works on all the same.       *)
StartFails ==
  /\ Serviceable
  /\ \/ StartEraseAhead(Ready) \/ RotateSector(Ready) \/ StartDataPage(Ready)
  /\ status' = "failed" /\ UNCHANGED <<flash, flushRequested>>

(* What the chip wrote reads back different.  After a failure nothing reads *)
(* the members until begin sets them.                                      *)
VerifyFails ==
  /\ status = "healthy" /\ chip = None /\ ~Verified(journal)
  /\ status' = "failed" /\ journal' = Off /\ UNCHANGED <<flash, chip, flushRequested>>

(* The chip does not answer, is busy for too long, or refuses the next     *)
(* command.                                                                *)
ServiceFails ==
  /\ status = "healthy" /\ (journal.operation # "NONE" \/ Wants(journal))
  /\ status' = "failed" /\ journal' = Off /\ UNCHANGED <<flash, chip, flushRequested>>

Next ==
  \/ BeginRestored \/ BeginFresh \/ BeginFreshCut \/ BeginFails
  \/ ChipDone \/ Restart
  \/ \E units \in 1..PageUnits : AppendUnits(units)
  \/ RequestFlush \/ Stop
  \/ Service \/ StartFails \/ VerifyFails \/ ServiceFails

Spec == Init /\ [][Next]_vars

(* The logger services its storage at every tick; a command ends.          *)
Fairness ==
  /\ WF_vars(Service \/ VerifyFails)
  /\ WF_vars(ChipDone)

FairSpec == Spec /\ Fairness

-----------------------------------------------------------------------------
(* Every program is of a page that reads erased.                           *)
(* rotateSector and startDataPage rely on erase-ahead and on begin for it. *)
ProgramsErasedPages ==
  chip \in Programs => Holds(chip.sector, chip.page) = Blank

(* What a reader makes of the flash: per sector the valid pages before the *)
(* first erased one (verifyJournal).  The last sectors that erase-ahead    *)
(* does not reach are the chapters that are kept.                          *)
Kept == SectorCount - EraseAheadSectors

(* The chapters that end with a sector. *)
ChaptersUpTo == [s \in Sectors |->
  LET age(t) == (flash[s].header.seq + SequenceModulus - flash[t].header.seq) % SequenceModulus
      number == Cardinality({t \in ValidSectors : age(t) < Kept})
  IN  [i \in 1..number |-> Readable[(s + SectorCount + i - number) % SectorCount]]]

Chapters == IF ValidSectors = {} THEN <<>> ELSE ChaptersUpTo[Newest]

StreamEnd == IF ValidSectors = {} THEN 0 ELSE RestoredOffset(Newest)
=============================================================================
