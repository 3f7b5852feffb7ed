-------------------------- MODULE FlashJournalProofs --------------------------
(***************************************************************************)
(* FlashJournal for every number of sectors and pages, every size of the   *)
(* queue and every width of the counters: its types, that no page is       *)
(* programmed that does not read erased, and that the log that can be read *)
(* back is the one DurableLog promises.                                    *)
(*                                                                         *)
(* The inductive invariant says what the flash looks like at any moment,   *)
(* so that begin() can rely on it after a restart (PagesInOrder, OneRing,  *)
(* what the chip may be in the middle of), and, while the journal is       *)
(* healthy, that its members agree with the flash (InStep).  For the log,  *)
(* StreamInv adds that the sectors which erase-ahead does not reach hold   *)
(* it without a gap, and that the chip and the journal go on at its end.   *)
(***************************************************************************)
EXTENDS MCFlashJournal, NatLemmas, FiniteSetTheorems, SequenceTheorems

(* The first n - 1 data pages have been written, the others read erased.   *)
WrittenUpTo(s, n) ==
  /\ \A p \in Pages : p < n => flash[s].pages[p] # Blank
  /\ \A p \in Pages : p >= n => flash[s].pages[p] = Blank

(* How many sectors of the ring s lies behind c. *)
Behind(s, c) == IF s <= c THEN c - s ELSE c + SectorCount - s

(* The sequence number d before q. *)
Earlier(q, d) == (q + SequenceModulus - d) % SequenceModulus

(* The valid headers are numbered backwards from the one of c.             *)
Leads(c) ==
  /\ c \in Sectors /\ Valid(c)
  /\ \A s \in Sectors :
       Valid(s) => flash[s].header.seq = Earlier(flash[c].header.seq, Behind(s, c))

(* Data pages are written from the first on, none is left out.             *)
PagesInOrder == \A s \in Sectors : \E n \in 1..PagesPerSector : WrittenUpTo(s, n)

(* If a header is valid, one of the valid headers is the newest.           *)
OneRing == ValidSectors = {} \/ \E c \in Sectors : Leads(c)

(* What the chip works on, whether or not the journal still knows of it.   *)
Erasing ==
  chip \in Erases => \E c \in Sectors : Leads(c) /\ c # chip.sector

OpeningSector ==
  (chip \in Programs /\ chip.page = 0) =>
    /\ flash[chip.sector].header = Blank
    /\ \E c \in Sectors :
         Leads(c) /\ chip.sector = After(c)
         /\ chip.content.seq = (flash[c].header.seq + 1) % SequenceModulus

Appending ==
  (chip \in Programs /\ chip.page # 0) => WrittenUpTo(chip.sector, chip.page)

ChipAtRest == status \in {"off", "stopped"} => chip = None

(* The journal j writes to the newest sector, and erase-ahead has prepared *)
(* the next ones.                                                          *)
InNewest(j) == Leads(j.current) /\ flash[j.current].header.seq = j.seq

Prepared(j) ==
  /\ j.nextErase = (j.current + 1 + j.erasedAhead) % SectorCount
  /\ \A i \in 1..j.erasedAhead : flash[(j.current + i) % SectorCount] = Filled(Blank)

Resting(j) == j.operation = "NONE" /\ InNewest(j) /\ WrittenUpTo(j.current, j.nextPage)

ErasingAhead(j) ==
  /\ j.operation = "SECTOR_ERASE" /\ InNewest(j) /\ WrittenUpTo(j.current, j.nextPage)
  /\ j.erasedAhead < EraseAheadSectors
  /\ \/ chip = [kind |-> "erase", sector |-> j.nextErase]
     \/ chip = None /\ flash[j.nextErase] = Filled(Blank)

WritingPage(j) ==
  /\ j.operation = "DATA_PAGE_PROGRAM" /\ InNewest(j)
  /\ j.nextPage \in Pages /\ j.payload \in 1..j.used
  /\ \/ /\ WrittenUpTo(j.current, j.nextPage)
        /\ chip = [kind |-> "program", sector |-> j.current, page |-> j.nextPage,
                   content |-> [from |-> j.stream, units |-> j.payload]]
     \/ chip = None /\ WrittenUpTo(j.current, j.nextPage + 1)

WritingHeader(j) ==
  /\ j.operation = "SECTOR_HEADER_PROGRAM" /\ WrittenUpTo(j.current, 1) /\ j.nextPage = 1
  /\ \/ chip = [kind |-> "program", sector |-> j.current, page |-> 0, content |-> Header(j)]
     \/ chip = None /\ (flash[j.current].header = Header(j) => InNewest(j))

InStep ==
  /\ Prepared(journal)
  /\ \/ chip = None /\ Resting(journal)
     \/ ErasingAhead(journal) \/ WritingPage(journal) \/ WritingHeader(journal)

IInv ==
  /\ TypeOK
  /\ PagesInOrder /\ OneRing
  /\ Erasing /\ OpeningSector /\ Appending /\ ChipAtRest
  /\ status = "healthy" => InStep

-----------------------------------------------------------------------------
(* What begin() finds. *)

Cuts == \A s \in Sectors : flash[s].pages \in [Pages -> Blocks \cup {Blank, Torn}]

(* The first erased page is where the writing stopped.                     *)
LEMMA RestoredAt ==
  ASSUME NEW s \in Sectors, NEW n \in 1..PagesPerSector, WrittenUpTo(s, n)
  PROVE  RestoredPage[s] = n
  <1> DEFINE Fits(p) == /\ p \in Pages => flash[s].pages[p] = Blank
                        /\ \A q \in Pages : q < p => flash[s].pages[q] # Blank
  <1>1. Fits(n) /\ \A p \in 1..PagesPerSector : Fits(p) => p = n
    BY JournalAssumption DEF WrittenUpTo, Pages
  <1> HIDE DEF Fits
  <1>2. (CHOOSE p \in 1..PagesPerSector : Fits(p)) = n
    BY <1>1
  <1> QED BY <1>2 DEF RestoredPage, Fits

(* How far two sectors lie apart on the ring.                              *)
LEMMA RingDistance ==
  ASSUME NEW s \in Sectors, NEW c \in Sectors
  PROVE  Behind(s, c) \in 0..(SectorCount - 1) /\ (Behind(s, c) = 0 <=> s = c)
  BY JournalAssumption DEF Behind, Sectors

(* A number and the one d before it, d less than half the modulus.         *)
LEMMA HalfTheRange ==
  ASSUME NEW q \in Sequences, NEW d \in 0..(SectorCount - 1)
  PROVE  /\ ~Newer(Earlier(q, d), q, SequenceModulus)
         /\ d # 0 => Newer(q, Earlier(q, d), SequenceModulus)
  <1> DEFINE M == SequenceModulus
             r == Earlier(q, d)
  <1>1. M \in Nat \ {0} /\ q \in 0..(M - 1) /\ d \in Nat /\ 2 * d <= M - 1
    BY JournalAssumption DEF Sequences
  <1>2. r = (q + M - d) % M
    BY DEF Earlier
  <1> HIDE DEF M, r
  <1>3. r = IF q < d THEN q + M - d ELSE q - d
    BY <1>1, <1>2
  <1>4. (r + M - q) % M = IF d = 0 THEN 0 ELSE M - d
    BY <1>1, <1>3
  <1>5. (q + M - r) % M = d
    BY <1>1, <1>3
  <1>6. /\ (M - 1) \div 2 \in Nat /\ 2 * ((M - 1) \div 2) <= M - 1
        /\ M - 1 <= 2 * ((M - 1) \div 2) + 1
    BY <1>1
  <1> QED BY <1>1, <1>4, <1>5, <1>6 DEF Newer, M, r

(* No header is newer than the leading one, which is newer than the others.*)
LEMMA LeaderIsNewer ==
  ASSUME NEW c \in Sectors, Leads(c), NEW s \in Sectors, Valid(s)
  PROVE  /\ ~Newer(flash[s].header.seq, flash[c].header.seq, SequenceModulus)
         /\ s # c => Newer(flash[c].header.seq, flash[s].header.seq, SequenceModulus)
  BY RingDistance, HalfTheRange DEF Leads, Valid, Headers

(* The scan meets the leading header and keeps it.                         *)
LEMMA LeaderIsFound ==
  ASSUME NEW c \in Sectors, Leads(c)
  PROVE  Newest = c
  <1> DEFINE Takes(n, best) ==
               /\ Valid(n - 1)
               /\ \/ best = None
                  \/ Newer(flash[n - 1].header.seq, flash[best].header.seq, SequenceModulus)
             Scan(f) == [n \in 0..SectorCount |->
                          IF n = 0 THEN None ELSE IF Takes(n, f[n - 1]) THEN n - 1 ELSE f[n - 1]]
             found == CHOOSE f : f = Scan(f)
             Found == {None} \cup Sectors
  <1>1. found = Scan(found)
    <2> DEFINE step == [n \in 1..SectorCount |->
                         [best \in Found |-> IF Takes(n, best) THEN n - 1 ELSE best]]
    <2>1. step \in [1..SectorCount -> [Found -> Found]]
      BY JournalAssumption DEF Sectors
    <2>2. SectorCount \in Nat
      BY JournalAssumption
    <2>3. None \in Found
      OBVIOUS
    <2>4. PICK f : Iterates(f, SectorCount, Found, None, step)
      <3> HIDE DEF step, Found
      <3> QED BY <2>1, <2>2, <2>3, Iteration
    <2>5. f \in [0..SectorCount -> Found] /\ f[0] = None
          /\ \A n \in 1..SectorCount : f[n] = step[n][f[n - 1]]
      BY <2>4 DEF Iterates
    <2>6. ASSUME NEW n \in 1..SectorCount
          PROVE  f[n] = IF Takes(n, f[n - 1]) THEN n - 1 ELSE f[n - 1]
      <3>1. f[n - 1] \in Found
        <4> HIDE DEF Found
        <4> QED BY <2>2, <2>5
      <3> HIDE DEF Takes, Found
      <3> QED BY <2>5, <3>1
    <2>7. f = Scan(f)
      <3> HIDE DEF Takes, Found
      <3> QED BY <2>2, <2>5, <2>6
    <2> HIDE DEF Scan
    <2> QED BY <2>7
  <1>2. found[0] = None
        /\ \A n \in 1..SectorCount :
             found[n] = IF Takes(n, found[n - 1]) THEN n - 1 ELSE found[n - 1]
    <2> HIDE DEF found, Takes
    <2> QED BY <1>1, JournalAssumption
  <1> HIDE DEF found
  <1> DEFINE Best(n) == IF n <= c THEN found[n] = None \/ found[n] \in ValidSectors \ {c}
                        ELSE found[n] = c
             Good == {n \in 0..SectorCount : Best(n)}
  <1>3. 0 \in Good
    BY <1>2, JournalAssumption DEF Sectors
  <1>4. ASSUME NEW n \in 0..(SectorCount - 1), n \in Good
        PROVE  n + 1 \in Good
    <2>1. n \in Sectors /\ n + 1 \in 1..SectorCount
          /\ found[n + 1] = IF Takes(n + 1, found[n]) THEN n ELSE found[n]
      BY <1>2, JournalAssumption DEF Sectors
    <2>2. CASE n < c
      BY <1>4, <2>1, <2>2 DEF ValidSectors, Sectors
    <2>3. CASE n = c
      <3>1. Takes(n + 1, found[n])
        BY <1>4, <2>1, <2>3, LeaderIsNewer DEF ValidSectors, Leads, Sectors
      <3> QED BY <2>1, <2>3, <3>1 DEF Sectors
    <2>4. CASE n > c
      <3>1. ~Takes(n + 1, found[n])
        BY <1>4, <2>1, <2>4, LeaderIsNewer, ContentAssumption DEF Sectors
      <3> QED BY <1>4, <2>1, <2>4, <3>1 DEF Sectors
    <2> QED BY <2>2, <2>3, <2>4 DEF Sectors
  <1>5. SectorCount \in Good
    <2>1. \A n \in 0..SectorCount : n \in Good
      <3> HIDE DEF Good
      <3> QED BY <1>3, <1>4, BoundedInduction, JournalAssumption
    <2> QED BY <2>1, JournalAssumption
  <1>6. found[SectorCount] = c
    BY <1>5, JournalAssumption DEF Sectors
  <1> QED BY <1>6 DEF Newest, found

LEMMA AdvancedOffset ==
  ASSUME NEW o \in Offsets, NEW units \in Nat
  PROVE  Advanced(o, units) \in Offsets
  <1>1. OffsetModulus \in Nat \ {0} /\ o + units \in Nat
    BY JournalAssumption DEF Offsets
  <1> QED BY <1>1 DEF Advanced, Offsets

(* The end of the stream follows the pages one by one and is an offset.    *)
FollowsEnds(sector, ends) ==
  /\ ends[0] = sector.header.first
  /\ \A n \in Pages :
       ends[n] = IF sector.pages[n] \in Blocks
                 THEN Later(ends[n - 1], Advanced(sector.pages[n].from, sector.pages[n].units))
                 ELSE ends[n - 1]
  /\ \A n \in 0..(PagesPerSector - 1) : ends[n] \in Offsets

LEMMA EndsFollowed ==
  ASSUME NEW sector \in SectorContents, sector.header \in Headers
  PROVE  FollowsEnds(sector, NewestEnd(sector))
  <1> DEFINE N == PagesPerSector - 1
             Follow(n, o) == LET page == sector.pages[n]
                             IN  IF page \in Blocks THEN Later(o, Advanced(page.from, page.units)) ELSE o
             Scan(f) == [n \in 0..N |-> IF n = 0 THEN sector.header.first
                                       ELSE LET page == sector.pages[n]
                                            IN  IF page \in Blocks
                                                THEN Later(f[n - 1], Advanced(page.from, page.units))
                                                ELSE f[n - 1]]
             newest == CHOOSE f : f = Scan(f)
  <1>1. N \in Nat /\ Pages = 1..N
    BY JournalAssumption DEF Pages
  <1> HIDE DEF N
  <1>2. sector.header.first \in Offsets
    BY DEF Headers
  <1>3. ASSUME NEW n \in 1..N, NEW o \in Offsets
        PROVE  Follow(n, o) \in Offsets
    <2>1. CASE sector.pages[n] \in Blocks
      <3> DEFINE page == sector.pages[n]
      <3>1. page.from \in Offsets /\ page.units \in Nat
        BY <2>1, JournalAssumption DEF Blocks
      <3>2. Advanced(page.from, page.units) \in Offsets
        <4> HIDE DEF page
        <4> QED BY <3>1, AdvancedOffset
      <3> QED BY <2>1, <3>2 DEF Later
    <2> QED BY <2>1
  <1>4. newest = Scan(newest)
    <2> DEFINE step == [n \in 1..N |-> [o \in Offsets |-> Follow(n, o)]]
    <2>1. step \in [1..N -> [Offsets -> Offsets]]
      <3> HIDE DEF N, Follow
      <3> QED BY <1>3
    <2>2. PICK f : Iterates(f, N, Offsets, sector.header.first, step)
      <3> HIDE DEF N, step
      <3> QED BY <1>1, <1>2, <2>1, Iteration
    <2>3. /\ f \in [0..N -> Offsets] /\ f[0] = sector.header.first
          /\ \A n \in 1..N : f[n] = step[n][f[n - 1]]
      BY <2>2 DEF Iterates
    <2>4. ASSUME NEW n \in 1..N
          PROVE  f[n] = Follow(n, f[n - 1])
      <3>1. f[n - 1] \in Offsets
        BY <1>1, <2>3
      <3> HIDE DEF N, Follow
      <3> QED BY <2>3, <3>1
    <2>5. f = Scan(f)
      BY <1>1, <2>3, <2>4
    <2> HIDE DEF Scan
    <2> QED BY <2>5
  <1> HIDE DEF newest
  <1>5. newest[0] = sector.header.first /\ \A n \in 1..N : newest[n] = Follow(n, newest[n - 1])
    BY <1>1, <1>4
  <1> DEFINE Typed == {n \in 0..N : newest[n] \in Offsets}
  <1>6. \A n \in 0..N : n \in Typed
    <2>1. 0 \in Typed
      BY <1>1, <1>2, <1>5
    <2>2. ASSUME NEW n \in 0..(N - 1), n \in Typed
          PROVE  n + 1 \in Typed
      <3>1. n + 1 \in 1..N /\ newest[n + 1] = Follow(n + 1, newest[n])
        <4> HIDE DEF Follow
        <4> QED BY <1>1, <1>5
      <3>2. Follow(n + 1, newest[n]) \in Offsets
        <4> HIDE DEF Follow
        <4> QED BY <2>2, <3>1, <1>3
      <3> HIDE DEF Follow
      <3> QED BY <3>1, <3>2
    <2> HIDE DEF N, Typed
    <2> QED BY <1>1, <2>1, <2>2, BoundedInduction
  <1>7. newest = NewestEnd(sector)
    BY DEF NewestEnd, newest, N
  <1>8. \A n \in 0..(PagesPerSector - 1) : newest[n] \in Offsets
    BY <1>6 DEF N
  <1>9. \A n \in Pages :
          newest[n] = IF sector.pages[n] \in Blocks
                      THEN Later(newest[n - 1], Advanced(sector.pages[n].from, sector.pages[n].units))
                      ELSE newest[n - 1]
    BY <1>1, <1>5
  <1> QED BY <1>5, <1>7, <1>8, <1>9 DEF FollowsEnds

LEMMA RestoredStream ==
  ASSUME flash \in [Sectors -> SectorContents], NEW s \in Sectors, Valid(s),
         RestoredPage[s] \in 1..PagesPerSector
  PROVE  RestoredOffset(s) \in Offsets
  <1>1. RestoredPage[s] - 1 \in 0..(PagesPerSector - 1)
    BY JournalAssumption
  <1> QED BY <1>1, EndsFollowed DEF RestoredOffset, Valid, FollowsEnds

(* What can be read follows the pages one by one, too.                     *)
FollowsPages(sector, read) ==
  /\ read[0] = <<>>
  /\ \A n \in Pages :
       read[n] = IF sector.pages[n] \in Blocks THEN Append(read[n - 1], sector.pages[n]) ELSE read[n - 1]
  /\ \A n \in 0..(PagesPerSector - 1) : read[n] \in Seq(Blocks)

LEMMA PagesFollowed ==
  ASSUME NEW sector \in SectorContents
  PROVE  FollowsPages(sector, ValidPages(sector))
  <1> DEFINE N == PagesPerSector - 1
             Follow(n, q) == IF sector.pages[n] \in Blocks THEN Append(q, sector.pages[n]) ELSE q
             Scan(f) == [n \in 0..N |-> IF n = 0 THEN <<>> ELSE Follow(n, f[n - 1])]
             read == CHOOSE f : f = Scan(f)
             Texts == Seq(Blocks)
  <1>1. N \in Nat /\ Pages = 1..N
    BY JournalAssumption DEF Pages
  <1> HIDE DEF N
  <1>2. <<>> \in Texts
    OBVIOUS
  <1>3. ASSUME NEW n \in 1..N, NEW q \in Texts
        PROVE  Follow(n, q) \in Texts
    OBVIOUS
  <1> HIDE DEF Texts
  <1>4. read = Scan(read)
    <2> DEFINE step == [n \in 1..N |-> [q \in Texts |-> Follow(n, q)]]
    <2>1. step \in [1..N -> [Texts -> Texts]]
      <3> HIDE DEF N, Follow
      <3> QED BY <1>3
    <2>2. PICK f : Iterates(f, N, Texts, <<>>, step)
      <3> HIDE DEF N, step
      <3> QED BY <1>1, <1>2, <2>1, Iteration
    <2>3. /\ f \in [0..N -> Texts] /\ f[0] = <<>>
          /\ \A n \in 1..N : f[n] = step[n][f[n - 1]]
      BY <2>2 DEF Iterates
    <2>4. ASSUME NEW n \in 1..N
          PROVE  f[n] = Follow(n, f[n - 1])
      <3>1. f[n - 1] \in Texts
        BY <1>1, <2>3
      <3> HIDE DEF N, Follow
      <3> QED BY <2>3, <3>1
    <2>5. f = Scan(f)
      <3> HIDE DEF Follow
      <3> QED BY <1>1, <2>3, <2>4
    <2> HIDE DEF Scan
    <2> QED BY <2>5
  <1> HIDE DEF read
  <1>5. read[0] = <<>> /\ \A n \in 1..N : read[n] = Follow(n, read[n - 1])
    <2> HIDE DEF Follow
    <2> QED BY <1>1, <1>4
  <1> DEFINE Typed == {n \in 0..N : read[n] \in Texts}
  <1>6. \A n \in 0..N : n \in Typed
    <2>1. 0 \in Typed
      BY <1>1, <1>2, <1>5
    <2>2. ASSUME NEW n \in 0..(N - 1), n \in Typed
          PROVE  n + 1 \in Typed
      <3>1. n + 1 \in 1..N /\ read[n + 1] = Follow(n + 1, read[n])
        <4> HIDE DEF Follow
        <4> QED BY <1>1, <1>5
      <3>2. Follow(n + 1, read[n]) \in Texts
        <4> HIDE DEF Follow
        <4> QED BY <2>2, <3>1, <1>3
      <3> HIDE DEF Follow
      <3> QED BY <3>1, <3>2
    <2> HIDE DEF N, Typed
    <2> QED BY <1>1, <2>1, <2>2, BoundedInduction
  <1>7. read = ValidPages(sector)
    BY DEF ValidPages, read, N
  <1>8. \A n \in 0..(PagesPerSector - 1) : read[n] \in Seq(Blocks)
    BY <1>6 DEF N, Texts
  <1> QED BY <1>1, <1>5, <1>7, <1>8 DEF FollowsPages

-----------------------------------------------------------------------------
(* What a change of the flash leaves true. *)

(* A header that has not become valid unnumbers nobody.                    *)
LEMMA KeepsLead ==
  ASSUME NEW c, Leads(c), flash'[c].header = flash[c].header,
         \A s \in Sectors : Valid(s)' => flash'[s].header = flash[s].header
  PROVE  Leads(c)'
  <1>1. \A s \in Sectors : Valid(s)' => Valid(s)
    BY DEF Valid
  <1> QED BY <1>1 DEF Leads, Valid, Behind, Earlier

(* The header of the next sector leads, once it is written.                *)
LEMMA TakesLead ==
  ASSUME NEW c \in Sectors, Leads(c), NEW next \in Sectors, next = After(c), ~Valid(next),
         Valid(next)', flash'[next].header.seq = (flash[c].header.seq + 1) % SequenceModulus,
         \A s \in Sectors \ {next} : flash'[s].header = flash[s].header
  PROVE  Leads(next)'
  <1> DEFINE M == SequenceModulus
             q == flash[c].header.seq
             n == flash'[next].header.seq
  <1>1. q \in 0..(M - 1) /\ n \in 0..(M - 1) /\ n = (q + 1) % M
    BY DEF Leads, Valid, Headers, Sequences
  <1>2. M \in Nat \ {0} /\ SectorCount \in Nat \ {0} /\ 2 * (SectorCount - 1) <= M - 1
    BY JournalAssumption
  <1>3. next = IF c + 1 < SectorCount THEN c + 1 ELSE 0
    BY <1>2 DEF After, Sectors
  <1>4. n = IF q + 1 < M THEN q + 1 ELSE 0
    <2> HIDE DEF q, n, M
    <2> QED BY <1>1, <1>2
  <1>5. Earlier(n, 0) = n
    <2> HIDE DEF q, n
    <2> QED BY <1>1, <1>2 DEF Earlier
  <1>6. ASSUME NEW s \in Sectors, s # next
        PROVE  /\ Behind(s, next) = Behind(s, c) + 1
               /\ Earlier(n, Behind(s, c) + 1) = Earlier(q, Behind(s, c))
    <2> DEFINE d == Behind(s, c)
    <2>1. Behind(s, next) = d + 1 /\ d \in 0..(SectorCount - 2)
      BY <1>2, <1>3, <1>6 DEF Behind, Sectors
    <2>2. (n + M - (d + 1)) % M = (q + M - d) % M
      <3> HIDE DEF q, n, M, d
      <3>1. (q + M - d) % M = IF q < d THEN q + M - d ELSE q - d
        BY <1>1, <1>2, <2>1
      <3>2. (n + M - (d + 1)) % M = IF n < d + 1 THEN n + M - (d + 1) ELSE n - (d + 1)
        BY <1>1, <1>2, <2>1
      <3> QED BY <1>1, <1>2, <1>4, <2>1, <3>1, <3>2
    <2> QED BY <2>1, <2>2 DEF Earlier
  <1>7. ASSUME NEW s \in Sectors, Valid(s)'
        PROVE  flash'[s].header.seq = Earlier(n, Behind(s, next))
    <2>1. CASE s = next
      BY <1>5, <2>1, RingDistance
    <2>2. CASE s # next
      <3>1. Valid(s) /\ flash'[s].header.seq = Earlier(q, Behind(s, c))
        BY <1>7, <2>2 DEF Leads, Valid
      <3> QED BY <1>6, <2>2, <3>1
    <2> QED BY <2>1, <2>2
  <1> QED BY <1>7 DEF Leads, Valid, Behind, Earlier

(* The next page is written: it may be torn, but it is not blank.          *)
LEMMA WritesNext ==
  ASSUME NEW s \in Sectors, NEW p \in Pages, WrittenUpTo(s, p),
         flash'[s].pages[p] # Blank,
         \A q \in Pages \ {p} : flash'[s].pages[q] = flash[s].pages[q]
  PROVE  WrittenUpTo(s, p + 1)' /\ p + 1 \in 1..PagesPerSector
  BY JournalAssumption DEF WrittenUpTo, Pages

LEMMA SamePages ==
  ASSUME NEW s, NEW n, flash'[s].pages = flash[s].pages, WrittenUpTo(s, n)
  PROVE  WrittenUpTo(s, n)'
  BY DEF WrittenUpTo

LEMMA AllBlank ==
  ASSUME NEW s, flash'[s].pages = Filled(Blank).pages
  PROVE  WrittenUpTo(s, 1)' /\ 1 \in 1..PagesPerSector
  BY JournalAssumption DEF WrittenUpTo, Filled, Pages

LEMMA AllTorn ==
  ASSUME NEW s, flash'[s].pages = Filled(Torn).pages
  PROVE  WrittenUpTo(s, PagesPerSector)' /\ PagesPerSector \in 1..PagesPerSector
  BY JournalAssumption, ContentAssumption DEF WrittenUpTo, Filled, Pages

LEMMA Contents ==
  /\ Filled(Blank) \in SectorContents /\ Filled(Torn) \in SectorContents
  /\ \A h \in Headers \cup {Blank, Torn} : [Filled(Blank) EXCEPT !.header = h] \in SectorContents
  /\ Filled(Blank).header = Blank /\ Filled(Torn).header = Torn
  BY DEF Filled, SectorContents

(* Different steps from a sector lead to different sectors.                *)
LEMMA RingSteps ==
  ASSUME NEW s \in Sectors, NEW i \in 0..(SectorCount - 1), NEW k \in 0..(SectorCount - 1), i # k
  PROVE  (s + i) % SectorCount # (s + k) % SectorCount
  <1>1. SectorCount \in Nat \ {0} /\ s \in 0..(SectorCount - 1)
    BY JournalAssumption DEF Sectors
  <1>2. (s + i) % SectorCount = IF s + i < SectorCount THEN s + i ELSE s + i - SectorCount
    BY <1>1
  <1>3. (s + k) % SectorCount = IF s + k < SectorCount THEN s + k ELSE s + k - SectorCount
    BY <1>1
  <1> QED BY <1>1, <1>2, <1>3

LEMMA RingStepFrom ==
  ASSUME NEW s \in Sectors, NEW i \in Nat
  PROVE  (s + i) % SectorCount \in Sectors
  BY JournalAssumption DEF Sectors

-----------------------------------------------------------------------------
(* The chip. *)

FlashInv == flash \in [Sectors -> SectorContents] /\ PagesInOrder /\ OneRing

(* What an erase leaves, whether it ends or is cut short. *)
LEMMA Erased ==
  ASSUME IInv, chip \in Erases, Complete \/ Interrupted
  PROVE  /\ flash' \in [Sectors -> SectorContents]
         /\ \A s \in Sectors \ {chip.sector} : flash'[s] = flash[s]
         /\ flash'[chip.sector].header \in {flash[chip.sector].header, Torn, Blank}
         /\ flash'[chip.sector].pages \in
              {flash[chip.sector].pages, Filled(Torn).pages, Filled(Blank).pages}
         /\ Complete => flash'[chip.sector] = Filled(Blank)
  <1>1. chip.kind = "erase" /\ chip.sector \in Sectors /\ flash \in [Sectors -> SectorContents]
    BY DEF Erases, IInv, TypeOK
  <1>2. CASE Complete
    BY <1>1, <1>2, Contents DEF Complete, EraseDone, Filled
  <1>3. CASE Interrupted
    <2>1. PICK header \in {flash[chip.sector].header, Torn, Blank},
               pages \in {flash[chip.sector].pages, Filled(Torn).pages} :
            flash' = [flash EXCEPT ![chip.sector] = [header |-> header, pages |-> pages]]
      BY <1>1, <1>3 DEF Interrupted
    <2>2. [header |-> header, pages |-> pages] \in SectorContents
      BY <1>1, Contents DEF SectorContents
    <2>3. Complete => flash'[chip.sector] = Filled(Blank)
      BY <1>1 DEF Complete, EraseDone
    <2> QED BY <1>1, <2>1, <2>2, <2>3
  <1> QED BY <1>2, <1>3

(* What a program leaves.                                                  *)
LEMMA Programmed ==
  ASSUME IInv, chip \in Programs, Complete \/ Interrupted
  PROVE  /\ flash' \in [Sectors -> SectorContents]
         /\ \A s \in Sectors \ {chip.sector} : flash'[s] = flash[s]
         /\ chip.page = 0 =>
              /\ chip.content \in Headers
              /\ flash'[chip.sector].pages = flash[chip.sector].pages
              /\ flash'[chip.sector].header \in {Blank, Torn, chip.content}
              /\ Complete => flash'[chip.sector].header # Blank
         /\ chip.page # 0 =>
              /\ chip.page \in Pages
              /\ flash'[chip.sector].header = flash[chip.sector].header
              /\ \A p \in Pages \ {chip.page} :
                   flash'[chip.sector].pages[p] = flash[chip.sector].pages[p]
              /\ flash'[chip.sector].pages[chip.page] \in {Blank, Torn, chip.content}
              /\ Complete => flash'[chip.sector].pages[chip.page] # Blank
              /\ chip.content # Blank
  <1> DEFINE s == chip.sector
             p == chip.page
  <1>1. /\ chip.kind = "program" /\ s \in Sectors /\ flash \in [Sectors -> SectorContents]
        /\ \/ p = 0 /\ chip.content \in Headers
           \/ p \in Pages /\ chip.content \in Blocks /\ p # 0
    BY JournalAssumption DEF Programs, IInv, TypeOK, Pages
  <1>2. Holds(s, p) = Blank
    <2>1. p \in Pages => flash[s].pages[p] = Blank
      BY <1>1, JournalAssumption DEF IInv, Appending, WrittenUpTo, Pages
    <2> QED BY <1>1, <2>1 DEF Holds, IInv, OpeningSector
  <1>3. PICK x \in {Blank, Torn, chip.content} : Write(s, p, x) /\ (Complete => x # Blank)
    BY <1>1, <1>2, ContentAssumption DEF Complete, ProgramDone, Interrupted, Write, Holds
  <1>4. CASE p = 0
    <2>1. [flash[s] EXCEPT !.header = x] \in SectorContents
      BY <1>1, <1>3, <1>4, JournalAssumption DEF SectorContents, Pages
    <2>2. flash' = [flash EXCEPT ![s] = [flash[s] EXCEPT !.header = x]]
      BY <1>1, <1>3, <1>4 DEF Write
    <2> QED BY <1>1, <1>3, <1>4, <2>1, <2>2, JournalAssumption DEF SectorContents, Pages
  <1>5. CASE p # 0
    <2>1. [flash[s] EXCEPT !.pages = [flash[s].pages EXCEPT ![p] = x]] \in SectorContents
      BY <1>1, <1>3, <1>5 DEF SectorContents
    <2>2. flash' = [flash EXCEPT ![s] = [flash[s] EXCEPT !.pages = [flash[s].pages EXCEPT ![p] = x]]]
      BY <1>1, <1>3, <1>5 DEF Write
    <2> QED BY <1>1, <1>3, <1>5, <2>1, <2>2, ContentAssumption DEF SectorContents
  <1> QED BY <1>4, <1>5

(* The flash is a journal whenever the power fails.                        *)
LEMMA ChipKeepsJournal ==
  ASSUME IInv, chip # None, Complete \/ Interrupted
  PROVE  FlashInv'
  <1> USE DEF FlashInv
  <1>1. CASE chip \in Erases
    <2>1. /\ chip.sector \in Sectors /\ PagesInOrder
          /\ \A s \in Sectors \ {chip.sector} : flash'[s] = flash[s]
      BY <1>1, Erased DEF Erases, IInv
    <2>2. PagesInOrder'
      <3> SUFFICES ASSUME NEW s \in Sectors
                   PROVE  \E n \in 1..PagesPerSector : WrittenUpTo(s, n)'
        BY DEF PagesInOrder
      <3>1. CASE flash'[s].pages = flash[s].pages
        BY <2>1, <3>1, SamePages DEF PagesInOrder
      <3>2. CASE flash'[s].pages = Filled(Torn).pages
        BY <3>2, AllTorn
      <3>3. CASE flash'[s].pages = Filled(Blank).pages
        BY <3>3, AllBlank
      <3> QED BY <1>1, <2>1, <3>1, <3>2, <3>3, Erased
    <2>3. PICK c \in Sectors : Leads(c) /\ c # chip.sector
      BY <1>1 DEF IInv, Erasing
    <2>4. \A s \in Sectors : Valid(s)' => flash'[s].header = flash[s].header
      BY <1>1, <2>1, Erased, ContentAssumption DEF Valid
    <2>5. Leads(c)'
      BY <2>1, <2>3, <2>4, KeepsLead
    <2> QED BY <1>1, <2>2, <2>5, Erased DEF OneRing
  <1>2. CASE chip \in Programs
    <2>1. /\ chip.sector \in Sectors /\ PagesInOrder
          /\ \A s \in Sectors \ {chip.sector} : flash'[s] = flash[s]
      BY <1>2, Programmed DEF Programs, IInv
    <2> PICK k \in Sectors, page \in {0} \cup Pages : k = chip.sector /\ page = chip.page
      BY <1>2 DEF Programs
    <2>2. CASE chip.page = 0
      <3>1. PagesInOrder'
        BY <1>2, <2>1, <2>2, Programmed, SamePages DEF PagesInOrder
      <3>2. PICK c \in Sectors :
              /\ Leads(c) /\ chip.sector = After(c)
              /\ chip.content.seq = (flash[c].header.seq + 1) % SequenceModulus
        BY <1>2, <2>2 DEF IInv, OpeningSector
      <3>3. flash[chip.sector].header = Blank
        BY <1>2, <2>2 DEF IInv, OpeningSector
      <3>4. ~Valid(chip.sector)
        BY <3>3, ContentAssumption DEF Valid
      <3>5. CASE flash'[chip.sector].header = chip.content
        <4>1. Valid(k)'
          BY <1>2, <2>2, <3>5, Programmed DEF Valid
        <4>2. Leads(k)'
          BY <2>1, <3>2, <3>4, <3>5, <4>1, TakesLead
        <4> QED BY <1>2, <2>1, <3>1, <4>2, Programmed DEF OneRing
      <3>6. CASE flash'[chip.sector].header \in {Blank, Torn}
        <4>1. \A s \in Sectors : Valid(s)' => flash'[s].header = flash[s].header
          BY <2>1, <3>6, ContentAssumption DEF Valid
        <4>2. c # chip.sector
          BY <3>2, <3>4 DEF Leads
        <4>3. Leads(c)'
          BY <2>1, <3>2, <4>1, <4>2, KeepsLead
        <4> QED BY <1>2, <3>1, <4>3, Programmed DEF OneRing
      <3> QED BY <1>2, <2>2, <3>5, <3>6, Programmed
    <2>3. CASE chip.page # 0
      <3>1. \A s \in Sectors : flash'[s].header = flash[s].header
        BY <1>2, <2>1, <2>3, Programmed
      <3>2. OneRing'
        <4>1. \A c \in Sectors : Leads(c) => Leads(c)'
          BY <3>1, KeepsLead
        <4>2. ValidSectors = {} => ValidSectors' = {}
          BY <3>1 DEF ValidSectors, Valid
        <4> QED BY <4>1, <4>2 DEF OneRing, IInv
      <3>3. PagesInOrder'
        <4> SUFFICES ASSUME NEW s \in Sectors
                     PROVE  \E n \in 1..PagesPerSector : WrittenUpTo(s, n)'
          BY DEF PagesInOrder
        <4>1. CASE s # chip.sector
          BY <2>1, <4>1, SamePages DEF PagesInOrder
        <4>2. CASE s = chip.sector /\ flash'[s].pages[chip.page] # Blank
          <5>1. WrittenUpTo(s, page) /\ page \in Pages
            BY <1>2, <2>3, <4>2, Programmed DEF IInv, Appending
          <5>2. WrittenUpTo(s, page + 1)' /\ page + 1 \in 1..PagesPerSector
            BY <1>2, <2>1, <2>3, <4>2, <5>1, Programmed, WritesNext
          <5> QED BY <5>2
        <4>3. CASE s = chip.sector /\ flash'[s].pages[chip.page] = Blank
          <5>1. WrittenUpTo(s, page) /\ page \in Pages
            BY <1>2, <2>3, <4>3, Programmed DEF IInv, Appending
          <5>2. \A p \in Pages : flash'[s].pages[p] = flash[s].pages[p]
            BY <1>2, <2>3, <4>3, <5>1, Programmed, JournalAssumption DEF WrittenUpTo, Pages
          <5>3. WrittenUpTo(s, page)'
            BY <5>1, <5>2 DEF WrittenUpTo
          <5> QED BY <5>1, <5>3, JournalAssumption DEF Pages
        <4> QED BY <4>1, <4>2, <4>3
      <3> QED BY <1>2, <3>2, <3>3, Programmed
    <2> QED BY <2>2, <2>3
  <1> QED BY <1>1, <1>2 DEF IInv, TypeOK

(* Erase-ahead stays clear of the sector in use.                           *)
LEMMA Ahead ==
  ASSUME NEW j \in Journals, Prepared(j)
  PROVE  /\ \A i \in 1..j.erasedAhead : /\ (j.current + i) % SectorCount \in Sectors
                                        /\ (j.current + i) % SectorCount # j.current
         /\ j.erasedAhead < EraseAheadSectors =>
              /\ j.nextErase # j.current
              /\ \A i \in 1..j.erasedAhead : (j.current + i) % SectorCount # j.nextErase
  <1> DEFINE c == j.current
             n == j.erasedAhead
  <1>1. /\ c \in Sectors /\ n \in 0..EraseAheadSectors /\ j.nextErase = (c + (1 + n)) % SectorCount
        /\ SectorCount \in Nat \ {0} /\ EraseAheadSectors \in 1..(SectorCount - 1)
    BY JournalAssumption DEF Journals, Prepared, Sectors
  <1>2. c = (c + 0) % SectorCount
    BY <1>1 DEF Sectors
  <1> HIDE DEF c, n
  <1>3. ASSUME NEW i \in 1..n
        PROVE  /\ (c + i) % SectorCount \in Sectors /\ (c + i) % SectorCount # c
               /\ n < EraseAheadSectors => (c + i) % SectorCount # (c + (1 + n)) % SectorCount
    <2>1. i \in 0..(SectorCount - 1) /\ 0 \in 0..(SectorCount - 1) /\ i # 0 /\ i \in Nat
      BY <1>1
    <2>2. (c + i) % SectorCount # (c + 0) % SectorCount
      BY <1>1, <2>1, RingSteps
    <2>3. CASE n < EraseAheadSectors
      <3>1. 1 + n \in 0..(SectorCount - 1) /\ i # 1 + n
        BY <1>1, <2>1, <2>3
      <3>2. (c + i) % SectorCount # (c + (1 + n)) % SectorCount
        BY <1>1, <2>1, <3>1, RingSteps
      <3> QED BY <1>1, <1>2, <2>1, <2>2, <3>2, RingStepFrom
    <2> QED BY <1>1, <1>2, <2>1, <2>2, <2>3, RingStepFrom
  <1>4. ASSUME n < EraseAheadSectors
        PROVE  (c + (1 + n)) % SectorCount # c
    <2>1. 1 + n \in 0..(SectorCount - 1) /\ 0 \in 0..(SectorCount - 1) /\ 0 # 1 + n
      BY <1>1, <1>4
    <2> QED BY <1>1, <1>2, <2>1, RingSteps
  <1> QED BY <1>1, <1>3, <1>4 DEF c, n

LEMMA StaysPrepared ==
  ASSUME NEW j, Prepared(j),
         \A i \in 1..j.erasedAhead :
           flash'[(j.current + i) % SectorCount] = flash[(j.current + i) % SectorCount]
  PROVE  Prepared(j)'
  BY DEF Prepared, Filled

(* The journal finds the flash as it expects it when the chip is done.     *)
LEMMA DoneInStep ==
  ASSUME IInv, InStep, chip # None, Complete, chip' = None, UNCHANGED journal
  PROVE  InStep'
  <1> PICK j \in Journals : j = journal
    BY DEF IInv, TypeOK
  <1>1. Prepared(j) /\ j.current \in Sectors /\ j.nextErase \in Sectors
    BY DEF InStep, Journals
  <1>2. CASE ErasingAhead(j)
    <2>1. chip = [kind |-> "erase", sector |-> j.nextErase] /\ j.erasedAhead < EraseAheadSectors
      BY <1>2 DEF ErasingAhead
    <2>2. chip \in Erases /\ chip.sector = j.nextErase
      BY <1>1, <2>1 DEF Erases
    <2>3. /\ flash'[j.nextErase] = Filled(Blank)
          /\ \A s \in Sectors \ {j.nextErase} : flash'[s] = flash[s]
          /\ flash'[j.nextErase].header \notin Headers
      BY <2>2, Erased, Contents, ContentAssumption
    <2>4. flash'[j.current] = flash[j.current] /\ Prepared(j)'
      BY <1>1, <2>1, <2>3, Ahead, StaysPrepared
    <2>5. Leads(j.current)'
      <3>1. \A s \in Sectors : Valid(s)' => flash'[s].header = flash[s].header
        BY <2>3 DEF Valid
      <3> QED BY <1>2, <2>4, <3>1, KeepsLead DEF ErasingAhead, InNewest
    <2>6. WrittenUpTo(j.current, j.nextPage)'
      BY <1>2, <2>4, SamePages DEF ErasingAhead
    <2>7. ErasingAhead(j)'
      BY <1>2, <2>3, <2>4, <2>5, <2>6 DEF ErasingAhead, InNewest, Filled
    <2> QED BY <2>4, <2>7 DEF InStep
  <1>3. CASE WritingPage(j)
    <2>1. /\ chip = [kind |-> "program", sector |-> j.current, page |-> j.nextPage,
                     content |-> [from |-> j.stream, units |-> j.payload]]
          /\ j.nextPage \in Pages /\ WrittenUpTo(j.current, j.nextPage)
      BY <1>3 DEF WritingPage
    <2>2. chip \in Programs /\ chip.sector = j.current /\ chip.page = j.nextPage /\ chip.page # 0
      <3>1. chip.page # 0 /\ chip \notin Erases
        BY <2>1, JournalAssumption DEF Pages, Erases
      <3> QED BY <2>1, <3>1 DEF IInv, TypeOK
    <2>3. /\ \A s \in Sectors \ {j.current} : flash'[s] = flash[s]
          /\ \A s \in Sectors : flash'[s].header = flash[s].header
          /\ flash'[j.current].pages[j.nextPage] # Blank
          /\ \A p \in Pages \ {j.nextPage} : flash'[j.current].pages[p] = flash[j.current].pages[p]
      BY <2>2, Programmed
    <2>4. Prepared(j)'
      BY <1>1, <2>3, Ahead, StaysPrepared
    <2>5. Leads(j.current)'
      BY <1>1, <1>3, <2>3, KeepsLead DEF WritingPage, InNewest
    <2>6. WrittenUpTo(j.current, j.nextPage + 1)'
      BY <1>1, <2>1, <2>3, WritesNext
    <2>7. WritingPage(j)'
      BY <1>1, <1>3, <2>3, <2>5, <2>6 DEF WritingPage, InNewest
    <2> QED BY <2>4, <2>7 DEF InStep
  <1>4. CASE WritingHeader(j)
    <2>1. chip = [kind |-> "program", sector |-> j.current, page |-> 0, content |-> Header(j)]
      BY <1>4 DEF WritingHeader
    <2>2. /\ chip \in Programs /\ chip.sector = j.current /\ chip.page = 0
          /\ chip.content = Header(j)
      BY <2>1 DEF IInv, TypeOK, Erases
    <2>3. /\ \A s \in Sectors \ {j.current} : flash'[s] = flash[s]
          /\ flash'[j.current].pages = flash[j.current].pages
          /\ Header(j) \in Headers
      BY <2>2, Programmed
    <2>4. Prepared(j)'
      BY <1>1, <2>3, Ahead, StaysPrepared
    <2>5. flash'[j.current].header = Header(j) => InNewest(j)'
      <3> SUFFICES ASSUME flash'[j.current].header = Header(j)
                   PROVE  InNewest(j)'
        OBVIOUS
      <3>1. PICK c \in Sectors :
              /\ Leads(c) /\ j.current = After(c)
              /\ flash'[j.current].header.seq = (flash[c].header.seq + 1) % SequenceModulus
        BY <2>2 DEF IInv, OpeningSector
      <3>2. ~Valid(j.current)
        BY <2>2, ContentAssumption DEF IInv, OpeningSector, Valid
      <3>3. Valid(j.current)'
        BY <2>3 DEF Valid
      <3>4. Leads(j.current)'
        BY <1>1, <2>3, <3>1, <3>2, <3>3, TakesLead
      <3> QED BY <3>4 DEF InNewest, Header
    <2>6. WrittenUpTo(j.current, 1)'
      BY <1>4, <2>3, SamePages DEF WritingHeader
    <2>7. WritingHeader(j)'
      BY <1>4, <2>5, <2>6 DEF WritingHeader
    <2> QED BY <2>4, <2>7 DEF InStep
  <1> QED BY <1>2, <1>3, <1>4 DEF InStep

-----------------------------------------------------------------------------
(* The service. *)

LEMMA SameFlash ==
  ASSUME flash' = flash
  PROVE  /\ \A c : Leads(c)' <=> Leads(c)
         /\ \A s, n : WrittenUpTo(s, n)' <=> WrittenUpTo(s, n)
         /\ \A j : InNewest(j)' <=> InNewest(j)
         /\ \A j : Prepared(j)' <=> Prepared(j)
         /\ OneRing' <=> OneRing
         /\ PagesInOrder' <=> PagesInOrder
  BY DEF Leads, Valid, Behind, Earlier, WrittenUpTo, InNewest, Prepared, Filled, OneRing,
         ValidSectors, PagesInOrder

LEMMA RingNext ==
  ASSUME NEW s \in Sectors, NEW i \in 0..(SectorCount - 1)
  PROVE  /\ (After(s) + i) % SectorCount = (s + (i + 1)) % SectorCount
         /\ After((s + i) % SectorCount) = (s + (i + 1)) % SectorCount
         /\ After(s) \in Sectors
  <1> DEFINE M == SectorCount
  <1>1. M \in Nat \ {0} /\ s \in 0..(M - 1) /\ i \in 0..(M - 1)
    BY JournalAssumption DEF Sectors
  <1> HIDE DEF M
  <1>2. (s + 1) % M = IF s + 1 < M THEN s + 1 ELSE 0
    BY <1>1
  <1>3. (s + i) % M = IF s + i < M THEN s + i ELSE s + i - M
    BY <1>1
  <1>4. (s + (i + 1)) % M = IF s + i + 1 < M THEN s + i + 1
                            ELSE IF s + i + 1 < M + M THEN s + i + 1 - M ELSE 0
    BY <1>1
  <1>5. (((s + 1) % M) + i) % M = (s + (i + 1)) % M
    <2>1. CASE s + 1 < M
      BY <1>1, <1>2, <2>1
    <2>2. CASE s + 1 = M
      BY <1>1, <1>2, <1>4, <2>2
    <2> QED BY <1>1, <2>1, <2>2
  <1>6. (((s + i) % M) + 1) % M = (s + (i + 1)) % M
    <2>1. CASE s + i < M
      BY <1>1, <1>3, <2>1
    <2>2. CASE s + i >= M
      BY <1>1, <1>3, <1>4, <2>2
    <2> QED BY <1>1, <2>1, <2>2
  <1>7. (s + 1) % M \in 0..(M - 1)
    BY <1>1, <1>2
  <1> QED BY <1>5, <1>6, <1>7 DEF After, M, Sectors

(* When the operation that ran has been verified, the journal is at rest.  *)
LEMMA ReadyRests ==
  ASSUME IInv, InStep, Serviceable
  PROVE  Ready \in Journals /\ Resting(Ready) /\ Prepared(Ready)
  <1> PICK j \in Journals : j = journal
    BY DEF IInv, TypeOK
  <1>1. Prepared(j) /\ Ready = Finished(j) /\ chip = None /\ Verified(j)
    BY DEF InStep, Ready, Serviceable
  <1>2. None # [kind |-> "erase", sector |-> j.nextErase]
    BY ContentAssumption DEF Erases, Journals
  <1>3. CASE Resting(j)
    BY <1>1, <1>3 DEF Resting, Finished
  <1>4. CASE ErasingAhead(j)
    <2> DEFINE r == [j EXCEPT !.operation = "NONE", !.nextErase = After(@), !.erasedAhead = @ + 1]
    <2>1. /\ Ready = r /\ j.current \in Sectors
          /\ j.erasedAhead \in 0..(EraseAheadSectors - 1) /\ 1 + j.erasedAhead \in 0..(SectorCount - 1)
          /\ flash[j.nextErase] = Filled(Blank)
      BY <1>1, <1>2, <1>4, JournalAssumption DEF ErasingAhead, Finished, Journals
    <2>2. /\ j.nextErase = (j.current + (1 + j.erasedAhead)) % SectorCount
          /\ j.nextErase \in Sectors
      BY <1>1, <2>1, JournalAssumption DEF Prepared, Journals, Sectors
    <2>3. After(j.nextErase) = (j.current + (2 + j.erasedAhead)) % SectorCount /\ After(j.nextErase) \in Sectors
      <3>1. After((j.current + (1 + j.erasedAhead)) % SectorCount)
              = (j.current + ((1 + j.erasedAhead) + 1)) % SectorCount
        BY <2>1, RingNext
      <3>2. (1 + j.erasedAhead) + 1 = 2 + j.erasedAhead
        BY <2>1
      <3>3. 0 \in 0..(SectorCount - 1)
        BY JournalAssumption
      <3> QED BY <2>2, <3>1, <3>2, <3>3, RingNext
    <2>4. r \in Journals /\ r.operation = "NONE" /\ r.current = j.current /\ r.seq = j.seq
          /\ r.nextPage = j.nextPage /\ r.nextErase = After(j.nextErase)
          /\ r.erasedAhead = j.erasedAhead + 1
      <3>1. j.erasedAhead + 1 \in 0..EraseAheadSectors
        BY <2>1, JournalAssumption
      <3> QED BY <2>3, <3>1 DEF Journals
    <2> HIDE DEF r
    <2>5. Resting(r)
      BY <1>4, <2>4 DEF Resting, ErasingAhead, InNewest
    <2>6. Prepared(r)
      <3>1. r.nextErase = (r.current + 1 + r.erasedAhead) % SectorCount
        <4>1. j.current + (2 + j.erasedAhead) = r.current + 1 + r.erasedAhead
          BY <2>1, <2>4 DEF Sectors
        <4> QED BY <2>3, <2>4, <4>1
      <3>2. ASSUME NEW i \in 1..r.erasedAhead
            PROVE  flash[(r.current + i) % SectorCount] = Filled(Blank)
        <4>1. CASE i \in 1..j.erasedAhead
          BY <1>1, <2>4, <4>1 DEF Prepared
        <4>2. CASE i = 1 + j.erasedAhead
          BY <2>1, <2>2, <2>4, <4>2
        <4> QED BY <2>1, <2>4, <4>1, <4>2
      <3> QED BY <3>1, <3>2 DEF Prepared
    <2> QED BY <2>1, <2>4, <2>5, <2>6
  <1>5. CASE WritingPage(j)
    <2> DEFINE r == [j EXCEPT !.operation = "NONE", !.used = @ - j.payload, !.payload = 0,
                              !.stream = Advanced(@, j.payload), !.nextPage = @ + 1]
    <2>1. j.nextPage \in Pages /\ j.payload \in 1..j.used /\ j.used \in 0..QueueUnits
      BY <1>5 DEF WritingPage, Journals
    <2>2. chip # [kind |-> "program", sector |-> j.current, page |-> j.nextPage,
                  content |-> [from |-> j.stream, units |-> j.payload]]
      <3>1. [kind |-> "program", sector |-> j.current, page |-> j.nextPage,
             content |-> [from |-> j.stream, units |-> j.payload]] \in Programs
        BY <2>1 DEF Programs, Blocks, Journals
      <3> QED BY <1>1, <3>1, ContentAssumption
    <2>3. Advanced(j.stream, j.payload) \in Offsets
      BY <2>1, AdvancedOffset, JournalAssumption DEF Journals
    <2>4. Ready = r
      BY <1>1, <1>5 DEF WritingPage, Finished
    <2>5. j.used - j.payload \in 0..QueueUnits /\ j.nextPage + 1 \in 1..PagesPerSector /\ 0 \in 0..PageUnits
      BY <2>1, JournalAssumption DEF Pages
    <2>6. /\ r \in Journals /\ r.operation = "NONE" /\ r.current = j.current /\ r.seq = j.seq
          /\ r.nextPage = j.nextPage + 1 /\ r.nextErase = j.nextErase /\ r.erasedAhead = j.erasedAhead
      BY <2>3, <2>5 DEF Journals
    <2> HIDE DEF r
    <2>7. Resting(r)
      BY <1>5, <2>2, <2>6 DEF Resting, WritingPage, InNewest
    <2>8. Prepared(r)
      BY <1>1, <2>6 DEF Prepared
    <2> QED BY <2>4, <2>6, <2>7, <2>8
  <1>6. CASE WritingHeader(j)
    <2> DEFINE r == [j EXCEPT !.operation = "NONE", !.nextPage = 1, !.payload = 0]
    <2>1. Ready = r /\ flash[j.current].header = Header(j)
      BY <1>1, <1>6 DEF WritingHeader, Finished, Verified
    <2>2. chip # [kind |-> "program", sector |-> j.current, page |-> 0, content |-> Header(j)]
      <3>1. [kind |-> "program", sector |-> j.current, page |-> 0, content |-> Header(j)] \in Programs
        BY DEF Programs, Headers, Header, Journals
      <3> QED BY <1>1, <3>1, ContentAssumption
    <2>3. 1 \in 1..PagesPerSector /\ 0 \in 0..PageUnits
      BY JournalAssumption
    <2>4. /\ r \in Journals /\ r.operation = "NONE" /\ r.current = j.current /\ r.seq = j.seq
          /\ r.nextPage = 1 /\ r.nextErase = j.nextErase /\ r.erasedAhead = j.erasedAhead
      BY <2>3 DEF Journals
    <2> HIDE DEF r
    <2>5. Resting(r)
      BY <1>6, <2>1, <2>2, <2>4 DEF Resting, WritingHeader, InNewest
    <2>6. Prepared(r)
      BY <1>1, <2>4 DEF Prepared
    <2> QED BY <2>1, <2>4, <2>5, <2>6
  <1> QED BY <1>3, <1>4, <1>5, <1>6 DEF InStep

(* A command that is started finds the flash as it needs it, and is what   *)
(* the journal waits for.                                                  *)
StartedWell ==
  /\ journal \in Journals /\ chip \in Programs \cup Erases \cup {None}
  /\ Erasing /\ OpeningSector /\ Appending /\ InStep

LEMMA StartsErase ==
  ASSUME NEW j \in Journals, Resting(j), Prepared(j), flash' = flash, StartEraseAhead(j)
  PROVE  StartedWell'
  <1> DEFINE r == [j EXCEPT !.operation = "SECTOR_ERASE", !.payload = 0]
             op == [kind |-> "erase", sector |-> j.nextErase]
  <1>1. /\ journal' = r /\ chip' = op /\ j.erasedAhead < EraseAheadSectors
        /\ j.current \in Sectors /\ j.nextErase \in Sectors
    BY JournalAssumption DEF StartEraseAhead, Start, EraseWanted, Journals
  <1>2. 0 \in 0..PageUnits
    BY JournalAssumption
  <1>3. /\ r \in Journals /\ r.operation = "SECTOR_ERASE" /\ r.current = j.current /\ r.seq = j.seq
        /\ r.nextPage = j.nextPage /\ r.nextErase = j.nextErase /\ r.erasedAhead = j.erasedAhead
    BY <1>2 DEF Journals
  <1>4. op \in Erases /\ op \notin Programs /\ op.sector = j.nextErase
    BY <1>1 DEF Erases, Programs
  <1> HIDE DEF r, op
  <1>5. Leads(j.current)' /\ InNewest(r)' /\ WrittenUpTo(j.current, j.nextPage)' /\ Prepared(r)'
    <2>1. InNewest(r) /\ Prepared(r)
      BY <1>3 DEF Resting, InNewest, Prepared
    <2> QED BY <2>1, SameFlash DEF Resting, InNewest
  <1>6. j.nextErase # j.current
    BY <1>1, Ahead
  <1>7. InStep'
    <2>1. ErasingAhead(r)'
      BY <1>1, <1>3, <1>5 DEF ErasingAhead, op
    <2> QED BY <1>1, <1>5, <2>1 DEF InStep
  <1> QED BY <1>1, <1>3, <1>4, <1>5, <1>6, <1>7
          DEF StartedWell, Erasing, OpeningSector, Appending

LEMMA StartsHeader ==
  ASSUME NEW j \in Journals, Resting(j), Prepared(j), flash' = flash, RotateSector(j)
  PROVE  StartedWell'
  <1> DEFINE r == [j EXCEPT !.current = After(@), !.seq = (@ + 1) % SequenceModulus,
                            !.erasedAhead = @ - 1, !.nextPage = 1, !.payload = 0,
                            !.operation = "SECTOR_HEADER_PROGRAM"]
             op == [kind |-> "program", sector |-> r.current, page |-> 0, content |-> Header(r)]
  <1>1. /\ journal' = r /\ chip' = op /\ j.erasedAhead \in 1..EraseAheadSectors
        /\ j.current \in Sectors /\ j.seq \in Sequences
    BY JournalAssumption DEF RotateSector, Start, EraseWanted, Journals
  <1>2. /\ After(j.current) \in Sectors /\ (j.seq + 1) % SequenceModulus \in Sequences
        /\ 0 \in 0..PageUnits /\ 1 \in 1..PagesPerSector /\ 0 \in 0..(SectorCount - 1)
        /\ j.erasedAhead - 1 \in 0..EraseAheadSectors
    BY <1>1, RingNext, JournalAssumption DEF Sequences
  <1>3. /\ r \in Journals /\ r.operation = "SECTOR_HEADER_PROGRAM"
        /\ r.current = After(j.current) /\ r.seq = (j.seq + 1) % SequenceModulus
        /\ r.nextPage = 1 /\ r.nextErase = j.nextErase /\ r.erasedAhead = j.erasedAhead - 1
    BY <1>2 DEF Journals
  <1> HIDE DEF r
  <1>4. Header(r) \in Headers /\ Header(r).seq = r.seq
    BY <1>3 DEF Header, Headers, Journals
  <1>5. op \in Programs /\ op \notin Erases /\ op.sector = r.current /\ op.page = 0 /\ op.content = Header(r)
    BY <1>2, <1>3, <1>4 DEF Programs, Erases
  <1> HIDE DEF op
  <1>6. flash[After(j.current)] = Filled(Blank)
    <2>1. 1 \in 1..j.erasedAhead
      BY <1>1
    <2> QED BY <1>1, <2>1 DEF Prepared, After
  <1>7. WrittenUpTo(r.current, 1) /\ flash[r.current].header = Blank
    BY <1>3, <1>6, JournalAssumption DEF WrittenUpTo, Filled, Pages
  <1>8. Prepared(r)
    <2>1. ASSUME NEW i \in Nat, i <= j.erasedAhead
          PROVE  (After(j.current) + i) % SectorCount = (j.current + (i + 1)) % SectorCount
      <3>1. i \in 0..(SectorCount - 1)
        BY <1>1, <2>1, JournalAssumption
      <3> QED BY <1>1, <3>1, RingNext
    <2>2. r.nextErase = (r.current + 1 + r.erasedAhead) % SectorCount
      <3>1. /\ r.current + 1 + r.erasedAhead = After(j.current) + j.erasedAhead
            /\ j.current + (j.erasedAhead + 1) = j.current + 1 + j.erasedAhead
            /\ j.erasedAhead \in Nat /\ j.erasedAhead <= j.erasedAhead
        BY <1>1, <1>2, <1>3, JournalAssumption DEF Sectors
      <3> QED BY <1>3, <2>1, <3>1 DEF Prepared
    <2>3. ASSUME NEW i \in 1..r.erasedAhead
          PROVE  flash[(r.current + i) % SectorCount] = Filled(Blank)
      <3>1. i \in Nat /\ i <= j.erasedAhead /\ i + 1 \in 1..j.erasedAhead
        BY <1>1, <1>3
      <3> QED BY <1>3, <2>1, <3>1 DEF Prepared
    <2> QED BY <2>2, <2>3 DEF Prepared
  <1>9. /\ Leads(j.current)' /\ flash'[j.current].header.seq = j.seq
        /\ WrittenUpTo(r.current, 1)' /\ Prepared(r)'
    BY <1>7, <1>8, SameFlash DEF Resting, InNewest
  <1>10. InStep'
    <2>1. WritingHeader(r)'
      BY <1>1, <1>3, <1>9 DEF WritingHeader, op
    <2> QED BY <1>1, <1>9, <2>1 DEF InStep
  <1> QED BY <1>1, <1>3, <1>4, <1>5, <1>7, <1>9, <1>10
          DEF StartedWell, Erasing, OpeningSector, Appending

LEMMA StartsPage ==
  ASSUME NEW j \in Journals, Resting(j), Prepared(j), flash' = flash, StartDataPage(j)
  PROVE  StartedWell'
  <1> DEFINE r == [j EXCEPT !.operation = "DATA_PAGE_PROGRAM", !.payload = DataUnits(j)]
             op == [kind |-> "program", sector |-> j.current, page |-> j.nextPage,
                    content |-> [from |-> j.stream, units |-> DataUnits(j)]]
  <1>1. /\ journal' = r /\ chip' = op /\ j.nextPage \in Pages
        /\ DataUnits(j) \in 1..j.used /\ DataUnits(j) \in 1..PageUnits
        /\ j.current \in Sectors /\ j.stream \in Offsets
    BY JournalAssumption DEF StartDataPage, Start, DataWanted, SectorFull, DataUnits, Journals, Pages
  <1>2. /\ r \in Journals /\ r.operation = "DATA_PAGE_PROGRAM" /\ r.current = j.current /\ r.seq = j.seq
        /\ r.nextPage = j.nextPage /\ r.nextErase = j.nextErase /\ r.erasedAhead = j.erasedAhead
        /\ r.payload = DataUnits(j) /\ r.used = j.used /\ r.stream = j.stream
    <2>1. DataUnits(j) \in 0..PageUnits
      BY <1>1, JournalAssumption
    <2> QED BY <2>1 DEF Journals
  <1>3. /\ op \in Programs /\ op \notin Erases /\ op.sector = j.current /\ op.page = j.nextPage
        /\ op.page # 0
    BY <1>1, JournalAssumption DEF Programs, Blocks, Erases, Pages
  <1> HIDE DEF r, op
  <1>4. Leads(j.current)' /\ InNewest(r)' /\ WrittenUpTo(j.current, j.nextPage)' /\ Prepared(r)'
    <2>1. InNewest(r) /\ Prepared(r)
      BY <1>2 DEF Resting, InNewest, Prepared
    <2> QED BY <2>1, SameFlash DEF Resting, InNewest
  <1>5. InStep'
    <2>1. WritingPage(r)'
      BY <1>1, <1>2, <1>4 DEF WritingPage, op
    <2> QED BY <1>1, <1>4, <2>1 DEF InStep
  <1> QED BY <1>1, <1>2, <1>3, <1>4, <1>5
          DEF StartedWell, Erasing, OpeningSector, Appending

LEMMA StartsNothing ==
  ASSUME NEW j \in Journals, Resting(j), Prepared(j), flash' = flash, StartNothing(j)
  PROVE  StartedWell'
  <1>1. Resting(j)' /\ Prepared(j)' /\ journal' = j /\ chip' = None
    BY SameFlash DEF Resting, StartNothing, Start
  <1>2. InStep'
    BY <1>1 DEF InStep
  <1> QED BY <1>1, <1>2, ContentAssumption DEF StartedWell, Erasing, OpeningSector, Appending

-----------------------------------------------------------------------------
(* begin. *)

LEMMA StartedJournal ==
  ASSUME NEW s \in Sectors, NEW seq \in Sequences, NEW page \in 1..PagesPerSector, NEW offset \in Offsets
  PROVE  /\ Started(s, seq, page, offset) \in Journals
         /\ (Leads(s) /\ flash[s].header.seq = seq /\ WrittenUpTo(s, page)) =>
              Resting(Started(s, seq, page, offset)) /\ Prepared(Started(s, seq, page, offset))
  <1> DEFINE j == Started(s, seq, page, offset)
  <1>1. After(s) \in Sectors /\ 0 \in 0..PageUnits /\ 0 \in 0..QueueUnits /\ 0 \in 0..EraseAheadSectors
        /\ After(s) = (s + 1 + 0) % SectorCount
    BY JournalAssumption DEF After, Sectors
  <1>2. /\ j \in Journals /\ j.operation = "NONE" /\ j.current = s /\ j.seq = seq /\ j.nextPage = page
        /\ j.nextErase = After(s) /\ j.erasedAhead = 0
    BY <1>1 DEF Started, Journals
  <1> HIDE DEF j
  <1>3. j \in Journals
        /\ ((Leads(s) /\ flash[s].header.seq = seq /\ WrittenUpTo(s, page)) => Resting(j) /\ Prepared(j))
    BY <1>1, <1>2 DEF Resting, InNewest, Prepared
  <1> QED BY <1>3 DEF j

LEMMA OffJournal == Off \in Journals
  <1>1. 0 \in Sectors /\ 0 \in Sequences /\ 1 \in 1..PagesPerSector /\ 0 \in Offsets
    BY JournalAssumption DEF Sectors, Sequences, Offsets
  <1> QED BY <1>1, StartedJournal DEF Off

LEMMA FreshFlash ==
  ASSUME flash \in [Sectors -> SectorContents], PagesInOrder, ValidSectors = {},
         NEW header \in {Blank, Torn, [seq |-> 0, first |-> 0]},
         flash' = [flash EXCEPT ![0] = [Filled(Blank) EXCEPT !.header = header]]
  PROVE  /\ flash' \in [Sectors -> SectorContents] /\ PagesInOrder' /\ OneRing'
         /\ 0 \in Sectors /\ WrittenUpTo(0, 1)'
         /\ header \notin {Blank, Torn} => Leads(0)' /\ flash'[0].header.seq = 0
  <1>1. 0 \in Sectors /\ 0 \in Sequences /\ 0 \in Offsets /\ SequenceModulus \in Nat \ {0}
    <2>1. SectorCount \in Nat \ {0} /\ SequenceModulus \in Nat \ {0}
      BY JournalAssumption
    <2>2. OffsetModulus \in Nat \ {0}
      <3>1. 2 * PageUnits * (PagesPerSector - 1) \in Nat
        BY JournalAssumption
      <3> QED BY <3>1, JournalAssumption
    <2> QED BY <2>1, <2>2 DEF Sectors, Sequences, Offsets
  <1>2. [seq |-> 0, first |-> 0] \in Headers
    BY <1>1 DEF Headers
  <1>3. /\ flash' \in [Sectors -> SectorContents]
        /\ flash'[0].header = header /\ flash'[0].pages = Filled(Blank).pages
        /\ \A s \in Sectors \ {0} : flash'[s] = flash[s]
    BY <1>1, <1>2, Contents DEF Filled
  <1>4. PagesInOrder' /\ WrittenUpTo(0, 1)'
    <2>1. WrittenUpTo(0, 1)' /\ 1 \in 1..PagesPerSector
      BY <1>3, AllBlank
    <2>2. ASSUME NEW s \in Sectors \ {0}
          PROVE  \E n \in 1..PagesPerSector : WrittenUpTo(s, n)'
      BY <1>3, SamePages DEF PagesInOrder
    <2> QED BY <2>1, <2>2 DEF PagesInOrder
  <1>5. \A s \in Sectors \ {0} : ~Valid(s)'
    BY <1>3 DEF ValidSectors, Valid
  <1>6. CASE header \in {Blank, Torn}
    <2>1. ~Valid(0)'
      BY <1>3, <1>6, ContentAssumption DEF Valid
    <2>2. \A s \in Sectors : ~Valid(s)'
      BY <1>5, <2>1
    <2>3. ValidSectors' = {}
      BY <2>2 DEF ValidSectors
    <2> QED BY <1>1, <1>3, <1>4, <1>6, <2>3 DEF OneRing
  <1>7. CASE header = [seq |-> 0, first |-> 0]
    <2>1. Valid(0)' /\ flash'[0].header.seq = 0
      BY <1>2, <1>3, <1>7 DEF Valid
    <2>2. Earlier(0, Behind(0, 0)) = 0
      BY <1>1 DEF Earlier, Behind
    <2>3. Leads(0)'
      <3>1. \A s \in Sectors : Valid(s)' => flash'[s].header.seq = Earlier(0, Behind(s, 0))
        BY <1>5, <2>1, <2>2
      <3> QED BY <1>1, <2>1, <3>1 DEF Leads, Valid, Earlier, Behind
    <2> QED BY <1>1, <1>3, <1>4, <2>1, <2>3 DEF OneRing
  <1> QED BY <1>6, <1>7

-----------------------------------------------------------------------------
LEMMA Initially == Init => IInv
  <1> SUFFICES ASSUME Init
               PROVE  IInv
    OBVIOUS
  <1>1. PICK content \in {Blank, Torn} : flash = [s \in Sectors |-> Filled(content)]
    BY DEF Init
  <1>2. TypeOK
    BY <1>1, Contents, OffJournal DEF Init, TypeOK
  <1>3. \A s \in Sectors : flash[s].pages = Filled(content).pages /\ flash[s].header = content
    BY <1>1 DEF Filled
  <1>4. OneRing
    BY <1>3, ContentAssumption DEF OneRing, ValidSectors, Valid
  <1>5. PagesInOrder
    <2>1. \A s \in Sectors : WrittenUpTo(s, IF content = Blank THEN 1 ELSE PagesPerSector)
      BY <1>3, JournalAssumption, ContentAssumption DEF WrittenUpTo, Filled, Pages
    <2>2. (IF content = Blank THEN 1 ELSE PagesPerSector) \in 1..PagesPerSector
      BY JournalAssumption
    <2> QED BY <2>1, <2>2 DEF PagesInOrder
  <1>6. chip = None /\ status = "off"
    BY DEF Init
  <1> QED BY <1>2, <1>4, <1>5, <1>6, ContentAssumption
          DEF IInv, Erasing, OpeningSector, Appending, ChipAtRest

(* With nothing in the chip, its part of the invariant says nothing.       *)
LEMMA ChipIdle ==
  ASSUME chip' = None
  PROVE  Erasing' /\ OpeningSector' /\ Appending' /\ ChipAtRest'
  BY ContentAssumption DEF Erasing, OpeningSector, Appending, ChipAtRest

LEMMA Begins ==
  ASSUME IInv, BeginRestored \/ BeginFresh \/ BeginFreshCut \/ BeginFails
  PROVE  IInv'
  <1>1. chip = None /\ status = "off"
    BY DEF BeginRestored, BeginFresh, BeginFreshCut, BeginFails, IInv, ChipAtRest
  <1>2. /\ flash \in [Sectors -> SectorContents] /\ PagesInOrder /\ OneRing
        /\ flushRequested \in BOOLEAN /\ journal \in Journals
    BY DEF IInv, TypeOK
  <1>3. CASE BeginRestored
    <2>1. ValidSectors # {} /\ status' = "healthy" /\ flushRequested' = FALSE /\ flash' = flash /\ chip' = None
      BY <1>1, <1>3 DEF BeginRestored
    <2>2. PICK c \in Sectors : Leads(c)
      BY <1>2, <2>1 DEF OneRing
    <2>3. PICK n \in 1..PagesPerSector : WrittenUpTo(c, n)
      BY <1>2 DEF PagesInOrder
    <2>4. Newest = c /\ RestoredPage[c] = n
      BY <2>2, <2>3, LeaderIsFound, RestoredAt
    <2>5. Valid(c) /\ flash[c].header.seq \in Sequences
      BY <2>2 DEF Leads, Valid, Headers
    <2>6. RestoredOffset(c) \in Offsets
      BY <1>2, <2>4, <2>5, RestoredStream
    <2> PICK j : j = Started(c, flash[c].header.seq, n, RestoredOffset(c))
      OBVIOUS
    <2>7. j \in Journals /\ Resting(j) /\ Prepared(j) /\ journal' = j
      BY <1>3, <2>2, <2>3, <2>4, <2>5, <2>6, StartedJournal DEF BeginRestored
    <2>8. Resting(j)' /\ Prepared(j)'
      BY <2>1, <2>7, SameFlash DEF Resting
    <2>9. InStep'
      BY <2>1, <2>7, <2>8 DEF InStep
    <2> QED BY <1>2, <2>1, <2>7, <2>9, SameFlash, ChipIdle DEF IInv, TypeOK
  <1>4. CASE BeginFresh
    <2>1. /\ ValidSectors = {} /\ journal' = Off /\ status' = "healthy" /\ flushRequested' = FALSE
          /\ chip' = None
          /\ flash' = [flash EXCEPT ![0] = [Filled(Blank) EXCEPT !.header = [seq |-> 0, first |-> 0]]]
      BY <1>1, <1>4 DEF BeginFresh
    <2>2. [seq |-> 0, first |-> 0] \notin {Blank, Torn}
      BY ContentAssumption, JournalAssumption DEF Headers, Sequences, Offsets
    <2>3. /\ flash' \in [Sectors -> SectorContents] /\ PagesInOrder' /\ OneRing'
          /\ WrittenUpTo(0, 1)' /\ Leads(0)' /\ flash'[0].header.seq = 0
      BY <1>2, <2>1, <2>2, FreshFlash
    <2>4. Off.operation = "NONE" /\ Off.current = 0 /\ Off.seq = 0 /\ Off.nextPage = 1
          /\ Off.nextErase = After(0) /\ Off.erasedAhead = 0
      BY DEF Off, Started
    <2>5. Off.nextErase = (Off.current + 1 + Off.erasedAhead) % SectorCount
      BY <2>4, JournalAssumption DEF After
    <2> PICK j : j = Off
      OBVIOUS
    <2>6. Resting(j)' /\ Prepared(j)'
      BY <2>3, <2>4, <2>5 DEF Resting, InNewest, Prepared
    <2>7. InStep'
      BY <2>1, <2>6 DEF InStep
    <2> QED BY <2>1, <2>3, <2>7, ChipIdle, OffJournal DEF IInv, TypeOK
  <1>5. CASE BeginFreshCut
    <2>1. PICK header \in {Blank, Torn, [seq |-> 0, first |-> 0]} :
            flash' = [flash EXCEPT ![0] = [Filled(Blank) EXCEPT !.header = header]]
      BY <1>5 DEF BeginFreshCut
    <2>2. ValidSectors = {} /\ status' \in {"off", "failed"} /\ UNCHANGED <<chip, flushRequested, journal>>
      BY <1>5 DEF BeginFreshCut
    <2>3. flash' \in [Sectors -> SectorContents] /\ PagesInOrder' /\ OneRing'
      BY <1>2, <2>1, <2>2, FreshFlash
    <2> QED BY <1>1, <1>2, <2>2, <2>3, ChipIdle DEF IInv, TypeOK
  <1>6. CASE BeginFails
    <2>1. status' = "failed" /\ UNCHANGED <<flash, chip, flushRequested, journal>>
      BY <1>6 DEF BeginFails
    <2> QED BY <1>1, <1>2, <2>1, SameFlash, ChipIdle DEF IInv, TypeOK
  <1> QED BY <1>3, <1>4, <1>5, <1>6

LEMMA Settles ==
  ASSUME IInv, ChipDone \/ Restart
  PROVE  IInv'
  <1>1. chip' = None /\ flushRequested' \in BOOLEAN /\ status' \in {"off", "healthy", "failed", "stopped"}
    BY DEF ChipDone, Restart, IInv, TypeOK
  <1>2. FlashInv'
    <2>1. CASE chip # None /\ (Complete \/ Interrupted)
      BY <2>1, ChipKeepsJournal
    <2>2. CASE flash' = flash
      BY <2>2, SameFlash DEF FlashInv, IInv, TypeOK
    <2> QED BY <2>1, <2>2 DEF ChipDone, Restart
  <1>3. journal' \in Journals
    BY OffJournal DEF ChipDone, Restart, IInv, TypeOK
  <1>4. status' = "healthy" => InStep'
    <2>1. Restart => status' # "healthy"
      BY DEF Restart
    <2>2. ASSUME ChipDone, status' = "healthy"
          PROVE  InStep'
      BY <2>2, DoneInStep DEF ChipDone, IInv
    <2> QED BY <2>1, <2>2
  <1> QED BY <1>1, <1>2, <1>3, <1>4, ChipIdle DEF IInv, TypeOK, FlashInv

(* Payload that is appended leaves every step that runs as it is.          *)
LEMMA Appends ==
  ASSUME IInv, NEW units \in 1..PageUnits, AppendUnits(units)
  PROVE  IInv'
  <1> PICK j \in Journals : j = journal
    BY DEF IInv, TypeOK
  <1> DEFINE r == [j EXCEPT !.used = @ + units]
  <1>1. /\ status = "healthy" /\ journal' = r /\ UNCHANGED <<flash, chip, status, flushRequested>>
        /\ j.used + units \in 0..QueueUnits /\ j.used \in Nat /\ InStep
    BY JournalAssumption DEF AppendUnits, CanAppend, IInv, Journals
  <1>2. /\ r \in Journals /\ r.operation = j.operation /\ r.current = j.current /\ r.seq = j.seq
        /\ r.nextPage = j.nextPage /\ r.nextErase = j.nextErase /\ r.erasedAhead = j.erasedAhead
        /\ r.payload = j.payload /\ r.stream = j.stream /\ r.used = j.used + units
    BY <1>1 DEF Journals
  <1> HIDE DEF r
  <1>3. j.payload \in 1..j.used => r.payload \in 1..r.used
    BY <1>1, <1>2
  <1>4. InNewest(j) <=> InNewest(r)
    BY <1>2 DEF InNewest
  <1>5. Prepared(r)
    BY <1>1, <1>2 DEF Prepared, InStep
  <1>6. Header(r) = Header(j)
    BY <1>2 DEF Header
  <1>7. \/ chip = None /\ Resting(r)
        \/ ErasingAhead(r) \/ WritingPage(r) \/ WritingHeader(r)
    BY <1>1, <1>2, <1>3, <1>4, <1>6 DEF InStep, Resting, ErasingAhead, WritingPage, WritingHeader
  <1>8. InStep'
    <2>1. \/ chip' = None /\ Resting(r)'
          \/ ErasingAhead(r)' \/ WritingPage(r)' \/ WritingHeader(r)'
      BY <1>1, <1>7, SameFlash DEF Resting, ErasingAhead, WritingPage, WritingHeader, Filled
    <2> QED BY <1>1, <1>5, <2>1, SameFlash DEF InStep
  <1> QED BY <1>1, <1>2, <1>8, SameFlash
          DEF IInv, TypeOK, Erasing, OpeningSector, Appending, ChipAtRest

(* Steps that leave the flash, the chip and the journal alone.             *)
LEMMA OnlyStatus ==
  ASSUME IInv, UNCHANGED <<flash, chip, journal>>, flushRequested' \in BOOLEAN,
         \/ status' = status
         \/ status' = "stopped" /\ chip = None
  PROVE  IInv'
  <1>1. InStep => InStep'
    BY SameFlash
       DEF InStep, Resting, ErasingAhead, WritingPage, WritingHeader, InNewest, Prepared, Leads, Valid,
           Behind, Earlier, WrittenUpTo, Filled
  <1> QED BY <1>1, SameFlash DEF IInv, TypeOK, Erasing, OpeningSector, Appending, ChipAtRest

LEMMA Services ==
  ASSUME IInv, Service \/ StartFails
  PROVE  IInv'
  <1>1. /\ Serviceable /\ status = "healthy" /\ UNCHANGED <<flash, flushRequested>>
        /\ status' \in {"healthy", "failed"}
        /\ StartEraseAhead(Ready) \/ RotateSector(Ready) \/ StartDataPage(Ready) \/ StartNothing(Ready)
    BY DEF Service, StartFails, Serviceable
  <1> PICK j : j = Ready
    OBVIOUS
  <1>2. j \in Journals /\ Resting(j) /\ Prepared(j)
    BY <1>1, ReadyRests DEF IInv
  <1>3. StartedWell'
    BY <1>1, <1>2, StartsErase, StartsHeader, StartsPage, StartsNothing
  <1>4. ChipAtRest'
    BY <1>1 DEF ChipAtRest
  <1> QED BY <1>1, <1>3, <1>4, SameFlash DEF IInv, TypeOK, StartedWell

LEMMA Fails ==
  ASSUME IInv, VerifyFails \/ ServiceFails
  PROVE  IInv'
  <1>1. status' = "failed" /\ journal' = Off /\ UNCHANGED <<flash, chip, flushRequested>>
    BY DEF VerifyFails, ServiceFails
  <1> QED BY <1>1, OffJournal, SameFlash
          DEF IInv, TypeOK, Erasing, OpeningSector, Appending, ChipAtRest

LEMMA Stepwise == IInv /\ [Next]_vars => IInv'
  <1> SUFFICES ASSUME IInv, [Next]_vars
               PROVE  IInv'
    OBVIOUS
  <1>1. CASE BeginRestored \/ BeginFresh \/ BeginFreshCut \/ BeginFails
    BY <1>1, Begins
  <1>2. CASE ChipDone \/ Restart
    BY <1>2, Settles
  <1>3. CASE \E units \in 1..PageUnits : AppendUnits(units)
    BY <1>3, Appends
  <1>4. CASE RequestFlush
    BY <1>4, OnlyStatus DEF RequestFlush
  <1>5. CASE Stop
    <2>1. chip = None
      BY <1>5 DEF Stop, Idle, IInv, InStep, ErasingAhead, WritingPage, WritingHeader
    <2> QED BY <1>5, <2>1, OnlyStatus DEF Stop, IInv, TypeOK
  <1>6. CASE Service \/ StartFails
    BY <1>6, Services
  <1>7. CASE VerifyFails \/ ServiceFails
    BY <1>7, Fails
  <1>8. CASE UNCHANGED vars
    BY <1>8, OnlyStatus DEF vars, IInv, TypeOK
  <1> QED BY <1>1, <1>2, <1>3, <1>4, <1>5, <1>6, <1>7, <1>8 DEF Next

(* The invariant holds through power failures, restarts and failed         *)
(* operations (begin, service).                                            *)
THEOREM Invariance == Spec => []IInv
  BY Initially, Stepwise, PTL DEF Spec

(* Every member of the journal keeps its range: in particular the ring     *)
(* arithmetic never leaves the flash, erase-ahead never exceeds its limit, *)
(* the queue never underflows, and begin() finds the newest sector and     *)
(* goes on at an offset, whatever a power failure has left.                *)
THEOREM Types == Spec => []TypeOK
  <1>1. IInv => TypeOK
    BY DEF IInv
  <1> QED BY <1>1, Invariance, PTL

(* No page is programmed that does not read erased (startDataPage,         *)
(* rotateSector, startSectorHeader): a restart resumes at the first erased *)
(* page, and a sector is entered only when erase-ahead has prepared it.    *)
THEOREM ErasedBeforeProgram == Spec => []ProgramsErasedPages
  <1>1. IInv => ProgramsErasedPages
    <2> SUFFICES ASSUME IInv, chip \in Programs
                 PROVE  Holds(chip.sector, chip.page) = Blank
      BY DEF ProgramsErasedPages
    <2>1. CASE chip.page = 0
      BY <2>1 DEF IInv, OpeningSector, Holds
    <2>2. CASE chip.page # 0
      BY <2>2, JournalAssumption DEF IInv, Appending, WrittenUpTo, Holds, Programs, Pages
    <2> QED BY <2>1, <2>2
  <1> QED BY <1>1, Invariance, PTL

(* A restart goes on in the newest sector: the scan of begin() finds the   *)
(* header that leads, though the numbers wrap (scanJournal).               *)
THEOREM RestartFindsTheNewest ==
  Spec => [](ValidSectors # {} =>
               /\ Valid(Newest)
               /\ \A s \in ValidSectors \ {Newest} :
                    Newer(flash[Newest].header.seq, flash[s].header.seq, SequenceModulus))
  <1>1. IInv => (ValidSectors # {} =>
                   /\ Valid(Newest)
                   /\ \A s \in ValidSectors \ {Newest} :
                        Newer(flash[Newest].header.seq, flash[s].header.seq, SequenceModulus))
    <2> SUFFICES ASSUME IInv, ValidSectors # {}
                 PROVE  /\ Valid(Newest)
                        /\ \A s \in ValidSectors \ {Newest} :
                             Newer(flash[Newest].header.seq, flash[s].header.seq, SequenceModulus)
      OBVIOUS
    <2>1. PICK c \in Sectors : Leads(c)
      BY DEF IInv, OneRing
    <2>2. Newest = c /\ Valid(c)
      BY <2>1, LeaderIsFound DEF Leads
    <2> QED BY <2>1, <2>2, LeaderIsNewer DEF ValidSectors
  <1> QED BY <1>1, Invariance, PTL

-----------------------------------------------------------------------------
(* The log that can be read back. *)

(* The sector d before c. *)
At(c, d) == (c + SectorCount - d) % SectorCount

(* Of the sectors that erase-ahead does not reach, the k newest ones are   *)
(* the valid ones.                                                         *)
Depth(c, k) == \A s \in Sectors : (Valid(s) /\ Behind(s, c) < Kept) <=> Behind(s, c) < k

LEMMA StepsBack ==
  ASSUME NEW c \in Sectors, NEW d \in 0..(SectorCount - 1)
  PROVE  At(c, d) \in Sectors /\ Behind(At(c, d), c) = d /\ At(c, 0) = c
  <1>1. SectorCount \in Nat \ {0} /\ c \in 0..(SectorCount - 1)
    BY JournalAssumption DEF Sectors
  <1>2. At(c, d) = IF d <= c THEN c - d ELSE c + SectorCount - d
    BY <1>1 DEF At
  <1>3. At(c, 0) = c
    BY <1>1 DEF At
  <1> QED BY <1>1, <1>2, <1>3 DEF Behind, Sectors

LEMMA StepsMeet ==
  ASSUME NEW c \in Sectors, NEW s \in Sectors
  PROVE  At(c, Behind(s, c)) = s
  <1>1. SectorCount \in Nat \ {0} /\ c \in 0..(SectorCount - 1) /\ s \in 0..(SectorCount - 1)
    BY JournalAssumption DEF Sectors
  <1>2. CASE s <= c
    BY <1>1, <1>2 DEF At, Behind
  <1>3. CASE s > c
    <2>1. c + SectorCount - (c + SectorCount - s) = s
      BY <1>1
    <2> QED BY <1>1, <1>3, <2>1 DEF At, Behind
  <1> QED BY <1>1, <1>2, <1>3

LEMMA StepsAhead ==
  ASSUME NEW c \in Sectors
  PROVE  /\ After(c) \in Sectors
         /\ \A d \in 0..(SectorCount - 2) : At(After(c), d + 1) = At(c, d)
         /\ \A s \in Sectors \ {After(c)} : Behind(s, After(c)) = Behind(s, c) + 1
         /\ Behind(After(c), c) = IF SectorCount = 1 THEN 0 ELSE SectorCount - 1
  <1>1. SectorCount \in Nat \ {0} /\ c \in 0..(SectorCount - 1)
    BY JournalAssumption DEF Sectors
  <1>2. After(c) = IF c + 1 < SectorCount THEN c + 1 ELSE 0
    BY <1>1 DEF After
  <1>3. ASSUME NEW d \in 0..(SectorCount - 2)
        PROVE  At(After(c), d + 1) = At(c, d)
    <2>1. At(c, d) = IF d <= c THEN c - d ELSE c + SectorCount - d
      BY <1>1 DEF At
    <2>2. CASE c + 1 < SectorCount
      <3>1. After(c) + SectorCount - (d + 1) = c + SectorCount - d
        BY <1>1, <1>2, <2>2
      <3> QED BY <3>1 DEF At
    <2>3. CASE c + 1 >= SectorCount
      <3>1. After(c) = 0 /\ c = SectorCount - 1
        BY <1>1, <1>2, <2>3
      <3>2. At(After(c), d + 1) = SectorCount - (d + 1)
        BY <1>1, <3>1 DEF At
      <3> QED BY <1>1, <2>1, <3>1, <3>2
    <2> QED BY <1>1, <2>2, <2>3
  <1> QED BY <1>1, <1>2, <1>3 DEF Behind, Sectors

(* How much older a header is tells how far behind its sector lies.        *)
LEMMA AgeIsDistance ==
  ASSUME NEW c \in Sectors, Leads(c), NEW s \in Sectors, Valid(s)
  PROVE  (flash[c].header.seq + SequenceModulus - flash[s].header.seq) % SequenceModulus = Behind(s, c)
  <1> DEFINE M == SequenceModulus
             q == flash[c].header.seq
             d == Behind(s, c)
             r == flash[s].header.seq
  <1>1. M \in Nat \ {0} /\ q \in 0..(M - 1) /\ d \in 0..(M - 1)
    BY JournalAssumption, RingDistance DEF Leads, Valid, Headers, Sequences
  <1>2. r = (q + M - d) % M
    BY DEF Leads, Earlier
  <1> HIDE DEF M, q, d, r
  <1>3. r = IF q < d THEN q + M - d ELSE q - d
    BY <1>1, <1>2
  <1>4. (q + M - r) % M = d
    BY <1>1, <1>3
  <1> QED BY <1>4 DEF M, q, d, r

LEMMA KeptCounted ==
  ASSUME NEW c \in Sectors, Leads(c), NEW k \in 1..Kept, Depth(c, k)
  PROVE  Cardinality({t \in ValidSectors :
           (flash[c].header.seq + SequenceModulus - flash[t].header.seq) % SequenceModulus < Kept}) = k
  <1> DEFINE S == {t \in ValidSectors :
               (flash[c].header.seq + SequenceModulus - flash[t].header.seq) % SequenceModulus < Kept}
             f == [i \in 1..k |-> At(c, k - i)]
  <1>1. k \in 1..(SectorCount - 1) /\ Kept \in Nat /\ SectorCount \in Nat
    BY JournalAssumption DEF Kept
  <1>2. S = {t \in Sectors : Behind(t, c) < k}
    BY AgeIsDistance DEF ValidSectors, Depth
  <1> HIDE DEF S
  <1>3. ASSUME NEW i \in 1..k
        PROVE  f[i] \in S /\ Behind(f[i], c) = k - i
    <2>1. k - i \in 0..(SectorCount - 1)
      BY <1>1
    <2> QED BY <1>1, <1>2, <2>1, StepsBack
  <1>4. ASSUME NEW t \in S
        PROVE  \E i \in 1..k : f[i] = t
    <2>1. t \in Sectors /\ Behind(t, c) \in 0..(SectorCount - 1) /\ Behind(t, c) < k
      BY <1>2, RingDistance
    <2>2. k - Behind(t, c) \in 1..k /\ k - (k - Behind(t, c)) = Behind(t, c)
      BY <1>1, <2>1
    <2> QED BY <2>1, <2>2, StepsMeet
  <1>5. f \in Bijection(1..k, S)
    <2>1. f \in [1..k -> S]
      BY <1>3
    <2>2. ASSUME NEW i \in 1..k, NEW l \in 1..k, f[i] = f[l]
          PROVE  i = l
      BY <1>1, <1>3, <2>2
    <2> HIDE DEF f
    <2> QED BY <1>4, <2>1, <2>2 DEF Bijection, Injection, Surjection, IsInjective
  <1>6. ExistsBijection(1..k, S)
    BY <1>5 DEF ExistsBijection
  <1>7. Cardinality(S) = k
    BY <1>1, <1>6, FS_CountingElements
  <1> QED BY <1>7 DEF S

(* The chapters are the k newest sectors, the newest one last.             *)
NewestLast(c, k) ==
  /\ Chapters = [i \in 1..k |-> Readable[At(c, k - i)]]
  /\ StreamEnd = RestoredOffset(c)

ChaptersSeen == \A c \in Sectors : \A k \in 1..Kept : Leads(c) /\ Depth(c, k) => NewestLast(c, k)

LEMMA Seen == ChaptersSeen
  <1> SUFFICES ASSUME NEW c \in Sectors, NEW k \in 1..Kept, Leads(c), Depth(c, k)
               PROVE  NewestLast(c, k)
    BY DEF ChaptersSeen
  <1>1. Newest = c /\ ValidSectors # {}
    BY LeaderIsFound DEF Leads, ValidSectors
  <1>2. ChaptersUpTo[c] = [i \in 1..k |-> Readable[(c + SectorCount + i - k) % SectorCount]]
    BY KeptCounted DEF ChaptersUpTo
  <1>3. \A i \in 1..k : c + SectorCount + i - k = c + SectorCount - (k - i)
    BY JournalAssumption DEF Kept, Sectors
  <1>4. \A i \in 1..k : (c + SectorCount + i - k) % SectorCount = At(c, k - i)
    BY <1>3 DEF At
  <1> QED BY <1>1, <1>2, <1>4 DEF Chapters, StreamEnd, NewestLast

LEMMA SeenNext == ChaptersSeen'
  BY Seen, PTL

-----------------------------------------------------------------------------
(* What a change of the flash means for the reader. *)

StopsThere == \A s \in Sectors : \A n \in 1..PagesPerSector : WrittenUpTo(s, n) => RestoredPage[s] = n

LEMMA Stops == StopsThere
  BY RestoredAt DEF StopsThere

LEMMA StopsNext == StopsThere'
  BY Stops, PTL

(* A sector that stays as it is reads as it did. *)
LEMMA SameSector ==
  ASSUME PagesInOrder, NEW s \in Sectors, flash'[s] = flash[s]
  PROVE  Readable'[s] = Readable[s] /\ RestoredOffset(s)' = RestoredOffset(s)
  <1>1. PICK n \in 1..PagesPerSector : WrittenUpTo(s, n)
    BY DEF PagesInOrder
  <1>2. WrittenUpTo(s, n)'
    BY <1>1 DEF WrittenUpTo
  <1>3. RestoredPage[s] = n /\ RestoredPage'[s] = n
    BY <1>1, <1>2, Stops, StopsNext DEF StopsThere
  <1> QED BY <1>3 DEF Readable, RestoredOffset

(* What happens beyond the kept sectors changes nothing that can be read.  *)
LEMMA LogKept ==
  ASSUME PagesInOrder, NEW c \in Sectors, Leads(c), Leads(c)', NEW k \in 1..Kept, Depth(c, k),
         \A s \in Sectors : Behind(s, c) < Kept => flash'[s] = flash[s]
  PROVE  Depth(c, k)' /\ Chapters' = Chapters /\ StreamEnd' = StreamEnd
  <1>1. k \in 1..(SectorCount - 1) /\ Kept \in 1..(SectorCount - 1) /\ SectorCount \in Nat
    BY JournalAssumption DEF Kept
  <1>2. Depth(c, k)'
    BY DEF Depth, Valid, Behind, Kept
  <1>3. ASSUME NEW d \in 0..(k - 1)
        PROVE  Readable'[At(c, d)] = Readable[At(c, d)] /\ RestoredOffset(At(c, d))' = RestoredOffset(At(c, d))
    <2>1. At(c, d) \in Sectors /\ Behind(At(c, d), c) < Kept
      BY <1>1, StepsBack
    <2> PICK s \in Sectors : s = At(c, d)
      BY <2>1
    <2>2. Readable'[s] = Readable[s] /\ RestoredOffset(s)' = RestoredOffset(s)
      BY <2>1, SameSector
    <2> QED BY <2>2
  <1>4. NewestLast(c, k) /\ NewestLast(c, k)'
    BY <1>2, Seen, SeenNext DEF ChaptersSeen
  <1>5. \A i \in 1..k : Readable'[At(c, k - i)] = Readable[At(c, k - i)]
    <2>1. \A i \in 1..k : k - i \in 0..(k - 1)
      BY <1>1
    <2> QED BY <1>3, <2>1
  <1>6. RestoredOffset(c)' = RestoredOffset(c)
    BY <1>1, <1>3, StepsBack
  <1> QED BY <1>2, <1>4, <1>5, <1>6 DEF NewestLast

LEMMA SeveralTimes ==
  ASSUME NEW a \in Nat, NEW b \in Nat \ {0}
  PROVE  a * b >= a
  <1>1. b - 1 \in Nat
    OBVIOUS
  <1>2. a * (b - 1) >= 0
    BY <1>1
  <1>3. a * b = a * (b - 1) + a
    BY <1>1
  <1> QED BY <1>2, <1>3

(* The end of the stream goes forward by a page.                           *)
LEMMA GoesForward ==
  ASSUME NEW o \in Offsets, NEW units \in 1..PageUnits
  PROVE  Later(o, Advanced(o, units)) = Advanced(o, units)
  <1> DEFINE M == OffsetModulus
             a == (o + units) % M
  <1>1. M \in Nat \ {0} /\ o \in 0..(M - 1) /\ units \in Nat \ {0} /\ 2 * units <= M - 1
    <2>1. PageUnits \in Nat /\ PagesPerSector - 1 \in Nat \ {0} /\ OffsetModulus \in Nat
          /\ OffsetModulus > 2 * PageUnits * (PagesPerSector - 1)
      BY JournalAssumption
    <2> DEFINE u == 2 * PageUnits
               n == PagesPerSector - 1
    <2>2. u \in Nat /\ n \in Nat \ {0} /\ OffsetModulus > u * n
      BY <2>1
    <2>3. u * n >= u /\ u * n \in Nat
      <3> HIDE DEF u, n
      <3> QED BY <2>2, SeveralTimes
    <2>4. OffsetModulus > 2 * PageUnits
      <3>1. OffsetModulus > u
        <4> HIDE DEF u, n
        <4> QED BY <2>1, <2>2, <2>3
      <3> QED BY <3>1
    <2> HIDE DEF u, n
    <2> QED BY <2>1, <2>4 DEF Offsets
  <1> HIDE DEF M
  <1>2. a = IF o + units < M THEN o + units ELSE o + units - M
    BY <1>1
  <1>3. (a + M - o) % M = units
    BY <1>1, <1>2
  <1>4. units \in 1..((M - 1) \div 2)
    BY <1>1
  <1>5. Newer(a, o, M)
    BY <1>3, <1>4 DEF Newer
  <1> QED BY <1>5 DEF Later, Advanced, M

(* Two sectors read the same up to the first page in which they differ.    *)
LEMMA SameBefore ==
  ASSUME NEW x, NEW y, NEW p \in Pages, \A q \in Pages : q < p => x.pages[q] = y.pages[q]
  PROVE  /\ \A f, g : FollowsPages(x, f) /\ FollowsPages(y, g) => f[p - 1] = g[p - 1]
         /\ x.header = y.header =>
              \A f, g : FollowsEnds(x, f) /\ FollowsEnds(y, g) => f[p - 1] = g[p - 1]
  <1>0. p - 1 \in Nat /\ p \in 1..(PagesPerSector - 1) /\ PagesPerSector \in Nat /\ Pages = 1..(PagesPerSector - 1)
    BY JournalAssumption DEF Pages
  <1>1. ASSUME NEW f, NEW g, FollowsPages(x, f), FollowsPages(y, g)
        PROVE  f[p - 1] = g[p - 1]
    <2> DEFINE Same == {n \in 0..(p - 1) : f[n] = g[n]}
    <2>1. 0 \in Same
      BY <1>0, <1>1 DEF FollowsPages
    <2>2. ASSUME NEW n \in 0..(p - 1 - 1), n \in Same
          PROVE  n + 1 \in Same
      <3>1. n + 1 \in Pages /\ n + 1 < p /\ n + 1 \in 0..(p - 1) /\ (n + 1) - 1 = n
        BY <1>0
      <3>2. x.pages[n + 1] = y.pages[n + 1]
        BY <3>1
      <3>3. f[n + 1] = (IF x.pages[n + 1] \in Blocks THEN Append(f[n], x.pages[n + 1]) ELSE f[n])
        BY <1>1, <3>1 DEF FollowsPages
      <3>4. g[n + 1] = (IF y.pages[n + 1] \in Blocks THEN Append(g[n], y.pages[n + 1]) ELSE g[n])
        BY <1>1, <3>1 DEF FollowsPages
      <3> QED BY <2>2, <3>1, <3>2, <3>3, <3>4
    <2>3. \A n \in 0..(p - 1) : n \in Same
      <3> HIDE DEF Same
      <3> QED BY <1>0, <2>1, <2>2, BoundedInduction
    <2> QED BY <1>0, <2>3
  <1>2. ASSUME x.header = y.header, NEW f, NEW g, FollowsEnds(x, f), FollowsEnds(y, g)
        PROVE  f[p - 1] = g[p - 1]
    <2> DEFINE Same == {n \in 0..(p - 1) : f[n] = g[n]}
    <2>1. 0 \in Same
      BY <1>0, <1>2 DEF FollowsEnds
    <2>2. ASSUME NEW n \in 0..(p - 1 - 1), n \in Same
          PROVE  n + 1 \in Same
      <3>1. n + 1 \in Pages /\ n + 1 < p /\ n + 1 \in 0..(p - 1) /\ (n + 1) - 1 = n
        BY <1>0
      <3>2. x.pages[n + 1] = y.pages[n + 1]
        BY <3>1
      <3>3. f[n + 1] = (IF x.pages[n + 1] \in Blocks
                        THEN Later(f[n], Advanced(x.pages[n + 1].from, x.pages[n + 1].units)) ELSE f[n])
        BY <1>2, <3>1 DEF FollowsEnds
      <3>4. g[n + 1] = (IF y.pages[n + 1] \in Blocks
                        THEN Later(g[n], Advanced(y.pages[n + 1].from, y.pages[n + 1].units)) ELSE g[n])
        BY <1>2, <3>1 DEF FollowsEnds
      <3> QED BY <2>2, <3>1, <3>2, <3>3, <3>4
    <2>3. \A n \in 0..(p - 1) : n \in Same
      <3> HIDE DEF Same
      <3> QED BY <1>0, <2>1, <2>2, BoundedInduction
    <2> QED BY <1>0, <2>3
  <1> QED BY <1>1, <1>2

LEMMA SeqLen ==
  ASSUME NEW S, NEW k \in Nat, NEW f \in [1..k -> S]
  PROVE  f \in Seq(S) /\ Len(f) = k /\ (k > 0 => f # <<>>)
  <1>1. f \in Seq(S)
    BY SeqDef
  <1>2. DOMAIN f = 1..k /\ Len(f) \in Nat /\ DOMAIN f = 1..Len(f)
    BY <1>1, LenProperties
  <1>3. Len(f) = k
    BY <1>2
  <1> QED BY <1>1, <1>3, EmptySeq

(* A page that comes after the others adds its block at the end, if it is  *)
(* not torn.                                                               *)
Stored(x) ==
  /\ Chapters # <<>> /\ Chapters' = [Chapters EXCEPT ![Len(Chapters)] = Append(@, x)]
  /\ StreamEnd' = Advanced(StreamEnd, x.units)

LEMMA PageAdded ==
  ASSUME flash \in [Sectors -> SectorContents], flash' \in [Sectors -> SectorContents], PagesInOrder,
         NEW c \in Sectors, Leads(c), Leads(c)', NEW k \in 1..Kept, Depth(c, k),
         NEW p \in Pages, WrittenUpTo(c, p),
         NEW x \in Blocks \cup {Torn}, x \in Blocks => x.from = StreamEnd,
         flash'[c].pages[p] = x, flash'[c].header = flash[c].header,
         \A q \in Pages \ {p} : flash'[c].pages[q] = flash[c].pages[q],
         \A s \in Sectors \ {c} : flash'[s] = flash[s]
  PROVE  /\ Depth(c, k)'
         /\ IF x \in Blocks THEN Stored(x) ELSE Chapters' = Chapters /\ StreamEnd' = StreamEnd
  <1> DEFINE was == ValidPages(flash[c])
             is == ValidPages(flash'[c])
             ended == NewestEnd(flash[c])
             ends == NewestEnd(flash'[c])
  <1>1. k \in 1..(SectorCount - 1) /\ Kept \in 1..(SectorCount - 1) /\ SectorCount \in Nat
        /\ p \in 1..(PagesPerSector - 1) /\ PagesPerSector \in Nat
    BY JournalAssumption DEF Kept, Pages
  <1>2. x # Blank
    BY ContentAssumption
  <1>3. RestoredPage[c] = p /\ RestoredPage'[c] = p + 1 /\ p + 1 - 1 = p
    <2>1. WrittenUpTo(c, p + 1)' /\ p + 1 \in 1..PagesPerSector /\ p \in 1..PagesPerSector
      BY <1>1, <1>2, WritesNext
    <2> QED BY <1>1, <2>1, Stops, StopsNext DEF StopsThere
  <1>4. flash[c] \in SectorContents /\ flash'[c] \in SectorContents
        /\ flash[c].header \in Headers /\ flash'[c].header \in Headers
    BY DEF Leads, Valid
  <1>5. FollowsPages(flash[c], was) /\ FollowsPages(flash'[c], is)
        /\ FollowsEnds(flash[c], ended) /\ FollowsEnds(flash'[c], ends)
    BY <1>4, PagesFollowed, EndsFollowed
  <1>6. is[p - 1] = was[p - 1] /\ ends[p - 1] = ended[p - 1]
    <2>1. \A q \in Pages : q < p => flash'[c].pages[q] = flash[c].pages[q]
      BY <1>1
    <2> HIDE DEF was, is, ended, ends
    <2> QED BY <1>5, <2>1, SameBefore
  <1>7. Readable[c] = was[p - 1] /\ Readable'[c] = is[p]
        /\ RestoredOffset(c) = ended[p - 1] /\ RestoredOffset(c)' = ends[p]
    <2>1. Readable[c] = was[RestoredPage[c] - 1] /\ RestoredOffset(c) = ended[RestoredPage[c] - 1]
      BY DEF Readable, RestoredOffset
    <2>2. Readable'[c] = is[RestoredPage'[c] - 1] /\ RestoredOffset(c)' = ends[RestoredPage'[c] - 1]
      BY DEF Readable, RestoredOffset
    <2>3. RestoredPage[c] - 1 = p - 1 /\ RestoredPage'[c] - 1 = p
      BY <1>1, <1>3
    <2> HIDE DEF was, is, ended, ends
    <2> QED BY <2>1, <2>2, <2>3
  <1> HIDE DEF was, is, ended, ends
  <1>8. /\ Readable'[c] = IF x \in Blocks THEN Append(Readable[c], x) ELSE Readable[c]
        /\ RestoredOffset(c)' = IF x \in Blocks THEN Later(RestoredOffset(c), Advanced(x.from, x.units))
                                ELSE RestoredOffset(c)
        /\ RestoredOffset(c) \in Offsets
    <2>1. p - 1 \in 0..(PagesPerSector - 1)
      BY <1>1
    <2> QED BY <1>5, <1>6, <1>7, <2>1 DEF FollowsPages, FollowsEnds
  <1>9. Depth(c, k)'
    BY <1>8 DEF Depth, Valid, Behind, Kept
  <1>10. NewestLast(c, k) /\ NewestLast(c, k)'
    BY <1>9, Seen, SeenNext DEF ChaptersSeen
  <1>11. ASSUME NEW i \in 1..k
         PROVE  IF i = k THEN At(c, k - i) = c
                ELSE Readable'[At(c, k - i)] = Readable[At(c, k - i)]
    <2>1. k - i \in 0..(SectorCount - 1) /\ (k - i = 0 <=> i = k) /\ 0 \in 0..(SectorCount - 1)
      BY <1>1
    <2>2. At(c, k - i) \in Sectors /\ Behind(At(c, k - i), c) = k - i /\ At(c, 0) = c
      BY <2>1, StepsBack
    <2> PICK s \in Sectors : s = At(c, k - i)
      BY <2>2
    <2>3. CASE i = k
      BY <2>1, <2>2, <2>3
    <2>4. CASE i # k
      <3>1. s # c
        BY <2>1, <2>2, <2>4, RingDistance
      <3> QED BY <2>4, <3>1, SameSector
    <2> QED BY <2>3, <2>4
  <1>12. CASE x \notin Blocks
    BY <1>8, <1>9, <1>10, <1>11, <1>12 DEF NewestLast
  <1>13. CASE x \in Blocks
    <2>1. StreamEnd' = Advanced(StreamEnd, x.units)
      <3>1. StreamEnd = RestoredOffset(c) /\ x.from = RestoredOffset(c) /\ x.units \in 1..PageUnits
            /\ StreamEnd' = RestoredOffset(c)'
        BY <1>10, <1>13 DEF NewestLast, Blocks
      <3> QED BY <1>8, <1>13, <3>1, GoesForward
    <2>2. Len(Chapters) = k /\ Chapters # <<>> /\ k \in DOMAIN Chapters /\ Chapters[k] = Readable[c]
      <3>1. k \in Nat /\ k > 0 /\ k \in 1..k
        BY <1>1
      <3>2. Chapters \in [1..k -> {Readable[At(c, k - i)] : i \in 1..k}]
        BY <1>10 DEF NewestLast
      <3>3. Chapters[k] = Readable[At(c, k - k)]
        BY <1>10, <3>1 DEF NewestLast
      <3> QED BY <1>11, <3>1, <3>2, <3>3, SeqLen
    <2>3. Chapters' = [Chapters EXCEPT ![k] = Append(Readable[c], x)]
      <3> PICK a : a = Append(Readable[c], x)
        OBVIOUS
      <3>1. Readable'[c] = a
        BY <1>8, <1>13
      <3> QED BY <1>10, <1>11, <3>1 DEF NewestLast
    <2> QED BY <1>9, <1>13, <2>1, <2>2, <2>3 DEF Stored
  <1> QED BY <1>12, <1>13

(* A header that takes the lead opens a chapter. *)
Opened ==
  /\ LET longer == Append(Chapters, <<>>)
     IN  Chapters' = IF Len(longer) > Kept THEN Tail(longer) ELSE longer
  /\ StreamEnd' = StreamEnd

LEMMA LongerByOne ==
  ASSUME NEW k \in Nat \ {0}, NEW S, NEW f \in [1..k -> S], NEW e \in S,
         NEW g \in [1..(k + 1) -> S], \A i \in 1..k : g[i] = f[i], g[k + 1] = e
  PROVE  Append(f, e) = g /\ Len(Append(f, e)) = k + 1
  <1>1. f \in Seq(S) /\ Len(f) = k /\ g \in Seq(S) /\ Len(g) = k + 1
    <2>1. k \in Nat /\ k + 1 \in Nat
      OBVIOUS
    <2> QED BY <2>1, SeqLen
  <1> PICK a : a = Append(f, e)
    OBVIOUS
  <1>2. a \in Seq(S) /\ Len(a) = k + 1 /\ (\A i \in 1..k : a[i] = f[i]) /\ a[k + 1] = e
    BY <1>1, AppendProperties
  <1>3. \A i \in 1..Len(a) : a[i] = g[i]
    BY <1>2
  <1> QED BY <1>1, <1>2, <1>3, SeqEqual

LEMMA ShiftedByOne ==
  ASSUME NEW k \in Nat \ {0}, NEW S, NEW f \in [1..k -> S], NEW e \in S,
         NEW g \in [1..k -> S], \A i \in 1..(k - 1) : g[i] = f[i + 1], g[k] = e
  PROVE  Tail(Append(f, e)) = g /\ Len(Append(f, e)) = k + 1
  <1>1. f \in Seq(S) /\ Len(f) = k /\ g \in Seq(S) /\ Len(g) = k
    BY SeqLen
  <1> PICK a : a = Append(f, e)
    OBVIOUS
  <1>2. a \in Seq(S) /\ a # <<>> /\ Len(a) = k + 1 /\ (\A i \in 1..k : a[i] = f[i]) /\ a[k + 1] = e
    BY <1>1, AppendProperties
  <1> PICK t : t = Tail(a)
    OBVIOUS
  <1>3. t \in Seq(S) /\ Len(t) = k /\ \A i \in 1..k : t[i] = a[i + 1]
    BY <1>2, HeadTailProperties
  <1>4. \A i \in 1..Len(t) : t[i] = g[i]
    <2> SUFFICES ASSUME NEW i \in 1..k
                 PROVE  t[i] = g[i]
      BY <1>3
    <2>1. CASE i = k
      BY <1>2, <1>3, <2>1
    <2>2. CASE i # k
      <3>1. i \in 1..(k - 1) /\ i + 1 \in 1..k
        BY <2>2
      <3> QED BY <1>2, <1>3, <3>1
    <2> QED BY <2>1, <2>2
  <1> QED BY <1>1, <1>2, <1>3, <1>4, SeqEqual

LEMMA SectorOpened ==
  ASSUME flash \in [Sectors -> SectorContents], flash' \in [Sectors -> SectorContents], PagesInOrder,
         NEW c \in Sectors, Leads(c), NEW k \in 1..Kept, Depth(c, k),
         NEW next \in Sectors, next = After(c), ~Valid(next), Leads(next)', WrittenUpTo(next, 1)',
         flash'[next].header.first = StreamEnd,
         \A s \in Sectors \ {next} : flash'[s] = flash[s]
  PROVE  Opened /\ \E m \in 1..Kept : Depth(next, m)'
  <1> DEFINE m == IF k < Kept THEN k + 1 ELSE Kept
             R == {Readable[s] : s \in Sectors} \cup {<<>>}
             was == [i \in 1..k |-> Readable[At(c, k - i)]]
             is == [i \in 1..m |-> Readable'[At(next, m - i)]]
  <1>1. /\ k \in 1..Kept /\ Kept \in 1..(SectorCount - 1) /\ SectorCount \in Nat /\ SectorCount >= 2
        /\ m \in 1..Kept /\ 1 \in 1..PagesPerSector /\ PagesPerSector - 1 \in Nat
    BY JournalAssumption DEF Kept
  <1>2. Depth(next, m)'
    <2>1. ASSUME NEW s \in Sectors
          PROVE  (Valid(s)' /\ Behind(s, next) < Kept) <=> Behind(s, next) < m
      <3>1. CASE s = next
        BY <1>1, <3>1, RingDistance DEF Leads
      <3>2. CASE s # next
        <4>1. Behind(s, next) = Behind(s, c) + 1 /\ Behind(s, c) \in Nat
          BY <3>2, StepsAhead, RingDistance
        <4>2. Valid(s)' <=> Valid(s)
          BY <3>2 DEF Valid
        <4>3. (Valid(s) /\ Behind(s, c) < Kept) <=> Behind(s, c) < k
          BY DEF Depth
        <4> QED BY <1>1, <4>1, <4>2, <4>3
      <3> QED BY <3>1, <3>2
    <2> QED BY <2>1 DEF Depth, Valid, Behind, Kept
  <1>3. NewestLast(c, k) /\ NewestLast(next, m)'
    BY <1>1, <1>2, Seen, SeenNext DEF ChaptersSeen
  <1>4. Readable'[next] = <<>> /\ RestoredOffset(next)' = StreamEnd
    <2>1. RestoredPage'[next] = 1
      BY <1>1, StopsNext DEF StopsThere
    <2>2. /\ Readable'[next] = ValidPages(flash'[next])[RestoredPage'[next] - 1]
          /\ RestoredOffset(next)' = NewestEnd(flash'[next])[RestoredPage'[next] - 1]
      BY DEF Readable, RestoredOffset
    <2>3. FollowsPages(flash'[next], ValidPages(flash'[next]))
          /\ FollowsEnds(flash'[next], NewestEnd(flash'[next]))
      BY PagesFollowed, EndsFollowed DEF Leads, Valid
    <2>4. RestoredPage'[next] - 1 = 0
      BY <2>1
    <2> QED BY <2>2, <2>3, <2>4 DEF FollowsPages, FollowsEnds
  <1>5. StreamEnd' = StreamEnd
    BY <1>3, <1>4 DEF NewestLast
  <1>6. ASSUME NEW d \in 0..(k - 1)
        PROVE  /\ At(next, d + 1) = At(c, d) /\ At(c, d) \in Sectors
               /\ Readable'[At(c, d)] = Readable[At(c, d)]
    <2>1. d \in 0..(SectorCount - 1) /\ d \in 0..(SectorCount - 2)
      BY <1>1
    <2>2. At(c, d) \in Sectors /\ Behind(At(c, d), c) = d /\ At(next, d + 1) = At(c, d)
      BY <2>1, StepsBack, StepsAhead
    <2>3. At(c, d) # next
      BY <1>1, <2>1, <2>2, StepsAhead
    <2> PICK s \in Sectors \ {next} : s = At(c, d)
      BY <2>2, <2>3
    <2> QED BY <2>2, SameSector
  <1>7. At(next, 0) = next
    BY <1>1, StepsBack
  <1>8. /\ was \in [1..k -> R] /\ <<>> \in R
        /\ \A i \in 1..k : was[i] = Readable[At(c, k - i)] /\ was[i] \in R
    <2>1. \A i \in 1..k : k - i \in 0..(k - 1)
      BY <1>1
    <2> QED BY <1>6, <2>1
  <1>9. is[m] = <<>> /\ \A i \in 1..(m - 1) : is[i] = Readable[At(c, (m - i) - 1)]
    <2>1. m - m = 0 /\ m \in 1..m
      BY <1>1
    <2>2. is[m] = <<>>
      BY <1>4, <1>7, <2>1
    <2>3. ASSUME NEW i \in 1..(m - 1)
          PROVE  is[i] = Readable[At(c, (m - i) - 1)]
      <3>1. (m - i) - 1 \in 0..(k - 1) /\ i \in 1..m
        BY <1>1
      <3>2. ((m - i) - 1) + 1 = m - i
        BY <1>1
      <3>3. is[i] = Readable'[At(next, m - i)]
        BY <3>1
      <3>4. /\ At(next, ((m - i) - 1) + 1) = At(c, (m - i) - 1)
            /\ Readable'[At(c, (m - i) - 1)] = Readable[At(c, (m - i) - 1)]
        BY <1>6, <3>1
      <3> QED BY <3>2, <3>3, <3>4
    <2> QED BY <2>2, <2>3
  <1>10. Chapters = was /\ Chapters' = is
    BY <1>3 DEF NewestLast
  <1>11. is \in [1..m -> R]
    <2>1. ASSUME NEW i \in 1..m
          PROVE  is[i] \in R
      <3>1. CASE i = m
        BY <1>8, <1>9, <3>1
      <3>2. CASE i # m
        <4>1. i \in 1..(m - 1) /\ (m - i) - 1 \in 0..(k - 1)
          BY <1>1, <3>2
        <4>2. At(c, (m - i) - 1) \in Sectors
          BY <1>6, <4>1
        <4> HIDE DEF is, m
        <4> QED BY <1>9, <4>1, <4>2
      <3> QED BY <3>1, <3>2
    <2> HIDE DEF R
    <2> QED BY <2>1
  <1>12. k \in Nat \ {0}
    BY <1>1
  <1> HIDE DEF was, is, R
  <1>13. CASE k < Kept
    <2>1. m = k + 1
      BY <1>13
    <2>2. \A i \in 1..k : is[i] = was[i]
      <3> SUFFICES ASSUME NEW i \in 1..k
                   PROVE  is[i] = was[i]
        OBVIOUS
      <3>1. i \in 1..(m - 1) /\ (m - i) - 1 = k - i
        BY <1>1, <2>1
      <3>2. is[i] = Readable[At(c, (m - i) - 1)]
        BY <1>9, <3>1
      <3>3. was[i] = Readable[At(c, k - i)]
        BY <1>8
      <3> QED BY <3>1, <3>2, <3>3
    <2>3. Append(was, <<>>) = is /\ Len(Append(was, <<>>)) = k + 1
      <3>1. is \in [1..(k + 1) -> R] /\ is[k + 1] = <<>>
        BY <1>9, <1>11, <2>1
      <3> QED BY <1>8, <1>12, <2>2, <3>1, LongerByOne
    <2>4. ~(k + 1 > Kept)
      BY <1>1, <1>13
    <2> QED BY <1>1, <1>2, <1>5, <1>10, <2>3, <2>4 DEF Opened
  <1>14. CASE k = Kept
    <2>1. m = k
      BY <1>14, <1>1
    <2>2. \A i \in 1..(k - 1) : is[i] = was[i + 1]
      <3> SUFFICES ASSUME NEW i \in 1..(k - 1)
                   PROVE  is[i] = was[i + 1]
        OBVIOUS
      <3>1. i \in 1..(m - 1) /\ i + 1 \in 1..k /\ (m - i) - 1 = k - (i + 1)
        BY <1>1, <2>1
      <3>2. is[i] = Readable[At(c, (m - i) - 1)]
        BY <1>9, <3>1
      <3>3. was[i + 1] = Readable[At(c, k - (i + 1))]
        BY <1>8, <3>1
      <3> QED BY <3>1, <3>2, <3>3
    <2>3. Tail(Append(was, <<>>)) = is /\ Len(Append(was, <<>>)) = k + 1
      BY <1>8, <1>9, <1>11, <1>12, <2>1, <2>2, ShiftedByOne
    <2>4. k + 1 > Kept
      BY <1>1, <1>14
    <2> QED BY <1>1, <1>2, <1>5, <1>10, <2>3, <2>4 DEF Opened
  <1> QED BY <1>1, <1>13, <1>14

-----------------------------------------------------------------------------
(* The sectors that erase-ahead does not reach hold the log without a gap. *)
KeptSectors == \A c \in Sectors : Leads(c) => \E k \in 1..Kept : Depth(c, k)

(* The chip erases beyond them, opens a sector where the stream ends, and  *)
(* adds the block that comes next, whether or not the journal still knows. *)
ErasingBeyond == chip \in Erases => \A c \in Sectors : Leads(c) => Behind(chip.sector, c) >= Kept

OpeningInStream ==
  (chip \in Programs /\ chip.page = 0) =>
    WrittenUpTo(chip.sector, 1) /\ chip.content.first = StreamEnd

AppendingInStream ==
  (chip \in Programs /\ chip.page # 0) => Leads(chip.sector) /\ chip.content.from = StreamEnd

(* The journal knows where the stream ends, a page that it has not         *)
(* verified yet left out.                                                  *)
PageToVerify == journal.operation = "DATA_PAGE_PROGRAM" /\ chip = None /\ Verified(journal)

Following ==
  status = "healthy" =>
    StreamEnd = IF PageToVerify THEN Advanced(journal.stream, journal.payload) ELSE journal.stream

StreamInv == KeptSectors /\ ErasingBeyond /\ OpeningInStream /\ AppendingInStream /\ Following

LogUnchanged == Chapters' = Chapters /\ StreamEnd' = StreamEnd

LEMMA OneLeader ==
  ASSUME NEW c \in Sectors, Leads(c), NEW d \in Sectors, Leads(d)
  PROVE  c = d
  BY LeaderIsFound

LEMMA OneLeaderNext == (\A c, d \in Sectors : Leads(c) /\ Leads(d) => c = d)'
  <1>1. \A c, d \in Sectors : Leads(c) /\ Leads(d) => c = d
    BY OneLeader
  <1> QED BY <1>1, PTL

(* The first sector of a new journal. *)
LEMMA FirstSector ==
  ASSUME flash \in [Sectors -> SectorContents], PagesInOrder, ValidSectors = {},
         flash' = [flash EXCEPT ![0] = [Filled(Blank) EXCEPT !.header = [seq |-> 0, first |-> 0]]]
  PROVE  KeptSectors' /\ Opened /\ StreamEnd' = 0
  <1>1. /\ flash' \in [Sectors -> SectorContents] /\ 0 \in Sectors
        /\ WrittenUpTo(0, 1)' /\ Leads(0)'
    <2>1. [seq |-> 0, first |-> 0] \in Headers
      BY JournalAssumption DEF Headers, Sequences, Offsets
    <2>2. [seq |-> 0, first |-> 0] \notin {Blank, Torn}
      BY <2>1, ContentAssumption
    <2> QED BY <2>2, FreshFlash
  <1>2. flash'[0].header.first = 0
    BY <1>1 DEF Filled
  <1>3. 1 \in 1..Kept /\ Kept \in Nat /\ 1 \in 1..PagesPerSector /\ SectorCount \in Nat
    BY JournalAssumption DEF Kept
  <1>4. Depth(0, 1)'
    <2>1. ASSUME NEW s \in Sectors
          PROVE  (Valid(s)' /\ Behind(s, 0) < Kept) <=> Behind(s, 0) < 1
      <3>1. CASE s = 0
        BY <1>1, <1>3, <3>1, RingDistance DEF Leads
      <3>2. CASE s # 0
        <4>1. ~Valid(s)'
          BY <3>2 DEF ValidSectors, Valid
        <4>2. Behind(s, 0) \in Nat \ {0}
          BY <1>1, <3>2, RingDistance
        <4> QED BY <4>1, <4>2
      <3> QED BY <3>1, <3>2
    <2> QED BY <2>1 DEF Depth, Valid, Behind, Kept
  <1>5. KeptSectors'
    <2>1. ASSUME NEW c \in Sectors, Leads(c)'
          PROVE  c = 0
      BY <1>1, <2>1, OneLeaderNext
    <2> QED BY <1>3, <1>4, <2>1 DEF KeptSectors, Kept
  <1>6. Readable'[0] = <<>> /\ RestoredOffset(0)' = 0
    <2>1. RestoredPage'[0] = 1
      BY <1>1, <1>3, StopsNext DEF StopsThere
    <2>2. /\ Readable'[0] = ValidPages(flash'[0])[RestoredPage'[0] - 1]
          /\ RestoredOffset(0)' = NewestEnd(flash'[0])[RestoredPage'[0] - 1]
      BY <1>1 DEF Readable, RestoredOffset
    <2>3. FollowsPages(flash'[0], ValidPages(flash'[0])) /\ FollowsEnds(flash'[0], NewestEnd(flash'[0]))
      BY <1>1, PagesFollowed, EndsFollowed DEF Leads, Valid
    <2>4. RestoredPage'[0] - 1 = 0
      BY <2>1
    <2> QED BY <1>2, <2>2, <2>3, <2>4 DEF FollowsPages, FollowsEnds
  <1>7. NewestLast(0, 1)'
    BY <1>1, <1>3, <1>4, SeenNext DEF ChaptersSeen
  <1>8. Chapters' = <<<<>>>>
    <2>1. At(0, 0) = 0
      BY <1>1, JournalAssumption, StepsBack
    <2>2. \A i \in 1..1 : Readable'[At(0, 1 - i)] = <<>>
      BY <1>6, <2>1
    <2> QED BY <1>7, <2>2 DEF NewestLast
  <1>9. Chapters = <<>> /\ StreamEnd = 0
    BY DEF Chapters, StreamEnd
  <1>10. Opened
    <2>1. Append(<<>>, <<>>) = <<<<>>>> /\ Len(<<<<>>>>) = 1
      OBVIOUS
    <2>2. ~(1 > Kept)
      BY <1>3
    <2> QED BY <1>6, <1>7, <1>8, <1>9, <2>1, <2>2 DEF Opened, NewestLast
  <1> QED BY <1>5, <1>6, <1>7, <1>10 DEF NewestLast

LEMMA SameLog ==
  ASSUME PagesInOrder, OneRing, KeptSectors, flash' = flash
  PROVE  KeptSectors' /\ LogUnchanged
  <1>1. \A c : Leads(c)' <=> Leads(c)
    BY SameFlash
  <1>2. CASE ValidSectors = {}
    <2>1. ValidSectors' = {} /\ \A c \in Sectors : ~Leads(c)
      BY <1>2 DEF ValidSectors, Valid, Leads
    <2> QED BY <1>1, <1>2, <2>1 DEF KeptSectors, LogUnchanged, Chapters, StreamEnd
  <1>3. CASE ValidSectors # {}
    <2>1. PICK c \in Sectors : Leads(c)
      BY <1>3 DEF OneRing
    <2>2. PICK k \in 1..Kept : Depth(c, k)
      BY <2>1 DEF KeptSectors
    <2>3. Depth(c, k)' /\ LogUnchanged
      BY <1>1, <2>1, <2>2, LogKept DEF LogUnchanged
    <2>4. \A d \in Sectors : Leads(d)' => d = c
      BY <1>1, <2>1, OneLeader
    <2> QED BY <2>3, <2>4 DEF KeptSectors, Kept
  <1> QED BY <1>2, <1>3

LEMMA ErasesBeyond ==
  ASSUME IInv, StreamInv, chip \in Erases, Complete \/ Interrupted
  PROVE  KeptSectors' /\ LogUnchanged
  <1>1. PICK c \in Sectors : Leads(c) /\ c # chip.sector
    BY DEF IInv, Erasing
  <1>2. PICK k \in 1..Kept : Depth(c, k)
    BY <1>1 DEF StreamInv, KeptSectors
  <1>3. /\ Behind(chip.sector, c) >= Kept /\ chip.sector \in Sectors /\ Kept \in Nat /\ PagesInOrder
        /\ \A s \in Sectors : Behind(s, c) \in Nat
    BY <1>1, RingDistance, JournalAssumption DEF StreamInv, ErasingBeyond, Erases, IInv, Kept
  <1>4. \A s \in Sectors \ {chip.sector} : flash'[s] = flash[s]
    BY Erased
  <1>5. Leads(c)'
    <2>1. \A s \in Sectors : Valid(s)' => flash'[s].header = flash[s].header
      BY <1>3, <1>4, Erased, ContentAssumption DEF Valid
    <2> QED BY <1>1, <1>4, <2>1, KeepsLead
  <1>6. \A s \in Sectors : Behind(s, c) < Kept => flash'[s] = flash[s]
    BY <1>3, <1>4
  <1>7. Depth(c, k)' /\ LogUnchanged
    BY <1>1, <1>2, <1>3, <1>5, <1>6, LogKept DEF LogUnchanged
  <1>8. \A d \in Sectors : Leads(d)' => d = c
    BY <1>5, OneLeaderNext
  <1> QED BY <1>7, <1>8 DEF KeptSectors, Kept

LEMMA OpensSector ==
  ASSUME IInv, StreamInv, chip \in Programs, chip.page = 0, Complete \/ Interrupted
  PROVE  KeptSectors' /\ StreamEnd' = StreamEnd /\ (Opened \/ LogUnchanged)
  <1>1. PICK c \in Sectors :
          /\ Leads(c) /\ chip.sector = After(c)
          /\ chip.content.seq = (flash[c].header.seq + 1) % SequenceModulus
    BY DEF IInv, OpeningSector
  <1>2. PICK k \in 1..Kept : Depth(c, k)
    BY <1>1 DEF StreamInv, KeptSectors
  <1> PICK next \in Sectors : next = chip.sector
    BY DEF Programs
  <1>3. /\ flash \in [Sectors -> SectorContents] /\ flash' \in [Sectors -> SectorContents] /\ PagesInOrder
        /\ chip.content \in Headers /\ chip.content.first = StreamEnd
        /\ flash'[next].pages = flash[next].pages
        /\ flash'[next].header \in {Blank, Torn, chip.content}
        /\ \A s \in Sectors \ {next} : flash'[s] = flash[s]
    BY Programmed DEF StreamInv, OpeningInStream, IInv, TypeOK
  <1>4. ~Valid(next) /\ WrittenUpTo(next, 1)'
    <2>1. flash[next].header = Blank /\ WrittenUpTo(next, 1)
      BY DEF IInv, OpeningSector, StreamInv, OpeningInStream
    <2> QED BY <1>3, <2>1, SamePages, ContentAssumption DEF Valid
  <1>5. CASE flash'[next].header = chip.content
    <2>1. Leads(next)'
      BY <1>1, <1>3, <1>4, <1>5, TakesLead DEF Valid
    <2>2. flash'[next].header.first = StreamEnd
      BY <1>3, <1>5
    <2>3. Opened /\ \E m \in 1..Kept : Depth(next, m)'
      BY <1>1, <1>2, <1>3, <1>4, <2>1, <2>2, SectorOpened
    <2>4. \A d \in Sectors : Leads(d)' => d = next
      BY <2>1, OneLeaderNext
    <2> QED BY <2>3, <2>4 DEF KeptSectors, Opened, Kept
  <1>6. CASE flash'[next].header \in {Blank, Torn}
    <2>1. c # next
      BY <1>1, <1>4 DEF Leads
    <2>2. Leads(c)'
      <3>1. \A s \in Sectors : Valid(s)' => flash'[s].header = flash[s].header
        BY <1>3, <1>6, ContentAssumption DEF Valid
      <3> QED BY <1>1, <1>3, <2>1, <3>1, KeepsLead
    <2>3. \A s \in Sectors : Behind(s, c) < Kept => flash'[s] = flash[s]
      <3>1. ~(Behind(next, c) < Kept)
        BY <1>1, StepsAhead, JournalAssumption DEF Kept
      <3> QED BY <1>3, <3>1
    <2>4. Depth(c, k)' /\ LogUnchanged
      BY <1>1, <1>2, <1>3, <2>2, <2>3, LogKept DEF LogUnchanged
    <2>5. \A d \in Sectors : Leads(d)' => d = c
      BY <2>2, OneLeaderNext
    <2> QED BY <2>4, <2>5 DEF KeptSectors, Kept, LogUnchanged
  <1> QED BY <1>3, <1>5, <1>6

LEMMA AddsPage ==
  ASSUME IInv, StreamInv, chip \in Programs, chip.page # 0, Complete \/ Interrupted
  PROVE  /\ KeptSectors'
         /\ IF flash'[chip.sector].pages[chip.page] = chip.content
            THEN Stored(chip.content) /\ chip.content \in Blocks /\ chip.content.from = StreamEnd
            ELSE LogUnchanged
  <1> PICK c \in Sectors, p \in Pages, b \in Blocks : c = chip.sector /\ p = chip.page /\ b = chip.content
    BY DEF Programs
  <1>1. Leads(c) /\ b.from = StreamEnd /\ WrittenUpTo(c, p)
    BY DEF StreamInv, AppendingInStream, IInv, Appending
  <1>2. PICK k \in 1..Kept : Depth(c, k)
    BY <1>1 DEF StreamInv, KeptSectors
  <1> DEFINE x == flash'[c].pages[p]
  <1>3. /\ flash \in [Sectors -> SectorContents] /\ flash' \in [Sectors -> SectorContents] /\ PagesInOrder
        /\ flash'[c].header = flash[c].header /\ x \in {Blank, Torn, b}
        /\ \A q \in Pages \ {p} : flash'[c].pages[q] = flash[c].pages[q]
        /\ \A s \in Sectors \ {c} : flash'[s] = flash[s]
        /\ {Blank, Torn} \cap Blocks = {} /\ Torn # Blank
    BY Programmed, ContentAssumption DEF IInv, TypeOK
  <1>4. Leads(c)' /\ \A d \in Sectors : Leads(d)' => d = c
    <2>1. Leads(c)'
      <3>1. \A s \in Sectors : flash'[s].header = flash[s].header
        BY <1>3
      <3> QED BY <1>1, <3>1, KeepsLead
    <2> QED BY <2>1, OneLeaderNext
  <1>5. CASE x \in {Torn, b}
    <2>1. x \in Blocks \cup {Torn} /\ (x \in Blocks => x = b)
      BY <1>3, <1>5
    <2>2. /\ Depth(c, k)'
          /\ IF x \in Blocks THEN Stored(x) ELSE Chapters' = Chapters /\ StreamEnd' = StreamEnd
      <3> PICK y \in Blocks \cup {Torn} : y = x
        BY <2>1
      <3> QED BY <1>1, <1>2, <1>3, <1>4, <2>1, PageAdded
    <2> QED BY <1>1, <1>3, <1>4, <1>5, <2>2 DEF KeptSectors, LogUnchanged, Kept
  <1>6. CASE x = Blank
    <2>1. flash'[c] = flash[c]
      <3>1. \A q \in Pages : flash'[c].pages[q] = flash[c].pages[q]
        <4>1. flash[c].pages[p] = Blank
          BY <1>1, JournalAssumption DEF WrittenUpTo, Pages
        <4> QED BY <1>3, <1>6, <4>1
      <3>2. flash[c] \in SectorContents /\ flash'[c] \in SectorContents
        BY <1>3
      <3>3. flash'[c].pages = flash[c].pages
        BY <3>1, <3>2 DEF SectorContents
      <3> QED BY <1>3, <3>2, <3>3 DEF SectorContents
    <2>2. Depth(c, k)' /\ LogUnchanged
      BY <1>1, <1>2, <1>3, <1>4, <2>1, LogKept DEF LogUnchanged
    <2> QED BY <1>3, <1>4, <1>6, <2>2 DEF KeptSectors, Kept
  <1> QED BY <1>3, <1>5, <1>6

-----------------------------------------------------------------------------
(* What a step does to the log. *)
LogStep == \/ Opened \/ LogUnchanged
           \/ \E block \in Blocks : block.from = StreamEnd /\ Stored(block)

LEMMA ChipKeepsLog ==
  ASSUME IInv, StreamInv, chip # None, Complete \/ Interrupted
  PROVE  KeptSectors' /\ LogStep
  <1>1. CASE chip \in Erases
    BY <1>1, ErasesBeyond DEF LogStep
  <1>2. CASE chip \in Programs /\ chip.page = 0
    BY <1>2, OpensSector DEF LogStep
  <1>3. CASE chip \in Programs /\ chip.page # 0
    BY <1>3, AddsPage DEF LogStep
  <1> QED BY <1>1, <1>2, <1>3 DEF IInv, TypeOK

LEMMA IdleInStream ==
  ASSUME chip' = None
  PROVE  ErasingBeyond' /\ OpeningInStream' /\ AppendingInStream'
  BY ContentAssumption DEF ErasingBeyond, OpeningInStream, AppendingInStream

LEMMA StreamInitially == Init => StreamInv
  <1> SUFFICES ASSUME Init
               PROVE  StreamInv
    OBVIOUS
  <1>1. chip = None /\ status = "off"
    BY DEF Init
  <1>2. \A s \in Sectors : ~Valid(s)
    BY ContentAssumption DEF Init, Filled, Valid
  <1>3. KeptSectors
    BY <1>2 DEF KeptSectors, Leads
  <1> QED BY <1>1, <1>3, ContentAssumption
          DEF StreamInv, ErasingBeyond, OpeningInStream, AppendingInStream, Following

LEMMA StreamBegins ==
  ASSUME IInv, StreamInv, BeginRestored \/ BeginFresh \/ BeginFreshCut \/ BeginFails
  PROVE  StreamInv' /\ LogStep
  <1>1. chip = None /\ status = "off" /\ chip' = None
    BY DEF BeginRestored, BeginFresh, BeginFreshCut, BeginFails, IInv, ChipAtRest
  <1>2. flash \in [Sectors -> SectorContents] /\ PagesInOrder /\ OneRing /\ KeptSectors
    BY DEF IInv, TypeOK, StreamInv
  <1>3. CASE BeginRestored
    <2>1. KeptSectors' /\ LogUnchanged
      BY <1>2, <1>3, SameLog DEF BeginRestored
    <2>2. journal'.operation = "NONE" /\ journal'.stream = StreamEnd'
      <3>1. StreamEnd = RestoredOffset(Newest)
        BY <1>3 DEF BeginRestored, StreamEnd
      <3> QED BY <1>3, <2>1, <3>1 DEF BeginRestored, Started, LogUnchanged
    <2>3. Following'
      BY <2>2 DEF Following, PageToVerify
    <2> QED BY <1>1, <2>1, <2>3, IdleInStream DEF StreamInv, LogStep
  <1>4. CASE BeginFresh
    <2>1. KeptSectors' /\ Opened /\ StreamEnd' = 0
      BY <1>2, <1>4, FirstSector DEF BeginFresh
    <2>2. journal'.operation = "NONE" /\ journal'.stream = 0
      BY <1>4 DEF BeginFresh, Off, Started
    <2>3. Following'
      BY <2>1, <2>2 DEF Following, PageToVerify
    <2> QED BY <1>1, <2>1, <2>3, IdleInStream DEF StreamInv, LogStep
  <1>5. CASE BeginFreshCut
    <2>1. PICK header \in {Blank, Torn, [seq |-> 0, first |-> 0]} :
            flash' = [flash EXCEPT ![0] = [Filled(Blank) EXCEPT !.header = header]]
      BY <1>5 DEF BeginFreshCut
    <2>2. ValidSectors = {} /\ status' # "healthy"
      BY <1>5 DEF BeginFreshCut
    <2>3. KeptSectors' /\ LogStep
      <3>1. CASE header = [seq |-> 0, first |-> 0]
        BY <1>2, <2>1, <2>2, <3>1, FirstSector DEF LogStep
      <3>2. CASE header \in {Blank, Torn}
        <4>1. \A s \in Sectors : ~Valid(s)'
          <5>1. flash'[0].header = header /\ \A s \in Sectors \ {0} : flash'[s] = flash[s]
            BY <1>2, <2>1, JournalAssumption DEF Filled, Sectors
          <5> QED BY <2>2, <3>2, <5>1, ContentAssumption DEF ValidSectors, Valid
        <4>2. ValidSectors' = {} /\ \A c \in Sectors : ~Leads(c)'
          BY <4>1 DEF ValidSectors, Leads
        <4> QED BY <2>2, <4>2 DEF KeptSectors, LogStep, LogUnchanged, Chapters, StreamEnd
      <3> QED BY <3>1, <3>2
    <2> QED BY <1>1, <2>2, <2>3, IdleInStream DEF StreamInv, Following
  <1>6. CASE BeginFails
    <2>1. KeptSectors' /\ LogUnchanged /\ status' # "healthy"
      BY <1>2, <1>6, SameLog DEF BeginFails
    <2> QED BY <1>1, <2>1, IdleInStream DEF StreamInv, LogStep, Following
  <1> QED BY <1>3, <1>4, <1>5, <1>6

(* What the chip does while the journal waits for it.                      *)
LEMMA StreamSettles ==
  ASSUME IInv, StreamInv, ChipDone \/ Restart
  PROVE  StreamInv' /\ LogStep
  <1>1. chip' = None
    BY DEF ChipDone, Restart
  <1>2. KeptSectors' /\ LogStep
    <2>1. CASE chip # None /\ (Complete \/ Interrupted)
      BY <2>1, ChipKeepsLog
    <2>2. CASE flash' = flash
      BY <2>2, SameLog DEF IInv, StreamInv, LogStep
    <2> QED BY <2>1, <2>2 DEF ChipDone, Restart
  <1>3. CASE status' # "healthy"
    BY <1>1, <1>2, <1>3, IdleInStream DEF StreamInv, Following
  <1>4. CASE ChipDone /\ status' = "healthy"
    <2> PICK j \in Journals : j = journal
      BY DEF IInv, TypeOK
    <2>1. /\ status = "healthy" /\ InStep /\ chip # None /\ Complete /\ journal' = j
          /\ StreamEnd = j.stream
      BY <1>4 DEF ChipDone, IInv, StreamInv, Following, PageToVerify
    <2>2. StreamEnd' = IF PageToVerify' THEN Advanced(j.stream, j.payload) ELSE j.stream
      <3>1. CASE ErasingAhead(j)
        <4>1. chip \in Erases /\ j.operation # "DATA_PAGE_PROGRAM"
          BY <2>1, <3>1 DEF ErasingAhead, Erases, Journals
        <4> QED BY <2>1, <4>1, ErasesBeyond DEF PageToVerify, LogUnchanged
      <3>2. CASE WritingHeader(j)
        <4>1. chip \in Programs /\ chip.page = 0 /\ j.operation # "DATA_PAGE_PROGRAM"
          BY <2>1, <3>2 DEF WritingHeader, IInv, TypeOK, Erases
        <4> QED BY <2>1, <4>1, OpensSector DEF PageToVerify
      <3>3. CASE WritingPage(j)
        <4>1. /\ chip = [kind |-> "program", sector |-> j.current, page |-> j.nextPage,
                         content |-> [from |-> j.stream, units |-> j.payload]]
              /\ j.nextPage \in Pages /\ j.operation = "DATA_PAGE_PROGRAM"
          BY <2>1, <3>3 DEF WritingPage
        <4>2. /\ chip \in Programs /\ chip.page # 0 /\ chip.sector = j.current /\ chip.page = j.nextPage
              /\ chip.content = [from |-> j.stream, units |-> j.payload]
          <5>1. chip.page # 0 /\ chip \notin Erases
            BY <4>1, JournalAssumption DEF Pages, Erases
          <5> QED BY <2>1, <4>1, <5>1 DEF IInv, TypeOK
        <4>3. PageToVerify' <=> flash'[chip.sector].pages[chip.page] = chip.content
          BY <1>1, <2>1, <4>1, <4>2 DEF PageToVerify, Verified
        <4>4. CASE PageToVerify'
          <5>1. Stored(chip.content)
            BY <2>1, <4>2, <4>3, <4>4, AddsPage
          <5>2. StreamEnd' = Advanced(StreamEnd, chip.content.units)
            BY <5>1 DEF Stored
          <5> QED BY <2>1, <4>2, <4>4, <5>2
        <4>5. CASE ~PageToVerify'
          BY <2>1, <4>2, <4>3, <4>5, AddsPage DEF LogUnchanged
        <4> QED BY <4>4, <4>5
      <3> QED BY <2>1, <3>1, <3>2, <3>3 DEF InStep
    <2>3. Following'
      BY <2>1, <2>2 DEF Following
    <2> QED BY <1>1, <1>2, <2>3, IdleInStream DEF StreamInv
  <1>5. Restart => status' # "healthy"
    BY DEF Restart
  <1> QED BY <1>3, <1>4, <1>5

(* The operation that ran is accounted for, verified or not there.         *)
LEMMA ReadyFollows ==
  ASSUME IInv, StreamInv, Serviceable
  PROVE  Ready.stream = StreamEnd
  <1> PICK j \in Journals : j = journal
    BY DEF IInv, TypeOK
  <1>1. status = "healthy" /\ chip = None /\ Verified(j) /\ Ready = Finished(j)
    BY DEF Serviceable, Ready
  <1>2. StreamEnd = IF j.operation = "DATA_PAGE_PROGRAM" THEN Advanced(j.stream, j.payload) ELSE j.stream
    BY <1>1 DEF StreamInv, Following, PageToVerify
  <1> QED BY <1>1, <1>2 DEF Finished, Journals

(* How far behind the sector in use erase-ahead works. *)
LEMMA ErasedNext ==
  ASSUME NEW j \in Journals, Prepared(j), j.erasedAhead < EraseAheadSectors
  PROVE  Behind(j.nextErase, j.current) >= Kept
  <1> PICK c \in Sectors, n \in 0..(EraseAheadSectors - 1) : c = j.current /\ n = j.erasedAhead
    BY JournalAssumption DEF Journals
  <1>1. /\ j.nextErase = (c + 1 + n) % SectorCount
        /\ SectorCount \in Nat \ {0} /\ EraseAheadSectors \in 1..(SectorCount - 1) /\ c \in 0..(SectorCount - 1)
    BY JournalAssumption DEF Prepared, Sectors
  <1>2. (c + 1 + n) % SectorCount = IF c + 1 + n < SectorCount THEN c + 1 + n ELSE c + 1 + n - SectorCount
    BY <1>1
  <1> QED BY <1>1, <1>2 DEF Behind, Kept

LEMMA StreamServed ==
  ASSUME IInv, StreamInv, Service \/ StartFails
  PROVE  StreamInv' /\ LogStep
  <1>1. /\ Serviceable /\ status = "healthy" /\ UNCHANGED <<flash, flushRequested>>
        /\ StartEraseAhead(Ready) \/ RotateSector(Ready) \/ StartDataPage(Ready) \/ StartNothing(Ready)
    BY DEF Service, StartFails, Serviceable
  <1> PICK j : j = Ready
    OBVIOUS
  <1>2. j \in Journals /\ Resting(j) /\ Prepared(j) /\ j.stream = StreamEnd
    BY <1>1, ReadyRests, ReadyFollows DEF IInv
  <1>3. KeptSectors' /\ LogUnchanged
    BY <1>1, SameLog DEF IInv, StreamInv
  <1>4. \A c : Leads(c)' <=> Leads(c)
    BY <1>1, SameFlash
  <1>5. CASE StartEraseAhead(j)
    <2>1. /\ chip' = [kind |-> "erase", sector |-> j.nextErase] /\ j.erasedAhead < EraseAheadSectors
          /\ j.current \in Sectors /\ j.nextErase \in Sectors
          /\ journal'.operation = "SECTOR_ERASE" /\ journal'.stream = j.stream
      BY <1>2, <1>5, JournalAssumption DEF StartEraseAhead, Start, EraseWanted, Journals
    <2>2. chip' \in Erases /\ chip' \notin Programs /\ chip'.sector = j.nextErase
      BY <2>1 DEF Erases, Programs
    <2>3. \A c \in Sectors : Leads(c) => c = j.current
      BY <1>2, <2>1, OneLeader DEF Resting, InNewest
    <2>4. ErasingBeyond'
      BY <1>2, <1>4, <2>1, <2>2, <2>3, ErasedNext DEF ErasingBeyond, Behind, Kept
    <2> QED BY <1>2, <1>3, <2>1, <2>2, <2>4
            DEF StreamInv, LogStep, LogUnchanged, OpeningInStream, AppendingInStream, Following, PageToVerify
  <1>6. CASE RotateSector(j)
    <2> DEFINE r == [j EXCEPT !.current = After(@), !.seq = (@ + 1) % SequenceModulus,
                              !.erasedAhead = @ - 1, !.nextPage = 1, !.payload = 0,
                              !.operation = "SECTOR_HEADER_PROGRAM"]
    <2>1. /\ chip' = [kind |-> "program", sector |-> r.current, page |-> 0, content |-> Header(r)]
          /\ journal' = r /\ j.erasedAhead \in 1..EraseAheadSectors /\ j.current \in Sectors
      BY <1>2, <1>6, JournalAssumption DEF RotateSector, Start, EraseWanted, Journals
    <2>2. r.operation = "SECTOR_HEADER_PROGRAM" /\ r.stream = j.stream /\ r.current = After(j.current)
      BY <1>2 DEF Journals
    <2> HIDE DEF r
    <2>3. chip' \notin Erases /\ chip'.page = 0 /\ chip'.sector = r.current /\ chip'.content.first = j.stream
      BY <2>1, <2>2 DEF Erases, Header
    <2>4. WrittenUpTo(r.current, 1)'
      <3>1. flash'[r.current] = Filled(Blank)
        <4>1. 1 \in 1..j.erasedAhead
          BY <2>1
        <4> QED BY <1>1, <1>2, <2>2, <4>1 DEF Prepared, After
      <3> QED BY <3>1, AllBlank DEF Filled
    <2> QED BY <1>2, <1>3, <2>1, <2>2, <2>3, <2>4
            DEF StreamInv, LogStep, LogUnchanged, ErasingBeyond, OpeningInStream, AppendingInStream,
                Following, PageToVerify, WrittenUpTo
  <1>7. CASE StartDataPage(j)
    <2> DEFINE r == [j EXCEPT !.operation = "DATA_PAGE_PROGRAM", !.payload = DataUnits(j)]
    <2>1. /\ chip' = [kind |-> "program", sector |-> j.current, page |-> j.nextPage,
                      content |-> [from |-> j.stream, units |-> DataUnits(j)]]
          /\ journal' = r /\ j.nextPage \in Pages
          /\ DataUnits(j) \in 1..PageUnits /\ j.current \in Sectors /\ j.stream \in Offsets
      BY <1>2, <1>7, JournalAssumption DEF StartDataPage, Start, DataWanted, SectorFull, DataUnits, Journals, Pages
    <2>2. r.stream = j.stream
      BY <1>2 DEF Journals
    <2> HIDE DEF r
    <2>3. /\ chip' \notin Erases /\ chip'.page # 0 /\ chip'.sector = j.current /\ chip'.content.from = j.stream
          /\ chip' \in Programs
      BY <2>1, JournalAssumption DEF Erases, Programs, Pages, Blocks
    <2>4. chip' # None /\ Leads(j.current)'
      BY <1>2, <1>4, <2>3, ContentAssumption DEF Resting, InNewest
    <2> QED BY <1>2, <1>3, <2>1, <2>2, <2>3, <2>4
            DEF StreamInv, LogStep, LogUnchanged, ErasingBeyond, OpeningInStream, AppendingInStream,
                Following, PageToVerify
  <1>8. CASE StartNothing(j)
    <2>1. chip' = None /\ journal' = j /\ j.operation = "NONE"
      BY <1>2, <1>8 DEF StartNothing, Start, Resting
    <2>2. Following'
      BY <1>2, <1>3, <2>1 DEF Following, PageToVerify, LogUnchanged
    <2> QED BY <1>3, <2>1, <2>2, IdleInStream DEF StreamInv, LogStep
  <1> QED BY <1>1, <1>5, <1>6, <1>7, <1>8

(* Steps that leave the flash and the chip alone. *)
LEMMA StreamStays ==
  ASSUME IInv, StreamInv, flash' = flash, chip' = chip,
         status' = "healthy" =>
           /\ status = "healthy"
           /\ \/ journal' = journal
              \/ \E units \in 1..PageUnits : journal' = [journal EXCEPT !.used = @ + units]
  PROVE  StreamInv' /\ LogStep
  <1>1. KeptSectors' /\ LogUnchanged
    BY SameLog DEF IInv, StreamInv
  <1>2. \A c : Leads(c)' <=> Leads(c)
    BY SameFlash
  <1>3. ErasingBeyond' /\ OpeningInStream' /\ AppendingInStream'
    BY <1>1, <1>2
       DEF StreamInv, ErasingBeyond, OpeningInStream, AppendingInStream, LogUnchanged, Behind, Kept, WrittenUpTo
  <1>4. ASSUME status' = "healthy"
        PROVE  /\ journal'.operation = journal.operation /\ journal'.stream = journal.stream
               /\ journal'.payload = journal.payload /\ journal'.nextPage = journal.nextPage
               /\ journal'.current = journal.current /\ status = "healthy"
    BY <1>4 DEF IInv, TypeOK, Journals
  <1>5. Following'
    <2> SUFFICES ASSUME status' = "healthy"
                 PROVE  Following'
      BY DEF Following
    <2>1. PageToVerify' <=> PageToVerify
      BY <1>4 DEF PageToVerify, Verified
    <2> QED BY <1>1, <1>4, <2>1 DEF Following, StreamInv, LogUnchanged
  <1> QED BY <1>1, <1>3, <1>5 DEF StreamInv, LogStep

LEMMA StreamStep == IInv /\ StreamInv /\ [Next]_vars => StreamInv' /\ LogStep
  <1> SUFFICES ASSUME IInv, StreamInv, [Next]_vars
               PROVE  StreamInv' /\ LogStep
    OBVIOUS
  <1>1. CASE BeginRestored \/ BeginFresh \/ BeginFreshCut \/ BeginFails
    BY <1>1, StreamBegins
  <1>2. CASE ChipDone \/ Restart
    BY <1>2, StreamSettles
  <1>3. CASE \E units \in 1..PageUnits : AppendUnits(units)
    BY <1>3, StreamStays DEF AppendUnits, CanAppend
  <1>4. CASE RequestFlush \/ Stop \/ VerifyFails \/ ServiceFails
    BY <1>4, StreamStays DEF RequestFlush, Stop, VerifyFails, ServiceFails
  <1>5. CASE Service \/ StartFails
    BY <1>5, StreamServed
  <1>6. CASE UNCHANGED vars
    BY <1>6, StreamStays DEF vars
  <1> QED BY <1>1, <1>2, <1>3, <1>4, <1>5, <1>6 DEF Next

(* What the observer has recorded is what the flash holds.                 *)
Recent == chapters = Chapters /\ end = StreamEnd

(* The flash journal implements DurableLog: through power failures,        *)
(* restarts and failed operations nothing happens to the log that can be   *)
(* read back but that a block is added where the stream ended, or that a   *)
(* chapter is opened (append, service, begin, and what the chip leaves).   *)
THEOREM PromiseIsKept == MCSpec => PromiseKept
  <1>1. MCInit => IInv /\ StreamInv /\ Recent /\ Promise!Init
    <2> SUFFICES ASSUME MCInit
                 PROVE  IInv /\ StreamInv /\ Recent /\ Promise!Init
      OBVIOUS
    <2>1. ValidSectors = {}
      BY ContentAssumption DEF MCInit, Init, Filled, ValidSectors, Valid
    <2> QED BY <2>1, Initially, StreamInitially DEF MCInit, Recent, Promise!Init, Chapters, StreamEnd
  <1>2. IInv /\ StreamInv /\ Recent /\ [Recorded(Next)]_mcvars
          => IInv' /\ StreamInv' /\ Recent' /\ [Promise!Next]_(Promise!log)
    <2> SUFFICES ASSUME IInv, StreamInv, Recent, [Recorded(Next)]_mcvars
                 PROVE  IInv' /\ StreamInv' /\ Recent' /\ [Promise!Next]_(Promise!log)
      OBVIOUS
    <2>1. [Next]_vars
      BY DEF Recorded, mcvars
    <2>2. IInv' /\ StreamInv' /\ LogStep
      BY <2>1, Stepwise, StreamStep
    <2>3. flash' = flash => LogUnchanged
      BY SameLog DEF IInv, StreamInv
    <2>4. Recent' /\ (chapters' = Chapters' /\ end' = StreamEnd')
      BY <2>3 DEF Recorded, mcvars, vars, Recent, LogUnchanged
    <2>5. CASE LogUnchanged
      BY <2>2, <2>4, <2>5 DEF Recent, LogUnchanged, Promise!log
    <2>6. CASE Opened
      BY <2>2, <2>4, <2>6 DEF Opened, Recent, Promise!Next, Promise!OpenChapter
    <2>7. CASE \E block \in Blocks : block.from = StreamEnd /\ Stored(block)
      <3> PICK block \in Blocks : block.from = StreamEnd /\ Stored(block)
        BY <2>7
      <3>1. block = [from |-> end, units |-> block.units] /\ block.units \in 1..PageUnits
        BY DEF Recent, Blocks
      <3>2. Promise!Store(block.units)
        BY <2>4, <3>1 DEF Stored, Recent, Promise!Store, Advanced
      <3> QED BY <2>2, <2>4, <3>1, <3>2 DEF Promise!Next
    <2> QED BY <2>2, <2>5, <2>6, <2>7 DEF LogStep
  <1> QED BY <1>1, <1>2, PTL DEF MCSpec, PromiseKept, Promise!Spec
=============================================================================
