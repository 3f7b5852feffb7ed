--------------------------- MODULE FlightLogProofs ---------------------------
(***************************************************************************)
(* FlightLog for every size of its queues and records: no record is lost   *)
(* or repeated unless it is counted, the two media agree, a full queue     *)
(* costs no backend, and a log that is closed is complete.                 *)
(***************************************************************************)
EXTENDS FlightLog, NatLemmas, SequenceTheorems, FiniteSetTheorems

-----------------------------------------------------------------------------
(* Streams of units.                                                       *)

Seqs(s) == {s[i].seq : i \in 1..Len(s)}

Follows(a, b) == IF a.left > 0 THEN b = [a EXCEPT !.left = @ - 1] ELSE a.seq < b.seq

(* Whole records, each with a later number than the one before it.         *)
Whole(s) ==
  /\ s # <<>> => s[Len(s)].left = 0
  /\ \A i \in 1..(Len(s) - 1) : Follows(s[i], s[i + 1])

(* The stream comes before the records that wait.                          *)
Before(s, records) == \A i \in 1..Len(s), j \in 1..Len(records) : s[i].seq < records[j].seq

(* Every record there was is in the stream, waits or was given up.         *)
Accounted(s, records, dropped, next) ==
  /\ s \in Seq(Units) /\ Whole(s) /\ Before(s, records)
  /\ \A i \in 1..Len(s) : s[i].seq < next
  /\ IsFiniteSet(Seqs(s)) /\ Cardinality(Seqs(s)) + Len(records) + dropped = next

(* The records that wait are numbered upwards.                             *)
Waiting(records, next) ==
  /\ records \in Seq(Frames)
  /\ \A i \in 1..Len(records) : records[i].seq < next
  /\ \A i, j \in 1..Len(records) : i < j => records[i].seq < records[j].seq

(* The latest record is the last to wait, or the last of the stream.       *)
Latest(s, records, next) ==
  IF records = <<>> THEN s # <<>> /\ s[Len(s)] = [seq |-> next - 1, left |-> 0]
  ELSE records[Len(records)].seq = next - 1

LEMMA Associative ==
  \A x, y, z \in Seq(Units) : (x \o y) \o z = x \o (y \o z)
  BY ConcatAssociative

LEMMA Joined ==
  \A x, y \in Seq(Units) : x \o y \in Seq(Units)
  BY ConcatProperties

LEMMA NothingFollows ==
  \A s \in Seq(Units) : s \o <<>> = s
  BY ConcatEmptySeq

LEMMA NothingBefore ==
  \A s \in Seq(Units) : <<>> \o s = s
  BY ConcatEmptySeq

LEMMA UnitsOfFrame ==
  ASSUME NEW frame \in Frames
  PROVE  /\ UnitsOf(frame) \in Seq(Units) /\ Len(UnitsOf(frame)) = frame.units
         /\ frame.units \in Nat \ {0} /\ frame.seq \in Nat
         /\ \A i \in 1..frame.units : UnitsOf(frame)[i] = [seq |-> frame.seq, left |-> frame.units - i]
  <1>1. frame.units \in Nat \ {0} /\ frame.seq \in Nat
    BY LogAssumption DEF Frames
  <1>2. \A i \in 1..frame.units : [seq |-> frame.seq, left |-> frame.units - i] \in Units
    BY <1>1 DEF Units
  <1> DEFINE u == [i \in 1..frame.units |-> [seq |-> frame.seq, left |-> frame.units - i]]
  <1>3. u \in [1..frame.units -> Units]
    BY <1>2
  <1>4. u \in Seq(Units) /\ Len(u) = frame.units
    <2> HIDE DEF u
    <2> QED BY <1>1, <1>3
  <1> QED BY <1>1, <1>4 DEF UnitsOf

(* The units of the first record to wait go to the end of the stream.      *)
LEMMA StreamGrows ==
  ASSUME NEW s, NEW records, NEW dropped \in Nat, NEW next \in Nat,
         Accounted(s, records, dropped, next), Waiting(records, next), records # <<>>
  PROVE  Accounted(s \o UnitsOf(Head(records)), Tail(records), dropped, next)
  <1> DEFINE u == UnitsOf(Head(records))
             n == Head(records).units
             t == s \o u
             rest == Tail(records)
  <1>1. records \in Seq(Frames) /\ s \in Seq(Units)
    BY DEF Accounted, Waiting
  <1>2. Head(records) = records[1] /\ Head(records) \in Frames /\ Len(records) \in Nat \ {0}
    BY <1>1
  <1>3. rest \in Seq(Frames) /\ Len(rest) = Len(records) - 1 /\ \A j \in 1..Len(rest) : rest[j] = records[j + 1]
    BY <1>1
  <1>4. /\ u \in Seq(Units) /\ Len(u) = n /\ n \in Nat \ {0} /\ Head(records).seq \in Nat
        /\ \A i \in 1..n : u[i] = [seq |-> Head(records).seq, left |-> n - i]
    BY <1>2, UnitsOfFrame
  <1> HIDE DEF u, n, rest
  <1>5. /\ t \in Seq(Units) /\ Len(t) = Len(s) + n /\ Len(s) \in Nat
        /\ \A i \in 1..Len(s) : t[i] = s[i]
        /\ \A i \in 1..n : t[Len(s) + i] = u[i]
    <2>1. /\ t \in Seq(Units) /\ Len(t) = Len(s) + Len(u) /\ Len(s) \in Nat
          /\ \A i \in 1..(Len(s) + Len(u)) : t[i] = IF i <= Len(s) THEN s[i] ELSE u[i - Len(s)]
      <3>1. u \in Seq(Units) /\ s \in Seq(Units) /\ Len(s) \in Nat
        BY <1>1, <1>4
      <3>2. /\ s \o u \in Seq(Units) /\ Len(s \o u) = Len(s) + Len(u)
            /\ \A i \in 1..(Len(s) + Len(u)) : (s \o u)[i] = IF i <= Len(s) THEN s[i] ELSE u[i - Len(s)]
        BY <3>1, ConcatProperties, Zenon
      <3> QED BY <3>1, <3>2 DEF t
    <2> HIDE DEF t
    <2>2. ASSUME NEW i \in 1..Len(s) PROVE t[i] = s[i]
      BY <1>4, <2>1
    <2>3. ASSUME NEW i \in 1..n PROVE t[Len(s) + i] = u[i]
      <3>1. Len(s) + i \in 1..(Len(s) + Len(u)) /\ ~(Len(s) + i <= Len(s)) /\ (Len(s) + i) - Len(s) = i
        BY <1>4, <2>1
      <3> QED BY <2>1, <3>1
    <2> QED BY <1>4, <2>1, <2>2, <2>3
  <1> HIDE DEF t
  <1>6. \A i \in 1..Len(t) : i \in 1..Len(s) \/ (i - Len(s) \in 1..n /\ t[i] = u[i - Len(s)])
    BY <1>4, <1>5
  <1>7. \A i \in 1..Len(s) : s[i].seq < Head(records).seq
    BY <1>2 DEF Accounted, Before
  <1>8. Whole(t)
    <2>1. t # <<>> => t[Len(t)].left = 0
      BY <1>4, <1>5
    <2>2. ASSUME NEW i \in 1..(Len(t) - 1)
          PROVE  Follows(t[i], t[i + 1])
      <3>1. CASE i < Len(s)
        <4>1. i \in 1..(Len(s) - 1) /\ i \in 1..Len(s) /\ i + 1 \in 1..Len(s)
          BY <1>5, <3>1
        <4>2. t[i] = s[i] /\ t[i + 1] = s[i + 1]
          BY <1>5, <4>1
        <4>3. Follows(s[i], s[i + 1])
          BY <4>1 DEF Accounted, Whole
        <4> QED BY <4>2, <4>3
      <3>2. CASE i = Len(s)
        <4>1. t[i] = s[Len(s)] /\ s # <<>> /\ t[i + 1] = u[1]
          BY <1>1, <1>4, <1>5, <3>2
        <4>2. s[Len(s)].left = 0 /\ s[Len(s)].seq < Head(records).seq
          BY <1>7, <4>1, <3>2 DEF Accounted, Whole
        <4> QED BY <1>4, <4>1, <4>2 DEF Follows
      <3>3. CASE i > Len(s)
        <4> DEFINE k == i - Len(s)
        <4>1. k \in 1..(n - 1) /\ i = Len(s) + k
          BY <1>4, <1>5, <3>3
        <4> HIDE DEF k
        <4>2. t[i] = u[k] /\ t[i + 1] = u[k + 1]
          BY <1>4, <1>5, <4>1
        <4>3. k \in 1..n /\ k + 1 \in 1..n /\ n - (k + 1) = (n - k) - 1 /\ n - k # 0
          BY <1>4, <4>1
        <4>4. /\ u[k] = [seq |-> Head(records).seq, left |-> n - k]
              /\ u[k + 1] = [seq |-> Head(records).seq, left |-> (n - k) - 1]
          BY <1>4, <4>3
        <4>5. n - k > 0
          BY <1>4, <4>1
        <4> QED BY <4>2, <4>4, <4>5 DEF Follows
      <3> QED BY <1>5, <3>1, <3>2, <3>3
    <2> QED BY <2>1, <2>2 DEF Whole
  <1>9. Before(t, rest)
    <2> SUFFICES ASSUME NEW i \in 1..Len(t), NEW j \in 1..Len(rest)
                 PROVE  t[i].seq < rest[j].seq
      BY DEF Before
    <2>1. rest[j] = records[j + 1] /\ j + 1 \in 1..Len(records) /\ 1 \in 1..Len(records) /\ 1 < j + 1
      BY <1>2, <1>3
    <2>2. records[1].seq < records[j + 1].seq
      BY <2>1 DEF Waiting
    <2>3. CASE i \in 1..Len(s)
      BY <1>5, <2>1, <2>3 DEF Accounted, Before
    <2>4. CASE i - Len(s) \in 1..n /\ t[i] = u[i - Len(s)]
      <3>1. t[i].seq = Head(records).seq
        BY <1>4, <2>4
      <3> QED BY <2>1, <2>2, <3>1
    <2> QED BY <1>6, <2>3, <2>4
  <1>10. \A i \in 1..Len(t) : t[i].seq < next
    <2>1. Head(records).seq < next
      BY <1>2 DEF Waiting
    <2> SUFFICES ASSUME NEW i \in 1..Len(t)
                 PROVE  t[i].seq < next
      OBVIOUS
    <2>2. CASE i \in 1..Len(s)
      BY <1>5, <2>2 DEF Accounted
    <2>3. CASE i - Len(s) \in 1..n /\ t[i] = u[i - Len(s)]
      BY <1>4, <2>1, <2>3
    <2> QED BY <1>6, <2>2, <2>3
  <1>11. Seqs(t) = Seqs(s) \cup {Head(records).seq}
    <2>1. ASSUME NEW x \in Seqs(t) PROVE x \in Seqs(s) \cup {Head(records).seq}
      <3>1. PICK i \in 1..Len(t) : x = t[i].seq
        BY <2>1 DEF Seqs
      <3>2. CASE i \in 1..Len(s)
        BY <1>5, <3>1, <3>2 DEF Seqs
      <3>3. CASE i - Len(s) \in 1..n /\ t[i] = u[i - Len(s)]
        BY <1>4, <3>1, <3>3
      <3> QED BY <1>6, <3>2, <3>3
    <2>2. ASSUME NEW x \in Seqs(s) PROVE x \in Seqs(t)
      <3>1. PICK i \in 1..Len(s) : x = s[i].seq
        BY <2>2 DEF Seqs
      <3>2. i \in 1..Len(t) /\ t[i] = s[i]
        BY <1>4, <1>5
      <3> QED BY <3>1, <3>2 DEF Seqs
    <2>3. Head(records).seq \in Seqs(t)
      <3>1. Len(s) + 1 \in 1..Len(t) /\ 1 \in 1..n
        BY <1>4, <1>5
      <3>2. t[Len(s) + 1] = u[1]
        BY <1>5, <3>1
      <3>3. u[1].seq = Head(records).seq
        BY <1>4, <3>1
      <3> QED BY <3>1, <3>2, <3>3 DEF Seqs
    <2> QED BY <2>1, <2>2, <2>3
  <1>12. Head(records).seq \notin Seqs(s)
    <2>1. ASSUME NEW i \in 1..Len(s) PROVE s[i].seq # Head(records).seq
      <3>1. s[i] \in Units
        BY <1>1
      <3>2. s[i].seq \in Nat
        BY <3>1 DEF Units
      <3> QED BY <1>4, <1>7, <3>2
    <2> QED BY <2>1 DEF Seqs
  <1>13. IsFiniteSet(Seqs(t)) /\ Cardinality(Seqs(t)) = Cardinality(Seqs(s)) + 1
    BY <1>11, <1>12, FS_AddElement DEF Accounted
  <1>14. Cardinality(Seqs(s)) \in Nat
    BY FS_CardinalityType DEF Accounted
  <1>15. Cardinality(Seqs(t)) + Len(rest) + dropped = next
    BY <1>2, <1>3, <1>13, <1>14 DEF Accounted
  <1>16. Accounted(t, rest, dropped, next)
    BY <1>5, <1>8, <1>9, <1>10, <1>13, <1>15 DEF Accounted
  <1> QED BY <1>16 DEF t, u, rest

LEMMA WaitingShrinks ==
  ASSUME NEW records, NEW next \in Nat, Waiting(records, next), records # <<>>
  PROVE  Waiting(Tail(records), next)
  <1>1. records \in Seq(Frames) /\ Len(records) \in Nat \ {0}
    BY DEF Waiting
  <1>2. Tail(records) \in Seq(Frames) /\ Len(Tail(records)) = Len(records) - 1
        /\ \A j \in 1..Len(Tail(records)) : Tail(records)[j] = records[j + 1]
    BY <1>1
  <1> QED BY <1>1, <1>2 DEF Waiting

-----------------------------------------------------------------------------
(* The RAM FIFO.                                                           *)

Buffers == [records : Seq(Frames), used : Int, dropped : Nat]

LEMMA PoppedBuffer ==
  ASSUME NEW q \in Buffers, q.records # <<>>
  PROVE  /\ Popped(q) \in Buffers /\ Popped(q).records = Tail(q.records)
         /\ Popped(q).dropped = q.dropped
  <1> DEFINE h == Head(q.records).units
  <1>1. Tail(q.records) \in Seq(Frames)
    BY DEF Buffers
  <1>2. h \in Nat
    <2>1. Head(q.records) \in Frames
      BY DEF Buffers
    <2> QED BY <2>1, LogAssumption DEF Frames
  <1>3. Popped(q) = [q EXCEPT !.records = Tail(@), !.used = @ - h]
    BY DEF Popped
  <1> HIDE DEF h
  <1>4. PICK r \in Seq(Frames), u \in Int, d \in Nat : q = [records |-> r, used |-> u, dropped |-> d]
    BY DEF Buffers
  <1>5. Popped(q) = [records |-> Tail(r), used |-> u - h, dropped |-> d]
    BY <1>2, <1>3, <1>4
  <1> QED BY <1>1, <1>2, <1>4, <1>5 DEF Buffers

(* A record that is given up is counted.                                   *)
LEMMA SqueezedAccounts ==
  ASSUME NEW q \in Buffers, NEW units \in Nat, NEW next \in Nat, Waiting(q.records, next)
  PROVE  /\ Squeezed(q, units) \in Buffers
         /\ Waiting(Squeezed(q, units).records, next)
         /\ \A s : Accounted(s, q.records, q.dropped, next)
                     => Accounted(s, Squeezed(q, units).records, Squeezed(q, units).dropped, next)
  <1>1. CASE Squeezed(q, units) = q
    BY <1>1
  <1>2. CASE q.records # <<>> /\ Squeezed(q, units) = DropOldest(q)
    <2>1. q.records \in Seq(Frames) /\ q.dropped \in Nat
      BY DEF Buffers
    <2>2. Tail(q.records) \in Seq(Frames) /\ Len(Tail(q.records)) = Len(q.records) - 1
          /\ \A j \in 1..Len(Tail(q.records)) : Tail(q.records)[j] = q.records[j + 1]
          /\ Len(q.records) \in Nat \ {0}
      BY <1>2, <2>1
    <2>3. /\ DropOldest(q) \in Buffers /\ DropOldest(q).records = Tail(q.records)
          /\ DropOldest(q).dropped = q.dropped + 1
      <3> DEFINE x == Popped(q)
      <3>1. x \in Buffers /\ x.records = Tail(q.records) /\ x.dropped = q.dropped
        BY <1>2, PoppedBuffer
      <3>2. DropOldest(q) = [x EXCEPT !.dropped = @ + 1]
        BY DEF DropOldest
      <3> HIDE DEF x
      <3>3. x.dropped + 1 \in Nat
        BY <2>1, <3>1
      <3> QED BY <3>1, <3>2, <3>3 DEF Buffers
    <2>4. ASSUME NEW s, Accounted(s, q.records, q.dropped, next)
          PROVE  Accounted(s, Tail(q.records), q.dropped + 1, next)
      <3>1. Cardinality(Seqs(s)) \in Nat
        BY <2>4, FS_CardinalityType DEF Accounted
      <3>2. Before(s, Tail(q.records))
        BY <2>2, <2>4 DEF Accounted, Before
      <3> QED BY <2>1, <2>2, <2>4, <3>1, <3>2 DEF Accounted
    <2> QED BY <1>2, <2>3, <2>4, WaitingShrinks
  <1> QED BY <1>1, <1>2 DEF Squeezed

LEMMA RoomForAccounts ==
  ASSUME NEW q \in Buffers, NEW units \in Nat, NEW next \in Nat, Waiting(q.records, next)
  PROVE  /\ RoomFor(q, units) \in Buffers
         /\ Waiting(RoomFor(q, units).records, next)
         /\ \A s \in Seq(Units) : Accounted(s, q.records, q.dropped, next)
                     => Accounted(s, RoomFor(q, units).records, RoomFor(q, units).dropped, next)
  <1> DEFINE N == Len(q.records)
             Scan(f) == [n \in 0..N |-> IF n = 0 THEN q ELSE Squeezed(f[n - 1], units)]
             after == CHOOSE f : f = Scan(f)
             Good == {x \in Buffers :
                        /\ Waiting(x.records, next)
                        /\ \A s \in Seq(Units) : Accounted(s, q.records, q.dropped, next)
                                           => Accounted(s, x.records, x.dropped, next)}
             step == [n \in 1..N |-> [x \in Good |-> Squeezed(x, units)]]
  <1>1. N \in Nat
    BY DEF Buffers
  <1>2. q \in Good
    OBVIOUS
  <1>3. ASSUME NEW x \in Good PROVE Squeezed(x, units) \in Good
    BY SqueezedAccounts
  <1> HIDE DEF N, Good
  <1>4. step \in [1..N -> [Good -> Good]]
    BY <1>3
  <1>5. PICK f : Iterates(f, N, Good, q, step)
    <2> HIDE DEF step
    <2> QED BY <1>1, <1>2, <1>4, Iteration
  <1>6. f = Scan(f)
    <2>1. ASSUME NEW n \in 0..N PROVE f[n] = Scan(f)[n]
      <3>1. CASE n = 0
        BY <1>5, <3>1 DEF Iterates
      <3>2. CASE n # 0
        <4>1. n \in 1..N /\ n - 1 \in 0..N
          BY <1>1, <3>2
        <4>2. f[n - 1] \in Good /\ f[n] = step[n][f[n - 1]]
          BY <1>5, <4>1 DEF Iterates
        <4> QED BY <3>2, <4>1, <4>2
      <3> QED BY <3>1, <3>2
    <2>2. f \in [0..N -> Good]
      BY <1>5 DEF Iterates
    <2> QED BY <2>1, <2>2
  <1>7. after = Scan(after)
    <2> HIDE DEF Scan
    <2> QED BY <1>6
  <1>8. \A n \in 0..N : after[n] \in Good
    <2> DEFINE T == {n \in 0..N : after[n] \in Good}
    <2>1. 0 \in T
      <3>1. after[0] = q
        <4> HIDE DEF after
        <4> QED BY <1>1, <1>7
      <3> HIDE DEF after
      <3> QED BY <1>1, <1>2, <3>1
    <2>2. ASSUME NEW n \in 0..(N - 1), n \in T PROVE n + 1 \in T
      <3> HIDE DEF after
      <3>1. n + 1 \in 0..N /\ n + 1 # 0 /\ (n + 1) - 1 = n
        BY <1>1
      <3>2. after[n + 1] = Squeezed(after[n], units)
        BY <1>7, <3>1
      <3> QED BY <1>3, <2>2, <3>1, <3>2
    <2> HIDE DEF T
    <2>3. \A n \in 0..N : n \in T
      BY <1>1, <2>1, <2>2, BoundedInduction
    <2> QED BY <2>3 DEF T
  <1>9. RoomFor(q, units) = after[N]
    BY DEF RoomFor, N
  <1> HIDE DEF after
  <1>10. RoomFor(q, units) \in Good
    BY <1>1, <1>8, <1>9
  <1> QED BY <1>10 DEF Good

(* A new record is the last to wait and the latest of all.                 *)
LEMMA PushedIsLatest ==
  ASSUME NEW q \in Buffers, NEW frame \in Frames, NEW next \in Nat, Waiting(q.records, next),
         frame.seq = next
  PROVE  /\ Push(q, frame) \in Buffers /\ Waiting(Push(q, frame).records, next + 1)
         /\ Push(q, frame).records # <<>>
         /\ Push(q, frame).records[Len(Push(q, frame).records)].seq = next
         /\ \A s \in Seq(Units) : Accounted(s, q.records, q.dropped, next)
              => Accounted(s, Push(q, frame).records, Push(q, frame).dropped, next + 1)
  <1>1. frame.units \in Nat
    BY LogAssumption DEF Frames
  <1> DEFINE x == RoomFor(q, frame.units)
  <1>2. /\ x \in Buffers /\ Waiting(x.records, next)
        /\ \A s \in Seq(Units) : Accounted(s, q.records, q.dropped, next)
              => Accounted(s, x.records, x.dropped, next)
    BY <1>1, RoomForAccounts
  <1> DEFINE longer == Append(x.records, frame)
  <1>3. Push(q, frame) = [x EXCEPT !.records = Append(@, frame), !.used = @ + frame.units]
    BY DEF Push
  <1> HIDE DEF x
  <1>4. PICK r \in Seq(Frames), u \in Int, d \in Nat : x = [records |-> r, used |-> u, dropped |-> d]
    BY <1>2 DEF Buffers
  <1> DEFINE k == frame.units
             l == Append(r, frame)
  <1>5. Push(q, frame) = [records |-> l, used |-> u + k, dropped |-> d]
    <2> HIDE DEF k
    <2> QED BY <1>1, <1>3, <1>4 DEF k
  <1>6. /\ l \in Seq(Frames) /\ Len(l) = Len(r) + 1 /\ Len(r) \in Nat
        /\ l[Len(r) + 1] = frame /\ \A i \in 1..Len(r) : l[i] = r[i]
    OBVIOUS
  <1> HIDE DEF l
  <1>7. Push(q, frame) \in Buffers /\ Push(q, frame).records = l /\ Push(q, frame).dropped = d
    BY <1>1, <1>5, <1>6 DEF Buffers
  <1>8. l # <<>> /\ l[Len(l)].seq = next
    BY <1>6
  <1>9. Waiting(r, next) /\ x.records = r /\ x.dropped = d
    BY <1>2, <1>4
  <1>10. Waiting(l, next + 1)
    <2>1. \A i \in 1..Len(l) : i \in 1..Len(r) \/ i = Len(r) + 1
      BY <1>6
    <2>2. \A i \in 1..Len(r) : r[i].seq \in Nat /\ r[i].seq < next
      <3> TAKE i \in 1..Len(r)
      <3>1. r[i] \in Frames
        OBVIOUS
      <3> QED BY <1>9, <3>1 DEF Waiting, Frames
    <2>3. ASSUME NEW i \in 1..Len(l) PROVE l[i].seq < next + 1
      BY <1>6, <2>1, <2>2
    <2>4. ASSUME NEW i \in 1..Len(l), NEW j \in 1..Len(l), i < j PROVE l[i].seq < l[j].seq
      <3>1. i \in 1..Len(r)
        BY <1>6, <2>4
      <3>2. CASE j = Len(r) + 1
        BY <1>6, <2>2, <3>1, <3>2
      <3>3. CASE j \in 1..Len(r)
        BY <1>6, <1>9, <2>4, <3>1, <3>3 DEF Waiting
      <3> QED BY <2>1, <3>2, <3>3
    <2> QED BY <1>6, <2>3, <2>4 DEF Waiting
  <1>11. ASSUME NEW s \in Seq(Units), Accounted(s, r, d, next)
         PROVE  Accounted(s, l, d, next + 1)
    <2>1. Cardinality(Seqs(s)) \in Nat
      BY <1>11, FS_CardinalityType DEF Accounted
    <2>2. \A i \in 1..Len(s) : s[i].seq \in Nat /\ s[i].seq < next
      <3> TAKE i \in 1..Len(s)
      <3>1. s[i] \in Units
        OBVIOUS
      <3> QED BY <1>11, <3>1 DEF Accounted, Units
    <2>3. Before(s, l)
      <3> SUFFICES ASSUME NEW i \in 1..Len(s), NEW j \in 1..Len(l)
                   PROVE  s[i].seq < l[j].seq
        BY DEF Before
      <3>1. CASE j \in 1..Len(r)
        BY <1>6, <1>11, <3>1 DEF Accounted, Before
      <3>2. CASE j = Len(r) + 1
        BY <1>6, <2>2, <3>2
      <3> QED BY <1>6, <3>1, <3>2
    <2>4. \A i \in 1..Len(s) : s[i].seq < next + 1
      BY <2>2
    <2> QED BY <1>6, <1>11, <2>1, <2>3, <2>4 DEF Accounted
  <1> QED BY <1>2, <1>7, <1>8, <1>9, <1>10, <1>11

-----------------------------------------------------------------------------
(* What a tick works on, and what holds of it at each of its steps.        *)

Flashes == [status : Statuses, queue : Seq(Units), stored : Seq(Units), busy : BOOLEAN,
            operation : {"none", "page", "sector"}, payload : Nat, pagesLeft : Int]
Cards   == [status : Statuses, queue : Seq(Units), stored : Seq(Units), busy : BOOLEAN,
            blocksLeft : Int]
Works   == [fifo : Buffers, next : Nat, primary : Flashes, mirror : Cards, started : BOOLEAN]

Backed(b, q, next) ==
  Active(b) => /\ Accounted(Stream(b), q.records, q.dropped, next)
               /\ Latest(Stream(b), q.records, next)

Begins(s, t) == Len(s) <= Len(t) /\ \A i \in 1..Len(s) : s[i] = t[i]

(* Both streams are the same; that of a backend that is left alone goes on *)
(* from what the other one has stored.                                     *)
Agree(p, m) ==
  /\ Active(p) /\ Active(m) => Stream(p) = Stream(m)
  /\ Active(p) => Begins(m.stored, Stream(p))
  /\ Active(m) => Begins(p.stored, Stream(m))
  /\ Begins(p.stored, m.stored) \/ Begins(m.stored, p.stored)

Sound(w) ==
  /\ w \in Works
  /\ Waiting(w.fifo.records, w.next)
  /\ Backed(w.primary, w.fifo, w.next) /\ Backed(w.mirror, w.fifo, w.next)
  /\ Agree(w.primary, w.mirror)
  /\ w.primary.payload <= Len(w.primary.queue)
  /\ w.primary.status \in {"active", "failed"} /\ w.mirror.status \in {"active", "failed"}

LEMMA StreamOfFlash ==
  ASSUME NEW b \in Flashes
  PROVE  Stream(b) \in Seq(Units) /\ b.queue \in Seq(Units) /\ b.stored \in Seq(Units)
  BY DEF Flashes, Stream

LEMMA StreamOfCard ==
  ASSUME NEW b \in Cards
  PROVE  Stream(b) \in Seq(Units) /\ b.queue \in Seq(Units) /\ b.stored \in Seq(Units)
  BY DEF Cards, Stream

LEMMA EnqueueSound ==
  ASSUME NEW w, Sound(w), NEW units \in FrameUnits
  PROVE  Sound(EnqueueFrame(w, units))
  <1> DEFINE v == EnqueueFrame(w, units)
             frame == [seq |-> w.next, units |-> units]
             q == Push(w.fifo, frame)
  <1>1. w \in Works /\ w.fifo \in Buffers /\ w.next \in Nat
    BY DEF Sound, Works
  <1>2. frame \in Frames /\ frame.seq = w.next
    BY <1>1 DEF Frames
  <1>3. v = [fifo |-> q, next |-> w.next + 1, primary |-> w.primary, mirror |-> w.mirror,
             started |-> w.started]
    <2>1. v = [w EXCEPT !.fifo = q, !.next = @ + 1]
      BY DEF EnqueueFrame
    <2> HIDE DEF v, q
    <2> QED BY <1>1, <2>1 DEF Works
  <1>4. /\ q \in Buffers /\ Waiting(q.records, w.next + 1) /\ q.records # <<>>
        /\ q.records[Len(q.records)].seq = w.next
        /\ \A s \in Seq(Units) : Accounted(s, w.fifo.records, w.fifo.dropped, w.next)
              => Accounted(s, q.records, q.dropped, w.next + 1)
    <2> HIDE DEF frame
    <2>1. Waiting(w.fifo.records, w.next)
      BY DEF Sound
    <2> QED BY <1>1, <1>2, <2>1, PushedIsLatest
  <1> HIDE DEF frame, q
  <1>5. v \in Works
    BY <1>1, <1>3, <1>4 DEF Works
  <1>6. (w.next + 1) - 1 = w.next
    BY <1>1
  <1>7. Backed(w.primary, q, w.next + 1) /\ Backed(w.mirror, q, w.next + 1)
    <2>1. Stream(w.primary) \in Seq(Units) /\ Stream(w.mirror) \in Seq(Units)
      BY <1>1, StreamOfFlash, StreamOfCard DEF Works
    <2>2. \A s \in Seq(Units) : Latest(s, q.records, w.next + 1)
      BY <1>4, <1>6 DEF Latest
    <2>3. Backed(w.primary, w.fifo, w.next) /\ Backed(w.mirror, w.fifo, w.next)
      BY DEF Sound
    <2> QED BY <1>4, <2>1, <2>2, <2>3 DEF Backed
  <1> QED BY <1>3, <1>4, <1>5, <1>7 DEF Sound

LEMMA EnqueuedSound ==
  ASSUME NEW w, Sound(w), NEW lengths \in Seq(FrameUnits)
  PROVE  Sound(Enqueued(w, lengths))
  <1> DEFINE N == Len(lengths)
             Scan(f) == [n \in 0..N |-> IF n = 0 THEN w ELSE EnqueueFrame(f[n - 1], lengths[n])]
             after == CHOOSE f : f = Scan(f)
             Good == {x \in Works : Sound(x)}
             step == [n \in 1..N |-> [x \in Good |-> EnqueueFrame(x, lengths[n])]]
  <1>1. N \in Nat
    OBVIOUS
  <1>2. w \in Good
    BY DEF Sound
  <1>3. ASSUME NEW x \in Good, NEW n \in 1..N PROVE EnqueueFrame(x, lengths[n]) \in Good
    <2>1. lengths[n] \in FrameUnits
      OBVIOUS
    <2>2. Sound(EnqueueFrame(x, lengths[n]))
      BY <2>1, EnqueueSound
    <2> QED BY <2>2 DEF Sound
  <1> HIDE DEF N, Good
  <1>4. step \in [1..N -> [Good -> Good]]
    BY <1>3
  <1>5. PICK f : Iterates(f, N, Good, w, step)
    <2> HIDE DEF step
    <2> QED BY <1>1, <1>2, <1>4, Iteration
  <1>6. f = Scan(f)
    <2>1. ASSUME NEW n \in 0..N PROVE f[n] = Scan(f)[n]
      <3>1. CASE n = 0
        BY <1>5, <3>1 DEF Iterates
      <3>2. CASE n # 0
        <4>1. n \in 1..N /\ n - 1 \in 0..N
          BY <1>1, <3>2
        <4>2. f[n - 1] \in Good /\ f[n] = step[n][f[n - 1]]
          BY <1>5, <4>1 DEF Iterates
        <4> QED BY <3>2, <4>1, <4>2
      <3> QED BY <3>1, <3>2
    <2>2. f \in [0..N -> Good]
      BY <1>5 DEF Iterates
    <2> QED BY <2>1, <2>2
  <1>7. after = Scan(after)
    <2> HIDE DEF Scan
    <2> QED BY <1>6
  <1>8. \A n \in 0..N : after[n] \in Good
    <2> DEFINE T == {n \in 0..N : after[n] \in Good}
    <2>1. 0 \in T
      <3>1. after[0] = w
        <4> HIDE DEF after
        <4> QED BY <1>1, <1>7
      <3> HIDE DEF after
      <3> QED BY <1>1, <1>2, <3>1
    <2>2. ASSUME NEW n \in 0..(N - 1), n \in T PROVE n + 1 \in T
      <3> HIDE DEF after
      <3>1. n + 1 \in 0..N /\ n + 1 # 0 /\ (n + 1) - 1 = n /\ n + 1 \in 1..N
        BY <1>1
      <3>2. after[n + 1] = EnqueueFrame(after[n], lengths[n + 1])
        BY <1>7, <3>1
      <3> QED BY <1>3, <2>2, <3>1, <3>2
    <2> HIDE DEF T
    <2>3. \A n \in 0..N : n \in T
      BY <1>1, <2>1, <2>2, BoundedInduction
    <2> QED BY <2>3 DEF T
  <1>9. Enqueued(w, lengths) = after[N]
    BY DEF Enqueued, N
  <1> HIDE DEF after
  <1>10. Enqueued(w, lengths) \in Good
    BY <1>1, <1>8, <1>9
  <1> QED BY <1>10 DEF Good

-----------------------------------------------------------------------------
(* Draining.                                                               *)

(* What it means for a backend that it is handed a record.                 *)
Handed(b, c, frame) ==
  /\ c.status = b.status /\ c.stored = b.stored
  /\ c.queue = IF Active(b) THEN b.queue \o UnitsOf(frame) ELSE b.queue

LEMMA AppendedFlash ==
  ASSUME NEW b \in Flashes, NEW frame \in Frames, Active(b) => Fits(b, frame)
  PROVE  /\ Appended(b, frame) \in Flashes /\ Handed(b, Appended(b, frame), frame)
         /\ Appended(b, frame).payload = b.payload
  <1> DEFINE longer == b.queue \o UnitsOf(frame)
  <1>1. longer \in Seq(Units) /\ b.queue \in Seq(Units)
    BY UnitsOfFrame DEF Flashes
  <1>2. Appended(b, frame) = IF Active(b) THEN [b EXCEPT !.queue = longer] ELSE b
    BY DEF Appended
  <1> HIDE DEF longer
  <1>3. [b EXCEPT !.queue = longer] \in Flashes
    BY <1>1 DEF Flashes
  <1> QED BY <1>1, <1>2, <1>3 DEF Handed, Flashes, longer

LEMMA AppendedCard ==
  ASSUME NEW b \in Cards, NEW frame \in Frames, Active(b) => Fits(b, frame)
  PROVE  Appended(b, frame) \in Cards /\ Handed(b, Appended(b, frame), frame)
  <1> DEFINE longer == b.queue \o UnitsOf(frame)
  <1>1. longer \in Seq(Units) /\ b.queue \in Seq(Units)
    BY UnitsOfFrame DEF Cards
  <1>2. Appended(b, frame) = IF Active(b) THEN [b EXCEPT !.queue = longer] ELSE b
    BY DEF Appended
  <1> HIDE DEF longer
  <1>3. [b EXCEPT !.queue = longer] \in Cards
    BY <1>1 DEF Cards
  <1> QED BY <1>1, <1>2, <1>3 DEF Handed, Cards, longer

LEMMA HandedStream ==
  ASSUME NEW b, NEW c, NEW frame \in Frames, Handed(b, c, frame),
         b.stored \in Seq(Units), b.queue \in Seq(Units)
  PROVE  Stream(c) = IF Active(b) THEN Stream(b) \o UnitsOf(frame) ELSE Stream(b)
  <1>1. UnitsOf(frame) \in Seq(Units)
    BY UnitsOfFrame
  <1>2. (b.stored \o b.queue) \o UnitsOf(frame) = b.stored \o (b.queue \o UnitsOf(frame))
    BY <1>1, Associative
  <1> QED BY <1>2 DEF Handed, Stream

LEMMA HandedBacked ==
  ASSUME NEW b, NEW c, NEW q \in Buffers, NEW x \in Buffers, NEW next \in Nat,
         b.stored \in Seq(Units), b.queue \in Seq(Units),
         q.records # <<>>, Waiting(q.records, next),
         x.records = Tail(q.records), x.dropped = q.dropped,
         Handed(b, c, Head(q.records)), Backed(b, q, next)
  PROVE  Backed(c, x, next)
  <1> DEFINE front == Head(q.records)
             s == Stream(b)
             t == s \o UnitsOf(front)
  <1>1. SUFFICES ASSUME Active(c)
                 PROVE  Accounted(Stream(c), x.records, x.dropped, next)
                        /\ Latest(Stream(c), x.records, next)
    BY DEF Backed
  <1>2. q.records \in Seq(Frames) /\ q.dropped \in Nat /\ Len(q.records) \in Nat \ {0}
        /\ front \in Frames /\ front = q.records[1]
    <2>1. q.records \in Seq(Frames) /\ q.dropped \in Nat
      BY DEF Buffers
    <2> QED BY <2>1
  <1>3. Active(b) /\ Stream(c) = t
    BY <1>1, <1>2, HandedStream DEF Handed, Active
  <1>4. Accounted(s, q.records, q.dropped, next) /\ Latest(s, q.records, next) /\ s \in Seq(Units)
    BY <1>3 DEF Backed, Accounted
  <1>5. Accounted(t, Tail(q.records), q.dropped, next)
    BY <1>2, <1>4, StreamGrows
  <1>6. Latest(t, Tail(q.records), next)
    <2>1. Tail(q.records) \in Seq(Frames) /\ Len(Tail(q.records)) = Len(q.records) - 1
          /\ \A j \in 1..Len(Tail(q.records)) : Tail(q.records)[j] = q.records[j + 1]
      BY <1>2
    <2>2. q.records[Len(q.records)].seq = next - 1
      BY <1>4 DEF Latest
    <2>3. CASE Tail(q.records) = <<>>
      <3>1. Len(q.records) = 1
        <4> DEFINE rest == Tail(q.records)
        <4>1. rest = <<>> /\ Len(rest) = Len(q.records) - 1
          BY <2>1, <2>3
        <4> HIDE DEF rest
        <4>2. Len(rest) = 0
          BY <4>1
        <4> QED BY <1>2, <4>1, <4>2
      <3>2. front.seq = next - 1
        BY <1>2, <2>2, <3>1
      <3>3. /\ UnitsOf(front) \in Seq(Units) /\ Len(UnitsOf(front)) = front.units
            /\ front.units \in Nat \ {0}
            /\ \A i \in 1..front.units : UnitsOf(front)[i] = [seq |-> front.seq, left |-> front.units - i]
        BY <1>2, UnitsOfFrame
      <3>4. UnitsOf(front)[front.units] = [seq |-> front.seq, left |-> 0]
        <4>1. front.units \in 1..front.units /\ front.units - front.units = 0
          BY <3>3
        <4> QED BY <3>3, <4>1
      <3> HIDE DEF front, s
      <3>5. t # <<>> /\ t[Len(t)] = UnitsOf(front)[front.units]
        <4> DEFINE u == UnitsOf(front)
        <4>1. u \in Seq(Units) /\ u # <<>> /\ Len(u) = front.units
          BY <3>3
        <4> HIDE DEF u
        <4>2. t = s \o u
          BY DEF u
        <4>3. s \o u # <<>> /\ (s \o u)[Len(s \o u)] = u[Len(u)]
          BY <1>4, <4>1
        <4> HIDE DEF t
        <4> QED BY <4>1, <4>2, <4>3 DEF u
      <3> QED BY <2>3, <3>2, <3>4, <3>5 DEF Latest
    <2>4. CASE Tail(q.records) # <<>>
      <3>1. Len(Tail(q.records)) \in 1..Len(Tail(q.records))
        BY <2>1, <2>4
      <3>2. Tail(q.records)[Len(Tail(q.records))] = q.records[Len(q.records)]
        BY <1>2, <2>1, <3>1
      <3> QED BY <2>2, <2>4, <3>2 DEF Latest
    <2> QED BY <2>3, <2>4
  <1> QED BY <1>3, <1>5, <1>6

LEMMA BeginsLonger ==
  ASSUME NEW s \in Seq(Units), NEW t \in Seq(Units), NEW u \in Seq(Units), Begins(s, t)
  PROVE  Begins(s, t \o u)
  <1>1. /\ Len(t \o u) = Len(t) + Len(u) /\ Len(s) \in Nat /\ Len(t) \in Nat /\ Len(u) \in Nat
        /\ \A i \in 1..(Len(t) + Len(u)) : (t \o u)[i] = IF i <= Len(t) THEN t[i] ELSE u[i - Len(t)]
    BY ConcatProperties
  <1>2. ASSUME NEW i \in 1..Len(s) PROVE s[i] = (t \o u)[i]
    <2>1. i \in 1..Len(t) /\ i \in 1..(Len(t) + Len(u)) /\ s[i] = t[i]
      BY <1>1 DEF Begins
    <2> QED BY <1>1, <2>1
  <1> QED BY <1>1, <1>2 DEF Begins

LEMMA HandedAgree ==
  ASSUME NEW p, NEW m, NEW c, NEW d, NEW frame \in Frames,
         p.stored \in Seq(Units), p.queue \in Seq(Units),
         m.stored \in Seq(Units), m.queue \in Seq(Units),
         Handed(p, c, frame), Handed(m, d, frame), Agree(p, m)
  PROVE  Agree(c, d)
  <1> DEFINE u == UnitsOf(frame)
             s == Stream(p)
             t == Stream(m)
  <1>1. u \in Seq(Units) /\ s \in Seq(Units) /\ t \in Seq(Units)
    BY UnitsOfFrame DEF Stream
  <1>2. Active(c) = Active(p) /\ Active(d) = Active(m) /\ c.stored = p.stored /\ d.stored = m.stored
    BY DEF Handed, Active
  <1>3. Active(c) => Stream(c) = s \o u
    BY <1>2, HandedStream
  <1>4. Active(d) => Stream(d) = t \o u
    BY <1>2, HandedStream
  <1> HIDE DEF u, s, t
  <1>5. Active(c) => Begins(d.stored, s \o u)
    BY <1>1, <1>2, BeginsLonger DEF Agree, s
  <1>6. Active(d) => Begins(c.stored, t \o u)
    BY <1>1, <1>2, BeginsLonger DEF Agree, t
  <1>7. Active(p) /\ Active(m) => s = t
    BY DEF Agree, s, t
  <1> QED BY <1>2, <1>3, <1>4, <1>5, <1>6, <1>7 DEF Agree

LEMMA DrainOneSound ==
  ASSUME NEW w, Sound(w)
  PROVE  Sound(DrainOne(w))
  <1>1. CASE ~Drainable(w)
    BY <1>1 DEF DrainOne
  <1>2. CASE Drainable(w)
    <2> DEFINE front == Head(w.fifo.records)
               p == Appended(w.primary, front)
               m == Appended(w.mirror, front)
               x == Popped(w.fifo)
               v == DrainOne(w)
    <2>1. /\ w \in Works /\ w.fifo \in Buffers /\ w.next \in Nat /\ w.fifo.records # <<>>
          /\ w.primary \in Flashes /\ w.mirror \in Cards
          /\ Waiting(w.fifo.records, w.next)
      BY <1>2 DEF Sound, Works, Drainable
    <2>2. w.fifo.records \in Seq(Frames)
      BY <2>1 DEF Buffers
    <2>3. front \in Frames
      BY <2>1, <2>2
    <2>5. (Active(w.primary) => Fits(w.primary, front)) /\ (Active(w.mirror) => Fits(w.mirror, front))
      BY <1>2 DEF Drainable, CanAppend
    <2>6. v = [w EXCEPT !.primary = p, !.mirror = m, !.fifo = x]
      BY <1>2 DEF DrainOne
    <2>7. x \in Buffers /\ x.records = Tail(w.fifo.records) /\ x.dropped = w.fifo.dropped
      BY <2>1, PoppedBuffer
    <2>8. p \in Flashes /\ Handed(w.primary, p, front) /\ p.payload = w.primary.payload
      <3> HIDE DEF front
      <3> QED BY <2>1, <2>3, <2>5, AppendedFlash
    <2>9. m \in Cards /\ Handed(w.mirror, m, front)
      <3> HIDE DEF front
      <3> QED BY <2>1, <2>3, <2>5, AppendedCard
    <2>10. /\ w.primary.stored \in Seq(Units) /\ w.primary.queue \in Seq(Units)
           /\ w.mirror.stored \in Seq(Units) /\ w.mirror.queue \in Seq(Units)
      BY <2>1, StreamOfFlash, StreamOfCard
    <2> HIDE DEF p, m, x, v
    <2>11. /\ v \in Works /\ v.fifo = x /\ v.next = w.next /\ v.primary = p /\ v.mirror = m
      BY <2>1, <2>6, <2>7, <2>8, <2>9 DEF Works
    <2>12. Backed(p, x, w.next)
      BY <2>1, <2>7, <2>8, <2>10, HandedBacked DEF Sound
    <2>13. Backed(m, x, w.next)
      BY <2>1, <2>7, <2>9, <2>10, HandedBacked DEF Sound
    <2>14. Agree(p, m)
      <3> HIDE DEF front
      <3> QED BY <2>3, <2>8, <2>9, <2>10, HandedAgree DEF Sound
    <2>15. Waiting(x.records, w.next)
      BY <2>1, <2>7, WaitingShrinks
    <2>16. p.payload <= Len(p.queue)
      <3> DEFINE u == UnitsOf(front)
                 longer == w.primary.queue \o u
      <3>1. u \in Seq(Units)
        BY <2>3, UnitsOfFrame
      <3> HIDE DEF u
      <3>2. Len(longer) = Len(w.primary.queue) + Len(u) /\ Len(u) \in Nat /\ Len(w.primary.queue) \in Nat
        BY <2>10, <3>1
      <3> HIDE DEF longer
      <3>3. w.primary.payload \in Nat
        BY <2>1 DEF Flashes
      <3>4. p.queue = longer \/ p.queue = w.primary.queue
        BY <2>8 DEF Handed, longer, u
      <3> QED BY <2>8, <3>2, <3>3, <3>4 DEF Sound
    <2>17. p.status \in {"active", "failed"} /\ m.status \in {"active", "failed"}
      BY <2>8, <2>9 DEF Handed, Sound
    <2> QED BY <2>11, <2>12, <2>13, <2>14, <2>15, <2>16, <2>17 DEF Sound, v
  <1> QED BY <1>1, <1>2

LEMMA DrainedSound ==
  ASSUME NEW w, Sound(w)
  PROVE  Sound(Drained(w)) /\ (flushRequested => Drained(w) = w)
  <1> DEFINE N == DrainRecordsPerTick
             Scan(f) == [n \in 0..N |-> IF n = 0 THEN w ELSE DrainOne(f[n - 1])]
             after == CHOOSE f : f = Scan(f)
             Good == {x \in Works : Sound(x) /\ (flushRequested => x = w)}
             step == [n \in 1..N |-> [x \in Good |-> DrainOne(x)]]
  <1>1. N \in Nat
    BY LogAssumption
  <1>2. w \in Good
    BY DEF Sound
  <1>3. ASSUME NEW x \in Good PROVE DrainOne(x) \in Good
    <2>1. Sound(DrainOne(x))
      BY DrainOneSound
    <2>2. flushRequested => DrainOne(x) = x
      BY DEF DrainOne, Drainable, CanAppend
    <2> QED BY <2>1, <2>2 DEF Sound
  <1> HIDE DEF N, Good
  <1>4. step \in [1..N -> [Good -> Good]]
    BY <1>3
  <1>5. PICK f : Iterates(f, N, Good, w, step)
    <2> HIDE DEF step
    <2> QED BY <1>1, <1>2, <1>4, Iteration
  <1>6. f = Scan(f)
    <2>1. ASSUME NEW n \in 0..N PROVE f[n] = Scan(f)[n]
      <3>1. CASE n = 0
        BY <1>5, <3>1 DEF Iterates
      <3>2. CASE n # 0
        <4>1. n \in 1..N /\ n - 1 \in 0..N
          BY <1>1, <3>2
        <4>2. f[n - 1] \in Good /\ f[n] = step[n][f[n - 1]]
          BY <1>5, <4>1 DEF Iterates
        <4> QED BY <3>2, <4>1, <4>2
      <3> QED BY <3>1, <3>2
    <2>2. f \in [0..N -> Good]
      BY <1>5 DEF Iterates
    <2> QED BY <2>1, <2>2
  <1>7. after = Scan(after)
    <2> HIDE DEF Scan
    <2> QED BY <1>6
  <1>8. \A n \in 0..N : after[n] \in Good
    <2> DEFINE T == {n \in 0..N : after[n] \in Good}
    <2>1. 0 \in T
      <3>1. after[0] = w
        <4> HIDE DEF after
        <4> QED BY <1>1, <1>7
      <3> HIDE DEF after
      <3> QED BY <1>1, <1>2, <3>1
    <2>2. ASSUME NEW n \in 0..(N - 1), n \in T PROVE n + 1 \in T
      <3> HIDE DEF after
      <3>1. n + 1 \in 0..N /\ n + 1 # 0 /\ (n + 1) - 1 = n
        BY <1>1
      <3>2. after[n + 1] = DrainOne(after[n])
        BY <1>7, <3>1
      <3> QED BY <1>3, <2>2, <3>1, <3>2
    <2> HIDE DEF T
    <2>3. \A n \in 0..N : n \in T
      BY <1>1, <2>1, <2>2, BoundedInduction
    <2> QED BY <2>3 DEF T
  <1>9. Drained(w) = after[N]
    BY DEF Drained, N
  <1> HIDE DEF after
  <1>10. Drained(w) \in Good
    BY <1>1, <1>8, <1>9
  <1> QED BY <1>10 DEF Good

-----------------------------------------------------------------------------
(* The backends write what is queued.                                      *)

LEMMA BeginsOwnStream ==
  ASSUME NEW s \in Seq(Units), NEW t \in Seq(Units)
  PROVE  Begins(s, s \o t)
  <1>1. Begins(s, s)
    BY DEF Begins
  <1> QED BY <1>1, BeginsLonger

LEMMA BeginsSame ==
  ASSUME NEW s \in Seq(Units), NEW t \in Seq(Units), NEW u, Begins(s, u), Begins(t, u)
  PROVE  Begins(s, t) \/ Begins(t, s)
  BY DEF Begins

(* A backend that writes, or fails, keeps its stream.                      *)
Continues(b, c) ==
  /\ c.status = b.status \/ (Active(b) /\ c.status = "failed")
  /\ Stream(c) = Stream(b)
  /\ ~Active(b) => c.stored = b.stored
  /\ c.stored \in Seq(Units) /\ c.queue \in Seq(Units)
  /\ b.stored \in Seq(Units) /\ b.queue \in Seq(Units)

LEMMA ContinuesBacked ==
  ASSUME NEW b, NEW c, NEW q, NEW next, Continues(b, c), Backed(b, q, next)
  PROVE  Backed(c, q, next)
  BY DEF Continues, Backed, Active

LEMMA ContinuesAgree ==
  ASSUME NEW p, NEW m, NEW c, NEW d, Continues(p, c), Continues(m, d), Agree(p, m)
  PROVE  Agree(c, d)
  <1> DEFINE s == Stream(p)
             t == Stream(m)
  <1>1. Stream(c) = s /\ Stream(d) = t
    BY DEF Continues
  <1>2. (Active(c) => Active(p)) /\ (Active(d) => Active(m))
    BY DEF Continues, Active
  <1>3. /\ c.stored \in Seq(Units) /\ d.stored \in Seq(Units)
        /\ c.queue \in Seq(Units) /\ d.queue \in Seq(Units)
    BY DEF Continues
  <1>4. Begins(c.stored, s) /\ Begins(d.stored, t)
    BY <1>1, <1>3, BeginsOwnStream DEF Stream
  <1>5. (~Active(p) => c.stored = p.stored) /\ (~Active(m) => d.stored = m.stored)
    BY DEF Continues
  <1> HIDE DEF s, t
  <1>6. Active(p) /\ Active(m) => s = t
    BY DEF Agree, s, t
  <1>7. Active(p) => Begins(d.stored, s)
    BY <1>4, <1>5, <1>6 DEF Agree, s
  <1>8. Active(m) => Begins(c.stored, t)
    BY <1>4, <1>5, <1>6 DEF Agree, t
  <1>9. Begins(c.stored, d.stored) \/ Begins(d.stored, c.stored)
    <2>1. CASE Active(p)
      BY <1>3, <1>4, <1>7, <2>1, BeginsSame
    <2>2. CASE Active(m)
      BY <1>3, <1>4, <1>8, <2>2, BeginsSame
    <2>3. CASE ~Active(p) /\ ~Active(m)
      BY <1>5, <2>3 DEF Agree
    <2> QED BY <2>1, <2>2, <2>3
  <1> QED BY <1>1, <1>2, <1>6, <1>7, <1>8, <1>9 DEF Agree

(* The units that are written leave the queue.                             *)
LEMMA QueueSplits ==
  ASSUME NEW s \in Seq(Units), NEW q \in Seq(Units), NEW n \in 0..Len(q)
  PROVE  /\ s \o SubSeq(q, 1, n) \in Seq(Units) /\ SubSeq(q, n + 1, Len(q)) \in Seq(Units)
         /\ (s \o SubSeq(q, 1, n)) \o SubSeq(q, n + 1, Len(q)) = s \o q
  <1>1. Len(q) \in Nat
    OBVIOUS
  <1>2. SubSeq(q, 1, n) \in Seq(Units) /\ SubSeq(q, n + 1, Len(q)) \in Seq(Units)
    OBVIOUS
  <1>3. SubSeq(q, 1, n) \o SubSeq(q, n + 1, Len(q)) = SubSeq(q, 1, Len(q))
    <2>1. 1 \in 1..(Len(q) + 1) /\ n \in (1 - 1)..Len(q) /\ Len(q) \in n..Len(q)
      BY <1>1
    <2> QED BY <2>1, ConcatAdjacentSubSeq
  <1>4. SubSeq(q, 1, Len(q)) = q
    BY SubSeqFull
  <1> DEFINE h == SubSeq(q, 1, n)
             t == SubSeq(q, n + 1, Len(q))
  <1>5. h \in Seq(Units) /\ t \in Seq(Units) /\ h \o t = q
    BY <1>2, <1>3, <1>4, Zenon
  <1> HIDE DEF h, t
  <1>6. (s \o h) \o t = s \o (h \o t)
    <2>1. s \in Seq(Units) /\ h \in Seq(Units) /\ t \in Seq(Units)
      BY <1>5, Zenon
    <2> QED BY <2>1, Associative, Zenon
  <1>7. s \o h \in Seq(Units)
    BY <1>5, Joined, Zenon
  <1>8. s \o h \in Seq(Units) /\ t \in Seq(Units) /\ (s \o h) \o t = s \o q
    BY <1>5, <1>6, <1>7
  <1> QED BY <1>8 DEF h, t

LEMMA StoredFlash ==
  ASSUME NEW b \in Flashes, NEW n \in 0..Len(b.queue)
  PROVE  /\ Stored(b, n) \in Flashes /\ Stored(b, n).status = b.status
         /\ Stream(Stored(b, n)) = Stream(b)
  <1> DEFINE q == b.queue
             long == b.stored \o SubSeq(q, 1, n)
             rest == SubSeq(q, n + 1, Len(q))
  <1>1. b.stored \in Seq(Units) /\ q \in Seq(Units)
    BY DEF Flashes
  <1>2. long \in Seq(Units) /\ rest \in Seq(Units) /\ long \o rest = b.stored \o q
    BY <1>1, QueueSplits
  <1>3. Stored(b, n) = [b EXCEPT !.stored = long, !.queue = rest]
    BY DEF Stored
  <1> HIDE DEF long, rest, q
  <1> QED BY <1>2, <1>3 DEF Flashes, Stream, q

LEMMA StoredCard ==
  ASSUME NEW b \in Cards, NEW n \in 0..Len(b.queue)
  PROVE  /\ Stored(b, n) \in Cards /\ Stored(b, n).status = b.status
         /\ Stream(Stored(b, n)) = Stream(b)
  <1> DEFINE q == b.queue
             long == b.stored \o SubSeq(q, 1, n)
             rest == SubSeq(q, n + 1, Len(q))
  <1>1. b.stored \in Seq(Units) /\ q \in Seq(Units)
    BY DEF Cards
  <1>2. long \in Seq(Units) /\ rest \in Seq(Units) /\ long \o rest = b.stored \o q
    BY <1>1, QueueSplits
  <1>3. Stored(b, n) = [b EXCEPT !.stored = long, !.queue = rest]
    BY DEF Stored
  <1> HIDE DEF long, rest, q
  <1> QED BY <1>2, <1>3 DEF Cards, Stream, q

LEMMA PageFinishedContinues ==
  ASSUME NEW b \in Flashes, Active(b), b.payload <= Len(b.queue)
  PROVE  /\ PageFinished(b) \in Flashes /\ Continues(b, PageFinished(b))
         /\ PageFinished(b).payload = 0 /\ PageFinished(b).status = b.status
         /\ Stream(PageFinished(b)) = Stream(b)
  <1> DEFINE c == Stored(b, b.payload)
             left == CASE b.operation = "page" -> c.pagesLeft - 1
                       [] b.operation = "sector" -> PagesPerSector
                       [] OTHER -> c.pagesLeft
  <1>1. b.payload \in 0..Len(b.queue)
    BY DEF Flashes
  <1>2. c \in Flashes /\ c.status = b.status /\ Stream(c) = Stream(b)
    BY <1>1, StoredFlash
  <1>3. PageFinished(b) = [c EXCEPT !.payload = 0, !.operation = "none", !.pagesLeft = left]
    BY DEF PageFinished
  <1> HIDE DEF c
  <1>4. left \in Int
    <2>1. c.pagesLeft \in Int /\ PagesPerSector \in Int
      BY <1>2, LogAssumption DEF Flashes
    <2> QED BY <2>1
  <1> HIDE DEF left
  <1>5. PageFinished(b) \in Flashes /\ PageFinished(b).payload = 0 /\ PageFinished(b).status = b.status
        /\ Stream(PageFinished(b)) = Stream(b)
    <2> DEFINE f == PageFinished(b)
    <2>1. f = [c EXCEPT !.payload = 0, !.operation = "none", !.pagesLeft = left]
      BY <1>3
    <2> HIDE DEF f
    <2>2. 0 \in Nat /\ "none" \in {"none", "page", "sector"}
      OBVIOUS
    <2>3. f \in Flashes
      BY <1>2, <1>4, <2>1, <2>2 DEF Flashes
    <2>4. f.payload = 0 /\ f.status = c.status /\ f.stored = c.stored /\ f.queue = c.queue
      BY <1>2, <2>1 DEF Flashes
    <2> QED BY <1>2, <2>3, <2>4 DEF Stream, f
  <1> QED BY <1>5, StreamOfFlash DEF Continues

LEMMA PageStartedContinues ==
  ASSUME NEW b \in Flashes, b.payload = 0
  PROVE  /\ PageStarted(b) \in Flashes /\ PageStarted(b).status = b.status
         /\ PageStarted(b).stored = b.stored /\ PageStarted(b).queue = b.queue
         /\ PageStarted(b).payload <= Len(b.queue)
  <1> DEFINE load == Smaller(PageUnits, Len(b.queue))
             page == [b EXCEPT !.operation = "page", !.busy = TRUE, !.payload = load]
             sector == [b EXCEPT !.operation = "sector", !.busy = TRUE]
  <1>1. PageStarted(b) \in {b, sector, page}
    BY DEF PageStarted
  <1>2. Len(b.queue) \in Nat
    BY DEF Flashes
  <1>3. load \in Nat /\ load <= Len(b.queue)
    BY <1>2, LogAssumption DEF Smaller
  <1>4. {"page", "sector"} \subseteq {"none", "page", "sector"} /\ TRUE \in BOOLEAN
    OBVIOUS
  <1> HIDE DEF load
  <1>5. page \in Flashes /\ page.status = b.status /\ page.stored = b.stored /\ page.queue = b.queue
        /\ page.payload = load
    BY <1>3, <1>4 DEF Flashes
  <1>6. sector \in Flashes /\ sector.status = b.status /\ sector.stored = b.stored
        /\ sector.queue = b.queue /\ sector.payload = 0
    BY <1>4 DEF Flashes
  <1> HIDE DEF page, sector
  <1> QED BY <1>1, <1>2, <1>3, <1>5, <1>6

LEMMA FailedFlash ==
  ASSUME NEW b \in Flashes
  PROVE  /\ Failed(b) \in Flashes /\ Failed(b).status = "failed" /\ Failed(b).payload = b.payload
         /\ Failed(b).queue = b.queue /\ Failed(b).stored = b.stored
  <1>1. "failed" \in Statuses
    BY DEF Statuses
  <1> QED BY <1>1 DEF Failed, Flashes

LEMMA FailedCard ==
  ASSUME NEW b \in Cards
  PROVE  /\ Failed(b) \in Cards /\ Failed(b).status = "failed"
         /\ Failed(b).queue = b.queue /\ Failed(b).stored = b.stored
  <1>1. "failed" \in Statuses
    BY DEF Statuses
  <1> QED BY <1>1 DEF Failed, Cards

LEMMA PrimaryContinues ==
  ASSUME primary \in Flashes, primary.payload <= Len(primary.queue), NEW p \in PrimaryServiced
  PROVE  p \in Flashes /\ p.payload <= Len(p.queue) /\ Continues(primary, p)
  <1> DEFINE f == PageFinished(primary)
             t == PageStarted(f)
  <1>1. p = primary \/ (Active(primary) /\ p \in {Failed(primary), t, Failed(f)})
    BY DEF PrimaryServiced
  <1>2. CASE p = primary
    BY <1>2, StreamOfFlash DEF Continues
  <1>3. CASE Active(primary) /\ p = Failed(primary)
    BY <1>3, FailedFlash, StreamOfFlash DEF Continues, Stream
  <1>4. CASE Active(primary) /\ p \in {t, Failed(f)}
    <2>1. f \in Flashes /\ Continues(primary, f) /\ f.payload = 0 /\ f.status = primary.status
      BY <1>4, PageFinishedContinues
    <2> HIDE DEF f
    <2>2. t \in Flashes /\ t.status = f.status /\ t.stored = f.stored /\ t.queue = f.queue
          /\ t.payload <= Len(f.queue)
      BY <2>1, PageStartedContinues
    <2> HIDE DEF t
    <2>3. /\ Failed(f) \in Flashes /\ Failed(f).status = "failed" /\ Failed(f).payload = 0
          /\ Failed(f).queue = f.queue /\ Failed(f).stored = f.stored
      BY <2>1, FailedFlash
    <2>4. Len(f.queue) \in Nat
      BY <2>1 DEF Flashes
    <2>5. CASE p = t
      <3>1. Stream(t) = Stream(f) /\ t.status = primary.status
        BY <2>1, <2>2 DEF Stream
      <3>2. t.stored \in Seq(Units) /\ t.queue \in Seq(Units)
        BY <2>2, StreamOfFlash
      <3>3. Continues(primary, t)
        BY <1>4, <2>1, <3>1, <3>2 DEF Continues
      <3> QED BY <2>2, <2>5, <3>3
    <2>6. CASE p = Failed(f)
      <3> DEFINE g == Failed(f)
      <3>1. Stream(g) = Stream(f) /\ g.status = "failed"
        BY <2>3 DEF Stream
      <3>2. g.stored \in Seq(Units) /\ g.queue \in Seq(Units)
        BY <2>3, StreamOfFlash
      <3>3. Continues(primary, g)
        BY <1>4, <2>1, <3>1, <3>2 DEF Continues
      <3> QED BY <2>3, <2>4, <2>6, <3>3
    <2> QED BY <1>4, <2>5, <2>6
  <1> QED BY <1>1, <1>2, <1>3, <1>4

LEMMA MirrorContinues ==
  ASSUME mirror \in Cards, NEW m \in MirrorServiced
  PROVE  m \in Cards /\ Continues(mirror, m)
  <1> DEFINE load == Smaller(BlockUnits, Len(mirror.queue))
             c == Stored(mirror, load)
             written == [c EXCEPT !.busy = TRUE, !.blocksLeft = @ - 1]
  <1>1. m = mirror \/ (Active(mirror) /\ m \in {Failed(mirror), written, Failed(written)})
    BY DEF MirrorServiced
  <1>2. CASE m = mirror
    BY <1>2, StreamOfCard DEF Continues
  <1>3. CASE Active(mirror) /\ m = Failed(mirror)
    BY <1>3, FailedCard, StreamOfCard DEF Continues, Stream
  <1>4. CASE Active(mirror) /\ m \in {written, Failed(written)}
    <2>1. Len(mirror.queue) \in Nat
      BY DEF Cards
    <2>2. load \in 0..Len(mirror.queue)
      BY <2>1, LogAssumption DEF Smaller
    <2> HIDE DEF load
    <2>3. c \in Cards /\ c.status = mirror.status /\ Stream(c) = Stream(mirror)
      BY <2>2, StoredCard
    <2> HIDE DEF c
    <2>4. /\ written \in Cards /\ written.status = c.status /\ written.stored = c.stored
          /\ written.queue = c.queue
      <3>1. c.blocksLeft \in Int
        BY <2>3 DEF Cards
      <3>2. c.blocksLeft - 1 \in Int
        BY <3>1
      <3> QED BY <2>3, <3>1, <3>2 DEF Cards
    <2> HIDE DEF written
    <2>5. /\ Failed(written) \in Cards /\ Failed(written).status = "failed"
          /\ Failed(written).queue = c.queue /\ Failed(written).stored = c.stored
      BY <2>4, FailedCard
    <2>6. CASE m = written
      BY <1>4, <2>3, <2>4, <2>6, StreamOfCard DEF Continues, Stream
    <2>7. CASE m = Failed(written)
      BY <1>4, <2>3, <2>5, <2>7, StreamOfCard DEF Continues, Stream
    <2> QED BY <1>4, <2>6, <2>7
  <1> QED BY <1>1, <1>2, <1>3, <1>4

(* The records, as a tick finds them.                                      *)
Now == [fifo |-> fifo, next |-> nextSequence, primary |-> primary, mirror |-> mirror,
        started |-> storageStarted]

LEMMA ServicedSound ==
  ASSUME Sound(Now), NEW w \in Serviced
  PROVE  Sound(w) /\ w.fifo = fifo
  <1>1. PICK p \in PrimaryServiced, m \in MirrorServiced :
          w = [fifo |-> fifo, next |-> nextSequence, primary |-> p, mirror |-> m,
               started |-> storageStarted /\ Healthy(p, m)]
    BY DEF Serviced
  <1>2. /\ fifo \in Buffers /\ nextSequence \in Nat /\ primary \in Flashes /\ mirror \in Cards
        /\ storageStarted \in BOOLEAN
        /\ Waiting(fifo.records, nextSequence)
        /\ Backed(primary, fifo, nextSequence) /\ Backed(mirror, fifo, nextSequence)
        /\ Agree(primary, mirror) /\ primary.payload <= Len(primary.queue)
        /\ primary.status \in {"active", "failed"} /\ mirror.status \in {"active", "failed"}
    BY DEF Sound, Works, Now
  <1>3. p \in Flashes /\ p.payload <= Len(p.queue) /\ Continues(primary, p)
    BY <1>2, PrimaryContinues
  <1>4. m \in Cards /\ Continues(mirror, m)
    BY <1>2, MirrorContinues
  <1>5. Backed(p, fifo, nextSequence) /\ Backed(m, fifo, nextSequence)
    BY <1>2, <1>3, <1>4, ContinuesBacked
  <1>6. Agree(p, m)
    BY <1>2, <1>3, <1>4, ContinuesAgree
  <1>7. p.status \in {"active", "failed"} /\ m.status \in {"active", "failed"}
    BY <1>2, <1>3, <1>4 DEF Continues
  <1>8. (storageStarted /\ Healthy(p, m)) \in BOOLEAN
    BY <1>2 DEF Healthy, Active
  <1>9. w \in Works
    BY <1>1, <1>2, <1>3, <1>4, <1>8 DEF Works
  <1> QED BY <1>1, <1>2, <1>3, <1>4, <1>5, <1>6, <1>7, <1>9 DEF Sound

-----------------------------------------------------------------------------
(* The inductive invariant.                                                *)

(* A backend that is closed has everything. *)
Complete(b) ==
  b.status = "stopped" => /\ fifo.records = <<>> /\ b.queue = <<>>
                          /\ Latest(b.stored, <<>>, nextSequence)

(* The FIFO is empty when the flush is requested, which is only done when  *)
(* the log is closed, and no backend is closed before all are.             *)
Closing ==
  /\ flushRequested \in BOOLEAN /\ groundStopRequested \in BOOLEAN /\ stopped \in BOOLEAN
  /\ flushRequested => fifo.records = <<>> /\ groundStopRequested
  /\ ~stopped => primary.status # "stopped" /\ mirror.status # "stopped"
  /\ Complete(primary) /\ Complete(mirror)

IInv ==
  /\ Now \in Works
  /\ Waiting(fifo.records, nextSequence)
  /\ Backed(primary, fifo, nextSequence) /\ Backed(mirror, fifo, nextSequence)
  /\ Agree(primary, mirror)
  /\ primary.payload <= Len(primary.queue)
  /\ primary.status # "refused" /\ mirror.status # "refused"
  /\ Closing

LEMMA NowFields ==
  ASSUME Now \in Works
  PROVE  /\ fifo \in Buffers /\ nextSequence \in Nat /\ primary \in Flashes /\ mirror \in Cards
         /\ storageStarted \in BOOLEAN
  BY DEF Now, Works

LEMMA TickIsSound ==
  ASSUME IInv, ~stopped
  PROVE  Sound(Now)
  <1>1. primary.status \in Statuses /\ mirror.status \in Statuses
    BY NowFields DEF IInv, Flashes, Cards
  <1>2. primary.status \in {"active", "failed"} /\ mirror.status \in {"active", "failed"}
    BY <1>1 DEF IInv, Closing, Statuses
  <1> QED BY <1>2 DEF IInv, Sound, Now

(* The boot: BOOT waits in the FIFO.                                       *)
LEMMA InitInvariant ==
  ASSUME Init
  PROVE  IInv
  <1> DEFINE boot == [seq |-> 0, units |-> 1]
  <1>1. boot \in Frames
    BY LogAssumption DEF Frames
  <1>2. fifo = [records |-> <<boot>>, used |-> 1, dropped |-> 0] /\ nextSequence = 1
        /\ storageStarted = TRUE /\ flushRequested = FALSE /\ groundStopRequested = FALSE
        /\ stopped = FALSE
    BY DEF Init
  <1>3. PICK status \in {"active", "failed"} :
          primary = [status |-> status, queue |-> <<>>, stored |-> <<>>, busy |-> FALSE,
                     operation |-> "none", payload |-> 0, pagesLeft |-> PagesPerSector]
    BY DEF Init
  <1>4. mirror = [status |-> "active", queue |-> <<>>, stored |-> <<>>, busy |-> FALSE,
                  blocksLeft |-> FileBlocks]
    BY DEF Init
  <1> DEFINE r == <<boot>>
  <1>5. r \in Seq(Frames) /\ Len(r) = 1 /\ r[1] = boot /\ r # <<>>
    BY <1>1
  <1> HIDE DEF r
  <1>6. fifo \in Buffers /\ fifo.records = r /\ fifo.dropped = 0
    BY <1>2, <1>5 DEF Buffers, r
  <1>7. <<>> \in Seq(Units) /\ Len(<<>>) = 0 /\ status \in Statuses /\ "active" \in Statuses
        /\ FALSE \in BOOLEAN /\ PagesPerSector \in Int /\ FileBlocks \in Int /\ 0 \in Nat
    BY LogAssumption DEF Statuses
  <1>8. primary \in Flashes /\ primary.queue = <<>> /\ primary.stored = <<>> /\ primary.payload = 0
        /\ primary.status = status
    BY <1>3, <1>7 DEF Flashes
  <1>9. mirror \in Cards /\ mirror.queue = <<>> /\ mirror.stored = <<>> /\ mirror.status = "active"
    BY <1>4, <1>7 DEF Cards
  <1>10. Now \in Works
    BY <1>2, <1>6, <1>8, <1>9 DEF Now, Works
  <1>11. boot.seq = 0
    OBVIOUS
  <1> HIDE DEF boot
  <1>12. Waiting(r, 1)
    BY <1>5, <1>11 DEF Waiting
  <1>13. Accounted(<<>>, r, 0, 1)
    <2> DEFINE e == <<>>
    <2>1. e \in Seq(Units) /\ Len(e) = 0 /\ e = <<>>
      BY <1>7
    <2> HIDE DEF e
    <2>2. Seqs(e) = {}
      BY <2>1 DEF Seqs
    <2>3. IsFiniteSet({}) /\ Cardinality({}) = 0
      BY FS_EmptySet
    <2>4. Before(e, r) /\ Whole(e)
      BY <2>1 DEF Before, Whole
    <2>5. \A i \in 1..Len(e) : e[i].seq < 1
      BY <2>1
    <2>6. IsFiniteSet(Seqs(e)) /\ Cardinality(Seqs(e)) = 0
      BY <2>2, <2>3
    <2>7. Cardinality(Seqs(e)) + Len(r) + 0 = 1
      BY <1>5, <2>6
    <2>8. Accounted(e, r, 0, 1)
      BY <2>1, <2>4, <2>5, <2>6, <2>7 DEF Accounted
    <2> QED BY <2>8 DEF e
  <1>14. Latest(<<>>, r, 1)
    BY <1>5, <1>11 DEF Latest
  <1>15. Stream(primary) = <<>> /\ Stream(mirror) = <<>>
    BY <1>8, <1>9 DEF Stream
  <1>16. Backed(primary, fifo, 1) /\ Backed(mirror, fifo, 1)
    BY <1>6, <1>13, <1>14, <1>15 DEF Backed
  <1>17. Agree(primary, mirror)
    BY <1>7, <1>8, <1>9, <1>15 DEF Agree, Begins
  <1>18. Closing
    BY <1>2, <1>3, <1>8, <1>9 DEF Closing, Complete
  <1> QED BY <1>2, <1>3, <1>6, <1>7, <1>8, <1>9, <1>10, <1>12, <1>16, <1>17, <1>18 DEF IInv

(* A tick that does not close the log.                                     *)
LEMMA LoggedSound ==
  ASSUME IInv, ~stopped, NEW w \in Logged
  PROVE  Sound(w)
  <1>1. PICK v \in Serviced, lengths \in NewFrames : w = Drained(Enqueued(v, lengths))
    BY DEF Logged, Queued
  <1>2. lengths \in Seq(FrameUnits)
    <2>1. PICK m \in 0..FramesPerTick : lengths \in [1..m -> FrameUnits]
      BY DEF NewFrames, SeqOf
    <2> QED BY <2>1, LogAssumption
  <1>3. Sound(v)
    BY TickIsSound, ServicedSound
  <1> DEFINE e == Enqueued(v, lengths)
  <1>4. Sound(e)
    BY <1>2, <1>3, EnqueuedSound
  <1> HIDE DEF e
  <1> QED BY <1>1, <1>4, DrainedSound DEF e

LEMMA SoundIsKept ==
  ASSUME NEW w, Sound(w), Leave(w), primary' = w.primary, mirror' = w.mirror,
         stopped' \in BOOLEAN, flushRequested' \in BOOLEAN, groundStopRequested' \in BOOLEAN,
         flushRequested' => w.fifo.records = <<>> /\ groundStopRequested'
  PROVE  IInv'
  <1>1. /\ w \in Works /\ Waiting(w.fifo.records, w.next)
        /\ Backed(w.primary, w.fifo, w.next) /\ Backed(w.mirror, w.fifo, w.next)
        /\ Agree(w.primary, w.mirror)
        /\ w.primary.payload <= Len(w.primary.queue)
        /\ w.primary.status \in {"active", "failed"} /\ w.mirror.status \in {"active", "failed"}
    BY DEF Sound
  <1>2. fifo' = w.fifo /\ nextSequence' = w.next /\ storageStarted' = w.started
    BY DEF Leave
  <1>3. Now' \in Works
    BY <1>1, <1>2 DEF Now, Works
  <1>4. /\ Waiting(fifo.records, nextSequence)'
        /\ Backed(primary, fifo, nextSequence)' /\ Backed(mirror, fifo, nextSequence)'
        /\ Agree(primary, mirror)'
    BY <1>1, <1>2
  <1>5. Closing'
    BY <1>1, <1>2 DEF Closing, Complete
  <1> QED BY <1>1, <1>2, <1>3, <1>4, <1>5 DEF IInv

(* The log is closed when a flush has emptied every queue.                 *)
LEMMA CloseInvariant ==
  ASSUME NEW w, Sound(w), CloseLog(w), groundStopRequested', stopped \in BOOLEAN,
         flushRequested \in BOOLEAN, flushRequested => w.fifo.records = <<>>
  PROVE  IInv'
  <1> DEFINE done == FlushDue(w) /\ Idle(w.primary, w.mirror)
  <1>1. FlushDue(w) => w.fifo.records = <<>>
    BY DEF FlushDue
  <1>2. Leave(w) /\ flushRequested' = FlushDue(w) /\ stopped' = done
    BY DEF CloseLog
  <1>3. CASE ~done
    <2>1. primary' = w.primary /\ mirror' = w.mirror
      BY <1>3 DEF CloseLog
    <2> QED BY <1>1, <1>2, <1>3, <2>1, SoundIsKept DEF FlushDue
  <1>4. CASE done
    <2>1. primary' = Stop(w.primary) /\ mirror' = Stop(w.mirror)
      BY <1>4 DEF CloseLog
    <2>2. /\ w \in Works /\ w.primary \in Flashes /\ w.mirror \in Cards /\ w.fifo.records = <<>>
          /\ Waiting(w.fifo.records, w.next)
          /\ Backed(w.primary, w.fifo, w.next) /\ Backed(w.mirror, w.fifo, w.next)
          /\ Agree(w.primary, w.mirror)
          /\ w.primary.payload <= Len(w.primary.queue)
          /\ w.primary.status \in {"active", "failed"} /\ w.mirror.status \in {"active", "failed"}
      BY <1>1, <1>4 DEF Sound, Works
    <2>3. "stopped" \in Statuses
      BY DEF Statuses
    <2>4. /\ primary' \in Flashes /\ primary'.queue = w.primary.queue
          /\ primary'.stored = w.primary.stored /\ primary'.payload = w.primary.payload
          /\ primary'.status = IF Active(w.primary) THEN "stopped" ELSE w.primary.status
      BY <2>1, <2>2, <2>3 DEF Stop, Flashes
    <2>5. /\ mirror' \in Cards /\ mirror'.queue = w.mirror.queue
          /\ mirror'.stored = w.mirror.stored
          /\ mirror'.status = IF Active(w.mirror) THEN "stopped" ELSE w.mirror.status
      BY <2>1, <2>2, <2>3 DEF Stop, Cards
    <2>6. fifo' = w.fifo /\ nextSequence' = w.next /\ storageStarted' = w.started
      BY <1>2 DEF Leave
    <2>7. Now' \in Works
      BY <2>2, <2>4, <2>5, <2>6 DEF Now, Works
    <2>8. ~Active(primary)' /\ ~Active(mirror)'
      BY <2>4, <2>5 DEF Active
    <2>9. Backed(primary, fifo, nextSequence)' /\ Backed(mirror, fifo, nextSequence)'
      BY <2>8 DEF Backed
    <2>10. Agree(primary, mirror)'
      BY <2>2, <2>4, <2>5, <2>8 DEF Agree
    <2>11. Active(w.primary) => w.primary.queue = <<>>
      BY <1>4 DEF Idle, PrimaryIdle
    <2>12. Active(w.mirror) => w.mirror.queue = <<>>
      BY <1>4 DEF Idle, MirrorIdle
    <2>13. Complete(primary)'
      <3> SUFFICES ASSUME primary'.status = "stopped"
                   PROVE  fifo'.records = <<>> /\ primary'.queue = <<>>
                          /\ Latest(primary'.stored, <<>>, nextSequence')
        BY DEF Complete
      <3>1. Active(w.primary)
        BY <2>2, <2>4
      <3>2. Latest(Stream(w.primary), <<>>, w.next)
        BY <2>2, <3>1 DEF Backed
      <3>3. w.primary.stored \in Seq(Units)
        BY <2>2, StreamOfFlash
      <3>4. Stream(w.primary) = w.primary.stored
        BY <2>11, <3>1, <3>3, NothingFollows DEF Stream
      <3> QED BY <2>2, <2>4, <2>6, <2>11, <3>1, <3>2, <3>4
    <2>14. Complete(mirror)'
      <3> SUFFICES ASSUME mirror'.status = "stopped"
                   PROVE  fifo'.records = <<>> /\ mirror'.queue = <<>>
                          /\ Latest(mirror'.stored, <<>>, nextSequence')
        BY DEF Complete
      <3>1. Active(w.mirror)
        BY <2>2, <2>5
      <3>2. Latest(Stream(w.mirror), <<>>, w.next)
        BY <2>2, <3>1 DEF Backed
      <3>3. w.mirror.stored \in Seq(Units)
        BY <2>2, StreamOfCard
      <3>4. Stream(w.mirror) = w.mirror.stored
        BY <2>12, <3>1, <3>3, NothingFollows DEF Stream
      <3> QED BY <2>2, <2>5, <2>6, <2>12, <3>1, <3>2, <3>4
    <2>15. Closing'
      BY <1>2, <1>4, <2>2, <2>6, <2>13, <2>14 DEF Closing
    <2>16. primary'.status # "refused" /\ mirror'.status # "refused"
      BY <2>2, <2>4, <2>5
    <2> QED BY <2>2, <2>4, <2>6, <2>7, <2>9, <2>10, <2>15, <2>16 DEF IInv
  <1> QED BY <1>3, <1>4


-----------------------------------------------------------------------------
(* Every step.                                                             *)

LEMMA ServiceInvariant ==
  ASSUME IInv, ~stopped, NEW w, Sound(w), ServiceGroundStop(w), groundStopRequested',
         flushRequested => w.fifo.records = <<>>
  PROVE  IInv'
  <1>1. flushRequested \in BOOLEAN /\ stopped \in BOOLEAN
    BY DEF IInv, Closing
  <1>2. CASE CloseLog(w)
    BY <1>1, <1>2, CloseInvariant
  <1>3. CASE GiveUpLog(w)
    <2>1. /\ Leave(w) /\ primary' = w.primary /\ mirror' = w.mirror /\ stopped' = TRUE
          /\ flushRequested' = flushRequested
      BY <1>3 DEF GiveUpLog
    <2> QED BY <1>1, <2>1, SoundIsKept
  <1> QED BY <1>2, <1>3 DEF ServiceGroundStop

LEMMA LoggingInvariant ==
  ASSUME IInv, TickLogging
  PROVE  IInv'
  <1>1. ~stopped /\ ~groundStopRequested /\ UNCHANGED flags
    BY DEF TickLogging
  <1>2. PICK w \in Logged : Leave(w) /\ primary' = w.primary /\ mirror' = w.mirror
    BY DEF TickLogging
  <1>3. Sound(w)
    BY <1>1, LoggedSound
  <1>4. /\ stopped' = stopped /\ flushRequested' = flushRequested
        /\ groundStopRequested' = groundStopRequested /\ ~flushRequested
        /\ stopped \in BOOLEAN /\ flushRequested \in BOOLEAN /\ groundStopRequested \in BOOLEAN
    BY <1>1 DEF flags, IInv, Closing
  <1> QED BY <1>2, <1>3, <1>4, SoundIsKept

LEMMA LandingInvariant ==
  ASSUME IInv, TickLanding
  PROVE  IInv'
  <1>1. ~stopped /\ ~groundStopRequested /\ groundStopRequested' = TRUE
    BY DEF TickLanding
  <1>2. PICK v \in Logged : ServiceGroundStop(Drained(EnqueueFrame(v, 1)))
    BY DEF TickLanding
  <1>3. Sound(v)
    BY <1>1, LoggedSound
  <1> DEFINE e == EnqueueFrame(v, 1)
             w == Drained(e)
  <1>4. Sound(e)
    BY <1>3, EnqueueSound, LogAssumption
  <1> HIDE DEF e
  <1>5. Sound(w)
    BY <1>4, DrainedSound
  <1>6. ServiceGroundStop(w)
    BY <1>2 DEF e
  <1> HIDE DEF w
  <1>7. ~flushRequested
    BY <1>1 DEF IInv, Closing
  <1> QED BY <1>1, <1>5, <1>6, <1>7, ServiceInvariant

LEMMA GroundStopInvariant ==
  ASSUME IInv, TickGroundStop
  PROVE  IInv'
  <1>1. ~stopped /\ groundStopRequested /\ groundStopRequested' = groundStopRequested
    BY DEF TickGroundStop
  <1>2. PICK v \in Serviced : ServiceGroundStop(Drained(v))
    BY DEF TickGroundStop
  <1>3. Sound(v) /\ v.fifo = fifo
    BY <1>1, TickIsSound, ServicedSound
  <1> DEFINE w == Drained(v)
  <1>4. Sound(w) /\ (flushRequested => w = v)
    BY <1>3, DrainedSound
  <1> HIDE DEF w
  <1>5. flushRequested => w.fifo.records = <<>>
    BY <1>3, <1>4 DEF IInv, Closing
  <1>6. ServiceGroundStop(w)
    BY <1>2 DEF w
  <1> QED BY <1>1, <1>4, <1>5, <1>6, ServiceInvariant

(* A medium that is ready again, and the landing, change nothing of this.  *)
LEMMA ReadyInvariant ==
  ASSUME IInv, PrimaryReady \/ MirrorReady
  PROVE  IInv'
  <1>1. /\ fifo \in Buffers /\ nextSequence \in Nat /\ primary \in Flashes /\ mirror \in Cards
        /\ storageStarted \in BOOLEAN
    BY NowFields DEF IInv
  <1>2. /\ fifo' = fifo /\ nextSequence' = nextSequence /\ storageStarted' = storageStarted
        /\ flushRequested' = flushRequested /\ groundStopRequested' = groundStopRequested
        /\ stopped' = stopped
    BY DEF PrimaryReady, MirrorReady, flags
  <1>3. FALSE \in BOOLEAN
    OBVIOUS
  <1>4. /\ primary' \in Flashes /\ primary'.status = primary.status
        /\ primary'.stored = primary.stored /\ primary'.queue = primary.queue
        /\ primary'.payload = primary.payload
    <2>1. primary' = primary \/ primary' = [primary EXCEPT !.busy = FALSE]
      BY DEF PrimaryReady, MirrorReady
    <2> QED BY <1>1, <1>3, <2>1 DEF Flashes
  <1>5. /\ mirror' \in Cards /\ mirror'.status = mirror.status
        /\ mirror'.stored = mirror.stored /\ mirror'.queue = mirror.queue
    <2>1. mirror' = mirror \/ mirror' = [mirror EXCEPT !.busy = FALSE]
      BY DEF PrimaryReady, MirrorReady
    <2> QED BY <1>1, <1>3, <2>1 DEF Cards
  <1>6. Now' \in Works
    BY <1>1, <1>2, <1>4, <1>5 DEF Now, Works
  <1>7. Stream(primary)' = Stream(primary) /\ Stream(mirror)' = Stream(mirror)
    BY <1>4, <1>5 DEF Stream
  <1>8. (Active(primary)' <=> Active(primary)) /\ (Active(mirror)' <=> Active(mirror))
    BY <1>4, <1>5 DEF Active
  <1>9. Agree(primary, mirror)'
    BY <1>4, <1>5, <1>7, <1>8 DEF IInv, Agree
  <1>10. Backed(primary, fifo, nextSequence)' /\ Backed(mirror, fifo, nextSequence)'
    BY <1>2, <1>7, <1>8 DEF IInv, Backed
  <1>11. Closing'
    BY <1>2, <1>4, <1>5 DEF IInv, Closing, Complete
  <1> QED BY <1>2, <1>4, <1>5, <1>6, <1>9, <1>10, <1>11 DEF IInv

LEMMA SameLog ==
  ASSUME IInv, UNCHANGED store, UNCHANGED flags
  PROVE  IInv'
  <1>1. /\ fifo' = fifo /\ nextSequence' = nextSequence /\ storageStarted' = storageStarted
        /\ primary' = primary /\ mirror' = mirror
        /\ flushRequested' = flushRequested /\ groundStopRequested' = groundStopRequested
        /\ stopped' = stopped
    BY DEF store, flags
  <1>2. Now' = Now /\ (Closing' <=> Closing)
    BY <1>1 DEF Now, Closing, Complete
  <1>3. /\ Waiting(fifo.records, nextSequence)' /\ Agree(primary, mirror)'
        /\ Backed(primary, fifo, nextSequence)' /\ Backed(mirror, fifo, nextSequence)'
    BY <1>1 DEF IInv
  <1> QED BY <1>1, <1>2, <1>3 DEF IInv

THEOREM Invariance == Spec => []IInv
  <1>1. Init => IInv
    BY InitInvariant
  <1>2. IInv /\ [Next]_vars => IInv'
    <2> SUFFICES ASSUME IInv, [Next]_vars
                 PROVE  IInv'
      OBVIOUS
    <2>1. CASE TickLogging
      BY <2>1, LoggingInvariant
    <2>2. CASE TickLanding
      BY <2>2, LandingInvariant
    <2>3. CASE TickGroundStop
      BY <2>3, GroundStopInvariant
    <2>4. CASE PrimaryReady \/ MirrorReady
      BY <2>4, ReadyInvariant
    <2>5. CASE ChangeGround
      BY <2>5, SameLog DEF ChangeGround
    <2>6. CASE UNCHANGED vars
      BY <2>6, SameLog DEF vars
    <2> QED BY <2>1, <2>2, <2>3, <2>4, <2>5, <2>6 DEF Next, Tick
  <1> QED BY <1>1, <1>2, PTL DEF Spec

-----------------------------------------------------------------------------
(* What the invariant says of the properties.                              *)

(* The units of all the records that wait, behind the stream.              *)
LEMMA FlattenAccounts ==
  ASSUME NEW s \in Seq(Units), NEW records, NEW dropped \in Nat, NEW next \in Nat,
         Accounted(s, records, dropped, next), Waiting(records, next)
  PROVE  Accounted(s \o FlattenSeq([i \in 1..Len(records) |-> UnitsOf(records[i])]), <<>>, dropped, next)
  <1> DEFINE N == Len(records)
             us == [i \in 1..N |-> UnitsOf(records[i])]
  <1>1. records \in Seq(Frames) /\ N \in Nat /\ \A i \in 1..N : records[i] \in Frames
    BY DEF Waiting
  <1>2. us \in [1..N -> Seq(Units)] /\ \A i \in 1..N : us[i] = UnitsOf(records[i])
    BY <1>1, UnitsOfFrame
  <1>3. us \in Seq(Seq(Units)) /\ Len(us) = N
    <2> HIDE DEF us, N
    <2> QED BY <1>1, <1>2
  <1>4. CASE N = 0
    <2>1. us = <<>> /\ records = <<>>
      BY <1>1, <1>3, <1>4
    <2>2. FlattenSeq(us) = us
      <3> HIDE DEF us
      <3> QED BY <1>3, <1>4 DEF FlattenSeq
    <2>3. s \o FlattenSeq(us) = s
      <3> HIDE DEF us
      <3> QED BY <2>1, <2>2, NothingFollows
    <2> QED BY <2>1, <2>3
  <1>5. CASE N # 0
    <2> DEFINE Scan(f) == [i \in 1..Len(us) |-> IF i = 1 THEN us[i] ELSE f[i - 1] \o us[i]]
               flat == CHOOSE f : f = Scan(f)
               step == [n \in 1..N |-> [x \in Seq(Units) |-> x \o us[n]]]
               Rest(n) == SubSeq(records, n + 1, N)
               Stage(n) == IF n = 0 THEN <<>> ELSE flat[n]
    <2>1. FlattenSeq(us) = flat[N]
      <3> HIDE DEF us, N
      <3> QED BY <1>3, <1>5 DEF FlattenSeq
    <2> HIDE DEF us, N
    <2>2. <<>> \in Seq(Units) /\ \A x \in Seq(Units), n \in 1..N : x \o us[n] \in Seq(Units)
      BY <1>2
    <2>3. step \in [1..N -> [Seq(Units) -> Seq(Units)]]
      BY <2>2
    <2>4. PICK g : Iterates(g, N, Seq(Units), <<>>, step)
      <3> HIDE DEF step
      <3> QED BY <1>1, <2>2, <2>3, Iteration
    <2> DEFINE f == [i \in 1..N |-> g[i]]
    <2>5. f = Scan(f)
      <3>1. ASSUME NEW i \in 1..N PROVE f[i] = Scan(f)[i]
        <4>1. g[i] = g[i - 1] \o us[i]
          <5>1. i \in 0..N /\ i - 1 \in 0..N
            BY <1>1
          <5>2. g[i - 1] \in Seq(Units) /\ g[i] = step[i][g[i - 1]]
            BY <2>4, <5>1 DEF Iterates
          <5> QED BY <5>2
        <4>2. CASE i = 1
          <5>1. g[0] = <<>> /\ us[1] \in Seq(Units)
            BY <1>2, <2>4, <4>2 DEF Iterates
          <5>2. <<>> \o us[1] = us[1]
            BY <5>1, NothingBefore
          <5>3. g[i] = us[i]
            <6>1. i - 1 = 0
              BY <4>2
            <6> QED BY <4>1, <4>2, <5>1, <5>2, <6>1
          <5> QED BY <1>3, <4>2, <5>3
        <4>3. CASE i # 1
          <5>1. i - 1 \in 1..N
            BY <1>1, <4>3
          <5> QED BY <1>3, <4>1, <4>3, <5>1
        <4> QED BY <4>2, <4>3
      <3>2. DOMAIN f = 1..N /\ DOMAIN Scan(f) = 1..N
        BY <1>3
      <3> QED BY <1>3, <3>1, <3>2
    <2>6. flat = Scan(flat)
      <3> HIDE DEF Scan, f
      <3> QED BY <2>5
    <2> HIDE DEF flat
    <2>7. \A n \in 0..(N - 1) : Stage(n) \in Seq(Units) => Stage(n + 1) = Stage(n) \o us[n + 1]
      <3> SUFFICES ASSUME NEW n \in 0..(N - 1), Stage(n) \in Seq(Units)
                   PROVE  Stage(n + 1) = Stage(n) \o us[n + 1]
        OBVIOUS
      <3>1. n + 1 \in 1..N /\ (n + 1) - 1 = n /\ n + 1 # 0
        BY <1>1
      <3>2. flat[n + 1] = IF n + 1 = 1 THEN us[n + 1] ELSE flat[n] \o us[n + 1]
        BY <1>3, <2>6, <3>1
      <3>3. CASE n = 0
        <4>1. us[n + 1] \in Seq(Units)
          BY <1>2, <3>1
        <4>2. <<>> \o us[n + 1] = us[n + 1]
          BY <4>1, NothingBefore
        <4>3. Stage(n) = <<>> /\ Stage(n + 1) = flat[n + 1] /\ flat[n + 1] = us[n + 1]
          BY <3>1, <3>2, <3>3
        <4> QED BY <4>2, <4>3
      <3>4. CASE n # 0
        <4>1. n + 1 # 1
          BY <3>1, <3>4
        <4>2. flat[n + 1] = flat[n] \o us[n + 1]
          BY <3>2, <4>1
        <4>3. Stage(n) = flat[n] /\ Stage(n + 1) = flat[n + 1]
          BY <3>1, <3>4
        <4> QED BY <4>2, <4>3, Zenon
      <3> QED BY <3>3, <3>4
    <2>8. \A n \in 0..(N - 1) : /\ Rest(n) # <<>> /\ Head(Rest(n)) = records[n + 1]
                                /\ Tail(Rest(n)) = Rest(n + 1)
      <3> TAKE n \in 0..(N - 1)
      <3>1. n + 1 \in 1..Len(records) /\ N \in (n + 1)..Len(records)
        BY <1>1 DEF N
      <3>2. Head(Rest(n)) = records[n + 1] /\ Tail(Rest(n)) = SubSeq(records, (n + 1) + 1, N)
        BY <1>1, <3>1, HeadTailOfSubSeq
      <3>3. Len(Rest(n)) = N - (n + 1) + 1
        BY <1>1, <3>1
      <3>4. Rest(n) # <<>>
        BY <1>1, <3>1, <3>3
      <3> QED BY <3>2, <3>4
    <2>9. Rest(0) = records /\ Rest(N) = <<>>
      <3>1. SubSeq(records, 1, Len(records)) = records
        BY <1>1, SubSeqFull
      <3>2. SubSeq(records, N + 1, N) = <<>>
        BY <1>1, SubSeqEmpty
      <3> QED BY <3>1, <3>2 DEF N
    <2> DEFINE T == {n \in 0..N : /\ Stage(n) \in Seq(Units) /\ Waiting(Rest(n), next)
                                  /\ Accounted(s \o Stage(n), Rest(n), dropped, next)}
    <2>10. 0 \in T
      <3>1. s \o <<>> = s
        BY NothingFollows
      <3>2. Stage(0) = <<>> /\ 0 \in 0..N
        BY <1>1
      <3> HIDE DEF Stage, Rest
      <3> QED BY <2>2, <2>9, <3>1, <3>2
    <2>11. ASSUME NEW n \in 0..(N - 1), n \in T PROVE n + 1 \in T
      <3> DEFINE a == Stage(n)
                 r == Rest(n)
                 u == us[n + 1]
      <3>1. a \in Seq(Units) /\ Waiting(r, next) /\ Accounted(s \o a, r, dropped, next)
        BY <2>11
      <3>2. r # <<>> /\ Head(r) = records[n + 1] /\ Tail(r) = Rest(n + 1)
        BY <2>8
      <3>3. Stage(n + 1) = a \o u
        BY <2>7, <3>1
      <3>4. u = UnitsOf(records[n + 1]) /\ u \in Seq(Units) /\ n + 1 \in 0..N
        BY <1>1, <1>2
      <3> HIDE DEF a, r, u, Stage, Rest
      <3>5. Accounted((s \o a) \o u, Tail(r), dropped, next)
        BY <3>1, <3>2, <3>4, StreamGrows
      <3>6. Waiting(Tail(r), next)
        BY <3>1, <3>2, WaitingShrinks
      <3>7. (s \o a) \o u = s \o (a \o u) /\ a \o u \in Seq(Units)
        <4>1. s \in Seq(Units) /\ a \in Seq(Units) /\ u \in Seq(Units)
          BY <1>1, <3>1, <3>4
        <4>2. (s \o a) \o u = s \o (a \o u)
          BY <4>1, Associative, Zenon
        <4>3. a \o u \in Seq(Units)
          BY <4>1, Joined, Zenon
        <4> QED BY <4>2, <4>3
      <3> QED BY <3>2, <3>3, <3>4, <3>5, <3>6, <3>7
    <2>12. N \in T
      <3> HIDE DEF T
      <3>1. \A n \in 0..N : n \in T
        BY <1>1, <2>10, <2>11, BoundedInduction
      <3> QED BY <1>1, <3>1
    <2>13. Stage(N) = flat[N]
      BY <1>5
    <2> QED BY <2>1, <2>9, <2>12, <2>13 DEF us, N
  <1> QED BY <1>4, <1>5

LEMMA BeginsIsPrefix ==
  ASSUME NEW s \in Seq(Units), NEW t \in Seq(Units), Begins(s, t)
  PROVE  IsPrefix(s, t)
  <1>1. Len(s) \in Nat /\ Len(t) \in Nat /\ Len(s) <= Len(t)
    BY DEF Begins
  <1>2. SubSeq(s, 1, Len(s)) = s
    BY SubSeqFull
  <1> DEFINE b == SubSeq(t, 1, Len(s))
  <1>3. b \in Seq(Units) /\ Len(b) = Len(s) /\ \A i \in 1..Len(s) : b[i] = t[i]
    BY <1>1
  <1> HIDE DEF b
  <1>4. s = b
    BY <1>3, SeqEqual DEF Begins
  <1> QED BY <1>1, <1>2, <1>4 DEF IsPrefix, b

LEMMA InvariantAccounts ==
  ASSUME IInv
  PROVE  RecordsAccounted
  <1> SUFFICES ASSUME NEW b \in {primary, mirror}, Active(b)
               PROVE  LET s == Stream(b) \o FlattenSeq([i \in 1..Len(fifo.records) |-> UnitsOf(fifo.records[i])])
                      IN  /\ Cardinality({s[i].seq : i \in 1..Len(s)}) + fifo.dropped = nextSequence
                          /\ \A i \in 1..(Len(s) - 1) :
                               IF s[i].left > 0 THEN s[i + 1] = [s[i] EXCEPT !.left = @ - 1]
                               ELSE s[i].seq < s[i + 1].seq
    BY DEF RecordsAccounted
  <1> DEFINE s == Stream(b) \o FlattenSeq([i \in 1..Len(fifo.records) |-> UnitsOf(fifo.records[i])])
  <1>1. Accounted(Stream(b), fifo.records, fifo.dropped, nextSequence)
    BY DEF IInv, Backed
  <1>2. fifo \in Buffers /\ nextSequence \in Nat /\ Waiting(fifo.records, nextSequence)
    BY NowFields DEF IInv
  <1>3. fifo.dropped \in Nat /\ Stream(b) \in Seq(Units)
    BY <1>1, <1>2 DEF Buffers, Accounted
  <1>4. Accounted(s, <<>>, fifo.dropped, nextSequence)
    BY <1>1, <1>2, <1>3, FlattenAccounts
  <1> HIDE DEF s
  <1>5. /\ Whole(s) /\ IsFiniteSet(Seqs(s))
        /\ Cardinality(Seqs(s)) + Len(<<>>) + fifo.dropped = nextSequence
    BY <1>4 DEF Accounted
  <1>6. Cardinality(Seqs(s)) \in Nat
    BY <1>5, FS_CardinalityType
  <1>7. Len(<<>>) = 0
    OBVIOUS
  <1>8. Cardinality(Seqs(s)) + fifo.dropped = nextSequence
    BY <1>3, <1>5, <1>6, <1>7
  <1>9. \A i \in 1..(Len(s) - 1) :
          IF s[i].left > 0 THEN s[i + 1] = [s[i] EXCEPT !.left = @ - 1] ELSE s[i].seq < s[i + 1].seq
    BY <1>5 DEF Whole, Follows
  <1> QED BY <1>8, <1>9 DEF Seqs, s

LEMMA InvariantAgrees ==
  ASSUME IInv
  PROVE  MirrorsAgree
  <1>1. primary.stored \in Seq(Units) /\ mirror.stored \in Seq(Units)
    BY NowFields, StreamOfFlash, StreamOfCard DEF IInv
  <1>2. Agree(primary, mirror)
    BY DEF IInv
  <1> QED BY <1>1, <1>2, BeginsIsPrefix DEF Agree, MirrorsAgree

(* Every record is, whole and in order, in the FIFO or in the stream of    *)
(* every backend that works, or was counted when the FIFO gave it up.      *)
THEOREM RecordsKept == Spec => []RecordsAccounted
  BY Invariance, InvariantAccounts, PTL

(* The two media never hold different logs.                                *)
THEOREM OneLog == Spec => []MirrorsAgree
  BY Invariance, InvariantAgrees, PTL

(* No backend is given up because its queue is full.                       *)
THEOREM QueuesHoldUp == Spec => []BackpressureHolds
  <1>1. IInv => BackpressureHolds
    BY DEF IInv, BackpressureHolds
  <1> QED BY <1>1, Invariance, PTL

(* A backend that was closed has every record, up to GROUND_STOP.          *)
THEOREM ClosedLogs == Spec => []ClosedComplete
  <1>1. IInv => ClosedComplete
    BY DEF IInv, Closing, Complete, Latest, ClosedComplete
  <1> QED BY <1>1, Invariance, PTL
=============================================================================
