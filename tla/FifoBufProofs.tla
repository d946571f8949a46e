--------------------------- MODULE FifoBufProofs ---------------------------
(***************************************************************************)
(* Proofs about the ring buffer, for every size of it.                     *)
(***************************************************************************)
EXTENDS FifoBuf, SeqLemmas

LEMMA MinOfTwo ==
    ASSUME NEW a \in Int, NEW b \in Int
    PROVE  Min({a, b}) = IF a <= b THEN a ELSE b
<1> DEFINE m == IF a <= b THEN a ELSE b
           IsMin(x) == x \in {a, b} /\ \A y \in {a, b} : x <= y
<1>1. IsMin(m) /\ \A x \in {a, b} : IsMin(x) => x = m
  OBVIOUS
<1>2. IsMin(Min({a, b}))
  BY <1>1 DEF Min
<1> QED
  BY <1>1, <1>2

LEMMA RingType ==
    ASSUME NEW Byte, NEW r \in Ring(Byte)
    PROVE  /\ r.pos \in Nat /\ r.pos < Capacity
           /\ r.fill \in Nat /\ r.fill <= Capacity
           /\ r.buf \in [Cells -> Byte]
           /\ Capacity \in Nat \ {0}
BY CapacityAssumption DEF Ring, Cells

LEMMA ContentsType ==
    ASSUME NEW Byte, NEW r \in Ring(Byte)
    PROVE  /\ \A i \in 1..r.fill : Place(r, i) \in Cells
           /\ Contents(r) \in Seq(Byte)
           /\ Len(Contents(r)) = r.fill
<1>1. \A i \in 1..r.fill : Place(r, i) \in Cells
  BY RingType DEF Place, Cells
<1>2. Contents(r) \in [1..r.fill -> Byte]
  BY <1>1, RingType DEF Contents
<1> QED
  BY <1>1, <1>2, RingType

-----------------------------------------------------------------------------
(* put() *)

LEMMA RoomType ==
    ASSUME NEW Byte, NEW r \in Ring(Byte)
    PROVE  /\ Room(r) \in Nat
           /\ WriteFrom(r) \in Nat /\ WriteSpan(r) \in Nat /\ WriteSpan(r) <= Room(r)
           /\ Room(r) > 0 => WriteFrom(r) + WriteSpan(r) <= Capacity
BY RingType DEF Room, WriteFrom, WriteSpan

(* How many bytes a pass writes. *)
PutCount(r, data) ==
    IF r.fill < Capacity /\ data # <<>> THEN Min({WriteSpan(r), Len(data)}) ELSE 0

Putting(r, data) == [ring |-> r, data |-> data]

LEMMA PutCountType ==
    ASSUME NEW Byte, NEW r \in Ring(Byte), NEW data \in Seq(Byte)
    PROVE  LET n == PutCount(r, data)
           IN  /\ n \in Nat /\ n <= Len(data) /\ n <= WriteSpan(r) /\ n <= Room(r)
               /\ n = Len(data) \/ n = Room(r) \/ (n = Capacity - (r.pos + r.fill) /\ n > 0)
<1>1. Min({WriteSpan(r), Len(data)}) = IF WriteSpan(r) <= Len(data) THEN WriteSpan(r) ELSE Len(data)
  BY RoomType, MinOfTwo
<1>2. Len(data) \in Nat /\ (data = <<>> => Len(data) = 0)
  OBVIOUS
<1>3. CASE r.fill < Capacity /\ data # <<>>
  <2>1. PutCount(r, data) = IF WriteSpan(r) <= Len(data) THEN WriteSpan(r) ELSE Len(data)
    BY <1>1, <1>3 DEF PutCount
  <2>2. WriteSpan(r) = Room(r) \/ (WriteSpan(r) = Capacity - (r.pos + r.fill) /\ WriteSpan(r) > 0)
    BY RingType DEF WriteSpan, Room
  <2> QED
    BY <1>2, <2>1, <2>2, RoomType
<1>4. CASE ~(r.fill < Capacity /\ data # <<>>)
  <2>1. PutCount(r, data) = 0
    BY <1>4 DEF PutCount
  <2>2. data = <<>> \/ Room(r) = 0
    BY <1>4, RingType DEF Room
  <2> QED
    BY <1>2, <2>1, <2>2, RoomType
<1> QED
  BY <1>3, <1>4

(* What a step of put() that writes n bytes makes of r. *)
Puts(r, data, n, q) ==
    /\ q.pos = r.pos /\ q.fill = r.fill + n
    /\ \A i \in 1..r.fill : Contents(q)[i] = Contents(r)[i]
    /\ \A i \in 1..n : Contents(q)[r.fill + i] = data[i]

(* A pass puts that many bytes behind those that are there. *)
LEMMA PutPassDoes ==
    ASSUME NEW Byte, NEW r \in Ring(Byte), NEW data \in Seq(Byte)
    PROVE  LET n == PutCount(r, data)
           IN  \E q \in Ring(Byte) : /\ PutPass(Putting(r, data)) = Putting(q, SubSeq(data, n + 1, Len(data)))
                                     /\ Puts(r, data, n, q)
<1> DEFINE n    == PutCount(r, data)
           from == WriteFrom(r)
           to   == from + n - 1
           buf  == [i \in Cells |-> IF i \in from..to THEN data[i - from + 1] ELSE r.buf[i]]
           q    == [r EXCEPT !.fill = @ + n, !.buf = buf]
           rest == SubSeq(data, n + 1, Len(data))
<1>1. n \in Nat /\ n <= Len(data) /\ n <= WriteSpan(r) /\ n <= Room(r)
  BY PutCountType
<1> DEFINE end == r.pos + r.fill
<1>0. /\ r.pos \in Nat /\ r.pos < Capacity /\ r.fill \in Nat /\ r.fill <= Capacity /\ Capacity \in Nat
      /\ end \in Nat
  BY RingType
<1>2. CASE r.fill < Capacity /\ data # <<>>
  <2>1. PutPass(Putting(r, data)) = Putting(q, rest)
    BY <1>2 DEF PutPass, Putting, PutCount
  <2> HIDE DEF n
  <2>2. from \in Nat /\ from + n <= Capacity
    BY <1>1, <1>2, RoomType, RingType DEF Room
  <2>3. \A i \in from..to : i - from + 1 \in 1..Len(data)
    BY <1>1, <2>2
  <2>4. buf \in [Cells -> Byte]
    <3> HIDE DEF from, to
    <3> QED
      BY <2>3, RingType
  <2> HIDE DEF from
  <2>5. r.fill + n \in 0..Capacity
    BY <1>1, RingType DEF Room
  <2>6. q \in Ring(Byte) /\ q.pos = r.pos /\ q.fill = r.fill + n /\ q.buf = buf
    <3> HIDE DEF buf
    <3> QED
      BY <2>4, <2>5 DEF Ring
  <2> HIDE DEF q
  <2>7. ASSUME NEW i \in 1..r.fill PROVE Contents(q)[i] = Contents(r)[i]
    <3>1. i \in 1..(r.fill + n) /\ Place(q, i) = Place(r, i)
      BY <1>1, <2>6, RingType DEF Place
    <3>2. Contents(q)[i] = buf[Place(r, i)] /\ Contents(r)[i] = r.buf[Place(r, i)]
      <4> HIDE DEF buf
      <4> QED
        BY <2>6, <3>1 DEF Contents
    <3>3. Place(r, i) \in Cells
      BY ContentsType
    <3>4. Place(r, i) \notin from..to
      <4>1. CASE end < Capacity
        <5>1. from = end /\ Place(r, i) = r.pos + i - 1
          BY <1>0, <4>1 DEF from, WriteFrom, Place
        <5>2. Place(r, i) < end /\ Place(r, i) \in Int /\ end \in Int
          BY <1>0, <5>1
        <5> QED
          BY <5>1, <5>2
      <4>2. CASE end >= Capacity
        <5>1. from = end - Capacity /\ n <= Capacity - r.fill
          BY <1>0, <1>1, <4>2 DEF from, WriteFrom, WriteSpan
        <5>2. Place(r, i) \in Int /\ (Place(r, i) >= r.pos \/ Place(r, i) < from)
          <6>1. i \in Int /\ 1 <= i /\ i <= r.fill
            BY <1>0
          <6> HIDE DEF n, to
          <6> QED
            BY <1>0, <5>1, <6>1, SMTT(30) DEF Place
        <5>3. from + n - 1 < r.pos
          <6> HIDE DEF n
          <6> QED
            BY <1>0, <1>1, <5>1, SMTT(30)
        <5> QED
          BY <1>0, <1>1, <2>2, <5>2, <5>3
      <4> QED
        BY <1>0, <4>1, <4>2
    <3> QED
      BY <3>2, <3>3, <3>4
  <2>8. ASSUME NEW i \in 1..n PROVE Contents(q)[r.fill + i] = data[i]
    <3>1. r.fill + i \in 1..(r.fill + n)
      BY <1>1, RingType
    <3>2. Contents(q)[r.fill + i] = buf[Place(q, r.fill + i)]
      <4> HIDE DEF buf
      <4> QED
        BY <2>6, <3>1 DEF Contents
    <3>3. Place(q, r.fill + i) = from + i - 1
      <4>0. Place(q, r.fill + i) = IF end + i <= Capacity THEN end + i - 1 ELSE end + i - 1 - Capacity
        <5>1. /\ q.pos \in Int /\ r.fill + i \in Int /\ end + i \in Int
              /\ q.pos + (r.fill + i) = end + i
          <6>1. q.pos = r.pos /\ r.pos \in Int /\ r.fill \in Int /\ i \in Int
            BY <1>0, <1>1, <2>6
          <6> QED
            BY <6>1
        <5> DEFINE k == r.fill + i
                   m == end + i
        <5>2. k \in Int /\ m \in Int /\ q.pos \in Int /\ q.pos + k = m
          BY <5>1
        <5> HIDE DEF k, m
        <5>3. Place(q, k) = IF m <= Capacity THEN m - 1 ELSE m - 1 - Capacity
          BY <1>0, <5>2, SMTT(30) DEF Place
        <5> QED
          BY <1>0, <1>1, <5>3 DEF k, m
      <4> HIDE DEF end
      <4>1. CASE end < Capacity
        <5>1. from = end /\ n <= Capacity - end
          BY <1>0, <1>1, <4>1 DEF from, WriteFrom, WriteSpan, end
        <5> QED
          BY <1>0, <1>1, <4>0, <5>1
      <4>2. CASE end >= Capacity
        <5>1. from = end - Capacity
          BY <1>0, <4>2 DEF from, WriteFrom, end
        <5> QED
          BY <1>0, <1>1, <4>0, <4>2, <5>1
      <4> QED
        BY <1>0, <4>1, <4>2
    <3>4. from + i - 1 \in Cells /\ from + i - 1 \in from..to /\ (from + i - 1) - from + 1 = i
      BY <1>1, <2>2, RingType DEF Cells
    <3> QED
      BY <3>2, <3>3, <3>4
  <2>9. Puts(r, data, n, q)
    BY <2>6, <2>7, <2>8 DEF Puts
  <2> HIDE DEF rest
  <2> QED
    BY <2>1, <2>6, <2>9 DEF n, rest
<1>3. CASE ~(r.fill < Capacity /\ data # <<>>)
  <2>1. n = 0 /\ PutPass(Putting(r, data)) = Putting(r, data)
    BY <1>3 DEF PutCount, PutPass, Putting
  <2> HIDE DEF n
  <2>2. rest = data
    BY <2>1
  <2>3. Puts(r, data, n, r)
    BY <2>1, RingType DEF Puts
  <2> HIDE DEF rest
  <2> QED
    BY <2>1, <2>2, <2>3 DEF n, rest
<1> QED
  BY <1>2, <1>3

(* Two passes write all that there is room for. *)
LEMMA PutDoes ==
    ASSUME NEW Byte, NEW r \in Ring(Byte), NEW data \in Seq(Byte)
    PROVE  LET n == Min({Room(r), Len(data)})
           IN  /\ n = IF Room(r) <= Len(data) THEN Room(r) ELSE Len(data)
               /\ Put(r, data).data = SubSeq(data, n + 1, Len(data))
               /\ Put(r, data).ring \in Ring(Byte)
               /\ Puts(r, data, n, Put(r, data).ring)
<1> DEFINE n  == Min({Room(r), Len(data)})
           a  == PutCount(r, data)
           d1 == SubSeq(data, a + 1, Len(data))
<1>1. n = IF Room(r) <= Len(data) THEN Room(r) ELSE Len(data)
  BY RoomType, MinOfTwo
<1>2. /\ a \in Nat /\ a <= Len(data) /\ a <= Room(r)
      /\ a = Len(data) \/ a = Room(r) \/ (a = Capacity - (r.pos + r.fill) /\ a > 0)
  BY PutCountType
<1>3. PICK r1 \in Ring(Byte) : /\ PutPass(Putting(r, data)) = Putting(r1, d1)
                               /\ Puts(r, data, a, r1)
  BY PutPassDoes
<1> HIDE DEF a
<1>4. d1 \in Seq(Byte) /\ Len(d1) = Len(data) - a /\ \A i \in 1..Len(d1) : d1[i] = data[a + i]
  BY <1>2
<1> HIDE DEF d1
<1> DEFINE b  == PutCount(r1, d1)
           d2 == SubSeq(d1, b + 1, Len(d1))
<1>5. /\ b \in Nat /\ b <= Len(d1) /\ b <= Room(r1)
      /\ b = Len(d1) \/ b = Room(r1) \/ (b = Capacity - (r1.pos + r1.fill) /\ b > 0)
  BY <1>4, PutCountType
<1>6. PICK q \in Ring(Byte) : /\ PutPass(Putting(r1, d1)) = Putting(q, d2)
                              /\ Puts(r1, d1, b, q)
  BY <1>4, PutPassDoes
<1> HIDE DEF b, n
<1>7. n = a + b
  <2>1. /\ r1.pos = r.pos /\ r1.fill = r.fill + a /\ Room(r1) = Room(r) - a
        /\ r.pos \in Nat /\ r.fill \in Nat /\ Capacity \in Nat
    BY <1>2, <1>3, RingType DEF Puts, Room
  <2>2. Len(data) \in Nat /\ Room(r) \in Nat
    BY RoomType
  <2>3. CASE a = Len(data) \/ a = Room(r)
    <3>1. b <= Len(data) - a /\ b <= Room(r) - a
      BY <1>4, <1>5, <2>1
    <3> QED
      BY <1>1, <1>2, <1>5, <2>2, <2>3, <3>1
  <2>4. CASE a = Capacity - (r.pos + r.fill) /\ a > 0
    <3>1. b = Len(d1) \/ b = Room(r1)
      BY <1>5, <2>1, <2>4
    <3>2. b <= Len(data) - a /\ b <= Room(r) - a
      BY <1>4, <1>5, <2>1
    <3>3. CASE b = Len(data) - a
      BY <1>1, <1>2, <1>5, <2>2, <3>2, <3>3
    <3>4. CASE b = Room(r) - a
      BY <1>1, <1>2, <1>5, <2>2, <3>2, <3>4
    <3> QED
      BY <1>4, <2>1, <3>1, <3>3, <3>4
  <2> QED
    BY <1>2, <2>3, <2>4
<1>8. Put(r, data) = Putting(q, d2)
  BY <1>3, <1>6 DEF Put, Putting
<1>9. d2 = SubSeq(data, n + 1, Len(data))
  <2>1. a \in 0..Len(data) /\ b \in 0..(Len(data) - a)
    BY <1>2, <1>4, <1>5
  <2> QED
    BY <1>7, <2>1, DropTwice DEF d1
<1>10. /\ r1.pos = r.pos /\ r1.fill = r.fill + a
       /\ \A i \in 1..r.fill : Contents(r1)[i] = Contents(r)[i]
       /\ \A i \in 1..a : Contents(r1)[r.fill + i] = data[i]
  BY <1>3 DEF Puts
<1>11. /\ q.pos = r1.pos /\ q.fill = r1.fill + b
       /\ \A i \in 1..r1.fill : Contents(q)[i] = Contents(r1)[i]
       /\ \A i \in 1..b : Contents(q)[r1.fill + i] = d1[i]
  BY <1>6 DEF Puts
<1>12. \A i \in 1..r.fill : Contents(q)[i] = Contents(r)[i]
  BY <1>2, <1>10, <1>11, RingType
<1>13. ASSUME NEW i \in 1..n PROVE Contents(q)[r.fill + i] = data[i]
  <2>1. CASE i <= a
    <3>1. r.fill + i \in 1..r1.fill /\ i \in 1..a
      <4>1. r.fill \in Nat /\ r1.fill = r.fill + a /\ a \in Nat /\ i \in Nat /\ 1 <= i
        BY <1>2, <1>5, <1>7, <1>10, RingType
      <4> QED
        BY <2>1, <4>1
    <3> QED
      BY <1>10, <1>11, <3>1
  <2>2. CASE i > a
    <3>1. i - a \in 1..b /\ r.fill + i = r1.fill + (i - a) /\ i = a + (i - a)
      <4>1. r.fill \in Nat /\ r1.fill = r.fill + a
        BY <1>10, RingType
      <4> QED
        BY <1>2, <1>5, <1>7, <2>2, <4>1
    <3>2. Contents(q)[r1.fill + (i - a)] = d1[i - a] /\ d1[i - a] = data[a + (i - a)]
      <4>1. i - a \in 1..Len(d1)
        BY <1>4, <1>5, <3>1
      <4> QED
        BY <1>4, <1>11, <3>1, <4>1
    <3> QED
      BY <3>1, <3>2
  <2> QED
    BY <1>2, <1>5, <1>7, <2>1, <2>2
<1>14. q.pos = r.pos /\ q.fill = r.fill + n
  BY <1>2, <1>5, <1>7, <1>10, <1>11, RingType
<1>15. Puts(r, data, n, q)
  BY <1>12, <1>13, <1>14 DEF Puts
<1> HIDE DEF d2
<1>16. Put(r, data).ring = q /\ Put(r, data).data = d2
  BY <1>8 DEF Putting
<1> QED
  BY <1>1, <1>9, <1>15, <1>16 DEF n

(* put() appends what there is room for, in two passes. *)
LEMMA PutAppendsAlways ==
    ASSUME NEW Byte, NEW r \in Ring(Byte), NEW data \in Seq(Byte)
    PROVE  PutAppends(r, data)
<1> DEFINE n == Min({Room(r), Len(data)})
           q == Put(r, data).ring
           front == SubSeq(data, 1, n)
<1>1. /\ n = IF Room(r) <= Len(data) THEN Room(r) ELSE Len(data)
      /\ Put(r, data).data = SubSeq(data, n + 1, Len(data))
      /\ q \in Ring(Byte)
      /\ Puts(r, data, n, q)
  BY PutDoes
<1>2. r.fill \in Nat /\ n \in 0..Len(data)
  BY <1>1, RoomType, RingType
<1> HIDE DEF n, q
<1>3. Contents(q) \in Seq(Byte) /\ Len(Contents(q)) = r.fill + n
  BY <1>1, ContentsType DEF Puts
<1>4. Contents(r) \in Seq(Byte) /\ Len(Contents(r)) = r.fill
  BY ContentsType
<1>5. front \in Seq(Byte) /\ Len(front) = n /\ \A i \in 1..n : front[i] = data[i]
  BY <1>2
<1> HIDE DEF front
<1> DEFINE all == Contents(r) \o front
<1>6. /\ all \in Seq(Byte) /\ Len(all) = r.fill + n
      /\ \A i \in 1..(r.fill + n) : all[i] = IF i <= r.fill THEN Contents(r)[i] ELSE front[i - r.fill]
  <2>1. /\ all \in Seq(Byte) /\ Len(all) = Len(Contents(r)) + Len(front)
        /\ \A i \in 1..(Len(Contents(r)) + Len(front)) :
             all[i] = IF i <= Len(Contents(r)) THEN Contents(r)[i] ELSE front[i - Len(Contents(r))]
    BY <1>4, <1>5, ConcatProperties
  <2> HIDE DEF all
  <2> QED
    BY <1>4, <1>5, <2>1
<1> HIDE DEF all
<1>7. ASSUME NEW i \in 1..(r.fill + n) PROVE Contents(q)[i] = all[i]
  <2>1. CASE i <= r.fill
    <3>1. i \in 1..r.fill
      BY <1>2, <2>1
    <3> QED
      BY <1>1, <1>6, <2>1, <3>1 DEF Puts
  <2>2. CASE i > r.fill
    <3>1. i - r.fill \in 1..n /\ r.fill + (i - r.fill) = i
      BY <1>2, <2>2
    <3>2. Contents(q)[r.fill + (i - r.fill)] = data[i - r.fill]
      BY <1>1, <3>1 DEF Puts
    <3>3. all[i] = front[i - r.fill]
      BY <1>2, <1>6, <2>2
    <3> QED
      BY <1>5, <3>1, <3>2, <3>3
  <2> QED
    BY <1>2, <2>1, <2>2
<1>8. Contents(q) = all
  BY <1>3, <1>6, <1>7, SeqEqual
<1> QED
  BY <1>1, <1>8 DEF PutAppends, n, q, front, all

-----------------------------------------------------------------------------
(* get() *)

Span(r) == IF r.pos + r.fill <= Capacity THEN r.fill ELSE Capacity - r.pos

(* How many bytes a pass reads, of those still wanted. *)
GetCount(r, left) == IF r.fill > 0 /\ left > 0 THEN Min({Span(r), left}) ELSE 0

Getting(r, want, got) == [ring |-> r, want |-> want, got |-> got]

LEMMA GetCountType ==
    ASSUME NEW Byte, NEW r \in Ring(Byte), NEW left \in Nat
    PROVE  LET n == GetCount(r, left)
           IN  /\ n \in Nat /\ n <= left /\ n <= r.fill /\ n <= Span(r)
               /\ n = left \/ n = r.fill \/ (n = Capacity - r.pos /\ n > 0)
<1>1. Span(r) \in Nat /\ Span(r) <= r.fill /\ (r.fill > 0 => Span(r) > 0)
  BY RingType DEF Span
<1>2. Span(r) = r.fill \/ Span(r) = Capacity - r.pos
  BY DEF Span
<1>3. Min({Span(r), left}) = IF Span(r) <= left THEN Span(r) ELSE left
  BY <1>1, MinOfTwo
<1> QED
  BY <1>1, <1>2, <1>3, RingType DEF GetCount

(* What a step of get() that reads n bytes makes of r. *)
Gets(r, n, q, bytes) ==
    /\ q.fill = r.fill - n
    /\ Len(bytes) = n
    /\ \A i \in 1..n : bytes[i] = Contents(r)[i]
    /\ \A i \in 1..(r.fill - n) : Contents(q)[i] = Contents(r)[n + i]

LEMMA BeyondTheEnd ==
    ASSUME NEW pos \in Nat, NEW n \in Nat, NEW c \in Nat, pos + n = c, NEW i \in Nat, 1 <= i
    PROVE  ~(pos + (n + i) <= c) /\ pos + (n + i) - 1 - c = i - 1
  OBVIOUS

(* A pass reads that many of the oldest bytes, and stops behind them, or   *)
(* at the beginning of the memory.                                         *)
LEMMA GetPassDoes ==
    ASSUME NEW Byte, NEW r \in Ring(Byte), NEW want \in Nat, NEW got \in Seq(Byte), Len(got) <= want
    PROVE  LET n == GetCount(r, want - Len(got))
           IN  \E q \in Ring(Byte), bytes \in Seq(Byte) :
                 /\ GetPass(Getting(r, want, got)) = Getting(q, want, got \o bytes)
                 /\ Gets(r, n, q, bytes)
                 /\ n = Capacity - r.pos => q.pos = 0
<1> DEFINE left  == want - Len(got)
           n     == GetCount(r, left)
           pos   == IF r.pos + n = Capacity THEN 0 ELSE r.pos + n
           q     == [r EXCEPT !.fill = @ - n, !.pos = pos]
           bytes == [i \in 1..n |-> r.buf[r.pos + i - 1]]
<1>1. left \in Nat /\ (left > 0 <=> Len(got) < want)
  OBVIOUS
<1>2. n \in Nat /\ n <= left /\ n <= r.fill /\ n <= Span(r)
  BY <1>1, GetCountType
<1>3. /\ r.pos \in Nat /\ r.pos < Capacity /\ r.fill \in Nat /\ r.fill <= Capacity /\ Capacity \in Nat
      /\ r.buf \in [Cells -> Byte]
  BY RingType
<1>4. r.pos + n <= Capacity
  BY <1>2, <1>3 DEF Span
<1>5. CASE r.fill > 0 /\ Len(got) < want
  <2>1. GetPass(Getting(r, want, got)) = Getting(q, want, got \o bytes)
    BY <1>1, <1>5 DEF GetPass, Getting, GetCount, Span
  <2> HIDE DEF n
  <2>2. pos \in Cells /\ r.fill - n \in 0..Capacity
    <3>1. r.pos + n < Capacity \/ r.pos + n = Capacity
      BY <1>2, <1>3, <1>4
    <3>2. r.pos + n \in Nat
      BY <1>2, <1>3
    <3>3. pos \in Cells
      BY <1>3, <3>1, <3>2 DEF Cells
    <3>4. r.fill - n \in 0..Capacity
      BY <1>2, <1>3
    <3> QED
      BY <3>3, <3>4
  <2>3. pos = 0 \/ pos = r.pos + n
    OBVIOUS
  <2>4. n = Capacity - r.pos => pos = 0
    BY <1>3
  <2>5. q \in Ring(Byte) /\ q.pos = pos /\ q.fill = r.fill - n /\ q.buf = r.buf
    <3> HIDE DEF pos
    <3> QED
      BY <2>2 DEF Ring
  <2>6. \A i \in 1..n : r.pos + i - 1 \in Cells
    BY <1>2, <1>3, <1>4, SMTT(30) DEF Cells
  <2>7. bytes \in Seq(Byte) /\ Len(bytes) = n
    BY <1>2, <1>3, <2>6
  <2>8. ASSUME NEW i \in 1..n PROVE bytes[i] = Contents(r)[i]
    <3>1. r.pos + i <= Capacity /\ i \in 1..r.fill
      BY <1>2, <1>3, <1>4
    <3>2. Place(r, i) = r.pos + i - 1
      BY <3>1 DEF Place
    <3> QED
      BY <3>1, <3>2 DEF Contents
  <2> HIDE DEF q
  <2>9. ASSUME NEW i \in 1..(r.fill - n) PROVE Contents(q)[i] = Contents(r)[n + i]
    <3>1. n + i \in 1..r.fill /\ i \in 1..q.fill
      BY <1>2, <1>3, <2>5
    <3>2. Place(q, i) = Place(r, n + i)
      <4>0. i \in Nat /\ 1 <= i /\ n \in Nat /\ n + i <= r.fill /\ q.pos = pos
        BY <1>2, <1>3, <2>5
      <4>1. CASE r.pos + n = Capacity
        <5>1. q.pos = 0 /\ i <= Capacity
          <6>1. q.pos = 0
            BY <4>0, <4>1
          <6>2. i <= Capacity
            BY <1>3, <4>0
          <6> QED
            BY <6>1, <6>2
        <5>2. Place(q, i) = i - 1
          BY <4>0, <5>1 DEF Place
        <5>3. Place(r, n + i) = i - 1
          <6>1. ~(r.pos + (n + i) <= Capacity) /\ r.pos + (n + i) - 1 - Capacity = i - 1
            BY <1>3, <4>0, <4>1, BeyondTheEnd
          <6> QED
            BY <6>1 DEF Place
        <5> QED
          BY <5>2, <5>3
      <4>2. CASE r.pos + n # Capacity
        BY <1>2, <1>3, <1>4, <4>0, <4>2 DEF Place
      <4> QED
        BY <4>1, <4>2
    <3> QED
      BY <2>5, <3>1, <3>2 DEF Contents
  <2> HIDE DEF bytes
  <2>10. Gets(r, n, q, bytes)
    BY <2>5, <2>7, <2>8, <2>9 DEF Gets
  <2> QED
    BY <2>1, <2>4, <2>5, <2>7, <2>10 DEF n, left
<1>6. CASE ~(r.fill > 0 /\ Len(got) < want)
  <2>1. n = 0 /\ GetPass(Getting(r, want, got)) = Getting(r, want, got)
    BY <1>1, <1>6 DEF GetPass, Getting, GetCount
  <2> HIDE DEF n
  <2>2. got \o <<>> = got /\ <<>> \in Seq(Byte)
    OBVIOUS
  <2>3. Gets(r, n, r, <<>>)
    BY <1>3, <2>1 DEF Gets
  <2>4. n # Capacity - r.pos
    BY <1>3, <2>1
  <2> QED
    BY <2>1, <2>2, <2>3, <2>4 DEF n, left
<1> QED
  BY <1>5, <1>6

(* Two passes read all that is wanted, or all that there is. *)
LEMMA GetDoes ==
    ASSUME NEW Byte, NEW r \in Ring(Byte), NEW want \in Nat
    PROVE  LET n == Min({r.fill, want})
           IN  /\ n = IF r.fill <= want THEN r.fill ELSE want
               /\ Get(r, want).ring \in Ring(Byte)
               /\ Get(r, want).got \in Seq(Byte)
               /\ Gets(r, n, Get(r, want).ring, Get(r, want).got)
<1> DEFINE n == Min({r.fill, want})
           a == GetCount(r, want - Len(<<>>))
<1>1. n = IF r.fill <= want THEN r.fill ELSE want
  BY RingType, MinOfTwo
<1>2. want - Len(<<>>) = want /\ <<>> \in Seq(Byte) /\ Len(<<>>) <= want
  OBVIOUS
<1>3. /\ a \in Nat /\ a <= want /\ a <= r.fill
      /\ a = want \/ a = r.fill \/ (a = Capacity - r.pos /\ a > 0)
  BY <1>2, GetCountType
<1>4. PICK r1 \in Ring(Byte), b1 \in Seq(Byte) :
        /\ GetPass(Getting(r, want, <<>>)) = Getting(r1, want, <<>> \o b1)
        /\ Gets(r, a, r1, b1)
        /\ a = Capacity - r.pos => r1.pos = 0
  BY <1>2, GetPassDoes
<1> HIDE DEF a
<1>5. <<>> \o b1 = b1 /\ Len(b1) = a
  BY <1>4 DEF Gets
<1> DEFINE b == GetCount(r1, want - Len(b1))
<1>6. want - Len(b1) \in Nat /\ want - Len(b1) = want - a
  BY <1>3, <1>5
<1>7. /\ b \in Nat /\ b <= want - a /\ b <= r1.fill
      /\ b = want - a \/ b = r1.fill \/ (b = Capacity - r1.pos /\ b > 0)
  BY <1>6, GetCountType
<1>8. PICK q \in Ring(Byte), b2 \in Seq(Byte) :
        /\ GetPass(Getting(r1, want, b1)) = Getting(q, want, b1 \o b2)
        /\ Gets(r1, b, q, b2)
  BY <1>3, <1>5, GetPassDoes
<1> HIDE DEF b, n
<1>9. /\ r1.fill = r.fill - a
      /\ \A i \in 1..a : b1[i] = Contents(r)[i]
      /\ \A i \in 1..(r.fill - a) : Contents(r1)[i] = Contents(r)[a + i]
  BY <1>4 DEF Gets
<1>10. /\ q.fill = r1.fill - b /\ Len(b2) = b
       /\ \A i \in 1..b : b2[i] = Contents(r1)[i]
       /\ \A i \in 1..(r1.fill - b) : Contents(q)[i] = Contents(r1)[b + i]
  BY <1>8 DEF Gets
<1>11. /\ r.pos \in Nat /\ r.pos < Capacity /\ r.fill \in Nat /\ r.fill <= Capacity /\ Capacity \in Nat
       /\ r1.pos \in Nat /\ r1.fill \in Nat /\ r1.fill = r.fill - a
  BY <1>9, RingType
<1>12. n = a + b
  <2>1. CASE a = want \/ a = r.fill
    BY <1>1, <1>3, <1>7, <1>11, <2>1
  <2>2. CASE a = Capacity - r.pos /\ a > 0
    <3>1. r1.pos = 0 /\ r1.fill < Capacity
      BY <1>3, <1>4, <1>9, <1>11, <2>2
    <3>2. b = want - a \/ b = r1.fill
      BY <1>7, <1>11, <3>1
    <3> QED
      <4>1. CASE b = want - a
        BY <1>1, <1>3, <1>7, <1>11, <4>1
      <4>2. CASE b = r1.fill
        BY <1>1, <1>3, <1>7, <1>11, <4>2
      <4> QED
        BY <3>2, <4>1, <4>2
  <2> QED
    BY <1>3, <2>1, <2>2
<1>13. Get(r, want) = Getting(q, want, b1 \o b2)
  BY <1>4, <1>5, <1>8 DEF Get, Getting
<1> DEFINE all == b1 \o b2
<1>14. /\ all \in Seq(Byte) /\ Len(all) = a + b
       /\ \A i \in 1..(a + b) : all[i] = IF i <= a THEN b1[i] ELSE b2[i - a]
  <2>1. /\ all \in Seq(Byte) /\ Len(all) = Len(b1) + Len(b2)
        /\ \A i \in 1..(Len(b1) + Len(b2)) : all[i] = IF i <= Len(b1) THEN b1[i] ELSE b2[i - Len(b1)]
    BY ConcatProperties
  <2> HIDE DEF all
  <2> QED
    BY <1>5, <1>10, <2>1
<1> HIDE DEF all
<1>15. ASSUME NEW i \in 1..n PROVE all[i] = Contents(r)[i]
  <2>1. CASE i <= a
    <3>1. i \in 1..a
      BY <1>3, <2>1
    <3>2. all[i] = b1[i]
      BY <1>12, <1>14, <2>1
    <3> QED
      BY <1>9, <3>1, <3>2
  <2>2. CASE i > a
    <3>1. i - a \in 1..b /\ i - a \in 1..(r.fill - a) /\ a + (i - a) = i
      <4>1. /\ a \in Nat /\ b \in Nat /\ r.fill \in Nat /\ b <= r.fill - a
            /\ i \in Nat /\ i <= a + b
        BY <1>3, <1>7, <1>9, <1>11, <1>12
      <4> QED
        BY <2>2, <4>1
    <3>2. all[i] = b2[i - a]
      BY <1>3, <1>12, <1>14, <2>2
    <3>3. b2[i - a] = Contents(r1)[i - a] /\ Contents(r1)[i - a] = Contents(r)[a + (i - a)]
      BY <1>9, <1>10, <3>1
    <3> QED
      BY <3>1, <3>2, <3>3
  <2> QED
    BY <1>3, <1>7, <1>12, <2>1, <2>2
<1>16. ASSUME NEW i \in 1..(r.fill - n) PROVE Contents(q)[i] = Contents(r)[n + i]
  <2>1. i \in 1..(r1.fill - b) /\ b + i \in 1..(r.fill - a) /\ a + (b + i) = n + i
    <3>1. n = a + b /\ r1.fill - b = r.fill - n /\ i \in Nat /\ i >= 1 /\ i <= r1.fill - b
      BY <1>3, <1>7, <1>11, <1>12
    <3> QED
      BY <1>3, <1>7, <1>11, <3>1
  <2>2. Contents(q)[i] = Contents(r1)[b + i] /\ Contents(r1)[b + i] = Contents(r)[a + (b + i)]
    BY <1>9, <1>10, <2>1
  <2> QED
    BY <2>1, <2>2
<1>17. q.fill = r.fill - n
  BY <1>3, <1>7, <1>9, <1>10, <1>11, <1>12
<1>18. Gets(r, n, q, all)
  BY <1>12, <1>14, <1>15, <1>16, <1>17 DEF Gets
<1>19. Get(r, want).ring = q /\ Get(r, want).got = all
  BY <1>13 DEF Getting, all
<1> QED
  BY <1>1, <1>14, <1>18, <1>19 DEF n

(* get() takes the oldest bytes, as many as there are, in two passes. *)
LEMMA GetTakesAlways ==
    ASSUME NEW Byte, NEW r \in Ring(Byte), NEW want \in Nat
    PROVE  GetTakes(r, want)
<1> DEFINE n   == Min({r.fill, want})
           q   == Get(r, want).ring
           got == Get(r, want).got
           old == Contents(r)
<1>1. /\ n = IF r.fill <= want THEN r.fill ELSE want
      /\ q \in Ring(Byte) /\ got \in Seq(Byte)
      /\ Gets(r, n, q, got)
  BY GetDoes
<1>2. r.fill \in Nat /\ n \in 0..r.fill
  BY <1>1, RingType
<1> HIDE DEF n, q, got
<1>3. old \in Seq(Byte) /\ Len(old) = r.fill
  BY ContentsType
<1>4. Contents(q) \in Seq(Byte) /\ Len(Contents(q)) = r.fill - n
  BY <1>1, ContentsType DEF Gets
<1>5. /\ Len(got) = n
      /\ \A i \in 1..n : got[i] = old[i]
      /\ \A i \in 1..(r.fill - n) : Contents(q)[i] = old[n + i]
  BY <1>1 DEF Gets
<1> HIDE DEF old
<1> DEFINE front == SubSeq(old, 1, n)
           back  == SubSeq(old, n + 1, r.fill)
<1>6. front \in Seq(Byte) /\ Len(front) = n /\ \A i \in 1..n : front[i] = old[i]
  BY <1>2, <1>3
<1>7. /\ back \in Seq(Byte) /\ Len(back) = r.fill - n
      /\ \A i \in 1..(r.fill - n) : back[i] = old[n + i]
  BY <1>2, <1>3
<1> HIDE DEF front, back
<1>8. got = front
  BY <1>1, <1>5, <1>6, SeqEqual
<1>9. Contents(q) = back
  BY <1>4, <1>5, <1>7, SeqEqual
<1> QED
  BY <1>8, <1>9 DEF GetTakes, n, q, got, old, front, back

(* The ring is a FIFO, whatever it holds and wherever it is wrapped. *)
THEOREM RingAlwaysFifo ==
    ASSUME NEW Byte, Byte \subseteq Nat, NEW r \in Ring(Byte)
    PROVE  RingIsFifo(r)
<1> SUFFICES ASSUME NEW n \in 0..(Capacity + 1)
             PROVE  PutAppends(r, [i \in 1..n |-> i]) /\ GetTakes(r, n)
  BY DEF RingIsFifo
<1>1. r \in Ring(Nat)
  BY DEF Ring
<1>2. n \in Nat
  BY CapacityAssumption
<1>3. [i \in 1..n |-> i] \in Seq(Nat)
  BY <1>2
<1> QED
  BY <1>1, <1>2, <1>3, PutAppendsAlways, GetTakesAlways
=============================================================================
