--------------------------- MODULE IoStreamProofs ---------------------------
(***************************************************************************)
(* Proofs about IoStream, for any file, any size of the ring buffer and    *)
(* of what is read at a time, buffered or not.                             *)
(***************************************************************************)
EXTENDS IoStream, FifoBufProofs

(* The reader has data that it has still to put into the ring. *)
Pending == rpc \in {"data", "fill", "freeWait"}

(* Where the client is: the place of the last byte that it has. *)
Here == origin + Len(got)

-----------------------------------------------------------------------------
(* The invariant: the bytes the client has, those of the ring, those of    *)
(* the reader and those of the file that are still to be read follow one   *)
(* another, except where a seek has moved the file already.                *)

InRing == \A i \in 1..ring.fill : Contents(ring)[i] = Here + i

InChunk ==
    Pending /\ ~afterSeek => \A i \in 1..Len(chunk) : chunk[i] = Here + ring.fill + i

AtSource ==
    cpc # "seekHalf" /\ ~afterSeek /\ (Pending \/ ~stopThread) =>
      source = Here + ring.fill + (IF Pending THEN Len(chunk) ELSE 0)

(* A seek leaves nothing behind, and what comes next is read after it. *)
Moved ==
    /\ afterSeek => ring.fill = 0 /\ got = <<>> /\ (cpc # "seekHalf" => source = origin)
    /\ cpc = "seekHalf" => source = want

(* An end of file that counts is the end of the file. *)
AtEnd ==
    /\ buffered /\ eof => ~Pending
    /\ buffered /\ eof /\ cpc # "seekHalf" => ~afterSeek /\ source = FileSize
    /\ rpc = "end" /\ ~afterSeek /\ cpc # "seekHalf" => source = FileSize

(* A stream without a buffer has no reader. *)
Unbuffered ==
    ~buffered => /\ rpc = "exit" /\ ring.fill = 0 /\ ~afterSeek /\ ~stopThread
                 /\ cpc \in {"closed", "idle", "join"}
                 /\ tell <= source

Telling ==
    buffered => /\ cpc = "idle" => tell = Here
                /\ cpc \in {"read", "readWait"} => tell + received = Here

StreamInv ==
    /\ TypeOK
    /\ BytesInOrder /\ InRing /\ InChunk /\ AtSource
    /\ Moved /\ AtEnd /\ Unbuffered /\ Telling

-----------------------------------------------------------------------------
LEMMA RingBytes == ASSUME TypeOK PROVE ring.fill \in Nat /\ ring.fill <= Capacity
BY RingType DEF TypeOK

LEMMA BytesAre ==
    ASSUME NEW from \in Nat, NEW n \in Nat
    PROVE  /\ Bytes(from, n) \in Seq(Nat) /\ Len(Bytes(from, n)) = n
           /\ \A i \in 1..n : Bytes(from, n)[i] = from + i
           /\ from + n <= FileSize => Bytes(from, n) \in Seq(1..FileSize)
BY FileAssumption DEF Bytes

(* What the client gets next, behind what it has. *)
LEMMA GotMore ==
    ASSUME TypeOK, BytesInOrder, NEW more \in Seq(Nat),
           \A i \in 1..Len(more) : more[i] = Here + i, Here + Len(more) <= FileSize
    PROVE  LET new == got \o more
           IN  /\ new \in Seq(1..FileSize)
               /\ Len(new) = Len(got) + Len(more)
               /\ new = Bytes(origin, Len(new))
<1> DEFINE new == got \o more
           n   == Len(got) + Len(more)
<1>1. got \in Seq(Nat) /\ Len(got) \in Nat /\ Len(more) \in Nat /\ origin \in Nat
  BY FileAssumption DEF TypeOK
<1>2. /\ new \in Seq(Nat) /\ Len(new) = n
      /\ \A i \in 1..n : new[i] = IF i <= Len(got) THEN got[i] ELSE more[i - Len(got)]
  BY <1>1, ConcatProperties
<1> HIDE DEF new
<1>3. \A i \in 1..Len(got) : got[i] = origin + i
  BY <1>1, BytesAre DEF BytesInOrder
<1>4. /\ Bytes(origin, n) \in Seq(Nat) /\ Len(Bytes(origin, n)) = n
      /\ \A i \in 1..n : Bytes(origin, n)[i] = origin + i
      /\ Bytes(origin, n) \in Seq(1..FileSize)
  <2>1. n \in Nat /\ origin + n <= FileSize
    BY <1>1, FileAssumption DEF Here
  <2> QED
    BY <1>1, <2>1, BytesAre
<1>5. ASSUME NEW i \in 1..n PROVE new[i] = Bytes(origin, n)[i]
  <2>1. CASE i <= Len(got)
    <3>1. i \in 1..Len(got) /\ new[i] = got[i]
      BY <1>1, <1>2, <2>1
    <3> QED
      BY <1>3, <1>4, <3>1
  <2>2. CASE i > Len(got)
    <3>1. i - Len(got) \in 1..Len(more) /\ new[i] = more[i - Len(got)]
      BY <1>1, <1>2, <2>2
    <3>2. more[i - Len(got)] = origin + i
      BY <1>1, <3>1 DEF Here
    <3> QED
      BY <1>4, <3>1, <3>2
  <2> QED
    BY <1>1, <2>1, <2>2
<1>6. new = Bytes(origin, n)
  BY <1>2, <1>4, <1>5, SeqEqual
<1> QED
  BY <1>2, <1>4, <1>6 DEF new

LEMMA EmptyIsFifo == EmptyRing(0) \in Ring(0..FileSize) /\ EmptyRing(0).fill = 0
BY FileAssumption, CapacityAssumption DEF EmptyRing, Ring, Cells

LEMMA NothingGot == Bytes(0, 0) = <<>> /\ \A n \in Nat : Bytes(n, Len(<<>>)) = <<>>
BY DEF Bytes

LEMMA InitStream == Init => StreamInv
<1> SUFFICES ASSUME Init PROVE StreamInv
  OBVIOUS
<1>1. /\ ring.fill = 0 /\ got = <<>> /\ Len(got) = 0 /\ Here = 0
      /\ ring \in Ring(0..FileSize)
  BY EmptyIsFifo DEF Init, Here
<1>2. TypeOK
  <2>1. source \in 0..FileSize /\ tell \in -1..FileSize /\ origin \in 0..FileSize
    BY FileAssumption DEF Init
  <2>2. chunk \in Seq(1..FileSize) /\ got \in Seq(1..FileSize) /\ {want, received} \subseteq Nat
    BY EmptyType DEF Init
  <2>3. buffered \in BOOLEAN /\ {eof, afterSeek, readError, stopThread} \subseteq BOOLEAN
    BY ModeAssumption DEF Init
  <2> QED
    BY <1>1, <2>1, <2>2, <2>3 DEF Init, TypeOK, ReaderPcs, ClientPcs
<1>3. BytesInOrder
  BY <1>1, NothingGot DEF Init, BytesInOrder
<1> QED
  BY <1>1, <1>2, <1>3 DEF Init, StreamInv, InRing, InChunk, AtSource, Moved, AtEnd, Unbuffered,
     Telling, Pending

-----------------------------------------------------------------------------
(* The reader. *)

LEMMA ReaderReadsOn == ASSUME StreamInv, ReaderReads PROVE StreamInv'
<1> USE DEF StreamInv
<1>1. /\ UNCHANGED <<ring, got, origin, tell, cpc, want, received, buffered, eof, stopThread, readError>>
      /\ rpc = "top" /\ ~stopThread /\ cpc # "seekHalf" /\ afterSeek' = FALSE /\ buffered
  BY DEF ReaderReads, clientVars, callVars, history, Unbuffered
<1>2. source = Here + ring.fill
  BY <1>1, RingBytes DEF AtSource, Moved, Pending, Here, TypeOK
<1>3. Here' = Here /\ InRing' /\ BytesInOrder' /\ Telling' /\ Unbuffered'
  BY <1>1 DEF Here, InRing, BytesInOrder, Telling, Unbuffered
<1>4. CASE \E n \in 1..Min({ChunkMax, FileSize - source}) :
             /\ rpc' = "data"
             /\ chunk' = Bytes(source, n)
             /\ source' = source + n
  <2>1. PICK n \in 1..Min({ChunkMax, FileSize - source}) :
          rpc' = "data" /\ chunk' = Bytes(source, n) /\ source' = source + n
    BY <1>4
  <2>2. source \in Nat /\ n \in Nat /\ n >= 1 /\ source + n <= FileSize
    <3>1. source \in 0..FileSize
      BY DEF TypeOK
    <3>2. Min({ChunkMax, FileSize - source}) = IF ChunkMax <= FileSize - source THEN ChunkMax ELSE FileSize - source
      BY <3>1, MinOfTwo, ChunkAssumption, FileAssumption
    <3> QED
      BY <3>1, <3>2, ChunkAssumption, FileAssumption
  <2>3. chunk' \in Seq(1..FileSize) /\ Len(chunk') = n /\ \A i \in 1..n : chunk'[i] = source + i
    BY <2>1, <2>2, BytesAre
  <2>4. TypeOK'
    <3>1. source' \in 0..FileSize
      BY <2>1, <2>2, FileAssumption
    <3> QED
      BY <1>1, <2>1, <2>3, <3>1 DEF TypeOK, ReaderPcs
  <2>5. ~eof
    BY <1>1, <2>2, FileAssumption DEF AtEnd
  <2>6. InChunk' /\ AtSource'
    BY <1>1, <1>2, <1>3, <2>1, <2>3 DEF InChunk, AtSource, Pending
  <2>7. Moved' /\ AtEnd'
    BY <1>1, <2>1, <2>5 DEF Moved, AtEnd
  <2> QED
    BY <1>3, <2>4, <2>6, <2>7
<1>5. CASE source = FileSize /\ rpc' = "end" /\ UNCHANGED <<chunk, source>>
  <2>1. TypeOK'
    BY <1>1, <1>5 DEF TypeOK, ReaderPcs
  <2>2. InChunk' /\ AtSource'
    BY <1>1, <1>2, <1>3, <1>5, RingBytes DEF InChunk, AtSource, Pending, Here, TypeOK
  <2>3. Moved' /\ AtEnd'
    BY <1>1, <1>5 DEF Moved, AtEnd, Pending
  <2> QED
    BY <1>3, <2>1, <2>2, <2>3
<1>6. CASE rpc' = "failed" /\ UNCHANGED <<chunk, source>>
  <2>1. TypeOK'
    BY <1>1, <1>6 DEF TypeOK, ReaderPcs
  <2>2. InChunk' /\ AtSource'
    BY <1>1, <1>2, <1>3, <1>6, RingBytes DEF InChunk, AtSource, Pending, Here, TypeOK
  <2>3. Moved' /\ AtEnd'
    BY <1>1, <1>6 DEF Moved, AtEnd, Pending
  <2> QED
    BY <1>3, <2>1, <2>2, <2>3
<1> QED
  BY <1>4, <1>5, <1>6 DEF ReaderReads

LEMMA ReaderExitsOn == ASSUME StreamInv, ReaderExits PROVE StreamInv'
<1> USE DEF StreamInv
<1>1. /\ UNCHANGED <<ring, got, origin, tell, cpc, want, received, buffered, eof, stopThread, readError,
                     source, afterSeek>>
      /\ rpc' = "exit" /\ chunk' = <<>> /\ stopThread
  BY DEF ReaderExits, clientVars, callVars, history
<1>2. TypeOK'
  BY <1>1, EmptyType DEF TypeOK, ReaderPcs
<1> QED
  BY <1>1, <1>2 DEF BytesInOrder, InRing, InChunk, AtSource, Moved, AtEnd, Unbuffered, Telling, Pending, Here

LEMMA ReaderDropsOn == ASSUME StreamInv, ReaderDrops PROVE StreamInv'
<1> USE DEF StreamInv
<1>1. /\ UNCHANGED <<ring, got, origin, tell, cpc, want, received, buffered, stopThread, readError,
                     source, afterSeek>>
      /\ rpc' = "top" /\ chunk' = <<>> /\ afterSeek /\ eof' = (eof /\ rpc # "data")
  BY DEF ReaderDrops, clientVars, callVars, history, Stale
<1>2. TypeOK'
  BY <1>1, EmptyType DEF TypeOK, ReaderPcs
<1> QED
  BY <1>1, <1>2 DEF BytesInOrder, InRing, InChunk, AtSource, Moved, AtEnd, Unbuffered, Telling, Pending, Here

(* The client that a notification wakes up is in the middle of a read. *)
LEMMA Woken ==
    ASSUME TypeOK, NotifyFill
    PROVE  /\ cpc' \in ClientPcs
           /\ (cpc' = "seekHalf" <=> cpc = "seekHalf") /\ (cpc' = "idle" <=> cpc = "idle")
           /\ cpc' = cpc \/ (cpc = "readWait" /\ cpc' = "read")
BY DEF TypeOK, NotifyFill, ClientPcs

LEMMA ReaderFailsOn == ASSUME StreamInv, ReaderFails PROVE StreamInv'
<1> USE DEF StreamInv
<1>1. /\ UNCHANGED <<ring, got, origin, tell, want, received, buffered, stopThread, chunk, eof,
                     source, afterSeek>>
      /\ rpc = "failed" /\ rpc' = "exit" /\ readError' = TRUE /\ NotifyFill
  BY DEF ReaderFails, callVars, history
<1>2. TypeOK'
  BY <1>1, Woken DEF TypeOK, ReaderPcs
<1> QED
  BY <1>1, <1>2, Woken DEF BytesInOrder, InRing, InChunk, AtSource, Moved, AtEnd, Unbuffered, Telling,
     Pending, Here

LEMMA ReaderAtEndOn == ASSUME StreamInv, ReaderAtEnd PROVE StreamInv'
<1> USE DEF StreamInv
<1>1. /\ UNCHANGED <<ring, got, origin, tell, want, received, buffered, stopThread, chunk, readError,
                     source, afterSeek>>
      /\ rpc = "end" /\ rpc' = "endWait" /\ eof' = TRUE /\ ~afterSeek /\ NotifyFill
  BY DEF ReaderAtEnd, callVars, history, Stale
<1>2. TypeOK'
  BY <1>1, Woken DEF TypeOK, ReaderPcs
<1> QED
  BY <1>1, <1>2, Woken DEF BytesInOrder, InRing, InChunk, AtSource, Moved, AtEnd, Unbuffered, Telling,
     Pending, Here

(* The ring takes what it has room for, and the reader keeps the rest. *)
LEMMA ReaderFillsOn == ASSUME StreamInv, ReaderFills PROVE StreamInv'
<1> USE DEF StreamInv
<1> DEFINE n == Min({Room(ring), Len(chunk)})
<1>1. /\ UNCHANGED <<got, origin, tell, want, received, buffered, stopThread, readError, source, afterSeek>>
      /\ Pending /\ ~afterSeek /\ eof' = (eof /\ rpc # "data")
      /\ ring' = Put(ring, chunk).ring /\ chunk' = Put(ring, chunk).data
      /\ rpc' \in {"top", "freeWait"}
      /\ rpc' = "top" => chunk' = <<>> \/ stopThread
      /\ buffered
  BY DEF ReaderFills, callVars, history, Stale, Pending, Unbuffered
<1>2. /\ ring \in Ring(0..FileSize) /\ ring \in Ring(Nat)
      /\ chunk \in Seq(1..FileSize) /\ chunk \in Seq(0..FileSize)
  BY FileAssumption DEF TypeOK, Ring
<1>3. /\ n = IF Room(ring) <= Len(chunk) THEN Room(ring) ELSE Len(chunk)
      /\ chunk' = SubSeq(chunk, n + 1, Len(chunk))
      /\ ring' \in Ring(0..FileSize)
      /\ Puts(ring, chunk, n, ring')
  BY <1>1, <1>2, PutDoes
<1>4. n \in 0..Len(chunk) /\ ring.fill \in Nat /\ origin \in Nat /\ Len(got) \in Nat /\ Here \in Nat
  <2>1. Room(ring) \in Nat /\ Len(chunk) \in Nat
    BY <1>2, RoomType
  <2>2. n \in 0..Len(chunk)
    BY <1>3, <2>1
  <2>3. origin \in Nat /\ Len(got) \in Nat
    BY FileAssumption DEF TypeOK
  <2> QED
    BY <2>2, <2>3, RingBytes DEF Here
<1> HIDE DEF n
<1>5. /\ chunk' \in Seq(1..FileSize) /\ Len(chunk') = Len(chunk) - n
      /\ \A i \in 1..(Len(chunk) - n) : chunk'[i] = chunk[n + i]
  BY <1>2, <1>3, <1>4, SuffixType, SuffixElements
<1>6. /\ cpc' \in ClientPcs
      /\ (cpc' = "seekHalf" <=> cpc = "seekHalf") /\ (cpc' = "idle" <=> cpc = "idle")
      /\ cpc' = cpc \/ (cpc = "readWait" /\ cpc' = "read")
  BY Woken DEF ReaderFills, TypeOK
<1>7. eof' = FALSE
  BY <1>1 DEF AtEnd, TypeOK
<1>8. TypeOK'
  BY <1>1, <1>3, <1>5, <1>6, <1>7 DEF TypeOK, ReaderPcs
<1>9. Here' = Here /\ BytesInOrder'
  BY <1>1 DEF Here, BytesInOrder
<1>10. ring'.fill = ring.fill + n
  BY <1>3 DEF Puts
<1>11. InRing'
  <2>1. ASSUME NEW i \in 1..(ring.fill + n) PROVE Contents(ring')[i] = Here + i
    <3>1. CASE i <= ring.fill
      <4>1. i \in 1..ring.fill
        BY <1>4, <3>1
      <4> QED
        BY <1>3, <4>1 DEF Puts, InRing
    <3>2. CASE i > ring.fill
      <4>1. i - ring.fill \in 1..n /\ i - ring.fill \in 1..Len(chunk) /\ ring.fill + (i - ring.fill) = i
        <5>1. /\ ring.fill \in Nat /\ n \in Nat /\ n <= Len(chunk) /\ Len(chunk) \in Nat
              /\ i \in Nat /\ i <= ring.fill + n
          BY <1>4
        <5> QED
          BY <3>2, <5>1
      <4>2. Contents(ring')[ring.fill + (i - ring.fill)] = chunk[i - ring.fill]
        BY <1>3, <4>1 DEF Puts
      <4>3. chunk[i - ring.fill] = Here + ring.fill + (i - ring.fill)
        BY <1>1, <4>1 DEF InChunk
      <4> QED
        BY <1>4, <4>1, <4>2, <4>3, SMTT(30)
    <3> QED
      BY <1>4, <3>1, <3>2
  <2> QED
    BY <1>9, <1>10, <2>1 DEF InRing
<1>12. InChunk'
  <2>1. ASSUME NEW i \in 1..(Len(chunk) - n) PROVE chunk'[i] = Here + (ring.fill + n) + i
    <3>1. n + i \in 1..Len(chunk)
      BY <1>4
    <3> QED
      BY <1>1, <1>4, <1>5, <3>1 DEF InChunk
  <2>2. Len(chunk') = Len(chunk) - n /\ Here' = Here /\ ring'.fill = ring.fill + n
    BY <1>5, <1>9, <1>10
  <2> QED
    BY <2>1, <2>2 DEF InChunk
<1>13. AtSource'
  <2>1. cpc # "seekHalf" => source = Here + ring.fill + Len(chunk)
    BY <1>1 DEF AtSource
  <2>2. chunk' = <<>> => Len(chunk) = n
    BY <1>4, <1>5
  <2>3. Pending' \/ ~stopThread => (IF Pending' THEN Len(chunk') ELSE 0) = Len(chunk) - n
    BY <1>1, <1>4, <1>5, <2>2 DEF Pending
  <2>4. Here + (ring.fill + n) + (Len(chunk) - n) = Here + ring.fill + Len(chunk)
    BY <1>4
  <2> QED
    BY <1>1, <1>6, <1>9, <1>10, <2>1, <2>3, <2>4 DEF AtSource
<1>14. Moved' /\ AtEnd'
  BY <1>1, <1>6, <1>7 DEF Moved, AtEnd
<1>15. Unbuffered' /\ Telling'
  BY <1>1, <1>6, <1>9 DEF Unbuffered, Telling
<1> QED
  BY <1>8, <1>9, <1>11, <1>12, <1>13, <1>14, <1>15

LEMMA ReaderOn == ASSUME StreamInv, Reader PROVE StreamInv'
BY ReaderReadsOn, ReaderExitsOn, ReaderDropsOn, ReaderFailsOn, ReaderAtEndOn, ReaderFillsOn DEF Reader

-----------------------------------------------------------------------------
(* The client. *)

(* The reader that is notified goes on with what it has. *)
LEMMA Notified ==
    ASSUME TypeOK, NotifyFree
    PROVE  /\ rpc' \in ReaderPcs
           /\ Pending' <=> Pending
           /\ rpc' = "end" <=> rpc = "end"
           /\ rpc = "exit" => rpc' = "exit"
BY DEF TypeOK, NotifyFree, ReaderPcs, Pending

LEMMA OpenOn == ASSUME StreamInv, Open PROVE StreamInv'
<1> USE DEF StreamInv
<1>1. /\ cpc' = "idle" /\ ring' = EmptyRing(0) /\ source' = 0 /\ tell' = 0 /\ origin' = 0 /\ got' = <<>>
      /\ eof' = FALSE /\ afterSeek' = FALSE /\ readError' = FALSE /\ stopThread' = FALSE
      /\ rpc' = IF buffered' THEN "top" ELSE "exit"
      /\ chunk' = <<>> /\ want' = 0 /\ received' = received /\ buffered' \in BOOLEAN
  BY ModeAssumption DEF Open
<1>2. ring'.fill = 0 /\ ring' \in Ring(0..FileSize) /\ Here' = 0
  BY <1>1, EmptyIsFifo DEF Here
<1>3. TypeOK'
  <2>1. source' \in 0..FileSize /\ tell' \in -1..FileSize /\ origin' \in 0..FileSize
    BY <1>1, FileAssumption
  <2>2. chunk' \in Seq(1..FileSize) /\ got' \in Seq(1..FileSize) /\ {want', received'} \subseteq Nat
    BY <1>1, EmptyType DEF TypeOK
  <2> QED
    BY <1>1, <1>2, <2>1, <2>2 DEF TypeOK, ReaderPcs, ClientPcs
<1>4. BytesInOrder'
  BY <1>1, NothingGot DEF BytesInOrder
<1> QED
  BY <1>1, <1>2, <1>3, <1>4 DEF InRing, InChunk, AtSource, Moved, AtEnd, Unbuffered, Telling, Pending

LEMMA ReadCallOn == ASSUME StreamInv, ReadCall PROVE StreamInv'
<1> USE DEF StreamInv
<1>1. /\ UNCHANGED <<buffered, ring, source, tell, eof, afterSeek, readError, stopThread, rpc, chunk,
                     origin, got>>
      /\ want' \in Nat /\ received' = 0 /\ cpc = "idle" /\ cpc' = "read" /\ buffered
  BY CountsAssumption DEF ReadCall, readerVars, history
<1>2. TypeOK'
  BY <1>1 DEF TypeOK, ClientPcs
<1>3. Telling'
  <2>1. Here' = Here /\ tell = Here /\ Here \in Nat
    BY <1>1, FileAssumption DEF Here, Telling, TypeOK
  <2> QED
    BY <1>1, <2>1 DEF Telling
<1> QED
  BY <1>1, <1>2, <1>3 DEF BytesInOrder, InRing, InChunk, AtSource, Moved, AtEnd, Unbuffered, Pending, Here

(* The client takes from the ring. *)
LEMMA ReadStepTakes ==
    ASSUME StreamInv, ReadStep
    PROVE  \E more \in Seq(Nat) :
             /\ got' = got \o more /\ got' \in Seq(1..FileSize) /\ BytesInOrder'
             /\ Len(got') = Len(got) + Len(more) /\ Here' = Here + Len(more) /\ Here' <= FileSize
             /\ ring' \in Ring(0..FileSize) /\ ring'.fill = ring.fill - Len(more)
             /\ Len(more) <= ring.fill
             /\ want' = want - Len(more) /\ want' \in Nat
             /\ received' = received + Len(more)
             /\ InRing'
             /\ more = <<>> => UNCHANGED rpc
             /\ more # <<>> => NotifyFree
<1> USE DEF StreamInv
<1>1. PICK w \in {0, want} :
        LET taken == Get(ring, w)
        IN  /\ ring' = taken.ring
            /\ want' = want - Len(taken.got)
            /\ got' = got \o taken.got
            /\ received' = received + Len(taken.got)
            /\ IF taken.got # <<>> THEN NotifyFree ELSE UNCHANGED rpc
  BY DEF ReadStep
<1> DEFINE more == Get(ring, w).got
           n    == Min({ring.fill, w})
<1>2. ring \in Ring(0..FileSize) /\ w \in Nat /\ want \in Nat /\ w <= want
  BY DEF TypeOK
<1>3. /\ n = IF ring.fill <= w THEN ring.fill ELSE w
      /\ ring' \in Ring(0..FileSize) /\ more \in Seq(0..FileSize)
      /\ Gets(ring, n, ring', more)
  BY <1>1, <1>2, GetDoes
<1>4. /\ ring' \in Ring(0..FileSize) /\ want' = want - Len(more) /\ got' = got \o more
      /\ received' = received + Len(more) /\ UNCHANGED origin
      /\ IF more # <<>> THEN NotifyFree ELSE UNCHANGED rpc
  BY <1>1, <1>3 DEF ReadStep
<1> HIDE DEF more, n
<1>5. /\ Len(more) = n /\ ring'.fill = ring.fill - n
      /\ \A i \in 1..n : more[i] = Contents(ring)[i]
      /\ \A i \in 1..(ring.fill - n) : Contents(ring')[i] = Contents(ring)[n + i]
  BY <1>3 DEF Gets
<1>6. /\ n \in Nat /\ n <= ring.fill /\ n <= want /\ ring.fill \in Nat
      /\ origin \in Nat /\ Len(got) \in Nat /\ Here \in Nat
  BY <1>2, <1>3, RingBytes, FileAssumption DEF TypeOK, Here
<1>7. more \in Seq(Nat)
  BY <1>3, FileAssumption
<1>8. \A i \in 1..Len(more) : more[i] = Here + i
  BY <1>5, <1>6 DEF InRing
<1>9. Here + Len(more) <= FileSize
  <2>1. CASE n = 0
    <3>1. CASE Len(got) = 0
      BY <1>5, <1>6, <2>1, <3>1, FileAssumption DEF Here, TypeOK
    <3>2. CASE Len(got) # 0
      <4>1. Len(got) \in 1..Len(got) /\ got \in Seq(1..FileSize)
        BY <1>6, <3>2 DEF TypeOK
      <4>2. got[Len(got)] \in 1..FileSize
        BY <4>1, ElementType
      <4>3. got[Len(got)] = origin + Len(got)
        <5>1. \A i \in 1..Len(got) : Bytes(origin, Len(got))[i] = origin + i
          BY <1>6, BytesAre
        <5>2. got[Len(got)] = Bytes(origin, Len(got))[Len(got)]
          BY DEF BytesInOrder
        <5> QED
          BY <4>1, <5>1, <5>2
      <4> QED
        BY <1>5, <1>6, <2>1, <4>2, <4>3, FileAssumption DEF Here
    <3> QED
      BY <3>1, <3>2
  <2>2. CASE n > 0
    <3>1. n \in 1..Len(more)
      BY <1>5, <1>6, <2>2
    <3>2. more[n] \in 0..FileSize /\ more[n] = Here + n
      BY <1>3, <1>8, <3>1, ElementType
    <3> QED
      BY <1>5, <1>6, <3>2, FileAssumption
  <2> QED
    BY <1>6, <2>1, <2>2
<1>10. /\ got' \in Seq(1..FileSize) /\ Len(got') = Len(got) + Len(more)
       /\ got' = Bytes(origin, Len(got'))
  BY <1>4, <1>7, <1>8, <1>9, GotMore
<1>11. BytesInOrder' /\ Here' = Here + Len(more)
  BY <1>4, <1>5, <1>6, <1>10 DEF BytesInOrder, Here
<1>12. InRing'
  <2>1. ASSUME NEW i \in 1..(ring.fill - n) PROVE Contents(ring')[i] = Here + n + i
    <3>1. n + i \in 1..ring.fill
      BY <1>6
    <3> QED
      BY <1>5, <1>6, <3>1 DEF InRing
  <2> QED
    BY <1>5, <1>11, <2>1 DEF InRing
<1> QED
  <2>1. Here' <= FileSize /\ Len(more) <= ring.fill /\ want' \in Nat /\ ring'.fill = ring.fill - Len(more)
    BY <1>2, <1>4, <1>5, <1>6, <1>9, <1>11
  <2> WITNESS more \in Seq(Nat)
  <2> QED
    BY <1>4, <1>10, <1>11, <1>12, <2>1

LEMMA ReadStepOn == ASSUME StreamInv, ReadStep PROVE StreamInv'
<1> USE DEF StreamInv
<1>1. /\ UNCHANGED <<buffered, source, eof, afterSeek, readError, stopThread, chunk, origin>>
      /\ cpc = "read" /\ cpc' \in {"idle", "readWait"} /\ buffered
      /\ tell' = IF cpc' = "idle" THEN tell + received' ELSE tell
  BY DEF ReadStep, Unbuffered, Told
<1>2. PICK more \in Seq(Nat) :
        /\ got' = got \o more /\ got' \in Seq(1..FileSize) /\ BytesInOrder'
        /\ Len(got') = Len(got) + Len(more) /\ Here' = Here + Len(more) /\ Here' <= FileSize
        /\ ring' \in Ring(0..FileSize) /\ ring'.fill = ring.fill - Len(more)
        /\ Len(more) <= ring.fill
        /\ want' = want - Len(more) /\ want' \in Nat
        /\ received' = received + Len(more)
        /\ InRing'
        /\ more = <<>> => UNCHANGED rpc
        /\ more # <<>> => NotifyFree
  BY ReadStepTakes
<1>3. /\ Len(more) \in Nat /\ ring.fill \in Nat /\ origin \in Nat /\ Len(got) \in Nat /\ Here \in Nat
      /\ received \in Nat /\ tell \in Int /\ FileSize \in Nat /\ source \in Nat
  BY RingBytes, FileAssumption DEF TypeOK, Here
<1>4. /\ rpc' \in ReaderPcs /\ (Pending' <=> Pending) /\ (rpc' = "end" <=> rpc = "end")
  BY <1>2, Notified DEF TypeOK, Pending
<1>5. tell + received = Here
  BY <1>1 DEF Telling
<1>6. cpc' = "idle" => tell' = Here'
  BY <1>1, <1>2, <1>3, <1>5
<1>7. tell' \in -1..FileSize
  <2>1. CASE cpc' = "idle"
    <3>1. Here' \in Nat /\ Here' <= FileSize
      BY <1>2, <1>3
    <3> QED
      BY <1>3, <1>6, <2>1, <3>1
  <2>2. CASE cpc' # "idle"
    BY <1>1, <2>2 DEF TypeOK
  <2> QED
    BY <2>1, <2>2
<1>8. TypeOK'
  <2>1. received' \in Nat
    BY <1>2, <1>3
  <2> QED
    BY <1>1, <1>2, <1>4, <1>7, <2>1 DEF TypeOK, ClientPcs
<1>9. Here' + ring'.fill = Here + ring.fill
  BY <1>2, <1>3
<1>10. InChunk' /\ AtSource'
  BY <1>1, <1>3, <1>4, <1>9 DEF InChunk, AtSource
<1>11. Moved'
  <2>1. ring.fill = 0 /\ got = <<>> => ring'.fill = 0 /\ got' = <<>>
    BY <1>2, <1>3
  <2> QED
    BY <1>1, <2>1 DEF Moved
<1>12. AtEnd'
  BY <1>1, <1>4 DEF AtEnd
<1>13. Telling'
  <2>1. ASSUME cpc' = "readWait" PROVE tell' + received' = Here'
    <3>1. tell' = tell /\ received' = received + Len(more) /\ Here' = Here + Len(more)
      BY <1>1, <1>2, <2>1
    <3> HIDE DEF Here
    <3> QED
      BY <1>3, <1>5, <3>1
  <2> QED
    BY <1>1, <1>6, <2>1 DEF Telling
<1> QED
  BY <1>1, <1>2, <1>8, <1>10, <1>11, <1>12, <1>13 DEF Unbuffered

LEMMA ReadUnbufferedOn == ASSUME StreamInv, ReadUnbuffered PROVE StreamInv'
<1> USE DEF StreamInv
<1>1. /\ UNCHANGED <<buffered, ring, afterSeek, readError, stopThread, rpc, chunk, cpc, want, received,
                     origin>>
      /\ cpc = "idle" /\ ~buffered /\ rpc = "exit" /\ ring.fill = 0 /\ ~afterSeek /\ tell <= source
      /\ ~stopThread
  BY DEF ReadUnbuffered, readerVars, clientVars, callVars, Unbuffered
<1>2. /\ FileSize \in Nat /\ source \in 0..FileSize /\ tell \in -1..FileSize /\ origin \in Nat
      /\ Len(got) \in Nat /\ Here \in Nat
  BY FileAssumption DEF TypeOK, Here
<1>3. source = Here
  BY <1>1, <1>2 DEF AtSource, Pending
<1>4. CASE /\ UNCHANGED <<source, got>>
           /\ tell' \in -1..FileSize /\ tell' <= source /\ eof' \in BOOLEAN
  <2>1. TypeOK'
    BY <1>1, <1>4 DEF TypeOK
  <2> QED
    BY <1>1, <1>4, <2>1 DEF BytesInOrder, InRing, InChunk, AtSource, Moved, AtEnd, Unbuffered, Telling,
       Pending, Here
<1>5. CASE \E c \in Counts : \E n \in 1..Min({c, FileSize - source}) :
             /\ source' = source + n
             /\ tell' = tell + n
             /\ got' = got \o Bytes(source, n)
             /\ UNCHANGED eof
  <2>0. PICK c \in Counts : \E n \in 1..Min({c, FileSize - source}) :
          source' = source + n /\ tell' = tell + n /\ got' = got \o Bytes(source, n) /\ UNCHANGED eof
    BY <1>5
  <2>1. PICK n \in 1..Min({c, FileSize - source}) :
          source' = source + n /\ tell' = tell + n /\ got' = got \o Bytes(source, n) /\ UNCHANGED eof
    BY <2>0
  <2>2. n \in Nat /\ source + n <= FileSize
    <3>1. c \in Int /\ FileSize - source \in Int
      BY <1>2, CountsAssumption
    <3>2. Min({c, FileSize - source}) = IF c <= FileSize - source THEN c ELSE FileSize - source
      BY <3>1, MinOfTwo
    <3> QED
      BY <1>2, <3>1, <3>2
  <2> DEFINE more == Bytes(source, n)
  <2>3. more \in Seq(Nat) /\ Len(more) = n /\ \A i \in 1..n : more[i] = source + i
    <3>1. source \in Nat
      BY <1>2
    <3> QED
      BY <2>2, <3>1, BytesAre
  <2> HIDE DEF more
  <2>4. got' = got \o more
    BY <2>1 DEF more
  <2>5. got' \in Seq(1..FileSize) /\ Len(got') = Len(got) + n /\ got' = Bytes(origin, Len(got'))
    BY <1>2, <1>3, <2>2, <2>3, <2>4, GotMore
  <2>6. Here' = source' /\ BytesInOrder'
    <3>1. origin + Len(got') = source + n
      BY <1>2, <1>3, <2>2, <2>5 DEF Here
    <3> QED
      BY <1>1, <2>1, <2>5, <3>1 DEF Here, BytesInOrder
  <2>7. source' \in 0..FileSize /\ tell' \in -1..FileSize /\ tell' <= source' /\ source' \in Nat
    BY <1>1, <1>2, <2>1, <2>2
  <2>8. TypeOK'
    BY <1>1, <2>1, <2>5, <2>7 DEF TypeOK
  <2> QED
    BY <1>1, <2>1, <2>6, <2>7, <2>8 DEF InRing, InChunk, AtSource, Moved, AtEnd, Unbuffered, Telling,
       Pending
<1>6. CASE /\ source = FileSize
           /\ eof' = TRUE
           /\ UNCHANGED <<source, tell, got>>
  BY <1>1, <1>2, <1>4, <1>6
<1>7. CASE /\ tell >= 0
           /\ tell' = tell - 1
           /\ UNCHANGED <<source, eof, got>>
  <2>1. tell' \in -1..FileSize /\ tell' <= source /\ eof' \in BOOLEAN
    BY <1>1, <1>2, <1>7 DEF TypeOK
  <2> QED
    BY <1>4, <1>7, <2>1
<1> QED
  BY <1>5, <1>6, <1>7 DEF ReadUnbuffered

(* After a seek the client is where it has moved to. *)
LEMMA HereAtStart == ASSUME origin' \in Nat, got' = <<>> PROVE Here' = origin'
<1>1. \A n \in Nat : n + Len(<<>>) = n
  OBVIOUS
<1> QED
  BY <1>1 DEF Here

LEMMA SeekCallOn == ASSUME StreamInv, SeekCall PROVE StreamInv'
<1> USE DEF StreamInv
<1>1. /\ UNCHANGED <<buffered, ring, eof, afterSeek, readError, stopThread, rpc, chunk, received>>
      /\ cpc = "idle" /\ source' \in 0..FileSize
  BY DEF SeekCall, readerVars, clientVars, callVars
<1>2. source' \in Nat /\ source' \in -1..FileSize
  BY <1>1, FileAssumption
<1>3. CASE buffered
  <2>1. cpc' = "seekHalf" /\ want' = source' /\ UNCHANGED <<tell, origin, got>>
    BY <1>3 DEF SeekCall, history
  <2>2. TypeOK'
    BY <1>1, <1>2, <2>1 DEF TypeOK, ClientPcs
  <2> QED
    BY <1>1, <1>3, <2>1, <2>2 DEF BytesInOrder, InRing, InChunk, AtSource, Moved, AtEnd, Unbuffered,
       Telling, Pending, Here
<1>4. CASE ~buffered
  <2>1. tell' = source' /\ origin' = source' /\ got' = <<>> /\ UNCHANGED <<cpc, want>>
    BY <1>4 DEF SeekCall, clientVars, callVars
  <2>2. Here' = source' /\ BytesInOrder' /\ Len(got') = 0
    <3>1. Len(got') = 0
      BY <2>1, EmptyType
    <3>2. Bytes(source', Len(<<>>)) = <<>>
      BY <1>2, NothingGot
    <3>3. BytesInOrder'
      BY <2>1, <3>2 DEF BytesInOrder
    <3>4. origin' \in Nat
      BY <1>2, <2>1
    <3> QED
      BY <2>1, <3>1, <3>3, <3>4, HereAtStart
  <2>3. TypeOK'
    BY <1>1, <1>2, <2>1, EmptyType DEF TypeOK
  <2> QED
    BY <1>1, <1>2, <1>4, <2>1, <2>2, <2>3 DEF InRing, InChunk, AtSource, Moved, AtEnd, Unbuffered,
       Telling, Pending
<1> QED
  BY <1>3, <1>4

LEMMA SeekClearsOn == ASSUME StreamInv, SeekClears PROVE StreamInv'
<1> USE DEF StreamInv
<1>1. /\ UNCHANGED <<buffered, source, readError, stopThread, chunk, want, received>>
      /\ ring' = Cleared(ring) /\ NotifyFree /\ eof' = FALSE /\ afterSeek' = TRUE
      /\ tell' = want /\ origin' = want /\ got' = <<>> /\ cpc' = "idle"
      /\ buffered /\ source = want
  BY DEF SeekClears, SeekMarks, callVars, Moved, Unbuffered
<1>2. ring' \in Ring(0..FileSize) /\ ring'.fill = 0
  <2>1. ring \in Ring(0..FileSize) /\ ring' = [ring EXCEPT !.fill = 0] /\ 0 \in 0..Capacity
    BY <1>1, CapacityAssumption DEF TypeOK, Cleared
  <2> QED
    BY <2>1 DEF Ring
<1>3. want \in 0..FileSize /\ want \in Nat /\ want \in -1..FileSize
  BY <1>1, FileAssumption DEF TypeOK
<1>4. Here' = want /\ BytesInOrder' /\ Len(got') = 0
  BY <1>1, <1>3, NothingGot, EmptyType DEF Here, BytesInOrder
<1>5. TypeOK'
  BY <1>1, <1>2, <1>3, Notified, EmptyType DEF TypeOK, ClientPcs
<1> QED
  BY <1>1, <1>2, <1>3, <1>4, <1>5, Notified DEF InRing, InChunk, AtSource, Moved, AtEnd, Unbuffered, Telling

LEMMA AbortOn == ASSUME StreamInv, Abort PROVE StreamInv'
<1> USE DEF StreamInv
<1>1. /\ UNCHANGED <<buffered, ring, source, tell, eof, afterSeek, readError, chunk, want, received,
                     origin, got>>
      /\ stopThread' = TRUE /\ NotifyFree /\ NotifyFill /\ buffered
  BY DEF Abort, StopThread, callVars, history
<1>2. TypeOK'
  BY <1>1, Notified, Woken DEF TypeOK
<1> QED
  BY <1>1, <1>2, Notified, Woken DEF BytesInOrder, InRing, InChunk, AtSource, Moved, AtEnd, Unbuffered,
     Telling, Here

LEMMA CloseOn == ASSUME StreamInv, CloseCall \/ Closed PROVE StreamInv'
<1> USE DEF StreamInv
<1>1. /\ UNCHANGED <<buffered, ring, source, tell, eof, afterSeek, readError, chunk, want, received,
                     origin, got>>
      /\ cpc # "seekHalf" /\ cpc' \in {"join", "closed"}
      /\ \/ buffered /\ stopThread' = TRUE /\ NotifyFree
         \/ UNCHANGED <<stopThread, rpc>>
  BY DEF CloseCall, Closed, StopThread, callVars, history, readerVars
<1>2. /\ rpc' \in ReaderPcs /\ (Pending' <=> Pending) /\ (rpc' = "end" <=> rpc = "end")
      /\ rpc = "exit" => rpc' = "exit"
  BY <1>1, Notified DEF TypeOK, Pending
<1>3. TypeOK'
  BY <1>1, <1>2 DEF TypeOK, ClientPcs
<1> QED
  BY <1>1, <1>2, <1>3 DEF BytesInOrder, InRing, InChunk, AtSource, Moved, AtEnd, Unbuffered,
     Telling, Here

LEMMA StreamStep == StreamInv /\ [Next]_ioVars => StreamInv'
<1> SUFFICES ASSUME StreamInv, [Next]_ioVars PROVE StreamInv'
  OBVIOUS
<1>1. CASE UNCHANGED ioVars
  BY <1>1 DEF ioVars, readerVars, clientVars, callVars, history, StreamInv, TypeOK, BytesInOrder, InRing,
     InChunk, AtSource, Moved, AtEnd, Unbuffered, Telling, Pending, Here
<1> QED
  BY <1>1, ReaderOn, OpenOn, ReadCallOn, ReadStepOn, ReadUnbufferedOn, SeekCallOn, SeekClearsOn, AbortOn,
     CloseOn DEF Next, Client, ClientGoesOn

LEMMA StreamAlways == Spec => []StreamInv
BY InitStream, StreamStep, PTL DEF Spec

-----------------------------------------------------------------------------
(* The variables keep their types. *)
THEOREM StreamTypes == Spec => []TypeOK
<1>1. StreamInv => TypeOK
  BY DEF StreamInv
<1> QED
  BY <1>1, StreamAlways, PTL

(* The ring buffer is a bounded FIFO in every state of a stream. *)
THEOREM RingFifo == Spec => []RingIsBoundedFifo
<1>1. StreamInv => RingIsBoundedFifo
  <2> SUFFICES ASSUME StreamInv PROVE RingIsBoundedFifo
    OBVIOUS
  <2>1. ring \in Ring(0..FileSize) /\ 0..FileSize \subseteq Nat
    BY FileAssumption DEF StreamInv, TypeOK
  <2> QED
    BY <2>1, RingAlwaysFifo DEF RingIsBoundedFifo
<1> QED
  BY <1>1, StreamAlways, PTL

(* The client gets the bytes of the file in order, from where it has moved *)
(* the stream to, none twice and none left out.                            *)
THEOREM InOrder == Spec => []BytesInOrder
<1>1. StreamInv => BytesInOrder
  BY DEF StreamInv
<1> QED
  BY <1>1, StreamAlways, PTL

(* io_tell of a buffered stream is where the client is. *)
THEOREM TellIsRight == Spec => []TellIsWhereWeAre
<1>1. StreamInv => TellIsWhereWeAre
  BY DEF StreamInv, Telling, TellIsWhereWeAre, Here
<1> QED
  BY <1>1, StreamAlways, PTL

(* A short read of a stream that has not failed and was not stopped is the *)
(* last one of the file.                                                   *)
LEMMA ShortReadIsLast ==
    ASSUME StreamInv, ReadStep, cpc' = "idle", want' > 0
    PROVE  stopThread \/ readError \/ origin + Len(got') = FileSize
<1> SUFFICES ASSUME ~stopThread, ~readError PROVE origin + Len(got') = FileSize
  OBVIOUS
<1> USE DEF StreamInv
<1>1. /\ UNCHANGED <<eof, origin>> /\ cpc = "read" /\ buffered
      /\ ReadEnds(want', ring')
  BY DEF ReadStep, Unbuffered
<1>2. PICK more \in Seq(Nat) :
        /\ Here' = Here + Len(more)
        /\ ring'.fill = ring.fill - Len(more) /\ Len(more) <= ring.fill /\ want' \in Nat
  BY ReadStepTakes
<1>3. ring'.fill = 0 /\ eof
  BY <1>1, <1>2 DEF ReadEnds
<1>4. ~Pending /\ ~afterSeek /\ source = FileSize
  BY <1>1, <1>3 DEF AtEnd
<1>5. FileSize = Here + ring.fill
  BY <1>1, <1>4, RingBytes, FileAssumption DEF AtSource, TypeOK, Here
<1>6. Here \in Nat /\ ring.fill \in Nat /\ Len(more) \in Nat
  BY RingBytes, FileAssumption DEF TypeOK, Here
<1>7. Here' = FileSize
  BY <1>2, <1>3, <1>5, <1>6
<1> QED
  BY <1>1, <1>7 DEF Here

THEOREM ShortReads == Spec => ShortReadsAreLast
<1>1. StreamInv /\ [Next]_ioVars =>
        [ReadStep /\ cpc' = "idle" /\ want' > 0
           => stopThread \/ readError \/ origin + Len(got') = FileSize]_ioVars
  BY ShortReadIsLast
<1> QED
  BY <1>1, StreamAlways, PTL DEF Spec, ShortReadsAreLast
=============================================================================
