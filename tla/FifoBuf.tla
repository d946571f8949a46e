------------------------------ MODULE FifoBuf ------------------------------
(***************************************************************************)
(* The ring buffer, utils/fifo_buf.cpp.  A ring is a record of where its   *)
(* oldest byte is, how many it holds, and the memory.  put() and get()     *)
(* copy in passes, each up to the end of the memory; two passes are all    *)
(* that their loops ever make, which is part of what RingIsFifo states.    *)
(***************************************************************************)
EXTENDS Integers, Sequences, FiniteSetsExt

CONSTANT Capacity       \* fifo_buf::size_

ASSUME CapacityAssumption == Capacity \in Nat \ {0}

Cells == 0..(Capacity - 1)

Ring(Byte) == [pos : Cells, fill : 0..Capacity, buf : [Cells -> Byte]]

EmptyRing(byte) == [pos |-> 0, fill |-> 0, buf |-> [i \in Cells |-> byte]]

Room(r) == Capacity - r.fill

(* fifo_buf::clear() leaves the position and the memory as they are. *)
Cleared(r) == [r EXCEPT !.fill = 0]

(* Mutation of WriteFrom: the place behind the last byte is not wrapped.   *)
MutWriteFromUnwrapped(r) == r.pos + r.fill

(* Where the next byte goes. *)
WriteFrom(r) ==
    IF r.pos + r.fill < Capacity THEN r.pos + r.fill ELSE r.fill - Capacity + r.pos

(* Mutation of WriteSpan: up to the end of the memory, free or not.        *)
MutWriteSpanToEnd(r) == Capacity - WriteFrom(r)

(* How many bytes go there before the memory or the free space ends. *)
WriteSpan(r) ==
    IF r.pos + r.fill < Capacity THEN Capacity - (r.pos + r.fill) ELSE Capacity - r.fill

(* One pass of the loop of put(): data is what is still to be written. *)
PutPass(s) ==
    LET r    == s.ring
        n    == Min({WriteSpan(r), Len(s.data)})
        from == WriteFrom(r)
    IN  IF r.fill < Capacity /\ s.data # <<>>
        THEN [ring |-> [r EXCEPT
                          !.fill = @ + n,
                          !.buf  = [i \in Cells |->
                                      IF i \in from..(from + n - 1)
                                      THEN s.data[i - from + 1] ELSE @[i]]],
              data |-> SubSeq(s.data, n + 1, Len(s.data))]
        ELSE s

(* fifo_buf::put(): the ring after it, and the data that found no room. *)
Put(r, data) == PutPass(PutPass([ring |-> r, data |-> data]))

(* One pass of the loop of get(): got is what was read of the wanted.      *)
GetPass(s) ==
    LET r    == s.ring
        span == IF r.pos + r.fill <= Capacity THEN r.fill ELSE Capacity - r.pos
        n    == Min({span, s.want - Len(s.got)})
    IN  IF r.fill > 0 /\ Len(s.got) < s.want
        THEN [s EXCEPT !.ring = [r EXCEPT !.fill = @ - n,
                                          !.pos  = IF @ + n = Capacity THEN 0 ELSE @ + n],
                       !.got  = @ \o [i \in 1..n |-> r.buf[r.pos + i - 1]]]
        ELSE s

(* fifo_buf::get(): the ring after it, and the bytes read. *)
Get(r, want) == GetPass(GetPass([ring |-> r, want |-> want, got |-> <<>>]))

-----------------------------------------------------------------------------
(* What the bytes of a ring are, from the oldest to the newest. *)
Place(r, i) == IF r.pos + i <= Capacity THEN r.pos + i - 1 ELSE r.pos + i - 1 - Capacity

Contents(r) == [i \in 1..r.fill |-> r.buf[Place(r, i)]]

(* put() appends as much of its data as there is room for, and get() takes *)
(* as many of the oldest bytes as there are, both up to the last one that  *)
(* fits, wherever the ring is wrapped.  Their loops need not be repeated   *)
(* more than twice for that, and stay inside the memory.                   *)
PutAppends(r, data) ==
    LET n == Min({Room(r), Len(data)})
    IN  /\ Contents(Put(r, data).ring) = Contents(r) \o SubSeq(data, 1, n)
        /\ Put(r, data).data = SubSeq(data, n + 1, Len(data))

GetTakes(r, want) ==
    LET n == Min({r.fill, want})
    IN  /\ Contents(Get(r, want).ring) = SubSeq(Contents(r), n + 1, r.fill)
        /\ Get(r, want).got = SubSeq(Contents(r), 1, n)

RingIsFifo(r) ==
    \A n \in 0..(Capacity + 1) : PutAppends(r, [i \in 1..n |-> i]) /\ GetTakes(r, n)
=============================================================================
