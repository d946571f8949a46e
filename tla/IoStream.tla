------------------------------ MODULE IoStream ------------------------------
(***************************************************************************)
(* Input streams, io/io.cpp: a decoder reads a file through a ring buffer  *)
(* that a thread of the stream fills ahead of it, or reads it directly.    *)
(*                                                                         *)
(* The client is the thread of the decoder: it opens, reads, seeks and     *)
(* closes, one call at a time.  The reader is io_read_thread.  Another     *)
(* thread may call io_abort at any time.  io_mtx is held by a seek between *)
(* its two steps, and by the reader within a step; every region under      *)
(* buf_mtx is one step.  To wait on buf_free_cond or buf_fill_cond is to   *)
(* enter a waiting state; to notify is to move the waiter on.              *)
(*                                                                         *)
(* A byte of the file is its place in it, counted from 1.  Capacity is the *)
(* option InputBuffer, in bytes.                                           *)
(***************************************************************************)
EXTENDS FifoBuf

CONSTANTS
    FileSize,     \* bytes in the file
    ChunkMax,     \* the most one read() of the reader returns
    Counts,       \* bound: how many bytes a call of io_read asks for
    Modes,        \* bound: how the stream may be opened (buffered or not)
    ReadFails     \* whether read() may fail

ASSUME FileAssumption   == FileSize \in Nat
ASSUME ChunkAssumption  == ChunkMax \in Nat \ {0}
ASSUME CountsAssumption == Counts \subseteq Nat \ {0}
ASSUME ModeAssumption   == Modes \subseteq BOOLEAN /\ ReadFails \in BOOLEAN

VARIABLES
    buffered,       \* io_stream::buffered
    ring,           \* io_stream::buf
    source,         \* where the descriptor (or mem_pos) is in the file
    tell,           \* io_stream::pos
    eof,            \* io_stream::eof
    afterSeek,      \* io_stream::after_seek
    readError,      \* io_stream::read_error and errno_val
    stopThread,     \* io_stream::stop_read_thread
    rpc,            \* where the reader is
    chunk,          \* read_buf of the reader, from read_buf_pos on
    cpc,            \* the call the client is in
    want,           \* what io_read has still to read, where io_seek goes to
    received,       \* received of io_read: what it has read
    origin,         \* history: where the last open or seek has led
    got             \* history: the bytes delivered since then

readerVars == <<rpc, chunk>>
callVars   == <<want, received>>
clientVars == <<cpc, callVars>>
history    == <<origin, got>>
ioVars     == <<buffered, ring, source, tell, eof, afterSeek, readError, stopThread,
                readerVars, clientVars, history>>

Bytes(from, n) == [i \in 1..n |-> from + i]

ReaderPcs == {"top", "data", "end", "failed", "fill", "freeWait", "endWait", "exit"}
ClientPcs == {"closed", "idle", "read", "readWait", "seek", "seekHalf", "join"}

TypeOK ==
    /\ buffered \in BOOLEAN
    /\ ring \in Ring(0..FileSize)
    /\ source \in 0..FileSize
    /\ tell \in -1..FileSize
    /\ {eof, afterSeek, readError, stopThread} \subseteq BOOLEAN
    /\ rpc \in ReaderPcs
    /\ chunk \in Seq(1..FileSize)
    /\ cpc \in ClientPcs
    /\ {want, received} \subseteq Nat
    /\ origin \in 0..FileSize
    /\ got \in Seq(1..FileSize)

Init ==
    /\ buffered \in Modes
    /\ ring = EmptyRing(0)
    /\ source = 0
    /\ tell = 0
    /\ eof = FALSE
    /\ afterSeek = FALSE
    /\ readError = FALSE
    /\ stopThread = FALSE
    /\ rpc = "exit"
    /\ chunk = <<>>
    /\ cpc = "closed"
    /\ want = 0
    /\ received = 0
    /\ origin = 0
    /\ got = <<>>

-----------------------------------------------------------------------------
(* Condition variables. *)

(* buf_free_cond: the reader is the only one that waits on it. *)
NotifyFree ==
    rpc' = CASE rpc = "freeWait" -> "fill"
             [] rpc = "endWait"  -> "top"
             [] OTHER            -> rpc

(* buf_fill_cond: the client is the only one that waits on it. *)
NotifyFill == cpc' = IF cpc = "readWait" THEN "read" ELSE cpc

-----------------------------------------------------------------------------
(* io_read_thread. *)

(* One read() under io_mtx, which a seek holds between its two steps.      *)
ReaderReads ==
    /\ rpc = "top"
    /\ ~stopThread
    /\ cpc # "seekHalf"
    /\ afterSeek' = FALSE
    /\ \/ \E n \in 1..Min({ChunkMax, FileSize - source}) :
            /\ rpc' = "data"
            /\ chunk' = Bytes(source, n)
            /\ source' = source + n
       \/ /\ source = FileSize
          /\ rpc' = "end"
          /\ UNCHANGED <<chunk, source>>
       \/ /\ ReadFails
          /\ rpc' = "failed"
          /\ UNCHANGED <<chunk, source>>
    /\ UNCHANGED <<buffered, ring, tell, eof, readError, stopThread, clientVars, history>>

ReaderExits ==
    /\ rpc \in {"top", "data", "end", "failed"}
    /\ stopThread
    /\ rpc' = "exit"
    /\ chunk' = <<>>
    /\ UNCHANGED <<buffered, ring, source, tell, eof, afterSeek, readError, stopThread,
                   clientVars, history>>

(* Mutation of Stale: only data may be stale, an end of file is not.       *)
MutStaleData == afterSeek /\ rpc \in {"data", "fill"}

(* The stream was moved after the read() whose result the reader has. *)
Stale == afterSeek

(* What was read before a seek is dropped, be it data, an end or an error. *)
ReaderDrops ==
    /\ rpc \in {"data", "end", "failed", "fill"}
    /\ rpc # "fill" => ~stopThread
    /\ Stale
    /\ rpc' = "top"
    /\ eof' = (eof /\ rpc # "data")
    /\ chunk' = <<>>
    /\ UNCHANGED <<buffered, ring, source, tell, afterSeek, readError, stopThread,
                   clientVars, history>>

ReaderFails ==
    /\ rpc = "failed"
    /\ ~stopThread
    /\ ~Stale
    /\ readError' = TRUE
    /\ rpc' = "exit"
    /\ NotifyFill
    /\ UNCHANGED <<buffered, ring, source, tell, eof, afterSeek, stopThread, chunk, callVars,
                   history>>

ReaderAtEnd ==
    /\ rpc = "end"
    /\ ~stopThread
    /\ ~Stale
    /\ eof' = TRUE
    /\ rpc' = "endWait"
    /\ NotifyFill
    /\ UNCHANGED <<buffered, ring, source, tell, afterSeek, readError, stopThread, chunk,
                   callVars, history>>

(* The loop over put(): it ends when all was put, and waits when the ring  *)
(* is full; the abort is looked at after a put.                            *)
ReaderFills ==
    /\ rpc \in {"data", "fill"}
    /\ rpc = "data" => ~stopThread
    /\ ~Stale
    /\ eof' = (eof /\ rpc # "data")
    /\ ring' = Put(ring, chunk).ring
    /\ chunk' = Put(ring, chunk).data
    /\ rpc' = IF chunk' = <<>> \/ stopThread THEN "top" ELSE "freeWait"
    /\ IF Room(ring) > 0 /\ ~stopThread THEN NotifyFill ELSE UNCHANGED cpc
    /\ UNCHANGED <<buffered, source, tell, afterSeek, readError, stopThread, callVars,
                   history>>

Reader ==
    ReaderReads \/ ReaderExits \/ ReaderDrops \/ ReaderFails \/ ReaderAtEnd \/ ReaderFills

-----------------------------------------------------------------------------
(* The client's calls. *)

(* io_open of a file that can be opened. *)
Open ==
    /\ cpc = "closed"
    /\ cpc' = "idle"
    /\ buffered' \in Modes
    /\ ring' = EmptyRing(0)
    /\ source' = 0
    /\ tell' = 0
    /\ eof' = FALSE
    /\ afterSeek' = FALSE
    /\ readError' = FALSE
    /\ stopThread' = FALSE
    /\ rpc' = IF buffered' THEN "top" ELSE "exit"
    /\ chunk' = <<>>
    /\ origin' = 0
    /\ got' = <<>>
    /\ want' = 0
    /\ UNCHANGED received

ReadCall ==
    /\ cpc = "idle"
    /\ buffered
    /\ want' \in Counts
    /\ received' = 0
    /\ cpc' = "read"
    /\ UNCHANGED <<buffered, ring, source, tell, eof, afterSeek, readError, stopThread,
                   readerVars, history>>

(* What ends the loop of io_read_buffered: everything was read, or the     *)
(* stream was stopped, or the ring is empty and will not be filled.        *)
ReadEnds(left, r) ==
    left = 0 \/ stopThread \/ (r.fill = 0 /\ (eof \/ readError))

(* Mutation of Told: the position moves by what was asked for.             *)
MutToldAsked == tell + received' + want'

(* io_stream::pos at the end of a read. *)
Told == tell + received'

(* io_read_buffered under buf_mtx: to take what there is, and to return or *)
(* wait for more.                                                          *)
ReadStep ==
    /\ cpc = "read"
    /\ LET taken == IF ReadEnds(want, ring) THEN Get(ring, 0) ELSE Get(ring, want)
       IN  /\ ring' = taken.ring
           /\ want' = want - Len(taken.got)
           /\ got' = got \o taken.got
           /\ cpc' = IF ReadEnds(want', ring') THEN "idle" ELSE "readWait"
           /\ received' = received + Len(taken.got)
           /\ tell' = IF cpc' = "idle" THEN Told ELSE tell
           /\ IF taken.got # <<>> THEN NotifyFree ELSE UNCHANGED rpc
    /\ UNCHANGED <<buffered, source, eof, afterSeek, readError, stopThread, chunk, origin>>

(* io_read of a stream without a buffer: one read(), of which a failure    *)
(* moves the position back by one (bound: not below -1).                   *)
ReadUnbuffered ==
    /\ cpc = "idle"
    /\ ~buffered
    /\ ~eof
    /\ \/ \E c \in Counts : \E n \in 1..Min({c, FileSize - source}) :
            /\ source' = source + n
            /\ tell' = tell + n
            /\ got' = got \o Bytes(source, n)
            /\ UNCHANGED eof
       \/ /\ source = FileSize
          /\ eof' = TRUE
          /\ UNCHANGED <<source, tell, got>>
       \/ /\ ReadFails
          /\ tell >= 0
          /\ tell' = tell - 1
          /\ UNCHANGED <<source, eof, got>>
    /\ UNCHANGED <<buffered, ring, afterSeek, readError, stopThread, readerVars, clientVars,
                   origin>>

(* io_seek: nothing after an error; else the file is moved under io_mtx... *)
SeekCall ==
    /\ cpc = "idle"
    /\ ~readError
    /\ source' \in 0..FileSize
    /\ IF buffered
       THEN cpc' = "seekHalf" /\ want' = source' /\ UNCHANGED <<tell, received, history>>
       ELSE tell' = source' /\ origin' = source' /\ got' = <<>> /\ UNCHANGED clientVars
    /\ UNCHANGED <<buffered, ring, eof, afterSeek, readError, stopThread, readerVars>>

(* Mutation of SeekMarks: the reader is not told of the seek.               *)
MutSeekMarksNothing == eof' = FALSE /\ UNCHANGED afterSeek

SeekMarks == eof' = FALSE /\ afterSeek' = TRUE

(* ...and the ring is emptied under both mutexes. *)
SeekClears ==
    /\ cpc = "seekHalf"
    /\ ring' = Cleared(ring)
    /\ NotifyFree
    /\ SeekMarks
    /\ tell' = want
    /\ origin' = want
    /\ got' = <<>>
    /\ cpc' = "idle"
    /\ UNCHANGED <<buffered, source, readError, stopThread, chunk, callVars>>

(* Mutation of StopThread: the waiting reader is not told.                 *)
MutStopThreadSilently ==
    stopThread' = TRUE /\ UNCHANGED rpc

StopThread == stopThread' = TRUE /\ NotifyFree

(* io_abort, from another thread. *)
Abort ==
    /\ cpc \notin {"closed", "join"}
    /\ buffered
    /\ ~stopThread
    /\ StopThread
    /\ NotifyFill
    /\ UNCHANGED <<buffered, ring, source, tell, eof, afterSeek, readError, chunk, callVars,
                   history>>

(* io_close: abort, and wait for the reader. *)
CloseCall ==
    /\ cpc = "idle"
    /\ cpc' = "join"
    /\ IF buffered /\ ~stopThread THEN StopThread ELSE UNCHANGED <<stopThread, rpc>>
    /\ UNCHANGED <<buffered, ring, source, tell, eof, afterSeek, readError, chunk, callVars,
                   history>>

Closed ==
    /\ cpc = "join"
    /\ rpc = "exit"
    /\ cpc' = "closed"
    /\ UNCHANGED <<buffered, ring, source, tell, eof, afterSeek, readError, stopThread,
                   readerVars, callVars, history>>

Client == Open \/ ReadCall \/ ReadUnbuffered \/ SeekCall \/ CloseCall

ClientGoesOn == ReadStep \/ SeekClears \/ Closed

Next == Reader \/ Client \/ ClientGoesOn \/ Abort

(* The reader and a call in progress go on when they can; the client need  *)
(* not call anything, and nobody needs to abort.                           *)
Spec == Init /\ [][Next]_ioVars /\ WF_ioVars(Reader) /\ WF_ioVars(ClientGoesOn)

-----------------------------------------------------------------------------
(* Properties. *)

(* The ring buffer is a bounded FIFO, in every state of wrapping that the  *)
(* stream brings it into (utils/fifo_buf.cpp, put and get).                *)
RingIsBoundedFifo == RingIsFifo(ring)

(* What was delivered since the stream was opened or moved are the bytes   *)
(* of the file from there on, in order, none twice and none left out, even *)
(* if the reader was reading elsewhere when the seek came.                 *)
BytesInOrder == got = Bytes(origin, Len(got))

(* Between two calls io_tell of a buffered stream is the place of the next *)
(* byte, although the reader is ahead of it by all that is in the ring.    *)
TellIsWhereWeAre ==
    buffered /\ cpc = "idle" => tell = origin + Len(got)

(* io_eof(), of a stream that nobody stopped: nothing comes any more.      *)
AtEof == eof /\ (~buffered \/ ring.fill = 0)

(* The comment of io_eof: "Return != 0 if we are at the end of the stream" *)
(* (io/io.cpp), for either kind of stream.                                 *)
EofIsTheEnd == cpc = "idle" /\ AtEof => origin + Len(got) = FileSize

(* A read of a buffered stream returns less than was asked for only at the *)
(* end of the file, after an error, or when it was told to stop.           *)
ShortReadsAreLast ==
    [][ReadStep /\ cpc' = "idle" /\ want' > 0
         => stopThread \/ readError \/ origin + Len(got') = FileSize]_ioVars

(* A read always returns and io_close always finishes: reader and client   *)
(* never wait for each other, wherever an end, an error or an abort comes. *)
CallsReturn == /\ cpc \in {"read", "readWait"} ~> cpc = "idle"
               /\ cpc = "join" ~> cpc = "closed"
=============================================================================
