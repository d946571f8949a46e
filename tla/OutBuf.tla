------------------------------- MODULE OutBuf -------------------------------
(***************************************************************************)
(* The output buffer, audio/outputs/out_buf.cpp: a FIFO of sound between   *)
(* the thread that decodes and the thread that feeds the audio device.     *)
(*                                                                         *)
(* Three threads meet here.  The reader takes sound from the FIFO and      *)
(* sends it to the device.  The client (the playing thread, later the      *)
(* thread that destroys the buffer) calls put, stop, reset, wait and       *)
(* time_set, one call at a time.  The interface thread calls pause and     *)
(* unpause whenever the user asks for it.                                  *)
(*                                                                         *)
(* The buffer's mutex is held by the reader in the control states of Held  *)
(* and in no other; every region another thread runs under the mutex is    *)
(* one step.  play_cond and ready_cond are plain condition variables: to   *)
(* wait is to enter a waiting state, to notify is to move the waiter to    *)
(* the state in which it wants the mutex back.                             *)
(***************************************************************************)
EXTENDS Naturals, Sequences

CONSTANTS
    Unit,          \* pieces of sound
    Chunks,        \* bound: the data one call of put() can bring
    Size,          \* capacity of the FIFO, in units
    PlayMax,       \* the most the reader takes at once (AUDIO_MAX_PLAY)
    MaxTime,       \* bound: units played between two calls of time_set()
    CanHwPause,    \* audio_can_hw_pause()
    ReopenFails,   \* whether reopening the device after a pause may fail
    Spurious       \* whether a condition variable may wake up by itself

ASSUME ChunkAssumption == Chunks \subseteq Seq(Unit) \ {<<>>}
ASSUME SizeAssumption  == Size \in Nat \ {0} /\ PlayMax \in Nat \ {0}
ASSUME TimeAssumption  == MaxTime \in Nat
ASSUME FlagAssumption  == {CanHwPause, ReopenFails, Spurious} \subseteq BOOLEAN

VARIABLES
    fifo,           \* OutBuf::fifo
    isPaused,       \* OutBuf::is_paused
    isStopped,      \* OutBuf::is_stopped
    isExit,         \* OutBuf::is_exit
    resetDev,       \* OutBuf::reset_dev
    time,           \* OutBuf::time, in units
    readerWaiting,  \* OutBuf::read_thread_waiting
    callback,       \* whether free_callback is set
    rpc,            \* where the reader is
    chunk, pos,     \* play_buf and play_buf_pos of the reader
    hwPaused,       \* hw_paused of the reader
    devClosed,      \* audio_dev_closed of the reader
    cpc,            \* the call the client is in
    cdata,          \* what put() has still to write
    heard,          \* history: units sent since time_set(), on top of its value
    quiet           \* history: the client has silenced the buffer and put nothing since

fields     == <<isPaused, isStopped, isExit, resetDev, callback>>
playBuf    == <<chunk, pos>>
devVars    == <<hwPaused, devClosed>>
readerVars == <<rpc, playBuf, devVars, readerWaiting>>
clientVars == <<cpc, cdata>>
history    == <<heard, quiet>>
obVars     == <<fifo, fields, time, readerVars, clientVars, history>>

ReaderPcs == {"start", "top", "cb", "relock", "notify", "parked", "woken", "proceed",
              "reopen", "take", "send", "sent", "exit"}

ClientPcs == {"idle", "put", "putWait", "putWoken", "stopWait", "stopWoken",
              "wait", "waitWait"}

(* The reader is between lock() and unlock(). *)
Held == rpc \in {"top", "notify", "proceed", "reopen", "take"}

Sending == rpc \in {"send", "sent"}

TypeOK ==
    /\ fifo \in Seq(Unit)
    /\ Len(fifo) <= Size
    /\ {isPaused, isStopped, isExit, resetDev, callback} \subseteq BOOLEAN
    /\ time \in Nat
    /\ readerWaiting \in BOOLEAN
    /\ rpc \in ReaderPcs
    /\ chunk \in Seq(Unit)
    /\ pos \in 0..Len(chunk)
    /\ hwPaused \in BOOLEAN
    /\ devClosed \in BOOLEAN
    /\ cpc \in ClientPcs
    /\ cdata \in Seq(Unit)
    /\ heard \in Nat
    /\ quiet \in BOOLEAN

Init ==
    /\ fifo = <<>>
    /\ isPaused = FALSE
    /\ isStopped = FALSE
    /\ isExit = FALSE
    /\ resetDev = FALSE
    /\ time = 0
    /\ readerWaiting = FALSE
    /\ callback = FALSE
    /\ rpc = "start"
    /\ chunk = <<>>
    /\ pos = 0
    /\ hwPaused = FALSE
    /\ devClosed = FALSE
    /\ cpc = "idle"
    /\ cdata = <<>>
    /\ heard = 0
    /\ quiet = TRUE

-----------------------------------------------------------------------------
(* Condition variables. *)

(* Mutation of NotifyPlay: nobody is told if there is nothing to play.     *)
MutNotifyPlayIfFilled == rpc' = IF rpc = "parked" /\ fifo # <<>> THEN "woken" ELSE rpc

(* play_cond.notify_one(): the reader is the only thread that waits on it. *)
NotifyPlay == rpc' = IF rpc = "parked" THEN "woken" ELSE rpc

(* Where a client that waits on ready_cond goes on. *)
Woken(pc) ==
    CASE pc = "putWait"  -> "putWoken"
      [] pc = "stopWait" -> "stopWoken"
      [] pc = "waitWait" -> "wait"
      [] OTHER           -> pc

SpuriousReady ==
    /\ Spurious
    /\ cpc \in {"putWait", "stopWait", "waitWait"}
    /\ cpc' = Woken(cpc)
    /\ UNCHANGED <<fifo, fields, time, readerVars, cdata, history>>

SpuriousPlay ==
    /\ Spurious
    /\ rpc = "parked"
    /\ rpc' = "woken"
    /\ UNCHANGED <<fifo, fields, time, playBuf, devVars, readerWaiting, clientVars,
                   history>>

-----------------------------------------------------------------------------
(* OutBuf::read_thread.  The mutex is held from the top of the loop up to  *)
(* the wait on play_cond, but for the call of the callback.                *)

(* Mutation of Kept: a pause empties the FIFO as a stop does.              *)
MutKeptUnlessPaused == IF isStopped \/ isPaused THEN <<>> ELSE fifo

Kept == IF isStopped THEN <<>> ELSE fifo

ReaderTop ==
    /\ rpc \in {"start", "top"}
    /\ resetDev' = (resetDev /\ devClosed)
    /\ fifo' = Kept
    /\ rpc' = IF callback THEN "cb" ELSE "notify"
    /\ UNCHANGED <<isPaused, isStopped, isExit, callback, time, playBuf, devVars,
                   readerWaiting, clientVars, history>>

(* free_callback(), called without the mutex. *)
ReaderCallback ==
    /\ rpc = "cb"
    /\ rpc' = "relock"
    /\ UNCHANGED <<fifo, fields, time, playBuf, devVars, readerWaiting, clientVars,
                   history>>

(* Mutation of ReaderIdles: the reader waits although it was told to exit.  *)
MutReaderIdlesOnExit == fifo = <<>> \/ isPaused \/ isStopped

ReaderIdles == (fifo = <<>> \/ isPaused \/ isStopped) /\ ~isExit

(* Mutation of ReaderNotify: no notification before the reader waits.      *)
MutReaderNotifyLate ==
    /\ rpc \in {"notify", "relock"}
    /\ cpc' = IF ReaderIdles THEN cpc ELSE Woken(cpc)
    /\ LET silence == ReaderIdles /\ isPaused /\ ~devClosed /\ ~hwPaused
       IN  /\ hwPaused'  = (hwPaused \/ (silence /\ CanHwPause))
           /\ devClosed' = (devClosed \/ (silence /\ ~CanHwPause))
    /\ rpc' = IF ReaderIdles THEN "parked" ELSE "proceed"
    /\ readerWaiting' = (readerWaiting \/ ReaderIdles)
    /\ UNCHANGED <<fifo, fields, time, playBuf, cdata, history>>

(* ready_cond.notify_all(), and the wait on play_cond if there is nothing  *)
(* to do; a pause silences the device on the way.                          *)
ReaderNotify ==
    /\ rpc \in {"notify", "relock"}
    /\ cpc' = Woken(cpc)
    /\ LET silence == ReaderIdles /\ isPaused /\ ~devClosed /\ ~hwPaused
       IN  /\ hwPaused'  = (hwPaused \/ (silence /\ CanHwPause))
           /\ devClosed' = (devClosed \/ (silence /\ ~CanHwPause))
    /\ rpc' = IF ReaderIdles THEN "parked" ELSE "proceed"
    /\ readerWaiting' = (readerWaiting \/ ReaderIdles)
    /\ UNCHANGED <<fifo, fields, time, playBuf, cdata, history>>

(* Mutation of ReaderProceed: read_thread_waiting is not reset.            *)
MutReaderProceedStillWaiting ==
    /\ rpc \in {"woken", "proceed"}
    /\ hwPaused' = (hwPaused /\ isPaused)
    /\ rpc' = IF ~hwPaused /\ devClosed /\ ~isPaused THEN "reopen" ELSE "take"
    /\ UNCHANGED <<fifo, fields, time, playBuf, devClosed, readerWaiting, clientVars,
                   history>>

(* The wait is over: resume the device after a pause. *)
ReaderProceed ==
    /\ rpc \in {"woken", "proceed"}
    /\ readerWaiting' = FALSE
    /\ hwPaused' = (hwPaused /\ isPaused)
    /\ rpc' = IF ~hwPaused /\ devClosed /\ ~isPaused THEN "reopen" ELSE "take"
    /\ UNCHANGED <<fifo, fields, time, playBuf, devClosed, clientVars, history>>

(* audio_open(nullptr), with the mutex held.  After a failure the thread   *)
(* sleeps for a second, still holding it, and goes on with the device shut. *)
ReaderReopened ==
    /\ rpc = "reopen"
    /\ devClosed' = FALSE
    /\ rpc' = "take"
    /\ UNCHANGED <<fifo, fields, time, playBuf, hwPaused, readerWaiting, clientVars,
                   history>>

ReaderReopenFails ==
    /\ ReopenFails
    /\ rpc = "reopen"
    /\ rpc' = "take"
    /\ UNCHANGED <<fifo, fields, time, playBuf, devVars, readerWaiting, clientVars,
                   history>>

ReaderExits ==
    /\ rpc = "take"
    /\ fifo = <<>>
    /\ isExit
    /\ rpc' = "exit"
    /\ UNCHANGED <<fifo, fields, time, playBuf, devVars, readerWaiting, clientVars,
                   history>>

ReaderContinues ==
    /\ rpc = "take"
    /\ IF fifo = <<>> THEN ~isExit ELSE isPaused \/ isStopped \/ devClosed
    /\ rpc' = "top"
    /\ UNCHANGED <<fifo, fields, time, playBuf, devVars, readerWaiting, clientVars,
                   history>>

TakeLen == IF Len(fifo) < PlayMax THEN Len(fifo) ELSE PlayMax

ReaderTakes ==
    /\ rpc = "take"
    /\ fifo # <<>>
    /\ ~isPaused
    /\ ~isStopped
    /\ ~devClosed
    /\ chunk' = SubSeq(fifo, 1, TakeLen)
    /\ pos' = 0
    /\ fifo' = SubSeq(fifo, TakeLen + 1, Len(fifo))
    /\ rpc' = "send"
    /\ UNCHANGED <<fields, time, devVars, readerWaiting, clientVars, history>>

(* audio_send_pcm(), without the mutex; the driver may accept only a part. *)
ReaderSends ==
    /\ rpc = "send"
    /\ \E n \in 1..(Len(chunk) - pos) :
         /\ pos' = pos + n
         /\ heard' = heard + n
    /\ rpc' = IF pos' = Len(chunk) THEN "sent" ELSE "send"
    /\ UNCHANGED <<fifo, fields, time, chunk, devVars, readerWaiting, clientVars, quiet>>

(* Mutation of Counted: what was sent is forgotten when stop() came.       *)
MutCountedUnlessStopped == IF isStopped THEN time ELSE time + Len(chunk)

Counted == time + Len(chunk)

(* Lock again, and count what was played. *)
ReaderCounts ==
    /\ rpc = "sent"
    /\ time' = Counted
    /\ chunk' = <<>>
    /\ pos' = 0
    /\ rpc' = "top"
    /\ UNCHANGED <<fifo, fields, devVars, readerWaiting, clientVars, history>>

Reader ==
    \/ ReaderTop \/ ReaderCallback \/ ReaderNotify \/ ReaderProceed
    \/ ReaderReopened \/ ReaderReopenFails \/ ReaderExits \/ ReaderContinues
    \/ ReaderTakes \/ ReaderSends \/ ReaderCounts

-----------------------------------------------------------------------------
(* OutBuf::put. *)

PutCall(data) ==
    /\ cpc = "idle"
    /\ cpc' = "put"
    /\ cdata' = data
    /\ quiet' = FALSE
    /\ UNCHANGED <<fifo, fields, time, readerVars, heard>>

(* The buffer is full: wait on ready_cond, once. *)
PutWaits ==
    /\ cpc = "put"
    /\ ~Held
    /\ Len(fifo) = Size
    /\ ~isStopped
    /\ cpc' = "putWait"
    /\ UNCHANGED <<fifo, fields, time, readerVars, cdata, history>>

PutReady == cpc = "putWoken" \/ (cpc = "put" /\ (Len(fifo) < Size \/ isStopped))

PutRefused ==
    /\ PutReady
    /\ ~Held
    /\ isStopped
    /\ cpc' = "idle"
    /\ cdata' = <<>>
    /\ UNCHANGED <<fifo, fields, time, readerVars, history>>

(* Mutation of Written: everything is written, whether it fits or not.     *)
MutWrittenAll == Len(cdata)

Written == IF Size - Len(fifo) < Len(cdata) THEN Size - Len(fifo) ELSE Len(cdata)

(* Mutation of TellReader: put() does not tell the reader.                 *)
MutTellNobody(n) == UNCHANGED rpc

TellReader(n) == IF n > 0 THEN NotifyPlay ELSE UNCHANGED rpc

(* As much as fits goes into the FIFO; after a wake-up that can be nothing. *)
PutWrites ==
    /\ PutReady
    /\ ~Held
    /\ ~isStopped
    /\ fifo' = fifo \o SubSeq(cdata, 1, Written)
    /\ cdata' = SubSeq(cdata, Written + 1, Len(cdata))
    /\ TellReader(Written)
    /\ cpc' = IF cdata' = <<>> THEN "idle" ELSE "put"
    /\ UNCHANGED <<fields, time, playBuf, devVars, readerWaiting, history>>

-----------------------------------------------------------------------------
(* OutBuf::stop waits for the next notification of the reader, OutBuf::wait *)
(* until the reader waits on play_cond.                                    *)

(* Mutation of StopCall: it does not wait.                                 *)
MutStopCallAtOnce ==
    /\ cpc = "idle"
    /\ ~Held
    /\ isStopped' = TRUE
    /\ isPaused' = FALSE
    /\ resetDev' = TRUE
    /\ NotifyPlay
    /\ cpc' = "stopWoken"
    /\ UNCHANGED <<fifo, isExit, callback, time, playBuf, devVars, readerWaiting, cdata,
                   history>>

StopCall ==
    /\ cpc = "idle"
    /\ ~Held
    /\ isStopped' = TRUE
    /\ isPaused' = FALSE
    /\ resetDev' = TRUE
    /\ NotifyPlay
    /\ cpc' = "stopWait"
    /\ UNCHANGED <<fifo, isExit, callback, time, playBuf, devVars, readerWaiting, cdata,
                   history>>

StopReturns ==
    /\ cpc = "stopWoken"
    /\ ~Held
    /\ cpc' = "idle"
    /\ quiet' = TRUE
    /\ UNCHANGED <<fifo, fields, time, readerVars, cdata, heard>>

WaitCall ==
    /\ cpc = "idle"
    /\ cpc' = "wait"
    /\ UNCHANGED <<fifo, fields, time, readerVars, cdata, history>>

WaitWaits ==
    /\ cpc = "wait"
    /\ ~Held
    /\ ~readerWaiting
    /\ cpc' = "waitWait"
    /\ UNCHANGED <<fifo, fields, time, readerVars, cdata, history>>

(* Once the reader waits, and has nothing in the FIFO it might go on to    *)
(* play, the buffer is quiet.                                              *)
WaitReturns ==
    /\ cpc = "wait"
    /\ ~Held
    /\ readerWaiting
    /\ cpc' = "idle"
    /\ quiet' = (quiet \/ fifo = <<>> \/ isStopped)
    /\ UNCHANGED <<fifo, fields, time, readerVars, cdata, heard>>

-----------------------------------------------------------------------------
(* The short calls of the client, and those of the interface thread.       *)
(* reset() and time_set() are for a quiet buffer only.                     *)

Reset ==
    /\ cpc = "idle"
    /\ quiet
    /\ ~Held
    /\ fifo' = <<>>
    /\ isStopped' = FALSE
    /\ isPaused' = FALSE
    /\ resetDev' = FALSE
    /\ UNCHANGED <<isExit, callback, time, readerVars, clientVars, history>>

TimeSet(t) ==
    /\ cpc = "idle"
    /\ quiet
    /\ ~Held
    /\ time' = t
    /\ heard' = t
    /\ UNCHANGED <<fifo, fields, readerVars, clientVars, quiet>>

SetFreeCallback ==
    /\ cpc = "idle"
    /\ ~Held
    /\ callback' = TRUE
    /\ UNCHANGED <<fifo, isPaused, isStopped, isExit, resetDev, time, readerVars,
                   clientVars, history>>

(* The destructor up to the join.  Nothing is called after it. *)
Destroy ==
    /\ cpc = "idle"
    /\ quiet
    /\ ~isExit
    /\ ~Held
    /\ isExit' = TRUE
    /\ NotifyPlay
    /\ UNCHANGED <<fifo, isPaused, isStopped, resetDev, callback, time, playBuf, devVars,
                   readerWaiting, clientVars, history>>

Pause ==
    /\ ~Held
    /\ isPaused' = TRUE
    /\ UNCHANGED <<fifo, isStopped, isExit, resetDev, callback, time, readerVars,
                   clientVars, history>>

(* Mutation of Unpause: the reader is not told.                            *)
MutUnpauseSilently ==
    /\ ~Held
    /\ isPaused' = FALSE
    /\ UNCHANGED <<fifo, isStopped, isExit, resetDev, callback, time, readerVars,
                   clientVars, history>>

Unpause ==
    /\ ~Held
    /\ isPaused' = FALSE
    /\ NotifyPlay
    /\ UNCHANGED <<fifo, isStopped, isExit, resetDev, callback, time, playBuf, devVars,
                   readerWaiting, clientVars, history>>

-----------------------------------------------------------------------------
(* The bound on the history: what is on its way to the device fits in.     *)
Fits(data) == heard + (Len(chunk) - pos) + Len(fifo) + Len(data) <= MaxTime

ClientCalls ==
    /\ ~isExit
    /\ \/ \E data \in Chunks : Fits(data) /\ PutCall(data)
       \/ StopCall
       \/ WaitCall
       \/ Reset
       \/ \E t \in 0..MaxTime : TimeSet(t)
       \/ SetFreeCallback
       \/ Destroy

(* The steps by which a call under way comes to its end. *)
ClientGoesOn ==
    \/ PutWaits \/ PutRefused \/ PutWrites
    \/ StopReturns
    \/ WaitWaits \/ WaitReturns

User == ~isExit /\ (Pause \/ Unpause)

WakesByItself == SpuriousReady \/ SpuriousPlay

Finished == rpc = "exit" /\ cpc = "idle" /\ UNCHANGED obVars

Next == Reader \/ ClientCalls \/ ClientGoesOn \/ User \/ WakesByItself \/ Finished

SafetySpec == Init /\ [][Next]_obVars

(* The reader is scheduled.  A call that waits for the mutex gets it if    *)
(* the reader lets go of it again and again, and a device that can be      *)
(* opened is opened in one of infinitely many attempts.                    *)
Fairness ==
    /\ WF_obVars(Reader)
    /\ SF_obVars(ReaderReopened)
    /\ SF_obVars(ClientGoesOn)

Spec == SafetySpec /\ Fairness

-----------------------------------------------------------------------------
(* Properties. *)

(* No lost wake-up on play_cond: while there is something to play and      *)
(* nobody paused or stopped the buffer, the reader does not wait.  Every   *)
(* call that makes that true (put, unpause, stop, reset) has to notify, or *)
(* to have left nothing to play.                                           *)
ParkedOnlyWhenIdle == rpc = "parked" => fifo = <<>> \/ isPaused \/ isStopped \/ isExit

(* What stop() and wait() promise: once one of them has returned, and      *)
(* until the next put(), no sound goes to the device, whatever the user    *)
(* pauses or unpauses meanwhile.  stop() waits for one notification,       *)
(* without a condition, so this needs condition variables that do not wake *)
(* up by themselves.                                                       *)
QuietIsSilent == quiet => ~Sending

(* The time shown is the time that was set plus what went to the device    *)
(* since: nothing is counted twice, or lost by a pause or a stop in the    *)
(* middle of a chunk.                                                      *)
TimeIsWhatWasHeard == ~Sending => time = heard

(* read_thread_waiting, which wait() trusts, is true only while the reader *)
(* waits on play_cond or has just been told to go on.                      *)
WaitingIsParked == readerWaiting => rpc \in {"parked", "woken"}

(* A put() on a full buffer returns, unless the buffer is paused.          *)
PutReturns == (cpc = "put") ~> (cpc = "idle" \/ isPaused)

(* stop() returns, paused or not. *)
StopReturnsInTheEnd == (cpc = "stopWait") ~> (cpc = "idle")

(* wait() returns, paused or not, if the user stops pressing the pause key: *)
(* it waits for a condition that every unpause makes false for a while.    *)
WaitReturnsInTheEnd ==
    <>[][~User]_obVars => ((cpc = "wait") ~> (cpc = "idle"))

(* The destructor's join comes to its end. *)
ExitHappens == isExit ~> rpc = "exit"

(* The buffer implements the line of sound: what put() was given is heard  *)
(* in that order, without a gap, unless stop() or reset() has thrown it    *)
(* away, and a buffer silenced by stop() or wait() stays silent.           *)
Line == SubSeq(chunk, pos + 1, Len(chunk)) \o fifo

SL == INSTANCE SoundLine
      WITH offered <- cdata, line <- Line, spoken <- heard, silent <- quiet, cut <- isStopped

ImplementsSoundLine == SL!Spec

=============================================================================
