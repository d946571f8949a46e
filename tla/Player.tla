------------------------------- MODULE Player -------------------------------
(***************************************************************************)
(* The playing thread: play_thread_func of audio/audio.cpp, play_file,     *)
(* decode_loop and the precache thread of library/player.cpp, on top of    *)
(* the output buffer, and the calls by which the interface thread starts,  *)
(* stops, skips, seeks and pauses.                                         *)
(*                                                                         *)
(* The interface talks to the playing thread through the variable          *)
(* "request", written without a lock, and request_cond.  The playing       *)
(* thread waits on request_cond when the output buffer has no room, and is *)
(* woken by the interface or by the output buffer's free_callback.         *)
(*                                                                         *)
(* Which file follows which is left open here.  A file is SongLen pieces   *)
(* of sound, which become PutLen units each if the device needs a          *)
(* conversion.                                                             *)
(***************************************************************************)
EXTENDS OutBuf

CONSTANTS
    Songs,         \* the files
    NoSong,        \* no file: "no next file", and an empty precache.file
    SongLen,       \* pieces in a file
    PrecacheLen,   \* pieces the precache thread decodes
    PutLen,        \* units a piece becomes when it is converted
    NeedConv,      \* whether the device needs a conversion
    ParamsChange,  \* whether sound parameters may change inside a file
    AutoNext,      \* the option AutoNext
    MaxCalls       \* bound: calls of the interface

ASSUME SongAssumption == NoSong \notin Songs /\ Songs # {}
ASSUME LenAssumption ==
    /\ SongLen \in Nat \ {0}
    /\ PutLen \in Nat \ {0}
    /\ PrecacheLen \in 1..SongLen
ASSUME OptionAssumption == {NeedConv, ParamsChange, AutoNext} \subseteq BOOLEAN
ASSUME CallsAssumption == MaxCalls \in Nat
ASSUME UnitAssumption == Unit = {"pcm", "raw"}

VARIABLES
    running,       \* play_thread_running
    stopPlaying,   \* stop_playing
    state,         \* state of audio.cpp
    song,          \* the file at curr_playing, NoSong for -1
    nextSong,      \* next_file of play_file
    request,       \* request
    dpc,           \* where the playing thread is
    dpos,          \* the position of its decoder, in pieces
    decoded,       \* pieces in the buffer of decode_loop
    eof,           \* eof of decode_loop
    change,        \* sound_params_change of decode_loop
    known,         \* sound_params of play_file have been filled in
    conv,          \* need_audio_conversion
    pcFile,        \* precache.file
    pcRunning,     \* precache.running
    pcOk,          \* precache.ok
    pcBusy,        \* the precache thread itself still runs
    upc,           \* the call the interface thread is in
    calls,         \* the calls it has made
    goal,          \* what its audio_stop() is for: "stop", "play" or "exit"
    unserved       \* history: a request came after the one being served

songVars  == <<song, nextSong>>
playVars  == <<songVars, dpos, decoded, eof, change, known>>
pcVars    == <<pcFile, pcRunning, pcOk, pcBusy>>
audioVars == <<running, stopPlaying, state>>
uiVars    == <<upc, goal, calls>>
reqVars   == <<request, unserved>>
plVars    == <<audioVars, playVars, reqVars, dpc, conv, pcVars, uiVars>>
vars      == <<obVars, plVars>>

DPcs == {"none", "pick", "reset", "pcWait", "open", "pcOpening", "pcPut", "started",
         "loop", "decode", "reqWait", "dispatch", "put", "clearStop", "seekStop",
         "seekReset", "seekTime", "clearSeek", "chOpening", "stopClosing", "closing",
         "drop", "ended", "next", "finish", "closeDevice", "dead"}

UPcs == {"idle", "stop", "notify", "join", "start", "skipNotify", "seekAsk",
         "seekNotify", "pausing", "unpausing", "destroy", "exited"}

PlayerTypeOK ==
    /\ running \in BOOLEAN
    /\ stopPlaying \in BOOLEAN
    /\ state \in {"play", "stop", "pause"}
    /\ song \in Songs \cup {NoSong}
    /\ nextSong \in Songs \cup {NoSong}
    /\ request \in {"nothing", "seek", "stop"}
    /\ dpc \in DPcs
    /\ dpos \in 0..SongLen
    /\ decoded \in 0..1
    /\ {eof, change, known, conv, unserved} \subseteq BOOLEAN
    /\ pcFile \in Songs \cup {NoSong}
    /\ {pcRunning, pcOk, pcBusy} \subseteq BOOLEAN
    /\ upc \in UPcs
    /\ goal \in {"stop", "play", "exit"}
    /\ calls \in 0..MaxCalls

PlayerInit ==
    /\ Init
    /\ running = FALSE
    /\ stopPlaying = FALSE
    /\ state = "stop"
    /\ song = NoSong
    /\ nextSong = NoSong
    /\ request = "nothing"
    /\ dpc = "none"
    /\ dpos = 0
    /\ decoded = 0
    /\ eof = FALSE
    /\ change = FALSE
    /\ known = FALSE
    /\ conv = FALSE
    /\ pcFile = NoSong
    /\ pcRunning = FALSE
    /\ pcOk = FALSE
    /\ pcBusy = FALSE
    /\ upc = "idle"
    /\ goal = "stop"
    /\ calls = 0
    /\ unserved = FALSE

-----------------------------------------------------------------------------
(* request_cond.notify_one() and notify_all(): the playing thread is the   *)
(* only thread that waits on it.                                           *)
NotifyRequest == dpc' = IF dpc = "reqWait" THEN "dispatch" ELSE dpc

Goto(pc) == dpc' = pc

(* n units as audio_send_buf() hands them to the buffer: converted if      *)
(* need_audio_conversion says so.                                          *)
Data(pieces) ==
    [i \in 1..(IF conv THEN pieces * PutLen ELSE pieces) |->
        IF conv = NeedConv THEN "pcm" ELSE "raw"]

UnitsPerPiece == IF NeedConv THEN PutLen ELSE 1

-----------------------------------------------------------------------------
(* play_thread_func and play_file. *)

(* curr_playing_mtx, held while audio_pause() or audio_unpause() runs.     *)
ModeLocked == upc \in {"pausing", "unpausing"}

(* The top of the loop of play_thread_func: the file, the file after it,   *)
(* and time_set(0).  player() returns at once if no decoder takes the file. *)
Pick ==
    /\ dpc = "pick"
    /\ ~ModeLocked
    /\ TimeSet(0)
    /\ nextSong' \in Songs \cup {NoSong}
    /\ \/ Goto("reset")
       \/ Goto("ended")
    /\ UNCHANGED <<audioVars, song, dpos, decoded, eof, change, known, reqVars, conv,
                  pcVars, uiVars>>

PlayFileResets ==
    /\ dpc = "reset"
    /\ Reset
    /\ Goto("pcWait")
    /\ UNCHANGED <<audioVars, playVars, reqVars, conv, pcVars, uiVars>>

(* Mutation of PrecacheDone: the precache is taken as it is.               *)
MutPrecacheDoneAlways == TRUE

(* precache_wait joins the thread if one was started. *)
PrecacheDone == pcRunning => ~pcBusy

(* precache_wait, and precache_reset when another file was precached. *)
PlayFileJoinsPrecache ==
    /\ dpc = "pcWait"
    /\ PrecacheDone
    /\ pcRunning' = FALSE
    /\ IF pcOk /\ pcFile = song
         THEN Goto("pcOpening") /\ pcOk' = FALSE /\ UNCHANGED pcFile
         ELSE /\ Goto("open")
              /\ pcOk' = FALSE
              /\ pcFile' = IF pcOk THEN NoSong ELSE pcFile
    /\ UNCHANGED <<obVars, audioVars, playVars, reqVars, conv, pcBusy, uiVars>>

(* audio_open() for the precached file.  Its data is sent straight to the  *)
(* buffer.                                                                 *)
PrecachedOpens ==
    /\ dpc = "pcOpening"
    /\ conv' = NeedConv
    /\ known' = TRUE
    /\ Goto("pcPut")
    /\ UNCHANGED <<obVars, audioVars, songVars, dpos, decoded, eof, change, reqVars,
                  pcVars, uiVars>>

PrecachedOpenFails ==
    /\ dpc = "pcOpening"
    /\ ReopenFails
    /\ conv' = FALSE
    /\ pcFile' = NoSong
    /\ Goto("ended")
    /\ UNCHANGED <<obVars, audioVars, playVars, reqVars, pcRunning, pcOk, pcBusy, uiVars>>

PrecachedPuts ==
    /\ dpc = "pcPut"
    /\ PutCall(Data(PrecacheLen))
    /\ dpos' = PrecacheLen
    /\ Goto("started")
    /\ UNCHANGED <<audioVars, songVars, decoded, eof, change, known, reqVars, conv,
                  pcVars, uiVars>>

FileOpens ==
    /\ dpc = "open"
    /\ dpos' = 0
    /\ known' = FALSE
    /\ Goto("started")
    /\ UNCHANGED <<obVars, audioVars, songVars, decoded, eof, change, reqVars, conv,
                  pcVars, uiVars>>

FileOpenFails ==
    /\ dpc = "open"
    /\ Goto("ended")
    /\ UNCHANGED <<obVars, audioVars, playVars, reqVars, conv, pcVars, uiVars>>

(* audio_state_started_playing, precache_reset and the locals of           *)
(* decode_loop up to set_free_callback.                                    *)
Started ==
    /\ dpc = "started"
    /\ SetFreeCallback
    /\ state' = "play"
    /\ pcFile' = NoSong
    /\ pcOk' = FALSE
    /\ decoded' = 0
    /\ eof' = FALSE
    /\ change' = FALSE
    /\ Goto("loop")
    /\ UNCHANGED <<running, stopPlaying, songVars, dpos, known, reqVars, conv, pcRunning,
                  pcBusy, uiVars>>

-----------------------------------------------------------------------------
(* decode_loop. *)

Free == Size - Len(fifo)

LoopDecodes ==
    /\ dpc = "loop"
    /\ ~eof
    /\ decoded = 0
    /\ Goto("decode")
    /\ UNCHANGED <<obVars, audioVars, playVars, reqVars, conv, pcVars, uiVars>>

(* Mutation of NoRoom: at the end of the file the FIFO is not looked at.   *)
MutNoRoomAtEof == decoded > Free \/ eof

NoRoom == decoded > Free \/ (eof /\ fifo # <<>>)

(* Nothing can be put, or everything was: wait on request_cond, without    *)
(* another look at the request.  At the end of the file the next one is    *)
(* precached meanwhile.                                                    *)
LoopWaits ==
    /\ dpc = "loop"
    /\ eof \/ decoded > 0
    /\ cpc = "idle"
    /\ ~Held
    /\ NoRoom
    /\ IF eof /\ pcFile = NoSong /\ nextSong # NoSong /\ AutoNext
         THEN pcFile' = nextSong /\ pcOk' = FALSE /\ pcRunning' = TRUE /\ pcBusy' = TRUE
         ELSE UNCHANGED pcVars
    /\ Goto("reqWait")
    /\ UNCHANGED <<obVars, audioVars, playVars, reqVars, conv, uiVars>>

LoopGoesOn ==
    /\ dpc = "loop"
    /\ eof \/ decoded > 0
    /\ cpc = "idle"
    /\ ~Held
    /\ ~NoRoom
    /\ Goto("dispatch")
    /\ UNCHANGED <<obVars, audioVars, playVars, reqVars, conv, pcVars, uiVars>>

(* Mutation of Changes: the first piece is not compared with anything.     *)
MutChangesNotAtFirst == {change, change \/ ParamsChange}

(* What sound_params_change may be after a piece: its parameters may differ *)
(* from those the device was opened for, and do so in the first piece of a *)
(* file that was not precached.                                            *)
Changes == {change \/ ~known, change \/ ~known \/ ParamsChange}

Decode ==
    /\ dpc = "decode"
    /\ dpos < SongLen
    /\ dpos' = dpos + 1
    /\ decoded' = 1
    /\ change' \in Changes
    /\ Goto("dispatch")
    /\ UNCHANGED <<obVars, audioVars, songVars, eof, known, reqVars, conv, pcVars, uiVars>>

(* The end of the file, an error, or a stream that io_abort() cut short. *)
DecodeEnds ==
    /\ dpc = "decode"
    /\ eof' = TRUE
    /\ Goto("dispatch")
    /\ UNCHANGED <<obVars, audioVars, songVars, dpos, decoded, change, known, reqVars,
                  conv, pcVars, uiVars>>

(* What decode_loop does next, from its unlocked look at the request on.   *)
DispatchStop ==
    /\ dpc = "dispatch"
    /\ request = "stop"
    /\ StopCall
    /\ unserved' = FALSE
    /\ Goto("clearStop")
    /\ UNCHANGED <<audioVars, playVars, request, conv, pcVars, uiVars>>

(* Mutation of SeekTargets: a time beyond the end is not cut off.          *)
MutSeekTargetsBeyond == 0..(SongLen + 1)

SeekTargets == 0..SongLen

(* The decoder jumps to where req_seek says, or as near as it can, or refuses. *)
DispatchSeek ==
    /\ dpc = "dispatch"
    /\ request = "seek"
    /\ dpos' \in SeekTargets
    /\ unserved' = FALSE
    /\ Goto("seekStop")
    /\ UNCHANGED <<obVars, audioVars, songVars, decoded, eof, change, known, request,
                  conv, pcVars, uiVars>>

DispatchSeekFails ==
    /\ dpc = "dispatch"
    /\ request = "seek"
    /\ unserved' = FALSE
    /\ Goto("clearSeek")
    /\ UNCHANGED <<obVars, audioVars, playVars, request, conv, pcVars, uiVars>>

DispatchPut ==
    /\ dpc = "dispatch"
    /\ request = "nothing"
    /\ ~Held
    /\ ~eof /\ decoded <= Free /\ ~change
    /\ PutCall(Data(decoded))
    /\ decoded' = 0
    /\ Goto("put")
    /\ UNCHANGED <<audioVars, songVars, dpos, eof, change, known, reqVars, conv, pcVars,
                  uiVars>>

DispatchChange ==
    /\ dpc = "dispatch"
    /\ request = "nothing"
    /\ ~Held
    /\ ~eof /\ change /\ fifo = <<>>
    /\ WaitCall
    /\ change' = FALSE
    /\ known' = TRUE
    /\ Goto("chOpening")
    /\ UNCHANGED <<audioVars, songVars, dpos, decoded, eof, reqVars, conv, pcVars, uiVars>>

DispatchEnd ==
    /\ dpc = "dispatch"
    /\ request = "nothing"
    /\ ~Held
    /\ eof /\ fifo = <<>>
    /\ WaitCall
    /\ Goto("closing")
    /\ UNCHANGED <<audioVars, playVars, reqVars, conv, pcVars, uiVars>>

DispatchNothing ==
    /\ dpc = "dispatch"
    /\ request = "nothing"
    /\ ~Held
    /\ IF eof THEN fifo # <<>>
              ELSE IF change THEN fifo # <<>> ELSE decoded > Free
    /\ Goto("loop")
    /\ UNCHANGED <<obVars, audioVars, playVars, reqVars, conv, pcVars, uiVars>>

(* When clearing a request, the code looks whether it has changed since.   *)
ClearStop ==
    /\ dpc = "clearStop"
    /\ cpc = "idle"
    /\ request' = IF request = "stop" THEN "nothing" ELSE request
    /\ Goto("stopClosing")
    /\ UNCHANGED <<obVars, audioVars, playVars, unserved, conv, pcVars, uiVars>>

(* Mutation of SeekStops: the buffer is not stopped before it is reset.    *)
MutSeekDoesNotStop ==
    /\ dpc = "seekStop"
    /\ Goto("seekReset")
    /\ UNCHANGED <<obVars, audioVars, playVars, reqVars, conv, pcVars, uiVars>>

SeekStops ==
    /\ dpc = "seekStop"
    /\ StopCall
    /\ Goto("seekReset")
    /\ UNCHANGED <<audioVars, playVars, reqVars, conv, pcVars, uiVars>>

SeekResets ==
    /\ dpc = "seekReset"
    /\ Reset
    /\ Goto("seekTime")
    /\ UNCHANGED <<audioVars, playVars, reqVars, conv, pcVars, uiVars>>

(* Mutation of SeekSetsTime: the piece in the decode buffer is kept.       *)
MutSeekKeepsDecoded ==
    /\ dpc = "seekTime"
    /\ TimeSet(dpos * UnitsPerPiece)
    /\ eof' = FALSE
    /\ Goto("clearSeek")
    /\ UNCHANGED <<audioVars, songVars, dpos, decoded, change, known, reqVars, conv,
                  pcVars, uiVars>>

SeekSetsTime ==
    /\ dpc = "seekTime"
    /\ TimeSet(dpos * UnitsPerPiece)
    /\ eof' = FALSE
    /\ decoded' = 0
    /\ Goto("clearSeek")
    /\ UNCHANGED <<audioVars, songVars, dpos, change, known, reqVars, conv, pcVars,
                  uiVars>>

ClearSeek ==
    /\ dpc = "clearSeek"
    /\ request' = IF request = "seek" THEN "nothing" ELSE request
    /\ Goto("loop")
    /\ UNCHANGED <<obVars, audioVars, playVars, unserved, conv, pcVars, uiVars>>

PutDone ==
    /\ dpc = "put"
    /\ cpc = "idle"
    /\ Goto("loop")
    /\ UNCHANGED <<obVars, audioVars, playVars, reqVars, conv, pcVars, uiVars>>

(* audio_open() with the new parameters, once wait() has returned. *)
ChangeOpens ==
    /\ dpc = "chOpening"
    /\ cpc = "idle"
    /\ conv' = NeedConv
    /\ Goto("loop")
    /\ UNCHANGED <<obVars, audioVars, playVars, reqVars, pcVars, uiVars>>

ChangeOpenFails ==
    /\ dpc = "chOpening"
    /\ ReopenFails
    /\ WaitCall
    /\ conv' = FALSE
    /\ Goto("closing")
    /\ UNCHANGED <<audioVars, playVars, reqVars, pcVars, uiVars>>

(* After the loop: wait(), and precache_wait with precache_reset unless    *)
(* the next file follows by itself.                                        *)
StopCloses ==
    /\ dpc = "stopClosing"
    /\ WaitCall
    /\ Goto("drop")
    /\ UNCHANGED <<audioVars, playVars, reqVars, conv, pcVars, uiVars>>

Closes ==
    /\ dpc = "closing"
    /\ cpc = "idle"
    /\ Goto(IF AutoNext THEN "ended" ELSE "drop")
    /\ UNCHANGED <<obVars, audioVars, playVars, reqVars, conv, pcVars, uiVars>>

DropsPrecache ==
    /\ dpc = "drop"
    /\ cpc = "idle"
    /\ PrecacheDone
    /\ pcRunning' = FALSE
    /\ pcOk' = FALSE
    /\ pcFile' = NoSong
    /\ Goto("ended")
    /\ UNCHANGED <<obVars, audioVars, playVars, reqVars, conv, pcBusy, uiVars>>

-----------------------------------------------------------------------------
(* play_thread_func after player(): time_set(0), then curr_playing is set  *)
(* to -1 or go_to_another_file() chooses a file.  The variables local to   *)
(* the calls that have returned get their first values back.               *)
Ended ==
    /\ dpc = "ended"
    /\ TimeSet(0)
    /\ nextSong' = NoSong
    /\ dpos' = 0
    /\ decoded' = 0
    /\ eof' = FALSE
    /\ change' = FALSE
    /\ known' = FALSE
    /\ Goto("next")
    /\ UNCHANGED <<audioVars, song, reqVars, conv, pcVars, uiVars>>

(* Mutation of GoesToAnotherFile: curr_playing_mtx is not locked.          *)
MutGoesOnUnlocked ==
    /\ dpc = "next"
    /\ song' \in IF stopPlaying THEN {NoSong} ELSE Songs \cup {NoSong}
    /\ Goto(IF song' = NoSong THEN "finish" ELSE "pick")
    /\ UNCHANGED <<obVars, audioVars, nextSong, dpos, decoded, eof, change, known,
                  reqVars, conv, pcVars, uiVars>>

GoesToAnotherFile ==
    /\ dpc = "next"
    /\ ~ModeLocked
    /\ song' \in IF stopPlaying THEN {NoSong} ELSE Songs \cup {NoSong}
    /\ Goto(IF song' = NoSong THEN "finish" ELSE "pick")
    /\ UNCHANGED <<obVars, audioVars, nextSong, dpos, decoded, eof, change, known,
                  reqVars, conv, pcVars, uiVars>>

(* The end of the thread: STATE_STOP, then audio_close(). *)
Finishes ==
    /\ dpc = "finish"
    /\ state' = "stop"
    /\ Goto("closeDevice")
    /\ UNCHANGED <<obVars, running, stopPlaying, playVars, reqVars, conv, pcVars, uiVars>>

ClosesDevice ==
    /\ dpc = "closeDevice"
    /\ conv' = FALSE
    /\ Goto("dead")
    /\ UNCHANGED <<obVars, audioVars, playVars, reqVars, pcVars, uiVars>>

PlayingThread ==
    \/ Pick \/ PlayFileResets \/ PlayFileJoinsPrecache
    \/ PrecachedOpens \/ PrecachedOpenFails \/ PrecachedPuts
    \/ FileOpens \/ FileOpenFails \/ Started
    \/ LoopDecodes \/ LoopWaits \/ LoopGoesOn \/ Decode \/ DecodeEnds
    \/ DispatchStop \/ DispatchSeek \/ DispatchSeekFails \/ DispatchPut
    \/ DispatchChange \/ DispatchEnd \/ DispatchNothing
    \/ ClearStop \/ SeekStops \/ SeekResets \/ SeekSetsTime \/ ClearSeek \/ PutDone
    \/ ChangeOpens \/ ChangeOpenFails \/ StopCloses \/ Closes \/ DropsPrecache
    \/ Ended \/ GoesToAnotherFile \/ Finishes \/ ClosesDevice

(* The precache thread decodes the head of a file, or fails to. *)
PrecacheThread ==
    /\ pcBusy
    /\ pcBusy' = FALSE
    /\ pcOk' \in BOOLEAN
    /\ UNCHANGED <<obVars, audioVars, playVars, reqVars, dpc, conv, pcFile, pcRunning,
                  uiVars>>

-----------------------------------------------------------------------------
(* The interface thread. *)

Calls ==
    /\ upc = "idle"
    /\ calls < MaxCalls
    /\ calls' = calls + 1

(* audio_stop(), on its own, from audio_play() or from audio_exit().       *)
(* play_thread_running is still true after the thread has run to its end.  *)
AudioStop(g) ==
    /\ Calls
    /\ goal' = g
    /\ IF running
         THEN stopPlaying' = TRUE /\ upc' = "stop" /\ UNCHANGED state
         ELSE /\ state' = IF state = "pause" THEN "stop" ELSE state
              /\ upc' = CASE g = "stop" -> "idle"
                          [] g = "play" -> "start"
                          [] g = "exit" -> "destroy"
              /\ UNCHANGED stopPlaying
    /\ UNCHANGED <<obVars, running, playVars, reqVars, dpc, conv, pcVars>>

Asks(r) == request' = r /\ unserved' = TRUE

StopAsks ==
    /\ upc = "stop"
    /\ Asks("stop")
    /\ upc' = "notify"
    /\ UNCHANGED <<obVars, audioVars, playVars, dpc, conv, pcVars, goal, calls>>

StopNotifies ==
    /\ upc = "notify"
    /\ NotifyRequest
    /\ upc' = "join"
    /\ UNCHANGED <<obVars, audioVars, playVars, reqVars, conv, pcVars, goal, calls>>

StopJoins ==
    /\ upc = "join"
    /\ dpc = "dead"
    /\ running' = FALSE
    /\ stopPlaying' = FALSE
    /\ dpc' = "none"
    /\ upc' = CASE goal = "stop" -> "idle"
                [] goal = "play" -> "start"
                [] goal = "exit" -> "destroy"
    /\ UNCHANGED <<obVars, state, playVars, reqVars, conv, pcVars, goal, calls>>

(* The rest of audio_play(). *)
AudioPlayStarts ==
    /\ upc = "start"
    /\ request' = "nothing"
    /\ unserved' = FALSE
    /\ song' \in Songs \cup {NoSong}
    /\ running' = TRUE
    /\ dpc' = IF song' = NoSong THEN "finish" ELSE "pick"
    /\ upc' = "idle"
    /\ goal' = "stop"
    /\ UNCHANGED <<obVars, stopPlaying, state, nextSong, dpos, decoded, eof, change,
                  known, conv, pcVars, calls>>

(* audio_next() and audio_prev(). *)
AudioSkip ==
    /\ Calls
    /\ running
    /\ Asks("stop")
    /\ upc' = "skipNotify"
    /\ UNCHANGED <<obVars, audioVars, playVars, dpc, conv, pcVars, goal>>

(* audio_seek() and audio_jump_to() look whether something plays, and only  *)
(* then player_seek() sets the request: the song may have ended meanwhile. *)
AudioSeek ==
    /\ Calls
    /\ song # NoSong
    /\ state = "play"
    /\ upc' = "seekAsk"
    /\ UNCHANGED <<obVars, audioVars, playVars, reqVars, dpc, conv, pcVars, goal>>

(* The request is set before req_seek, whose value is left open here.      *)
SeekAsks ==
    /\ upc = "seekAsk"
    /\ Asks("seek")
    /\ upc' = "seekNotify"
    /\ UNCHANGED <<obVars, audioVars, playVars, dpc, conv, pcVars, goal, calls>>

SkipOrSeekNotifies ==
    /\ upc \in {"skipNotify", "seekNotify"}
    /\ NotifyRequest
    /\ upc' = "idle"
    /\ UNCHANGED <<obVars, audioVars, playVars, reqVars, conv, pcVars, goal, calls>>

(* audio_pause() and audio_unpause(): the buffer first, the state second.  *)
AudioPause ==
    /\ Calls
    /\ song # NoSong
    /\ Pause
    /\ upc' = "pausing"
    /\ UNCHANGED <<audioVars, playVars, reqVars, dpc, conv, pcVars, goal>>

AudioUnpause ==
    /\ Calls
    /\ song # NoSong
    /\ Unpause
    /\ upc' = "unpausing"
    /\ UNCHANGED <<audioVars, playVars, reqVars, dpc, conv, pcVars, goal>>

SetsState ==
    /\ ModeLocked
    /\ state' = IF upc = "pausing" THEN "pause" ELSE "play"
    /\ upc' = "idle"
    /\ UNCHANGED <<obVars, running, stopPlaying, playVars, reqVars, dpc, conv, pcVars,
                  goal, calls>>

(* audio_exit() destroys the buffer and cleans up after the precache.      *)
ExitDestroys ==
    /\ upc = "destroy"
    /\ Destroy
    /\ upc' = "exited"
    /\ UNCHANGED <<audioVars, playVars, reqVars, dpc, conv, pcVars, goal, calls>>

UiCalls ==
    \/ \E g \in {"stop", "play", "exit"} : AudioStop(g)
    \/ AudioSkip \/ AudioSeek \/ AudioPause \/ AudioUnpause

UiGoesOn ==
    \/ StopAsks \/ StopNotifies \/ StopJoins \/ AudioPlayStarts
    \/ SeekAsks \/ SkipOrSeekNotifies \/ SetsState \/ ExitDestroys

-----------------------------------------------------------------------------
(* The reader of the output buffer in this system: its callback notifies   *)
(* request_cond, and it is the other thread that opens and closes the      *)
(* device.                                                                 *)
ReaderStep ==
    /\ Reader
    /\ IF rpc = "cb" THEN NotifyRequest ELSE UNCHANGED dpc
    /\ conv' = CASE devClosed' /\ ~devClosed -> FALSE
                 [] devClosed /\ ~devClosed' -> NeedConv
                 [] OTHER -> conv
    /\ UNCHANGED <<audioVars, playVars, reqVars, pcVars, uiVars>>

CallStep == ClientGoesOn /\ UNCHANGED plVars

PlayerFinished == upc = "exited" /\ rpc = "exit" /\ UNCHANGED vars

PlayerNext ==
    \/ ReaderStep \/ CallStep \/ PlayingThread \/ PrecacheThread
    \/ UiCalls \/ UiGoesOn \/ PlayerFinished

PlayerSafetySpec == PlayerInit /\ [][PlayerNext]_vars

(* Every thread is scheduled and gets the mutexes it waits for; the user   *)
(* may press nothing ever again.  A device that can be opened is opened in *)
(* one of infinitely many attempts.                                        *)
PlayerSpec ==
    /\ PlayerSafetySpec
    /\ WF_vars(ReaderStep)
    /\ SF_vars(ReaderReopened /\ ReaderStep)
    /\ SF_vars(CallStep)
    /\ SF_vars(PlayingThread)
    /\ WF_vars(PrecacheThread)
    /\ SF_vars(UiGoesOn)

-----------------------------------------------------------------------------
(* Properties. *)

(* The calls the output buffer allows only while it is quiet (time_set,    *)
(* reset and the destructor) are made only then.                           *)
CallsAreAllowed ==
    /\ dpc \in {"pick", "reset", "seekReset", "seekTime", "ended"} /\ cpc = "idle" => quiet
    /\ upc = "destroy" => quiet /\ cpc = "idle"

(* Once audio_stop() has returned, or the playing thread has run to its    *)
(* end, the player is stopped in every sense: the state shown is STOP, no  *)
(* file is current, and no sound goes to the device.                       *)
StoppedIsStopped ==
    dpc \in {"none", "dead"} =>
        state = "stop" /\ song = NoSong /\ cpc = "idle" /\ ~Sending

(* What the decoder has produced since the last time_set() is either       *)
(* played, in the FIFO, in the hands of put(), or in the decode buffer:    *)
(* the time shown agrees with the position of the decoder.                 *)
Decoding == dpc \in {"loop", "decode", "reqWait", "dispatch", "put"}

TimeAgreesWithDecoder ==
    Decoding /\ ~Sending =>
        time + Len(fifo) + Len(cdata) + decoded * UnitsPerPiece = dpos * UnitsPerPiece

(* Only sound in the format of the device enters the buffer.               *)
NothingRawQueued ==
    \A data \in {fifo, chunk, cdata} : \A i \in 1..Len(data) : data[i] = "pcm"

(* The assertions of start_precache and precache_reset: neither is reached *)
(* while a precache thread has yet to be joined.                           *)
PrecacheIsJoined ==
    /\ pcRunning => pcFile # NoSong
    /\ dpc = "started" => ~pcRunning
    /\ pcBusy => pcRunning

(* audio_stop() comes to its end unless the output is paused. *)
StopCompletesUnlessPaused == (upc = "join") ~> (upc # "join" \/ isPaused)

(* audio_stop() comes to its end: the interface is never blocked for good. *)
StopCompletes == (upc = "join") ~> (upc # "join")

(* When a seek is cleared, it is the one that was carried out: none that   *)
(* came after it is thrown away.                                           *)
SeekNotLost ==
    [][dpc = "clearSeek" /\ request = "seek" /\ request' = "nothing" => ~unserved]_vars

=============================================================================
