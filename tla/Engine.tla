------------------------------- MODULE Engine -------------------------------
(***************************************************************************)
(* The life of the engine, core/main.cpp and core/server.cpp: the main     *)
(* thread starts the engine thread, waits until it is ready, runs the      *)
(* interface, tells it to quit and joins it.  The engine thread makes and  *)
(* frees the tags cache, which the interface calls in between.             *)
(*                                                                         *)
(* SIGTERM or SIGQUIT ends the program too.  The engine thread installs a  *)
(* handler of its own, which the interface replaces by its own.            *)
(***************************************************************************)
EXTENDS TagsCache

CONSTANTS MaxAsked,     \* bound: calls of the tags cache
          MaxSignals    \* bound: signals

ASSUME EngineBounds == MaxAsked \in Nat /\ MaxSignals \in Nat

VARIABLES
    mpc,            \* where the main thread is
    epc,            \* where the engine thread is
    cache,          \* tags_cache: none, being made, open, freed
    ready,          \* engine_ready_flag
    serverQuit,     \* server_quit
    wantQuit,       \* want_quit_flag
    handler,        \* whose handler of SIGTERM is installed
    calls, signals, \* what has been done of the bounds
    early           \* history: a signal has come before the interface was
                    \*   ready for it

lifeVars   == <<cache, ready, serverQuit, handler, early>>
engineVars == <<cacheVars, mpc, epc, lifeVars, wantQuit, calls, signals>>

MainPcs   == {"waitReady", "init", "loop", "stopper", "join", "done"}
EnginePcs == {"init", "load", "handlers", "ready", "check", "toWait", "wait", "audioExit", "stopReader",
              "joinReader", "close", "exit"}

EngineTypeOK ==
    /\ TypeOK
    /\ mpc \in MainPcs
    /\ epc \in EnginePcs
    /\ cache \in {"none", "new", "open", "freed"}
    /\ handler \in {"default", "engine", "interface"}
    /\ {ready, serverQuit, wantQuit, early} \subseteq BOOLEAN
    /\ calls \in 0..MaxAsked
    /\ signals \in 0..MaxSignals

Init ==
    /\ CacheInit
    /\ mpc = "waitReady"
    /\ epc = "init"
    /\ cache = "none"
    /\ ready = FALSE
    /\ serverQuit = FALSE
    /\ wantQuit = FALSE
    /\ handler = "default"
    /\ calls = 0
    /\ signals = 0
    /\ early = FALSE

-----------------------------------------------------------------------------
(* The engine thread: server_init, server_loop and server_shutdown. *)

EngineGoes(from, to) == epc = from /\ epc' = to

OnlyEngine == UNCHANGED <<mpc, wantQuit, calls, signals, early>>

CacheButCall == <<fileVars, dbVars, enabled, queue, stopReader, answerVars, pastVars>>

(* tags_cache_new, which starts the reader *)
NewCache ==
    /\ EngineGoes("init", "load")
    /\ cache' = "new"
    /\ call' = [call EXCEPT !["reader"] = [pc |-> "top"]]
    /\ UNCHANGED <<CacheButCall, ready, serverQuit, handler>>
    /\ OnlyEngine

(* tags_cache_load, which disables the cache if it cannot be opened *)
LoadCache ==
    /\ EngineGoes("load", "handlers")
    /\ cache' = "open"
    /\ enabled' \in BOOLEAN
    /\ UNCHANGED <<fileVars, dbVars, queue, stopReader, call, answerVars, pastVars, ready,
                   serverQuit, handler>>
    /\ OnlyEngine

EngineHandlers ==
    /\ EngineGoes("handlers", "ready")
    /\ handler' = "engine"
    /\ UNCHANGED <<cacheVars, cache, ready, serverQuit>>
    /\ OnlyEngine

SignalReady ==
    /\ EngineGoes("ready", "check")
    /\ ready' = TRUE
    /\ UNCHANGED <<cacheVars, cache, serverQuit, handler>>
    /\ OnlyEngine

(* The flag is looked at, and then the thread waits: in between it hears   *)
(* no notification.                                                        *)
CheckQuit ==
    /\ EngineGoes("check", IF serverQuit THEN "audioExit" ELSE "toWait")
    /\ UNCHANGED <<cacheVars, cache, ready, serverQuit, handler>>
    /\ OnlyEngine

StartWait ==
    /\ EngineGoes("toWait", "wait")
    /\ UNCHANGED <<cacheVars, cache, ready, serverQuit, handler>>
    /\ OnlyEngine

(* Mutation of WaitsASecond: the wait has no time-out.                     *)
MutWaitsForever == FALSE

(* quit_cond.wait_for() returns after a second. *)
WaitsASecond == epc = "wait"

WaitTimesOut ==
    /\ WaitsASecond
    /\ epc' = "check"
    /\ UNCHANGED <<cacheVars, cache, ready, serverQuit, handler>>
    /\ OnlyEngine

AudioExit ==
    /\ EngineGoes("audioExit", "stopReader")
    /\ UNCHANGED <<cacheVars, cache, ready, serverQuit, handler>>
    /\ OnlyEngine

(* tags_cache_free *)
StopReader ==
    /\ EngineGoes("stopReader", "joinReader")
    /\ stopReader' = TRUE
    /\ call' = WakeReader(call)
    /\ UNCHANGED <<fileVars, dbVars, enabled, queue, answerVars, pastVars, cache, ready,
                   serverQuit, handler>>
    /\ OnlyEngine

(* Mutation of ReaderJoined: the reader is not waited for.                 *)
MutReaderDetached == TRUE

ReaderJoined == call["reader"].pc = "exit"

JoinReader ==
    /\ EngineGoes("joinReader", "close")
    /\ ReaderJoined
    /\ UNCHANGED <<cacheVars, cache, ready, serverQuit, handler>>
    /\ OnlyEngine

FreeCache ==
    /\ EngineGoes("close", "exit")
    /\ cache' = "freed"
    /\ queue' = <<>>
    /\ UNCHANGED <<fileVars, dbVars, enabled, stopReader, call, answerVars, pastVars, ready,
                   serverQuit, handler>>
    /\ OnlyEngine

EngineThread ==
    \/ NewCache \/ LoadCache \/ EngineHandlers \/ SignalReady
    \/ CheckQuit \/ StartWait \/ WaitTimesOut
    \/ AudioExit \/ StopReader \/ JoinReader \/ FreeCache

-----------------------------------------------------------------------------
(* The main thread: start_moc and the interface. *)

OnlyMain == UNCHANGED <<epc, cache, ready, signals, early>>

WaitReady ==
    /\ mpc = "waitReady"
    /\ ready
    /\ mpc' = "init"
    /\ UNCHANGED <<cacheVars, serverQuit, handler, wantQuit, calls>>
    /\ OnlyMain

(* The constructor of UserInterface, as far as its signal handlers *)
InterfaceHandlers ==
    /\ mpc = "init"
    /\ handler' = "interface"
    /\ mpc' = "loop"
    /\ UNCHANGED <<cacheVars, serverQuit, wantQuit, calls>>
    /\ OnlyMain

(* The interface asks for tags, or jumps to a percentage of the time. *)
CallCache ==
    /\ mpc = "loop"
    /\ calls < MaxAsked
    /\ calls' = calls + 1
    /\ \E f \in Files : \/ \E sel \in Selections : Ask(f, sel)
                        \/ GetImmediate(f)
    /\ UNCHANGED <<mpc, serverQuit, handler, wantQuit>>
    /\ OnlyMain

(* The call goes on; a freed cache is the end of the process. *)
InCall ==
    /\ mpc = "loop"
    /\ cache = "open"
    /\ Called
    /\ UNCHANGED <<mpc, serverQuit, handler, wantQuit, calls>>
    /\ OnlyMain

QuitKey ==
    /\ mpc = "loop"
    /\ call["interface"].pc = "idle"
    /\ wantQuit' = TRUE
    /\ UNCHANGED <<cacheVars, mpc, serverQuit, handler, calls>>
    /\ OnlyMain

(* engine_quit(): the flag is set without the mutex, and notify_all() may  *)
(* come before the engine thread waits.                                    *)
EngineQuit ==
    /\ serverQuit' = TRUE
    /\ epc' = IF epc = "wait" THEN "check" ELSE epc

(* The interface ends, or a fatal error unwinds it. *)
LeaveInterface ==
    /\ mpc = "loop"
    /\ call["interface"].pc = "idle"
    /\ \/ wantQuit /\ EngineQuit
       \/ UNCHANGED <<serverQuit, epc>>
    /\ mpc' = "stopper"
    /\ UNCHANGED <<cacheVars, cache, ready, handler, wantQuit, calls, signals, early>>

(* The destructor of engine_stopper *)
StopperQuits ==
    /\ mpc = "stopper"
    /\ EngineQuit
    /\ mpc' = "join"
    /\ UNCHANGED <<cacheVars, cache, ready, handler, wantQuit, calls, signals, early>>

(* The engine thread is joined, and the event queue freed. *)
JoinEngine ==
    /\ mpc = "join"
    /\ epc = "exit"
    /\ mpc' = "done"
    /\ UNCHANGED <<cacheVars, serverQuit, handler, wantQuit, calls>>
    /\ OnlyMain

MainThread ==
    \/ WaitReady \/ InterfaceHandlers \/ CallCache \/ InCall \/ QuitKey
    \/ LeaveInterface \/ StopperQuits \/ JoinEngine

-----------------------------------------------------------------------------
(* sig_exit of the engine, sig_quit of the interface *)
Signal ==
    /\ signals < MaxSignals
    /\ mpc # "done"
    /\ \/ handler = "engine" /\ serverQuit' = TRUE /\ early' = TRUE /\ UNCHANGED wantQuit
       \/ handler = "interface" /\ wantQuit' = TRUE /\ UNCHANGED <<serverQuit, early>>
    /\ signals' = signals + 1
    /\ UNCHANGED <<cacheVars, mpc, epc, cache, ready, handler, calls>>

ReaderThread == Reader /\ UNCHANGED <<mpc, epc, lifeVars, wantQuit, calls, signals>>

Outside == FileChanges /\ UNCHANGED <<mpc, epc, lifeVars, wantQuit, calls, signals>>

(* Songs are played from the interface's start to audio_exit. *)
Playback ==
    /\ mpc \in {"loop", "stopper", "join"}
    /\ epc \in {"check", "toWait", "wait", "audioExit"}
    /\ SetLength
    /\ UNCHANGED <<mpc, epc, lifeVars, wantQuit, calls, signals>>

Next == EngineThread \/ MainThread \/ ReaderThread \/ Playback \/ Signal \/ Outside

(* Every thread runs on when it can; whether the user calls or quits is    *)
(* the user's choice, and so is whether an interface error occurs.         *)
Fairness ==
    /\ WF_engineVars(EngineThread)
    /\ WF_engineVars(ReaderThread)
    /\ WF_engineVars(WaitReady \/ InterfaceHandlers \/ InCall \/ StopperQuits \/ JoinEngine)
    /\ WF_engineVars(wantQuit /\ LeaveInterface)

Spec == Init /\ [][Next]_engineVars /\ Fairness

-----------------------------------------------------------------------------
(* Properties. *)

(* Nobody uses the cache before it is open or after it is freed: "Wait for *)
(* the reader thread to actually exit before touching db/db_env/locker"    *)
(* (tags_cache_free), and the interface is left before the engine is told  *)
(* to quit (engine_stopper).                                               *)
CacheIsThere ==
    /\ Busy("reader") => cache = "open"
    /\ cache \in {"none", "freed"} => call["reader"].pc = "exit"
    /\ Busy("interface") => cache = "open"

(* It holds unless a signal comes before the interface can handle it.      *)
CacheIsThereUnlessEarly == ~early => CacheIsThere

(* Every request for tags is answered, by the reader or by the cache,      *)
(* unless the engine is told to quit before.                               *)
AnswersCome == asked > answered ~> (asked = answered \/ serverQuit)

(* Quitting ends all threads: no notification of quit_cond or request_cond *)
(* that is lost keeps one of them, whatever it is doing.                   *)
QuitEnds == wantQuit \/ mpc = "stopper" ~> mpc = "done" \/ early
=============================================================================
