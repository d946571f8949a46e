----------------------------- MODULE EventQueue -----------------------------
(***************************************************************************)
(* The engine event queue of core/server.cpp and the two loops of          *)
(* ui/curses/interface.cpp that empty it.                                  *)
(*                                                                         *)
(* Engine threads push an event under the queue's mutex and only then      *)
(* write one byte to a non-blocking pipe.  The interface thread sleeps in  *)
(* pselect() on that pipe, or, while it collects tags for a playlist it is *)
(* about to save, in a select() without a time-out.  It empties the pipe   *)
(* first and the queue second.  Mutex-protected regions are single steps;  *)
(* the pipe operations between them are steps of their own.                *)
(***************************************************************************)
EXTENDS Naturals, Sequences, FiniteSets

CONSTANTS
    Producers,    \* the engine threads that push events
    TagReader,    \* the one of them that answers tag requests
    MaxEvents,    \* bound: events each producer pushes
    PipeCap,      \* bytes the pipe holds
    ReadChunk,    \* bytes one read() takes, sizeof(buf) in the flush
    MaxFiles      \* bound: files fill_tags() asks for at once

ASSUME ReaderAssumption == TagReader \in Producers
ASSUME BoundAssumption  == MaxEvents \in Nat /\ MaxFiles \in Nat
ASSUME PipeAssumption   == PipeCap \in Nat \ {0} /\ ReadChunk \in Nat \ {0}

VARIABLES
    q,            \* engine_event_queue::q
    pipe,         \* bytes in the pipe
    ppc,          \* per producer: "idle", or "write" between push and write()
    made,         \* per producer: events pushed so far
    unanswered,   \* tag requests the reader thread has not answered
    upc,          \* where the interface thread is
    uret,         \* where the flush in progress returns to
    fdset,        \* whether pselect() reported the pipe readable
    dest,         \* UserInterface::events
    awaited,      \* "files" of fill_tags()
    interrupted,  \* wants_interrupt_flag
    handled       \* the events server_event() has seen, oldest first

queueVars == <<q, pipe, ppc, made>>
uiVars    == <<upc, uret, fdset, dest, awaited, interrupted, handled>>
vars      == <<queueVars, unanswered, uiVars>>

Event == [from : Producers, num : 1..MaxEvents]

UiPcs == {"dispatch", "select", "key", "fill", "wselect", "read", "splice",
          "afterkey"}

(* A flush returns to the main loop, to the emptiness test in the middle   *)
(* of wait_flush, or to fill_tags() once wait_flush has slept.             *)
Returns == {"dispatch", "check", "slept"}

TypeOK ==
    /\ q \in Seq(Event)
    /\ pipe \in 0..PipeCap
    /\ ppc \in [Producers -> {"idle", "write"}]
    /\ made \in [Producers -> 0..MaxEvents]
    /\ unanswered \in 0..MaxFiles
    /\ upc \in UiPcs
    /\ uret \in Returns
    /\ fdset \in BOOLEAN
    /\ dest \in Seq(Event)
    /\ awaited \in 0..MaxFiles
    /\ interrupted \in BOOLEAN
    /\ handled \in Seq(Event)

Init ==
    /\ q = <<>>
    /\ pipe = 0
    /\ ppc = [p \in Producers |-> "idle"]
    /\ made = [p \in Producers |-> 0]
    /\ unanswered = 0
    /\ upc = "dispatch"
    /\ uret = "dispatch"
    /\ fdset = FALSE
    /\ dest = <<>>
    /\ awaited = 0
    /\ interrupted = FALSE
    /\ handled = <<>>

-----------------------------------------------------------------------------
(* The engine threads. *)

(* First half of eq_push: the locked push.  The tag reader pushes only in  *)
(* answer to a request.                                                    *)
Push(p) ==
    /\ ppc[p] = "idle"
    /\ made[p] < MaxEvents
    /\ IF p = TagReader
         THEN unanswered > 0 /\ unanswered' = unanswered - 1
         ELSE UNCHANGED unanswered
    /\ q' = Append(q, [from |-> p, num |-> made[p] + 1])
    /\ made' = [made EXCEPT ![p] = @ + 1]
    /\ ppc' = [ppc EXCEPT ![p] = "write"]
    /\ UNCHANGED <<pipe, uiVars>>

(* Mutation of Written: the write() does not notice that the pipe is full. *)
MutWrittenOverfull == pipe + 1

Written == IF pipe < PipeCap THEN pipe + 1 ELSE pipe

(* Second half: write() of one byte.  A full pipe refuses it with EAGAIN,  *)
(* which eq_push ignores.                                                  *)
Wake(p) ==
    /\ ppc[p] = "write"
    /\ pipe' = Written
    /\ ppc' = [ppc EXCEPT ![p] = "idle"]
    /\ UNCHANGED <<q, made, unanswered, uiVars>>

-----------------------------------------------------------------------------
(* The main loop of the interface. *)

(* dequeue_events: server_event() for the oldest event of the local queue. *)
Dispatch ==
    /\ upc = "dispatch"
    /\ dest # <<>>
    /\ handled' = Append(handled, Head(dest))
    /\ dest' = Tail(dest)
    /\ UNCHANGED <<queueVars, unanswered, upc, uret, fdset, awaited, interrupted>>

EnterSelect ==
    /\ upc = "dispatch"
    /\ dest = <<>>
    /\ upc' = "select"
    /\ UNCHANGED <<queueVars, unanswered, uret, fdset, dest, awaited, interrupted,
                   handled>>

(* pselect() times out after a second, or a signal ends it: nothing is     *)
(* drained and the loop starts over.                                       *)
SelectTimesOut ==
    /\ upc = "select"
    /\ pipe = 0
    /\ upc' = "dispatch"
    /\ UNCHANGED <<queueVars, unanswered, uret, fdset, dest, awaited, interrupted,
                   handled>>

SelectReportsEvents ==
    /\ upc = "select"
    /\ pipe > 0
    /\ fdset' = TRUE
    /\ upc' = "afterkey"
    /\ UNCHANGED <<queueVars, unanswered, uret, dest, awaited, interrupted, handled>>

(* A key was pressed; the pipe may be readable as well.  The key is handled *)
(* first, after clear_interrupt().                                         *)
SelectReportsKey ==
    /\ upc = "select"
    /\ fdset' = (pipe > 0)
    /\ interrupted' = FALSE
    /\ upc' = "key"
    /\ UNCHANGED <<queueVars, unanswered, uret, dest, awaited, handled>>

StartFlush(ret) ==
    /\ uret' = ret
    /\ upc' = "read"

(* What the loop does with the descriptor set once the key is dealt with:  *)
(* get_and_handle_event() if pselect() had reported the pipe.              *)
AfterKey ==
    /\ upc = "afterkey"
    /\ IF fdset
         THEN StartFlush("dispatch")
         ELSE upc' = "dispatch" /\ UNCHANGED uret
    /\ fdset' = FALSE
    /\ UNCHANGED <<queueVars, unanswered, dest, awaited, interrupted, handled>>

-----------------------------------------------------------------------------
(* engine_event_queue_flush. *)

FlushRead ==
    /\ upc = "read"
    /\ IF pipe > 0
         THEN /\ pipe' = IF pipe > ReadChunk THEN pipe - ReadChunk ELSE 0
              /\ UNCHANGED upc
         ELSE /\ upc' = "splice"
              /\ UNCHANGED pipe
    /\ UNCHANGED <<q, ppc, made, unanswered, uret, fdset, dest, awaited, interrupted,
                   handled>>

(* Mutation of AfterFlush: wait_flush sleeps whatever its first flush found. *)
MutAfterFlushSleeps(found) ==
    CASE uret = "dispatch" -> "dispatch"
      [] uret = "slept"    -> "fill"
      [] uret = "check"    -> "wselect"

(* Where the flush returns to.  wait_flush returns at once when its first  *)
(* flush found something, and sleeps in select() otherwise.                *)
AfterFlush(found) ==
    CASE uret = "dispatch" -> "dispatch"
      [] uret = "slept"    -> "fill"
      [] uret = "check"    -> IF found THEN "fill" ELSE "wselect"

(* Mutation of Spliced: new events go in front of those not handled.       *)
MutSplicedInFront == q \o dest

(* Where the events of the queue go: behind those not handled yet. *)
Spliced == dest \o q

FlushSplice ==
    /\ upc = "splice"
    /\ dest' = Spliced
    /\ q' = <<>>
    /\ upc' = AfterFlush(dest' # <<>>)
    /\ UNCHANGED <<pipe, ppc, made, unanswered, uret, fdset, awaited, interrupted,
                   handled>>

-----------------------------------------------------------------------------
(* A key, and the one key handler that waits for events: fill_tags(). *)

KeyDone ==
    /\ upc = "key"
    /\ upc' = "afterkey"
    /\ UNCHANGED <<queueVars, unanswered, uret, fdset, dest, awaited, interrupted,
                   handled>>

(* fill_tags() asks for the tags of n files.  The bound keeps the reader   *)
(* able to answer all of them.                                             *)
FillTags ==
    /\ upc = "key"
    /\ \E n \in 1..MaxFiles :
         /\ unanswered + n <= MaxFiles
         /\ made[TagReader] + unanswered + n <= MaxEvents
         /\ unanswered' = unanswered + n
         /\ awaited' = n
    /\ upc' = "fill"
    /\ UNCHANGED <<queueVars, uret, fdset, dest, interrupted, handled>>

(* Mutation of LeftAfter: an answer does not lower the count.              *)
MutLeftAfterIgnores(e) == awaited

LeftAfter(e) == IF e.from = TagReader THEN awaited - 1 ELSE awaited

(* One turn of its loop with an event at hand: server_event(), and one     *)
(* file less to wait for when the event answers a tag request.             *)
FillHandles ==
    /\ upc = "fill"
    /\ awaited > 0
    /\ ~interrupted
    /\ dest # <<>>
    /\ handled' = Append(handled, Head(dest))
    /\ dest' = Tail(dest)
    /\ awaited' = LeftAfter(Head(dest))
    /\ UNCHANGED <<queueVars, unanswered, upc, uret, fdset, interrupted>>

(* One turn without: engine_event_queue_wait_flush(). *)
FillWaits ==
    /\ upc = "fill"
    /\ awaited > 0
    /\ ~interrupted
    /\ dest = <<>>
    /\ StartFlush("check")
    /\ UNCHANGED <<queueVars, unanswered, fdset, dest, awaited, interrupted, handled>>

(* The select() of wait_flush has no time-out. *)
WaitSelectReturns ==
    /\ upc = "wselect"
    /\ pipe > 0
    /\ StartFlush("slept")
    /\ UNCHANGED <<queueVars, unanswered, fdset, dest, awaited, interrupted, handled>>

FillEnds ==
    /\ upc = "fill"
    /\ awaited = 0 \/ interrupted
    /\ awaited' = 0
    /\ upc' = "afterkey"
    /\ UNCHANGED <<queueVars, unanswered, uret, fdset, dest, interrupted, handled>>

(* SIGINT: the handler sets a flag, and a select() it finds the thread in  *)
(* returns EINTR, after which wait_flush flushes all the same.             *)
SigInt ==
    /\ ~interrupted
    /\ interrupted' = TRUE
    /\ IF upc = "wselect"
         THEN StartFlush("slept")
         ELSE UNCHANGED <<upc, uret>>
    /\ UNCHANGED <<queueVars, unanswered, fdset, dest, awaited, handled>>

-----------------------------------------------------------------------------
(* Mutation of Engine: the byte is written before the event is pushed.     *)
MutEngineWakesFirst(p) ==
    \/ /\ ppc[p] = "idle"
       /\ made[p] < MaxEvents
       /\ p = TagReader => unanswered > 0
       /\ pipe' = Written
       /\ ppc' = [ppc EXCEPT ![p] = "write"]
       /\ UNCHANGED <<q, made, unanswered, uiVars>>
    \/ /\ ppc[p] = "write"
       /\ q' = Append(q, [from |-> p, num |-> made[p] + 1])
       /\ made' = [made EXCEPT ![p] = @ + 1]
       /\ unanswered' = IF p = TagReader THEN unanswered - 1 ELSE unanswered
       /\ ppc' = [ppc EXCEPT ![p] = "idle"]
       /\ UNCHANGED <<pipe, uiVars>>

(* eq_push. *)
Engine(p) == Push(p) \/ Wake(p)

Flush == FlushRead \/ FlushSplice

MainLoop == Dispatch \/ EnterSelect \/ SelectReportsEvents \/ AfterKey \/ KeyDone

Fill == FillHandles \/ FillWaits \/ WaitSelectReturns \/ FillEnds

(* What the interface thread does without anybody pressing a key. *)
Interface == Flush \/ MainLoop \/ Fill

(* The user, and the clock. *)
Outside == SelectTimesOut \/ SelectReportsKey \/ FillTags \/ SigInt

Next == (\E p \in Producers : Engine(p)) \/ Interface \/ Outside

SafetySpec == Init /\ [][Next]_vars

(* The interface thread is scheduled, a producer finishes the push it      *)
(* started, and the tag reader answers the requests it took.  Other        *)
(* threads push when they have something to say, the user presses a key    *)
(* when he likes.                                                          *)
Spec ==
    /\ SafetySpec
    /\ WF_vars(Interface)
    /\ \A p \in Producers : WF_vars(Wake(p))
    /\ WF_vars(Push(TagReader))

-----------------------------------------------------------------------------
(* Properties. *)

(* An event in the queue has its wake-up: a byte in the pipe, a producer    *)
(* about to write one, or an interface thread that has yet to look into    *)
(* the queue.  Without it a thread in pselect() would sleep on while       *)
(* something is pending (eq_push writes after it pushes, the flush reads   *)
(* before it splices; either order reversed loses a wake-up).              *)
NoLostWakeup ==
    q # <<>> => \/ pipe > 0
                \/ \E p \in Producers : ppc[p] = "write"
                \/ upc \in {"read", "splice"}

Answers(s) == Cardinality({i \in DOMAIN s : s[i].from = TagReader})

(* Every file fill_tags() still waits for has an answer on its way: a       *)
(* request the reader holds or an event in one of the two queues.  It is   *)
(* what keeps a save of the playlist from waiting for ever in a select()   *)
(* that has no time-out.                                                   *)
AwaitedIsOnItsWay == awaited <= unanswered + Answers(q) + Answers(dest)

(* fill_tags() comes to an end, whatever other events the engine sends     *)
(* meanwhile, without the time-out the main loop has.                      *)
FillTagsEnds == upc = "fill" ~> upc = "afterkey"

(* The queue implements the mailbox: what was pushed is what is handled,    *)
(* in the same order, once each, and all of it.                            *)
Sent == handled \o dest \o q

MB == INSTANCE Mailbox WITH Letters <- Event, sent <- Sent, received <- handled

ImplementsMailbox == MB!Spec

=============================================================================
