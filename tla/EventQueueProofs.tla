-------------------------- MODULE EventQueueProofs --------------------------
(***************************************************************************)
(* Proofs about EventQueue, for any number of producers, of events and of  *)
(* files, and a pipe of any size.                                          *)
(***************************************************************************)
EXTENDS EventQueue, SeqLemmas

USE DEF UiPcs, Returns

-----------------------------------------------------------------------------
(* Type correctness. *)

(* The variables start with their types. *)
LEMMA InitType == Init => TypeOK
<1> SUFFICES ASSUME Init PROVE TypeOK
  OBVIOUS
<1>1. <<>> \in Seq(Event)
  BY EmptyType
<1>2. 0 \in 0..PipeCap /\ 0 \in 0..MaxEvents /\ 0 \in 0..MaxFiles
  BY PipeAssumption, BoundAssumption
<1>3. ppc \in [Producers -> {"idle", "write"}] /\ made \in [Producers -> 0..MaxEvents]
  BY <1>2 DEF Init
<1> QED
  BY <1>1, <1>2, <1>3 DEF Init, TypeOK

(* The number of an event fits the bound, so the event is one. *)
LEMMA PushType == ASSUME TypeOK, NEW p \in Producers, Push(p) PROVE TypeOK'
<1> USE DEF TypeOK, uiVars
<1> DEFINE e == [from |-> p, num |-> made[p] + 1]
<1>1. made[p] \in 0..MaxEvents /\ made[p] < MaxEvents
  BY DEF Push
<1>2. e \in Event
  BY <1>1, BoundAssumption DEF Event
<1>3. q' \in Seq(Event)
  <2>1. q' = Append(q, e)
    BY DEF Push
  <2> HIDE DEF e
  <2> QED
    BY <1>2, <2>1, AppendAsConcat
<1>4. made' \in [Producers -> 0..MaxEvents]
  BY <1>1, BoundAssumption DEF Push
<1>5. ppc' \in [Producers -> {"idle", "write"}]
  BY DEF Push
<1>6. unanswered' \in 0..MaxFiles
  BY BoundAssumption DEF Push
<1> QED
  BY <1>3, <1>4, <1>5, <1>6 DEF Push

(* A byte more in the pipe is one that fits. *)
LEMMA WakeType == ASSUME TypeOK, NEW p \in Producers, Wake(p) PROVE TypeOK'
<1>1. pipe' \in 0..PipeCap
  BY PipeAssumption DEF TypeOK, Wake, Written
<1>2. ppc' \in [Producers -> {"idle", "write"}]
  BY DEF TypeOK, Wake, Written
<1> QED
  BY <1>1, <1>2 DEF TypeOK, Wake, uiVars

(* server_event() for the oldest event at hand. *)
LEMMA HandleType ==
    ASSUME TypeOK, dest # <<>>, handled' = Append(handled, Head(dest)), dest' = Tail(dest)
    PROVE  handled' \in Seq(Event) /\ dest' \in Seq(Event)
<1>1. Head(dest) \in Event /\ Tail(dest) \in Seq(Event)
  BY HeadThenTail DEF TypeOK
<1>2. handled \in Seq(Event)
  BY DEF TypeOK
<1> QED
  BY <1>1, <1>2, AppendAsConcat

(* The interface thread and what happens to it keep the types. *)
LEMMA InterfaceType == ASSUME TypeOK, Interface \/ Outside PROVE TypeOK'
<1> USE DEF queueVars
<1>1. CASE Dispatch
  BY <1>1, HandleType DEF Dispatch, TypeOK
<1>2. CASE FillHandles
  <2>1. awaited' \in 0..MaxFiles
    BY <1>2, BoundAssumption DEF FillHandles, LeftAfter, TypeOK
  <2> QED
    BY <1>2, <2>1, HandleType DEF FillHandles, LeftAfter, TypeOK
<1>3. CASE FlushRead
  <2>1. pipe' \in 0..PipeCap
    BY <1>3, PipeAssumption DEF FlushRead, TypeOK
  <2> QED
    BY <1>3, <2>1 DEF FlushRead, TypeOK
<1>4. CASE FlushSplice
  <2>1. dest' \in Seq(Event) /\ q' \in Seq(Event)
    BY <1>4, ConcatType, EmptyType DEF FlushSplice, Spliced, TypeOK
  <2>2. upc' \in UiPcs
    BY <1>4 DEF FlushSplice, AfterFlush, TypeOK
  <2> QED
    BY <1>4, <2>1, <2>2 DEF FlushSplice, TypeOK
<1>5. CASE EnterSelect \/ SelectReportsEvents \/ AfterKey \/ KeyDone
  BY <1>5 DEF EnterSelect, SelectReportsEvents, AfterKey, KeyDone, StartFlush, TypeOK
<1>6. CASE FillWaits \/ WaitSelectReturns
  BY <1>6 DEF FillWaits, WaitSelectReturns, StartFlush, TypeOK
<1>7. CASE FillEnds
  BY <1>7, BoundAssumption DEF FillEnds, TypeOK
<1>8. CASE SelectTimesOut \/ SelectReportsKey \/ SigInt
  <2>1. CASE SelectTimesOut
    BY <2>1 DEF SelectTimesOut, TypeOK
  <2>2. CASE SelectReportsKey
    <3>1. (pipe > 0) \in BOOLEAN
      OBVIOUS
    <3>2. fdset' \in BOOLEAN
      BY <2>2, <3>1 DEF SelectReportsKey
    <3> QED
      BY <2>2, <3>2 DEF SelectReportsKey, TypeOK
  <2>3. CASE SigInt
    <3>1. upc' \in UiPcs /\ uret' \in Returns
      BY <2>3 DEF SigInt, StartFlush, TypeOK
    <3> QED
      BY <2>3, <3>1 DEF SigInt, TypeOK
  <2> QED
    BY <1>8, <2>1, <2>2, <2>3
<1>9. CASE FillTags
  BY <1>9, BoundAssumption DEF FillTags, TypeOK
<1> QED
  BY <1>1, <1>2, <1>3, <1>4, <1>5, <1>6, <1>7, <1>8, <1>9
     DEF Interface, Outside, Flush, MainLoop, Fill

(* So does every step. *)
LEMMA NextType == TypeOK /\ [Next]_vars => TypeOK'
<1>1. CASE UNCHANGED vars
  BY <1>1 DEF TypeOK, vars, queueVars, uiVars
<1> QED
  BY <1>1, PushType, WakeType, InterfaceType DEF Next, Engine

(* The variables have their types, whoever pushes, drains or interrupts.   *)
THEOREM TypeCorrect == SafetySpec => []TypeOK
<1>1. TypeOK /\ [Next]_vars => TypeOK'
  BY NextType
<1> QED
  BY <1>1, InitType, PTL DEF SafetySpec

-----------------------------------------------------------------------------
(* No wake-up is lost. *)

(* Each action keeps the wake-up of whatever is in the queue. *)
LEMMA NextWakeup == TypeOK /\ NoLostWakeup /\ [Next]_vars => NoLostWakeup'
<1> SUFFICES ASSUME TypeOK, NoLostWakeup, [Next]_vars PROVE NoLostWakeup'
  OBVIOUS
<1> USE DEF NoLostWakeup, queueVars, uiVars
<1>1. ASSUME NEW p \in Producers, Push(p) PROVE NoLostWakeup'
  BY <1>1 DEF Push, TypeOK
<1>2. ASSUME NEW p \in Producers, Wake(p) PROVE NoLostWakeup'
  <2>1. pipe' > 0
    BY <1>2, PipeAssumption DEF Wake, Written, TypeOK
  <2> QED
    BY <2>1
<1>3. CASE FlushRead
  BY <1>3 DEF FlushRead
<1>4. CASE FlushSplice
  BY <1>4 DEF FlushSplice
<1>5. CASE MainLoop \/ Fill \/ Outside
  BY <1>5 DEF MainLoop, Fill, Outside, Dispatch, EnterSelect, SelectReportsEvents, AfterKey,
     KeyDone, FillHandles, FillWaits, WaitSelectReturns, FillEnds, SelectTimesOut,
     SelectReportsKey, FillTags, SigInt, StartFlush
<1>6. CASE UNCHANGED vars
  BY <1>6 DEF vars
<1> QED
  BY <1>1, <1>2, <1>3, <1>4, <1>5, <1>6 DEF Next, Engine, Interface, Flush

(* While an event is pending there is a byte in the pipe, one about to be  *)
(* written, or a flush that has yet to look into the queue, even when the  *)
(* pipe is full and refuses bytes.                                         *)
THEOREM WakeupsAreNotLost == SafetySpec => []NoLostWakeup
<1>1. Init => NoLostWakeup
  BY DEF Init, NoLostWakeup
<1>2. TypeOK /\ NoLostWakeup /\ [Next]_vars => NoLostWakeup'
  BY NextWakeup
<1> QED
  BY <1>1, <1>2, TypeCorrect, PTL DEF SafetySpec

-----------------------------------------------------------------------------
(* Every answer fill_tags() waits for is on its way. *)

(* The invariant: only fill_tags(), or a flush it called, leaves answers    *)
(* to be awaited.  The main loop, which does not count the answers it      *)
(* hands to server_event(), is not reached before they are given up.       *)
Filling == upc \in {"fill", "wselect"} \/ (upc \in {"read", "splice"} /\ uret # "dispatch")

AwaitedInv == AwaitedIsOnItsWay /\ (awaited > 0 => Filling)

(* The events that are answers. *)
AnswerEvents == {e \in Event : e.from = TagReader}

(* What the two counts of answers amount to... *)
LEMMA AnswersCounted ==
    ASSUME NEW s \in Seq(Event)
    PROVE  Answers(s) = Cardinality(Places(s, AnswerEvents)) /\ Answers(s) \in Nat
<1>1. {i \in DOMAIN s : s[i].from = TagReader} = Places(s, AnswerEvents)
  <2>1. \A i \in DOMAIN s : s[i] \in Event
    OBVIOUS
  <2> QED
    BY <2>1 DEF Places, AnswerEvents
<1> QED
  BY <1>1, PlacesFinite DEF Answers

(* ...after an event was pushed... *)
LEMMA AnswersPush ==
    ASSUME NEW s \in Seq(Event), NEW e \in Event
    PROVE  Answers(Append(s, e)) = Answers(s) + (IF e.from = TagReader THEN 1 ELSE 0)
<1>1. Append(s, e) \in Seq(Event)
  OBVIOUS
<1>2. e \in AnswerEvents <=> e.from = TagReader
  BY DEF AnswerEvents
<1>3. Cardinality(Places(Append(s, e), AnswerEvents))
        = Cardinality(Places(s, AnswerEvents)) + (IF e \in AnswerEvents THEN 1 ELSE 0)
  BY CountAppend
<1> QED
  BY <1>1, <1>2, <1>3, AnswersCounted

(* ...after one was handled... *)
LEMMA AnswersHandle ==
    ASSUME NEW s \in Seq(Event), s # <<>>
    PROVE  Answers(s) = Answers(Tail(s)) + (IF Head(s).from = TagReader THEN 1 ELSE 0)
<1>1. Tail(s) \in Seq(Event) /\ Head(s) \in Event
  BY HeadThenTail
<1>2. Head(s) \in AnswerEvents <=> Head(s).from = TagReader
  BY <1>1 DEF AnswerEvents
<1>3. Cardinality(Places(s, AnswerEvents))
        = Cardinality(Places(Tail(s), AnswerEvents)) + (IF Head(s) \in AnswerEvents THEN 1 ELSE 0)
  BY CountTail
<1>4. /\ Answers(s) = Cardinality(Places(s, AnswerEvents))
      /\ Answers(Tail(s)) = Cardinality(Places(Tail(s), AnswerEvents))
  BY <1>1, AnswersCounted
<1> QED
  BY <1>2, <1>3, <1>4

(* ...and after a queue was spliced behind another. *)
LEMMA AnswersSplice ==
    ASSUME NEW s \in Seq(Event), NEW t \in Seq(Event)
    PROVE  Answers(s \o t) = Answers(s) + Answers(t)
<1>1. s \o t \in Seq(Event)
  BY ConcatType
<1>2. Cardinality(Places(s \o t, AnswerEvents))
        = Cardinality(Places(s, AnswerEvents)) + Cardinality(Places(t, AnswerEvents))
  BY CountConcat
<1> QED
  BY <1>1, <1>2, AnswersCounted

(* None are in an empty queue. *)
LEMMA AnswersNone == Answers(<<>>) = 0
<1>1. {i \in DOMAIN <<>> : <<>>[i].from = TagReader} = {}
  OBVIOUS
<1> QED
  BY <1>1, FS_EmptySet DEF Answers

(* Each action keeps the invariant. *)
LEMMA NextAwaited == TypeOK /\ AwaitedInv /\ [Next]_vars => AwaitedInv'
<1> SUFFICES ASSUME TypeOK, AwaitedInv, [Next]_vars PROVE AwaitedInv'
  OBVIOUS
<1> USE DEF AwaitedInv, AwaitedIsOnItsWay, Filling, queueVars, uiVars
<1>1. /\ q \in Seq(Event) /\ dest \in Seq(Event)
      /\ awaited \in Nat /\ unanswered \in Nat /\ Answers(q) \in Nat /\ Answers(dest) \in Nat
  BY AnswersCounted, BoundAssumption DEF TypeOK
<1>2. ASSUME NEW p \in Producers, Push(p) PROVE AwaitedInv'
  <2> DEFINE e == [from |-> p, num |-> made[p] + 1]
  <2>1. e \in Event /\ e.from = p
    <3>1. made[p] \in 0..MaxEvents /\ made[p] < MaxEvents
      BY <1>2 DEF Push, TypeOK
    <3> QED
      BY <3>1, BoundAssumption DEF Event
  <2>2. q' = Append(q, e)
    BY <1>2 DEF Push
  <2> HIDE DEF e
  <2>3. Answers(q') = Answers(q) + (IF p = TagReader THEN 1 ELSE 0)
    BY <1>1, <2>1, <2>2, AnswersPush
  <2>4. unanswered' = IF p = TagReader THEN unanswered - 1 ELSE unanswered
    BY <1>2 DEF Push
  <2>5. UNCHANGED uiVars
    BY <1>2 DEF Push
  <2> QED
    BY <1>1, <2>3, <2>4, <2>5
<1>3. ASSUME NEW p \in Producers, Wake(p) PROVE AwaitedInv'
  BY <1>3 DEF Wake
<1>4. CASE Dispatch
  <2>1. awaited = 0
    BY <1>1, <1>4 DEF Dispatch
  <2>2. dest' \in Seq(Event) /\ Answers(dest') \in Nat
    BY <1>1, <1>4, HeadThenTail, AnswersCounted DEF Dispatch
  <2>3. awaited' = 0 /\ unanswered' = unanswered /\ q' = q
    BY <2>1, <1>4 DEF Dispatch
  <2> QED
    BY <1>1, <2>2, <2>3
<1>5. CASE FillHandles
  <2>1. dest # <<>> /\ dest' = Tail(dest) /\ awaited > 0 /\ awaited' = LeftAfter(Head(dest))
        /\ q' = q /\ unanswered' = unanswered /\ upc = "fill" /\ upc' = upc
    BY <1>5 DEF FillHandles
  <2>2. Answers(dest) = Answers(dest') + (IF Head(dest).from = TagReader THEN 1 ELSE 0)
    BY <1>1, <2>1, AnswersHandle
  <2>3. dest' \in Seq(Event) /\ Answers(dest') \in Nat
    BY <1>1, <2>1, HeadThenTail, AnswersCounted
  <2>4. awaited' = awaited - (IF Head(dest).from = TagReader THEN 1 ELSE 0)
    BY <1>1, <2>1 DEF LeftAfter
  <2> QED
    BY <1>1, <2>1, <2>2, <2>3, <2>4
<1>6. CASE FlushSplice
  <2>1. dest' = dest \o q /\ q' = <<>> /\ awaited' = awaited /\ unanswered' = unanswered
        /\ upc = "splice" /\ uret' = uret /\ upc' = AfterFlush(dest' # <<>>)
    BY <1>6 DEF FlushSplice, Spliced
  <2>2. Answers(dest') = Answers(dest) + Answers(q) /\ Answers(q') = 0
    BY <1>1, <2>1, AnswersSplice, AnswersNone
  <2>3. awaited > 0 => upc' \in {"fill", "wselect"}
    BY <2>1 DEF AfterFlush, TypeOK
  <2> QED
    BY <1>1, <2>1, <2>2, <2>3
<1>7. CASE FillTags
  <2>1. PICK n \in 1..MaxFiles : unanswered' = unanswered + n /\ awaited' = n
    BY <1>7 DEF FillTags
  <2>2. q' = q /\ dest' = dest /\ upc' = "fill" /\ n \in Nat
    BY <1>7, BoundAssumption DEF FillTags
  <2> QED
    BY <1>1, <2>1, <2>2
<1>8. CASE FlushRead
  BY <1>8 DEF FlushRead
<1>9. CASE EnterSelect \/ SelectReportsEvents \/ AfterKey \/ KeyDone \/ SelectTimesOut
           \/ SelectReportsKey
  BY <1>9 DEF EnterSelect, SelectReportsEvents, AfterKey, KeyDone, StartFlush, SelectTimesOut,
     SelectReportsKey
<1>10. CASE FillWaits \/ WaitSelectReturns \/ SigInt
  BY <1>10 DEF FillWaits, WaitSelectReturns, StartFlush, SigInt
<1>11. CASE FillEnds
  <2>1. awaited' = 0 /\ q' = q /\ dest' = dest /\ unanswered' = unanswered
    BY <1>11 DEF FillEnds
  <2> QED
    BY <1>1, <2>1
<1>12. CASE UNCHANGED vars
  BY <1>12 DEF vars
<1> QED
  BY <1>2, <1>3, <1>4, <1>5, <1>6, <1>7, <1>8, <1>9, <1>10, <1>11, <1>12
     DEF Next, Engine, Interface, Outside, Flush, MainLoop, Fill

(* fill_tags(), whose select() has no time-out, never waits for an answer  *)
(* that nobody will send, for any number of files asked for and whatever   *)
(* interrupts, other events and full pipes come in between.                *)
THEOREM AnswersAreOnTheirWay == SafetySpec => []AwaitedIsOnItsWay
<1>1. Init => AwaitedInv
  BY AnswersNone DEF Init, AwaitedInv, AwaitedIsOnItsWay
<1>2. TypeOK /\ AwaitedInv /\ [Next]_vars => AwaitedInv'
  BY NextAwaited
<1>3. AwaitedInv => AwaitedIsOnItsWay
  BY DEF AwaitedInv
<1> QED
  BY <1>1, <1>2, <1>3, TypeCorrect, PTL DEF SafetySpec

-----------------------------------------------------------------------------
(* The queue implements the mailbox. *)

(* An event that moves from the local queue to server_event() is the next  *)
(* letter of the mailbox.                                                  *)
LEMMA HandleReceives ==
    ASSUME TypeOK, dest # <<>>, handled' = Append(handled, Head(dest)), dest' = Tail(dest),
           q' = q
    PROVE  MB!Receive
<1> DEFINE e == Head(dest)
           t == Tail(dest)
<1>1. handled \in Seq(Event) /\ dest \in Seq(Event) /\ q \in Seq(Event)
  BY DEF TypeOK
<1>2. e \in Event /\ t \in Seq(Event) /\ <<e>> \o t = dest
  BY <1>1, HeadThenTail
<1> HIDE DEF e, t
<1>3. handled' = handled \o <<e>> /\ <<e>> \in Seq(Event) /\ Len(<<e>>) = 1 /\ <<e>>[1] = e
  BY <1>1, <1>2, AppendAsConcat DEF e
<1>4. t \o q \in Seq(Event)
  BY <1>1, <1>2, ConcatType
<1>5. Sent = handled \o (<<e>> \o (t \o q))
  <2>1. dest \o q = <<e>> \o (t \o q)
    <3>1. <<e>> \o (t \o q) = (<<e>> \o t) \o q
      BY <1>1, <1>2, <1>3, ConcatAssoc, SMTT(30)
    <3> QED
      BY <1>2, <3>1
  <2>2. (handled \o dest) \o q = handled \o (dest \o q)
    BY <1>1, ConcatAssoc, SMTT(30)
  <2> QED
    BY <2>1, <2>2 DEF Sent
<1>6. Sent' = Sent
  <2>1. Sent' = ((handled \o <<e>>) \o t) \o q
    BY <1>3 DEF Sent, t
  <2>2. (handled \o <<e>>) \o (t \o q) = ((handled \o <<e>>) \o t) \o q
    <3>1. handled \o <<e>> \in Seq(Event)
      BY <1>1, <1>3, ConcatType
    <3> QED
      BY <3>1, <1>1, <1>2, ConcatAssoc, SMTT(30)
  <2>3. (handled \o <<e>>) \o (t \o q) = handled \o (<<e>> \o (t \o q))
    BY <1>1, <1>3, <1>4, ConcatAssoc, SMTT(30)
  <2> QED
    BY <1>5, <2>1, <2>2, <2>3
<1>7. Len(handled) < Len(Sent) /\ Sent[Len(handled) + 1] = e
  <2> DEFINE rest == t \o q
             all  == <<e>> \o rest
  <2>1. rest \in Seq(Event)
    BY <1>4
  <2> HIDE DEF rest
  <2>2. all \in Seq(Event) /\ Len(all) > 0 /\ all[1] = e
    BY <2>1, <1>2, <1>3
  <2>3. Sent = handled \o all
    BY <1>5 DEF rest
  <2> HIDE DEF all
  <2> QED
    BY <2>2, <2>3, <1>1
<1> QED
  BY <1>3, <1>6, <1>7, <1>1, <1>2, AppendAsConcat DEF MB!Receive, e

(* A push sends one letter. *)
LEMMA PushSends == ASSUME TypeOK, NEW p \in Producers, Push(p) PROVE MB!Send
<1> DEFINE e == [from |-> p, num |-> made[p] + 1]
           old == handled \o dest
<1>1. handled \in Seq(Event) /\ dest \in Seq(Event) /\ q \in Seq(Event)
  BY DEF TypeOK
<1>2. e \in Event
  <2>1. made[p] \in 0..MaxEvents /\ made[p] < MaxEvents
    BY DEF Push, TypeOK
  <2> QED
    BY <2>1, BoundAssumption DEF Event
<1>3. q' = Append(q, e) /\ handled' = handled /\ dest' = dest
  BY DEF Push, uiVars
<1> HIDE DEF e
<1>4. old \in Seq(Event)
  BY <1>1, ConcatType
<1>5. Sent = old \o q /\ Sent' = old \o Append(q, e)
  BY <1>3 DEF Sent
<1> HIDE DEF old
<1>6. Append(q, e) = q \o <<e>> /\ <<e>> \in Seq(Event)
  BY <1>1, <1>2, AppendAsConcat
<1>7. Sent' = (old \o q) \o <<e>>
  BY <1>1, <1>4, <1>5, <1>6, ConcatAssoc
<1>8. Sent' = Append(Sent, e)
  BY <1>1, <1>2, <1>4, <1>5, <1>7, ConcatType, AppendAsConcat
<1> QED
  BY <1>2, <1>3, <1>8 DEF MB!Send

(* The splice moves the queue behind what is still to be handled. *)
LEMMA SpliceSendsNothing == ASSUME TypeOK, FlushSplice PROVE Sent' = Sent /\ handled' = handled
<1>1. handled \in Seq(Event) /\ dest \in Seq(Event) /\ q \in Seq(Event)
  BY DEF TypeOK
<1>2. Sent' = (handled \o (dest \o q)) \o <<>>
  BY DEF FlushSplice, Spliced, Sent
<1>3. (handled \o dest) \o q = handled \o (dest \o q)
  BY <1>1, ConcatAssoc, SMTT(30)
<1>4. handled \o (dest \o q) \in Seq(Event)
  BY <1>1, ConcatType
<1>5. (handled \o (dest \o q)) \o <<>> = handled \o (dest \o q)
  BY <1>4, ConcatEmptySeq
<1> QED
  BY <1>2, <1>3, <1>5 DEF FlushSplice, Spliced, Sent

(* Every step of the queue is a step of the mailbox or leaves it alone. *)
LEMMA NextIsMail == TypeOK /\ [Next]_vars => [MB!Next]_(MB!mailboxVars)
<1> SUFFICES ASSUME TypeOK, [Next]_vars PROVE [MB!Next]_(MB!mailboxVars)
  OBVIOUS
<1> USE DEF queueVars, uiVars
<1>1. ASSUME NEW p \in Producers, Push(p) PROVE MB!Next
  BY <1>1, PushSends DEF MB!Next
<1>2. CASE Dispatch \/ FillHandles
  BY <1>2, HandleReceives DEF Dispatch, FillHandles, MB!Next
<1>3. CASE FlushSplice
  BY <1>3, SpliceSendsNothing DEF MB!mailboxVars
<1>4. ASSUME \/ \E p \in Producers : Wake(p)
             \/ FlushRead \/ EnterSelect \/ SelectReportsEvents \/ AfterKey \/ KeyDone
             \/ FillWaits \/ WaitSelectReturns \/ FillEnds \/ Outside
             \/ UNCHANGED vars
      PROVE  UNCHANGED MB!mailboxVars
  <2>1. q' = q /\ dest' = dest /\ handled' = handled
    BY <1>4 DEF Wake, FlushRead, EnterSelect, SelectReportsEvents, AfterKey, KeyDone,
       FillWaits, WaitSelectReturns, FillEnds, Outside, SelectTimesOut, SelectReportsKey,
       FillTags, SigInt, vars
  <2> QED
    BY <2>1 DEF MB!mailboxVars, Sent
<1> QED
  BY <1>1, <1>2, <1>3, <1>4 DEF Next, Engine, Interface, Flush, MainLoop, Fill

(* What the interface handles is what was pushed, in the order in which it *)
(* was pushed and once each: the safety part of ImplementsMailbox.         *)
THEOREM MailboxSafety == SafetySpec => MB!Safety
<1>1. Init => MB!Init
  <2>1. (<<>> \o <<>>) \o <<>> = <<>>
    OBVIOUS
  <2> QED
    BY <2>1 DEF Init, MB!Init, Sent
<1>2. TypeOK /\ [Next]_vars => [MB!Next]_(MB!mailboxVars)
  BY NextIsMail
<1> QED
  BY <1>1, <1>2, TypeCorrect, PTL DEF SafetySpec, MB!Safety

=============================================================================
