---------------------------- MODULE OutBufProofs ----------------------------
(***************************************************************************)
(* Proofs about OutBuf, for every capacity, every set of sounds and every  *)
(* number of calls.                                                        *)
(*                                                                         *)
(* The argument has three layers.  TypeOK is inductive on its own.  The    *)
(* facts about who waits for whom on play_cond (ParkInv) are inductive     *)
(* with it.  What stop() and wait() promise (QuietInv), and with it the    *)
(* accounting of the time (TimeInv), needs that the wait in stop() ends    *)
(* only when the reader has notified: it is proved for ~Spurious.          *)
(***************************************************************************)
EXTENDS OutBuf, SeqLemmas, TLAPS

USE DEF ReaderPcs, ClientPcs, fields, playBuf, devVars, readerVars, clientVars, history

-----------------------------------------------------------------------------
(* The steps of any client, without the bounds under which TLC runs: what  *)
(* is shown of them holds for the client of Player too.                    *)
OtherCall ==
    \/ StopCall \/ WaitCall \/ Reset
    \/ \E t \in Nat : TimeSet(t)
    \/ SetFreeCallback \/ Destroy \/ Pause \/ Unpause

AnyCall == (\E data \in Seq(Unit) \ {<<>>} : PutCall(data)) \/ OtherCall

Step == Reader \/ AnyCall \/ ClientGoesOn

(* OutBuf's own client is such a client.                                   *)
LEMMA NextIsStep == Next => Step \/ WakesByItself \/ Finished
<1>1. ClientCalls => AnyCall
  BY ChunkAssumption, TimeAssumption DEF ClientCalls, AnyCall, OtherCall
<1>2. User => AnyCall
  BY DEF User, AnyCall, OtherCall
<1> QED
  BY <1>1, <1>2 DEF Next, Step

-----------------------------------------------------------------------------
(* Type correctness. *)

(* Every step of the reader preserves the type invariant. *)
LEMMA ReaderType == TypeOK /\ Reader => TypeOK'
<1> SUFFICES ASSUME TypeOK, Reader PROVE TypeOK'
  OBVIOUS
<1> USE DEF TypeOK
<1>1. CASE ReaderTop
  <2>1. fifo' \in Seq(Unit) /\ Len(fifo') <= Size
    BY <1>1, EmptyType, SizeAssumption DEF ReaderTop, Kept
  <2> QED
    BY <1>1, <2>1 DEF ReaderTop, Kept
<1>2. CASE ReaderCallback
  BY <1>2 DEF ReaderCallback
<1>3. CASE ReaderNotify
  BY <1>3, FlagAssumption DEF ReaderNotify, Woken
<1>4. CASE ReaderProceed
  BY <1>4 DEF ReaderProceed
<1>5. CASE ReaderReopened
  BY <1>5 DEF ReaderReopened
<1>6. CASE ReaderReopenFails
  BY <1>6 DEF ReaderReopenFails
<1>7. CASE ReaderExits
  BY <1>7 DEF ReaderExits
<1>8. CASE ReaderContinues
  BY <1>8 DEF ReaderContinues
<1>9. CASE ReaderTakes
  <2>1. TakeLen \in 0..Len(fifo)
    BY SizeAssumption DEF TakeLen
  <2>2. chunk' \in Seq(Unit) /\ fifo' \in Seq(Unit) /\ Len(fifo') <= Len(fifo)
    BY <1>9, <2>1, PrefixType, SuffixType DEF ReaderTakes
  <2>3. Len(fifo') <= Size
    BY <2>2, SizeAssumption
  <2>4. pos' \in 0..Len(chunk')
    BY <1>9, <2>2 DEF ReaderTakes
  <2> QED
    BY <1>9, <2>2, <2>3, <2>4 DEF ReaderTakes
<1>10. CASE ReaderSends
  BY <1>10 DEF ReaderSends
<1>11. CASE ReaderCounts
  BY <1>11 DEF ReaderCounts, Counted
<1> QED
  BY <1>1, <1>2, <1>3, <1>4, <1>5, <1>6, <1>7, <1>8, <1>9, <1>10, <1>11 DEF Reader

(* So does every call that begins. *)
LEMMA CallType == TypeOK /\ AnyCall => TypeOK'
<1> SUFFICES ASSUME TypeOK, AnyCall PROVE TypeOK'
  OBVIOUS
<1> USE DEF TypeOK, NotifyPlay
<1>1. ASSUME NEW data \in Seq(Unit), PutCall(data) PROVE TypeOK'
  BY <1>1 DEF PutCall
<1>2. CASE StopCall
  BY <1>2 DEF StopCall
<1>3. CASE WaitCall
  BY <1>3 DEF WaitCall
<1>4. CASE Reset
  <2>1. fifo' \in Seq(Unit) /\ Len(fifo') <= Size
    BY <1>4, EmptyType, SizeAssumption DEF Reset
  <2> QED
    BY <1>4, <2>1 DEF Reset
<1>5. ASSUME NEW t \in Nat, TimeSet(t) PROVE TypeOK'
  BY <1>5 DEF TimeSet
<1>6. CASE SetFreeCallback
  BY <1>6 DEF SetFreeCallback
<1>7. CASE Destroy
  BY <1>7 DEF Destroy
<1>8. CASE Pause
  BY <1>8 DEF Pause
<1>9. CASE Unpause
  BY <1>9 DEF Unpause
<1> QED
  BY <1>1, <1>2, <1>3, <1>4, <1>5, <1>6, <1>7, <1>8, <1>9 DEF AnyCall, OtherCall

(* So does every step of a call under way. *)
LEMMA GoesOnType == TypeOK /\ ClientGoesOn => TypeOK'
<1> SUFFICES ASSUME TypeOK, ClientGoesOn PROVE TypeOK'
  OBVIOUS
<1> USE DEF TypeOK
<1>1. CASE PutWaits
  BY <1>1 DEF PutWaits
<1>2. CASE PutRefused
  BY <1>2 DEF PutRefused
<1>3. CASE PutWrites
  <2>1. Written \in 0..Len(cdata) /\ Written <= Size - Len(fifo)
    BY SizeAssumption DEF Written
  <2>2. fifo' = fifo \o SubSeq(cdata, 1, Written)
        /\ cdata' = SubSeq(cdata, Written + 1, Len(cdata))
    BY <1>3 DEF PutWrites, Written, TellReader
  <2>3. cdata' \in Seq(Unit)
    BY <2>1, <2>2, SuffixType
  <2>4. fifo' \in Seq(Unit) /\ Len(fifo') = Len(fifo) + Written
    BY <2>1, <2>2, PrefixType, ConcatType
  <2>5. Len(fifo') <= Size
    BY <2>1, <2>4, SizeAssumption
  <2>6. rpc' \in ReaderPcs /\ cpc' \in ClientPcs
    BY <1>3 DEF PutWrites, Written, TellReader, NotifyPlay
  <2> QED
    BY <1>3, <2>3, <2>4, <2>5, <2>6 DEF PutWrites, Written, TellReader
<1>4. CASE StopReturns
  BY <1>4 DEF StopReturns
<1>5. CASE WaitWaits
  BY <1>5 DEF WaitWaits
<1>6. CASE WaitReturns
  BY <1>6 DEF WaitReturns
<1> QED
  BY <1>1, <1>2, <1>3, <1>4, <1>5, <1>6 DEF ClientGoesOn

(* A condition variable that wakes up by itself does no harm to the types. *)
LEMMA WakeType == TypeOK /\ WakesByItself => TypeOK'
  BY DEF TypeOK, WakesByItself, SpuriousReady, SpuriousPlay, Woken

(* So does every step of the buffer with any client. *)
LEMMA StepType == TypeOK /\ [Step]_obVars => TypeOK'
<1> SUFFICES ASSUME TypeOK, [Step]_obVars PROVE TypeOK'
  OBVIOUS
<1>1. CASE UNCHANGED obVars
  BY <1>1 DEF TypeOK, obVars
<1> QED
  BY <1>1, ReaderType, CallType, GoesOnType DEF Step

(* So does every step of the system. *)
LEMMA NextType == TypeOK /\ [Next]_obVars => TypeOK'
<1> SUFFICES ASSUME TypeOK, [Next]_obVars PROVE TypeOK'
  OBVIOUS
<1>1. CASE Finished
  BY <1>1, StepType DEF Finished
<1> QED
  BY <1>1, NextIsStep, StepType, WakeType

(* The variables start with their types. *)
LEMMA InitType == Init => TypeOK
<1> SUFFICES ASSUME Init PROVE TypeOK
  OBVIOUS
<1>1. <<>> \in Seq(Unit) /\ Len(<<>>) = 0
  BY EmptyType
<1>2. fifo \in Seq(Unit) /\ chunk \in Seq(Unit) /\ cdata \in Seq(Unit)
  BY <1>1 DEF Init
<1>3. Len(fifo) <= Size /\ pos \in 0..Len(chunk)
  BY <1>1, SizeAssumption DEF Init
<1> QED
  BY <1>2, <1>3 DEF Init, TypeOK

(* The variables have their types, whatever the threads do. *)
THEOREM TypeCorrect == SafetySpec => []TypeOK
<1>1. Init => TypeOK
  BY InitType
<1>2. TypeOK /\ [Next]_obVars => TypeOK'
  BY NextType
<1> QED
  BY <1>1, <1>2, PTL DEF SafetySpec

-----------------------------------------------------------------------------
(* Who waits on play_cond. *)

(* Read_thread_waiting tells exactly whether the reader waits on play_cond *)
(* or has just been told to go on, and it waits for a reason.              *)
ParkInv ==
    /\ readerWaiting <=> rpc \in {"parked", "woken"}
    /\ ParkedOnlyWhenIdle

(* Each step keeps the reasons why a thread is parked. *)
LEMMA StepPark == TypeOK /\ ParkInv /\ [Step]_obVars => ParkInv'
<1> SUFFICES ASSUME TypeOK, ParkInv, [Step]_obVars PROVE ParkInv'
  OBVIOUS
<1> USE DEF ParkInv, ParkedOnlyWhenIdle, obVars, NotifyPlay
<1>1. CASE Reader
  <2>1. CASE ReaderNotify
    BY <1>1, <2>1 DEF ReaderNotify, ReaderIdles, TypeOK
  <2>2. CASE ReaderProceed
    BY <1>1, <2>2 DEF ReaderProceed, TypeOK
  <2>3. CASE ReaderTop \/ ReaderCallback \/ ReaderReopened \/ ReaderReopenFails
    BY <1>1, <2>3 DEF ReaderTop, Kept, ReaderCallback, ReaderReopened, ReaderReopenFails,
       TypeOK
  <2>4. CASE ReaderExits \/ ReaderContinues \/ ReaderTakes
    BY <1>1, <2>4 DEF ReaderExits, ReaderContinues, ReaderTakes, TypeOK
  <2>5. CASE ReaderSends \/ ReaderCounts
    BY <1>1, <2>5 DEF ReaderSends, ReaderCounts, Counted, TypeOK
  <2> QED
    BY <1>1, <2>1, <2>2, <2>3, <2>4, <2>5 DEF Reader
<1>2. CASE AnyCall
  BY <1>2 DEF AnyCall, OtherCall, PutCall, StopCall, WaitCall, Reset, TimeSet,
     SetFreeCallback, Destroy, Pause, Unpause
<1>3. CASE PutWrites
  <2>1. CASE Written > 0
    BY <1>3, <2>1 DEF PutWrites, TellReader
  <2>2. CASE ~(Written > 0)
    <3>1. Written = 0
      BY <2>2, SizeAssumption DEF TypeOK, Written
    <3>2. fifo' = fifo
      BY <1>3, <3>1 DEF PutWrites, TypeOK
    <3> QED
      BY <1>3, <2>2, <3>2 DEF PutWrites, TellReader
  <2> QED
    BY <2>1, <2>2
<1>4. CASE ClientGoesOn /\ ~PutWrites
  BY <1>4 DEF ClientGoesOn, PutWaits, PutRefused, StopReturns, WaitWaits, WaitReturns
<1>5. CASE UNCHANGED obVars
  BY <1>5
<1> QED
  BY <1>1, <1>2, <1>3, <1>4, <1>5 DEF Step

(* So does a condition variable that wakes up by itself. *)
LEMMA NextPark == TypeOK /\ ParkInv /\ [Next]_obVars => ParkInv'
<1> SUFFICES ASSUME TypeOK, ParkInv, [Next]_obVars PROVE ParkInv'
  OBVIOUS
<1>1. CASE WakesByItself
  BY <1>1 DEF WakesByItself, SpuriousReady, SpuriousPlay, ParkInv, ParkedOnlyWhenIdle
<1>2. CASE Finished
  BY <1>2, StepPark DEF Finished
<1> QED
  BY <1>1, <1>2, NextIsStep, StepPark

(* They hold in every reachable state. *)
LEMMA ParkAlways == SafetySpec => []ParkInv
<1>1. Init => ParkInv
  BY DEF Init, ParkInv, ParkedOnlyWhenIdle
<1>2. TypeOK /\ ParkInv /\ [Next]_obVars => ParkInv'
  BY NextPark
<1> QED
  BY <1>1, <1>2, TypeCorrect, PTL DEF SafetySpec

(* No wake-up of the reader is lost, even if its condition variable wakes  *)
(* up by itself: it waits only while there is nothing to play, or the      *)
(* buffer is paused, stopped or about to exit.                             *)
THEOREM NoWakeupLost == SafetySpec => []ParkedOnlyWhenIdle
<1>1. ParkInv => ParkedOnlyWhenIdle
  BY DEF ParkInv
<1> QED
  BY <1>1, ParkAlways, PTL

(* What OutBuf::wait() looks at can be trusted.                            *)
THEOREM WaitingTellsTheTruth == SafetySpec => []WaitingIsParked
<1>1. ParkInv => WaitingIsParked
  BY DEF ParkInv, WaitingIsParked
<1> QED
  BY <1>1, ParkAlways, PTL

-----------------------------------------------------------------------------
(* What stop() and wait() promise. *)

(* A quiet buffer has nothing the reader would send: an empty FIFO, or a   *)
(* stopped one.  From the moment stop() has set is_stopped until it        *)
(* returns nothing clears it, and once the reader has notified stop() the  *)
(* reader has let go of the chunk it may have been sending.                *)
QuietInv ==
    /\ quiet => ~Sending /\ (fifo = <<>> \/ isStopped)
    /\ cpc \in {"put", "putWait", "putWoken"} => ~quiet
    /\ cpc \in {"stopWait", "stopWoken"} => isStopped
    /\ cpc = "stopWoken" => ~Sending

(* Each step keeps what is known of a buffer that was stopped. *)
LEMMA StepQuiet == TypeOK /\ ParkInv /\ QuietInv /\ [Step]_obVars => QuietInv'
<1> SUFFICES ASSUME TypeOK, ParkInv, QuietInv, [Step]_obVars PROVE QuietInv'
  OBVIOUS
<1> USE DEF QuietInv, Sending, obVars, NotifyPlay
<1>1. CASE ReaderTop
  BY <1>1 DEF ReaderTop, Kept
<1>2. CASE ReaderNotify
  BY <1>2 DEF ReaderNotify, ReaderIdles, Woken, TypeOK
<1>3. CASE ReaderTakes
  BY <1>3 DEF ReaderTakes
<1>4. CASE Reader /\ ~ReaderTop /\ ~ReaderNotify /\ ~ReaderTakes
  BY <1>4 DEF Reader, ReaderCallback, ReaderProceed, ReaderReopened, ReaderReopenFails,
     ReaderExits, ReaderContinues, ReaderSends, ReaderCounts
<1>5. CASE AnyCall
  BY <1>5 DEF AnyCall, OtherCall, PutCall, StopCall, WaitCall, Reset, TimeSet,
     SetFreeCallback, Destroy, Pause, Unpause
<1>6. CASE ClientGoesOn
  <2>1. CASE PutWaits \/ PutRefused
    BY <1>6, <2>1 DEF PutWaits, PutRefused, PutReady
  <2>2. CASE PutWrites
    <3>1. cpc \in {"put", "putWoken"} /\ cpc' \in {"idle", "put"} /\ quiet' = quiet
      BY <2>2 DEF PutWrites, Written, TellReader, PutReady
    <3> QED
      BY <3>1
  <2>3. CASE StopReturns
    BY <2>3 DEF StopReturns
  <2>4. CASE WaitWaits
    BY <2>4 DEF WaitWaits
  <2>5. CASE WaitReturns
    BY <2>5 DEF WaitReturns, ParkInv
  <2> QED
    BY <1>6, <2>1, <2>2, <2>3, <2>4, <2>5 DEF ClientGoesOn
<1>7. CASE UNCHANGED obVars
  BY <1>7
<1> QED
  BY <1>1, <1>2, <1>3, <1>4, <1>5, <1>6, <1>7 DEF Step

(* Nothing else happens if no condition variable wakes up by itself. *)
LEMMA NextQuiet ==
    ~Spurious /\ TypeOK /\ ParkInv /\ QuietInv /\ [Next]_obVars => QuietInv'
<1> SUFFICES ASSUME ~Spurious, TypeOK, ParkInv, QuietInv, [Next]_obVars PROVE QuietInv'
  OBVIOUS
<1>1. ~WakesByItself
  BY DEF WakesByItself, SpuriousReady, SpuriousPlay
<1>2. CASE Finished
  BY <1>2, StepQuiet DEF Finished
<1> QED
  BY <1>1, <1>2, NextIsStep, StepQuiet

(* It holds in every reachable state. *)
LEMMA QuietAlways == ~Spurious => (SafetySpec => []QuietInv)
<1> SUFFICES ASSUME ~Spurious PROVE SafetySpec => []QuietInv
  OBVIOUS
<1>1. Init => QuietInv
  BY DEF Init, QuietInv, Sending
<1>2. TypeOK /\ ParkInv /\ QuietInv /\ [Next]_obVars => QuietInv'
  BY NextQuiet
<1> QED
  BY <1>1, <1>2, TypeCorrect, ParkAlways, PTL DEF SafetySpec

(* Once stop() or wait() has returned no sound goes to the device until    *)
(* the next put(), whatever the user pauses and unpauses, provided that    *)
(* the condition variables do not wake up by themselves.                   *)
THEOREM QuietStaysSilent == ~Spurious => (SafetySpec => []QuietIsSilent)
<1> SUFFICES ASSUME ~Spurious PROVE SafetySpec => []QuietIsSilent
  OBVIOUS
<1>2. SafetySpec => []QuietInv
  BY QuietAlways
<1>1. QuietInv => QuietIsSilent
  BY DEF QuietInv, QuietIsSilent
<1> QED
  BY <1>1, <1>2, PTL

-----------------------------------------------------------------------------
(* The time. *)

(* In the middle of a chunk what was sent of it has been heard and not yet *)
(* counted; between chunks there is nothing of the kind.                   *)
TimeInv ==
    /\ ~Sending => time = heard /\ chunk = <<>> /\ pos = 0
    /\ Sending => heard = time + pos
    /\ rpc = "sent" => pos = Len(chunk)

(* Each step keeps the account of the time. *)
LEMMA StepTime == TypeOK /\ QuietInv /\ TimeInv /\ [Step]_obVars => TimeInv'
<1> SUFFICES ASSUME TypeOK, QuietInv, TimeInv, [Step]_obVars PROVE TimeInv'
  OBVIOUS
<1> USE DEF TimeInv, Sending, obVars, NotifyPlay
<1>1. CASE ReaderTakes
  BY <1>1 DEF ReaderTakes, TypeOK
<1>2. CASE ReaderSends
  BY <1>2 DEF ReaderSends, TypeOK
<1>3. CASE ReaderCounts
  BY <1>3 DEF ReaderCounts, Counted, TypeOK
<1>4. CASE Reader /\ ~ReaderTakes /\ ~ReaderSends /\ ~ReaderCounts
  BY <1>4 DEF Reader, ReaderTop, Kept, ReaderCallback, ReaderNotify, ReaderProceed,
     ReaderReopened, ReaderReopenFails, ReaderExits, ReaderContinues
<1>5. CASE AnyCall
  BY <1>5 DEF AnyCall, OtherCall, PutCall, StopCall, WaitCall, Reset, TimeSet,
     SetFreeCallback, Destroy, Pause, Unpause, QuietInv
<1>6. CASE ClientGoesOn
  BY <1>6 DEF ClientGoesOn, PutWaits, PutRefused, PutWrites, TellReader, StopReturns,
     WaitWaits, WaitReturns
<1>7. CASE UNCHANGED obVars
  BY <1>7
<1> QED
  BY <1>1, <1>2, <1>3, <1>4, <1>5, <1>6, <1>7 DEF Step

(* A wake-up plays nothing and counts nothing. *)
LEMMA NextTime == TypeOK /\ QuietInv /\ TimeInv /\ [Next]_obVars => TimeInv'
<1> SUFFICES ASSUME TypeOK, QuietInv, TimeInv, [Next]_obVars PROVE TimeInv'
  OBVIOUS
<1>1. CASE WakesByItself
  BY <1>1 DEF WakesByItself, SpuriousReady, SpuriousPlay, TimeInv, Sending
<1>2. CASE Finished
  BY <1>2, StepTime DEF Finished
<1> QED
  BY <1>1, <1>2, NextIsStep, StepTime

(* It holds in every reachable state. *)
LEMMA TimeAlways == ~Spurious => (SafetySpec => []TimeInv)
<1> SUFFICES ASSUME ~Spurious PROVE SafetySpec => []TimeInv
  OBVIOUS
<1>1. SafetySpec => []QuietInv
  BY QuietAlways
<1>2. Init => TimeInv
  BY DEF Init, TimeInv, Sending
<1>3. TypeOK /\ QuietInv /\ TimeInv /\ [Next]_obVars => TimeInv'
  BY NextTime
<1> QED
  BY <1>1, <1>2, <1>3, TypeCorrect, PTL DEF SafetySpec

(* The time shown is the time that was set plus everything that went to    *)
(* the device since, under the same condition.                             *)
THEOREM TimeIsRight == ~Spurious => (SafetySpec => []TimeIsWhatWasHeard)
<1> SUFFICES ASSUME ~Spurious PROVE SafetySpec => []TimeIsWhatWasHeard
  OBVIOUS
<1>1. SafetySpec => []TimeInv
  BY TimeAlways
<1>2. TimeInv => TimeIsWhatWasHeard
  BY DEF TimeInv, TimeIsWhatWasHeard
<1> QED
  BY <1>1, <1>2, PTL

-----------------------------------------------------------------------------
(* OutBuf implements SoundLine. *)

(* Only put() has something to write. *)
OfferInv == cpc \notin {"put", "putWait", "putWoken"} => cdata = <<>>

(* Each step keeps what put() has in hand to put(). *)
LEMMA StepOffer == TypeOK /\ OfferInv /\ [Step]_obVars => OfferInv'
<1> SUFFICES ASSUME TypeOK, OfferInv, [Step]_obVars PROVE OfferInv'
  OBVIOUS
<1> USE DEF OfferInv, obVars
<1>1. CASE ReaderNotify
  BY <1>1 DEF ReaderNotify, Woken, TypeOK
<1>2. CASE Reader /\ ~ReaderNotify
  BY <1>2 DEF Reader, ReaderTop, Kept, ReaderCallback, ReaderProceed, ReaderReopened,
     ReaderReopenFails, ReaderExits, ReaderContinues, ReaderTakes, ReaderSends,
     ReaderCounts
<1>3. CASE AnyCall
  BY <1>3 DEF AnyCall, OtherCall, PutCall, StopCall, WaitCall, Reset, TimeSet,
     SetFreeCallback, Destroy, Pause, Unpause
<1>4. CASE PutWrites
  <2>1. cpc' = IF cdata' = <<>> THEN "idle" ELSE "put"
    BY <1>4 DEF PutWrites, Written, TellReader
  <2> QED
    BY <2>1
<1>5. CASE ClientGoesOn /\ ~PutWrites
  BY <1>5 DEF ClientGoesOn, PutWaits, PutRefused, StopReturns, WaitWaits, WaitReturns
<1>6. CASE UNCHANGED obVars
  BY <1>6
<1> QED
  BY <1>1, <1>2, <1>3, <1>4, <1>5, <1>6 DEF Step

(* A put() that wakes up by itself still has its data. *)
LEMMA NextOffer == TypeOK /\ OfferInv /\ [Next]_obVars => OfferInv'
<1> SUFFICES ASSUME TypeOK, OfferInv, [Next]_obVars PROVE OfferInv'
  OBVIOUS
<1>1. CASE WakesByItself
  BY <1>1 DEF WakesByItself, SpuriousReady, SpuriousPlay, Woken, TypeOK, OfferInv
<1>2. CASE Finished
  BY <1>2, StepOffer DEF Finished
<1> QED
  BY <1>1, <1>2, NextIsStep, StepOffer

(* It holds in every reachable state. *)
LEMMA OfferAlways == SafetySpec => []OfferInv
<1>1. Init => OfferInv
  BY DEF Init, OfferInv
<1> QED
  BY <1>1, NextOffer, TypeCorrect, PTL DEF SafetySpec

LineInv == TypeOK /\ ParkInv /\ QuietInv /\ TimeInv /\ OfferInv

(* The line is a sequence of sound, and but for the middle of a chunk it   *)
(* is the FIFO.                                                            *)
LEMMA LineIsFifo ==
    TypeOK /\ TimeInv => Line \in Seq(Unit) /\ (rpc # "send" => Line = fifo)
<1> SUFFICES ASSUME TypeOK, TimeInv
             PROVE  Line \in Seq(Unit) /\ (rpc # "send" => Line = fifo)
  OBVIOUS
<1> DEFINE rest == SubSeq(chunk, pos + 1, Len(chunk))
<1>1. rest \in Seq(Unit) /\ Len(rest) = Len(chunk) - pos
  BY SuffixType DEF TypeOK
<1>2. Line = rest \o fifo
  BY DEF Line
<1> HIDE DEF rest
<1>3. Line \in Seq(Unit)
  BY <1>1, <1>2, ConcatType DEF TypeOK
<1>4. ASSUME rpc # "send" PROVE Line = fifo
  <2>1. Len(chunk) = pos
    BY <1>4, EmptyType DEF TimeInv, Sending
  <2>2. rest = <<>>
    BY <1>1, <2>1, EmptyByLength DEF TypeOK
  <2> QED
    BY <1>2, <2>2, ConcatEmptySeq DEF TypeOK
<1> QED
  BY <1>3, <1>4

(* What the reader does to the line. *)
LEMMA ReaderImplements ==
    ASSUME LineInv, LineInv', Reader PROVE [SL!Next]_(SL!lineVars)
<1> USE DEF SL!Next, SL!lineVars
<1>0. TypeOK /\ TypeOK' /\ TimeInv /\ TimeInv' /\ QuietInv
  BY DEF LineInv
<1>1. (rpc # "send" => Line = fifo) /\ (rpc # "send" => Line = fifo)'
  BY <1>0, LineIsFifo, PTL
<1>2. CASE ReaderTop
  <2>1. Line = fifo /\ Line' = fifo'
    BY <1>1, <1>2 DEF ReaderTop, Kept
  <2> QED
    BY <1>2, <2>1 DEF ReaderTop, Kept, SL!Drop
<1>3. CASE ReaderTakes
  <2>1. TakeLen \in 0..Len(fifo)
    BY <1>0, SizeAssumption DEF TakeLen, TypeOK
  <2>2. Line = fifo
    BY <1>1, <1>3 DEF ReaderTakes
  <2>3. fifo \in Seq(Unit)
    BY <1>0 DEF TypeOK
  <2>4. SubSeq(chunk', 1, Len(chunk')) = chunk'
    BY <1>0, SubSeqFull DEF TypeOK
  <2>5. Line' = chunk' \o fifo'
    <3>1. Line' = SubSeq(chunk', pos' + 1, Len(chunk')) \o fifo'
      BY DEF Line
    <3>2. pos' + 1 = 1
      BY <1>3 DEF ReaderTakes
    <3>3. SubSeq(chunk', pos' + 1, Len(chunk')) = chunk'
      BY <2>4, <3>2
    <3> QED
      BY <3>1, <3>3
  <2>6. SubSeq(fifo, 1, TakeLen) \o SubSeq(fifo, TakeLen + 1, Len(fifo)) = fifo
    BY <2>1, <2>3, SplitSeq
  <2>7. chunk' = SubSeq(fifo, 1, TakeLen) /\ fifo' = SubSeq(fifo, TakeLen + 1, Len(fifo))
    BY <1>3 DEF ReaderTakes
  <2>8. Line' = fifo
    BY <2>5, <2>6, <2>7
  <2> QED
    BY <1>3, <2>2, <2>8 DEF ReaderTakes
<1>4. CASE ReaderSends
  <2> DEFINE rest == SubSeq(chunk, pos + 1, Len(chunk))
  <2>1. PICK n \in 1..(Len(chunk) - pos) : pos' = pos + n /\ heard' = heard + n
    BY <1>4 DEF ReaderSends
  <2>2. rest \in Seq(Unit) /\ Len(rest) = Len(chunk) - pos
    BY <1>0, SuffixType DEF TypeOK
  <2>3. Line = rest \o fifo /\ Len(Line) = Len(rest) + Len(fifo)
    BY <1>0, <2>2, ConcatType DEF Line, TypeOK
  <2>4. SubSeq(rest, n + 1, Len(rest)) = SubSeq(chunk, pos + n + 1, Len(chunk))
    BY <1>0, <2>1, DropTwice DEF TypeOK
  <2>5. Line' = SubSeq(rest, n + 1, Len(rest)) \o fifo
    BY <1>4, <2>1, <2>4 DEF ReaderSends, Line
  <2> HIDE DEF rest
  <2>6. n \in 0..Len(rest) /\ fifo \in Seq(Unit)
    BY <1>0, <2>1, <2>2 DEF TypeOK
  <2>7. SubSeq(rest \o fifo, n + 1, Len(rest \o fifo))
           = SubSeq(rest, n + 1, Len(rest)) \o fifo
    BY <2>2, <2>6, DropFromConcat
  <2>8. Line' = SubSeq(Line, n + 1, Len(Line))
    BY <2>3, <2>5, <2>7
  <2>9. n \in 1..Len(Line)
    BY <1>0, <2>1, <2>2, <2>3 DEF TypeOK
  <2>10. ~quiet
    BY <1>0, <1>4 DEF QuietInv, Sending, ReaderSends
  <2>11. heard' = heard + n
    BY <2>1
  <2>12. UNCHANGED <<cdata, quiet, isStopped>>
    BY <1>4 DEF ReaderSends
  <2> QED
    BY <2>1, <2>8, <2>9, <2>10, <2>11, <2>12 DEF SL!Speak
<1>5. CASE ReaderCounts
  <2>1. Line = fifo /\ Line' = fifo'
    BY <1>1, <1>5 DEF ReaderCounts, Counted
  <2> QED
    BY <1>5, <2>1 DEF ReaderCounts, Counted
<1>6. CASE Reader /\ ~ReaderTop /\ ~ReaderTakes /\ ~ReaderSends /\ ~ReaderCounts
  BY <1>6 DEF Reader, ReaderCallback, ReaderNotify, ReaderProceed, ReaderReopened,
     ReaderReopenFails, ReaderExits, ReaderContinues, Line
<1> QED
  BY <1>2, <1>3, <1>4, <1>5, <1>6

(* What the calls do to it. *)
LEMMA CallsImplement ==
    ASSUME LineInv, AnyCall PROVE [SL!Next]_(SL!lineVars)
<1> USE DEF SL!Next, SL!lineVars
<1>1. CASE \E data \in Seq(Unit) \ {<<>>} : PutCall(data)
  <2>1. PICK data \in Seq(Unit) \ {<<>>} : PutCall(data)
    BY <1>1
  <2>2. cdata = <<>>
    BY <2>1 DEF LineInv, OfferInv, PutCall
  <2> QED
    BY <2>1, <2>2 DEF PutCall, Line, SL!Offer
<1>2. CASE StopCall
  BY <1>2 DEF StopCall, Line, SL!Cut
<1>3. CASE Reset
  <2>1. chunk = <<>> /\ pos = 0 /\ quiet
    BY <1>3 DEF LineInv, QuietInv, TimeInv, Reset
  <2>2. chunk' = <<>> /\ pos' = 0 /\ fifo' = <<>>
    BY <1>3, <2>1 DEF Reset
  <2>3. Line' = <<>>
    BY <2>2 DEF Line
  <2> QED
    BY <1>3, <2>1, <2>3 DEF Reset, SL!Restart
<1>4. CASE \E t \in Nat : TimeSet(t)
  BY <1>4 DEF TimeSet, Line, SL!Rewind
<1>5. CASE WaitCall \/ SetFreeCallback \/ Destroy
  BY <1>5 DEF WaitCall, SetFreeCallback, Destroy, Line
<1>6. CASE Pause \/ Unpause
  BY <1>6 DEF Pause, Unpause, Line
<1> QED
  BY <1>1, <1>2, <1>3, <1>4, <1>5, <1>6 DEF AnyCall, OtherCall

(* What the rest of a call under way does to it. *)
LEMMA GoesOnImplements ==
    ASSUME LineInv, LineInv', ClientGoesOn PROVE [SL!Next]_(SL!lineVars)
<1> USE DEF SL!Next, SL!lineVars
<1>0. TypeOK /\ TimeInv /\ QuietInv /\ ParkInv /\ OfferInv
  BY DEF LineInv
<1>1. CASE PutWrites
  <2> DEFINE rest == SubSeq(chunk, pos + 1, Len(chunk))
             new  == SubSeq(cdata, 1, Written)
  <2>1. ~quiet /\ ~isStopped /\ UNCHANGED <<quiet, isStopped>>
    BY <1>0, <1>1 DEF QuietInv, PutWrites, PutReady
  <2>2. rest \in Seq(Unit) /\ fifo \in Seq(Unit) /\ cdata \in Seq(Unit)
    BY <1>0, SuffixType DEF TypeOK
  <2>3. Written \in 0..Len(cdata)
    BY <1>0, SizeAssumption DEF TypeOK, Written
  <2>4. new \in Seq(Unit) /\ Len(new) = Written
    BY <2>2, <2>3, PrefixType
  <2>5. Line = rest \o fifo /\ Line \in Seq(Unit)
    BY <1>0, LineIsFifo DEF Line
  <2>6. Line' = rest \o (fifo \o new)
    BY <1>1 DEF PutWrites, Line
  <2> HIDE DEF rest, new
  <2>7. Line' = Line \o new
    <3>1. (rest \o fifo) \o new = rest \o (fifo \o new)
      BY <2>2, <2>4, ConcatAssociative, SMTT(30)
    <3> QED
      BY <2>5, <2>6, <3>1
  <2>8. cdata' = SubSeq(cdata, Written + 1, Len(cdata)) /\ heard' = heard
    BY <1>1 DEF PutWrites
  <2>9. CASE Written = 0
    <3>1. new = <<>>
      BY <2>4, <2>9, EmptyByLength
    <3>2. Line' = Line
      BY <2>5, <2>7, <3>1, ConcatEmptySeq
    <3>3. cdata' = cdata
      BY <2>2, <2>8, <2>9, SubSeqFull
    <3> QED
      BY <2>1, <2>8, <3>2, <3>3
  <2>10. CASE Written # 0
    <3>1. Written \in 1..Len(cdata)
      BY <2>3, <2>10
    <3>2. Line' = Line \o SubSeq(cdata, 1, Written)
      BY <2>7 DEF new
    <3> QED
      BY <2>1, <2>8, <3>1, <3>2 DEF SL!Accept
  <2> QED
    BY <2>9, <2>10
<1>2. CASE StopReturns
  <2>1. isStopped /\ UNCHANGED <<Line, isStopped>> /\ quiet' = TRUE
    BY <1>0, <1>2 DEF QuietInv, StopReturns, Line
  <2>2. cdata = <<>> /\ UNCHANGED <<cdata, heard>>
    BY <1>0, <1>2 DEF OfferInv, StopReturns
  <2> QED
    BY <2>1, <2>2 DEF SL!Hush
<1>3. CASE WaitReturns
  <2>1. cdata = <<>> /\ UNCHANGED <<Line, isStopped, cdata, heard>>
    BY <1>0, <1>3 DEF OfferInv, WaitReturns, Line
  <2>2. Line = fifo
    BY <1>0, <1>3, LineIsFifo DEF WaitReturns, ParkInv
  <2>3. CASE fifo = <<>> \/ isStopped
    <3>1. quiet' = TRUE
      BY <1>3, <2>3 DEF WaitReturns
    <3> QED
      BY <2>1, <2>2, <2>3, <3>1 DEF SL!Hush
  <2>4. CASE ~(fifo = <<>> \/ isStopped)
    <3>1. quiet' = quiet
      BY <1>0, <1>3, <2>4 DEF WaitReturns, TypeOK
    <3> QED
      BY <2>1, <3>1
  <2> QED
    BY <2>3, <2>4
<1>4. CASE PutRefused
  BY <1>4 DEF PutRefused, Line, SL!Refuse
<1>5. CASE PutWaits \/ WaitWaits
  BY <1>5 DEF PutWaits, WaitWaits, Line
<1> QED
  BY <1>1, <1>2, <1>3, <1>4, <1>5 DEF ClientGoesOn

(* Every step is a step of the line of sound, or leaves it alone. *)
LEMMA StepImplements ==
    ASSUME LineInv, LineInv', [Step]_obVars PROVE [SL!Next]_(SL!lineVars)
<1>1. CASE UNCHANGED obVars
  BY <1>1 DEF Line, SL!lineVars, obVars
<1> QED
  BY <1>1, ReaderImplements, CallsImplement, GoesOnImplements DEF Step

LEMMA NextImplements ==
    ASSUME LineInv, LineInv', [Next]_obVars PROVE [SL!Next]_(SL!lineVars)
<1>1. CASE WakesByItself
  BY <1>1 DEF WakesByItself, SpuriousReady, SpuriousPlay, Line, SL!lineVars
<1>2. CASE Finished
  BY <1>2, StepImplements DEF Finished
<1> QED
  BY <1>1, <1>2, NextIsStep, StepImplements

(* A line starts silent and empty. *)
LEMMA InitImplements == Init => SL!Init
<1>1. SubSeq(<<>>, 1, 0) \o <<>> = <<>>
  OBVIOUS
<1> QED
  BY <1>1 DEF Init, SL!Init, Line

(* Every behaviour of the buffer is, seen from the playing thread, one of  *)
(* the line of sound: what put() is given is heard once, in order and      *)
(* without a gap except after stop(), and silence lasts.                   *)
THEOREM Refinement == ~Spurious => (SafetySpec => ImplementsSoundLine)
<1> SUFFICES ASSUME ~Spurious PROVE SafetySpec => SL!Spec
  BY DEF ImplementsSoundLine
<1>1. SafetySpec => []QuietInv
  BY QuietAlways
<1>2. SafetySpec => []TimeInv
  BY TimeAlways
<1>3. TypeOK /\ ParkInv /\ QuietInv /\ TimeInv /\ OfferInv => LineInv
  BY DEF LineInv
<1>4. SafetySpec => []LineInv
  BY <1>1, <1>2, <1>3, TypeCorrect, ParkAlways, OfferAlways, PTL
<1>5. Init => SL!Init
  BY InitImplements
<1>6. LineInv /\ LineInv' /\ [Next]_obVars => [SL!Next]_(SL!lineVars)
  BY NextImplements
<1> QED
  BY <1>4, <1>5, <1>6, PTL DEF SafetySpec, SL!Spec

=============================================================================
