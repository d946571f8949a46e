---------------------------- MODULE PlayerProofs ----------------------------
(***************************************************************************)
(* Proofs about Player, for every file length, precache length, conversion *)
(* and number of calls.                                                    *)
(*                                                                         *)
(* PlayerTypeOK and PcInv, which says where a precache thread may be       *)
(* running, are inductive on their own.  Each step of the player is a step *)
(* of the output buffer with some client (IsAClient), so that what         *)
(* OutBufProofs shows of any client holds here.  StageInv says what the    *)
(* buffer and the state shown look like at each place of the playing       *)
(* thread, FormatInv where the device is open for the sound that comes,    *)
(* and ClockInv where the time and the decoder agree.                      *)
(***************************************************************************)
EXTENDS Player, OutBufProofs

USE DEF Goto, NotifyRequest, songVars, playVars, pcVars, audioVars, uiVars, reqVars
USE DEF fields, playBuf, devVars, readerVars, clientVars, history

-----------------------------------------------------------------------------
(* Type correctness. *)

(* Opening a file preserves the types. *)
LEMMA OpeningType ==
    ASSUME PlayerTypeOK,
           \/ Pick \/ PlayFileResets \/ PlayFileJoinsPrecache
           \/ PrecachedOpens \/ PrecachedOpenFails \/ PrecachedPuts
           \/ FileOpens \/ FileOpenFails \/ Started
    PROVE  PlayerTypeOK'
<1> USE DEF PlayerTypeOK, DPcs, UPcs
<1>1. CASE Pick
  BY <1>1 DEF Pick
<1>2. CASE PlayFileResets
  BY <1>2 DEF PlayFileResets
<1>3. CASE PlayFileJoinsPrecache
  <2>1. {pcRunning, pcOk, pcBusy}' \subseteq BOOLEAN
    BY <1>3 DEF PlayFileJoinsPrecache
  <2> QED
    BY <1>3, <2>1 DEF PlayFileJoinsPrecache
<1>4. CASE PrecachedOpens
  BY <1>4, OptionAssumption DEF PrecachedOpens
<1>5. CASE PrecachedOpenFails
  <2>1. {eof, change, known, conv, unserved}' \subseteq BOOLEAN
    BY <1>5 DEF PrecachedOpenFails
  <2> QED
    BY <1>5, <2>1 DEF PrecachedOpenFails
<1>6. CASE PrecachedPuts
  BY <1>6, LenAssumption DEF PrecachedPuts
<1>7. CASE FileOpens
  <2>1. {eof, change, known, conv, unserved}' \subseteq BOOLEAN
    BY <1>7 DEF FileOpens
  <2> QED
    BY <1>7, <2>1, LenAssumption DEF FileOpens
<1>8. CASE FileOpenFails
  BY <1>8 DEF FileOpenFails
<1>9. CASE Started
  <2>1. {eof, change, known, conv, unserved}' \subseteq BOOLEAN
    BY <1>9 DEF Started
  <2>2. {pcRunning, pcOk, pcBusy}' \subseteq BOOLEAN
    BY <1>9 DEF Started
  <2> QED
    BY <1>9, <2>1, <2>2 DEF Started
<1> QED
  BY <1>1, <1>2, <1>3, <1>4, <1>5, <1>6, <1>7, <1>8, <1>9

(* So does decode_loop. *)
LEMMA LoopType ==
    ASSUME PlayerTypeOK,
           \/ LoopDecodes \/ LoopWaits \/ LoopGoesOn \/ Decode \/ DecodeEnds
           \/ DispatchStop \/ DispatchSeek \/ DispatchSeekFails \/ DispatchPut
           \/ DispatchChange \/ DispatchEnd \/ DispatchNothing
    PROVE  PlayerTypeOK'
<1> USE DEF PlayerTypeOK, DPcs, UPcs
<1>1. CASE LoopDecodes \/ LoopWaits \/ LoopGoesOn
  <2>1. CASE LoopDecodes
    BY <2>1 DEF LoopDecodes
  <2>2. CASE LoopWaits
    <3>1. pcFile' \in Songs \cup {NoSong} /\ {pcRunning, pcOk, pcBusy}' \subseteq BOOLEAN
      BY <2>2 DEF LoopWaits
    <3> QED
      BY <2>2, <3>1 DEF LoopWaits
  <2>3. CASE LoopGoesOn
    BY <2>3 DEF LoopGoesOn
  <2> QED
    BY <1>1, <2>1, <2>2, <2>3
<1>2. CASE Decode
  <2>1. dpos' \in 0..SongLen
    BY <1>2, LenAssumption DEF Decode
  <2>2. change' \in BOOLEAN
    BY <1>2, OptionAssumption DEF Decode, Changes
  <2> QED
    BY <1>2, <2>1, <2>2 DEF Decode
<1>3. CASE DecodeEnds
  BY <1>3 DEF DecodeEnds
<1>4. CASE DispatchStop
  <2>1. {eof, change, known, conv, unserved}' \subseteq BOOLEAN
    BY <1>4 DEF DispatchStop
  <2> QED
    BY <1>4, <2>1 DEF DispatchStop
<1>5. CASE DispatchSeek
  <2>1. {eof, change, known, conv, unserved}' \subseteq BOOLEAN
    BY <1>5 DEF DispatchSeek
  <2> QED
    BY <1>5, <2>1 DEF DispatchSeek, SeekTargets
<1>6. CASE DispatchSeekFails
  <2>1. {eof, change, known, conv, unserved}' \subseteq BOOLEAN
    BY <1>6 DEF DispatchSeekFails
  <2> QED
    BY <1>6, <2>1 DEF DispatchSeekFails
<1>7. CASE DispatchPut
  BY <1>7 DEF DispatchPut
<1>8. CASE DispatchChange
  <2>1. {eof, change, known, conv, unserved}' \subseteq BOOLEAN
    BY <1>8 DEF DispatchChange
  <2> QED
    BY <1>8, <2>1 DEF DispatchChange
<1>9. CASE DispatchEnd \/ DispatchNothing
  BY <1>9 DEF DispatchEnd, DispatchNothing
<1> QED
  BY <1>1, <1>2, <1>3, <1>4, <1>5, <1>6, <1>7, <1>8, <1>9

(* So does what follows a request, and the end of a file. *)
LEMMA EndingType ==
    ASSUME PlayerTypeOK,
           \/ ClearStop \/ SeekStops \/ SeekResets \/ SeekSetsTime \/ ClearSeek \/ PutDone
           \/ ChangeOpens \/ ChangeOpenFails \/ StopCloses \/ Closes \/ DropsPrecache
           \/ Ended \/ GoesToAnotherFile \/ Finishes \/ ClosesDevice
    PROVE  PlayerTypeOK'
<1> USE DEF PlayerTypeOK, DPcs, UPcs
<1>1. CASE ClearStop
  BY <1>1 DEF ClearStop
<1>2. CASE SeekStops
  BY <1>2 DEF SeekStops
<1>3. CASE SeekResets
  BY <1>3 DEF SeekResets
<1>4. CASE SeekSetsTime
  <2>1. {eof, change, known, conv, unserved}' \subseteq BOOLEAN
    BY <1>4 DEF SeekSetsTime
  <2> QED
    BY <1>4, <2>1 DEF SeekSetsTime
<1>5. CASE ClearSeek
  BY <1>5 DEF ClearSeek
<1>6. CASE PutDone
  BY <1>6 DEF PutDone
<1>7. CASE ChangeOpens
  BY <1>7, OptionAssumption DEF ChangeOpens
<1>8. CASE ChangeOpenFails
  <2>1. {eof, change, known, conv, unserved}' \subseteq BOOLEAN
    BY <1>8 DEF ChangeOpenFails
  <2> QED
    BY <1>8, <2>1 DEF ChangeOpenFails
<1>9. CASE StopCloses
  BY <1>9 DEF StopCloses
<1>10. CASE Closes
  BY <1>10 DEF Closes
<1>11. CASE DropsPrecache
  <2>1. {pcRunning, pcOk, pcBusy}' \subseteq BOOLEAN
    BY <1>11 DEF DropsPrecache
  <2> QED
    BY <1>11, <2>1 DEF DropsPrecache
<1>12. CASE Ended
  <2>1. {eof, change, known, conv, unserved}' \subseteq BOOLEAN
    BY <1>12, LenAssumption DEF Ended
  <2> QED
    BY <1>12, LenAssumption, <2>1 DEF Ended
<1>13. CASE GoesToAnotherFile
  BY <1>13 DEF GoesToAnotherFile
<1>14. CASE Finishes
  BY <1>14 DEF Finishes
<1>15. CASE ClosesDevice
  <2>1. {eof, change, known, conv, unserved}' \subseteq BOOLEAN
    BY <1>15 DEF ClosesDevice
  <2> QED
    BY <1>15, <2>1 DEF ClosesDevice
<1> QED
  BY <1>1, <1>2, <1>3, <1>4, <1>5, <1>6, <1>7, <1>8, <1>9, <1>10, <1>11, <1>12, <1>13,
     <1>14, <1>15

(* So do the calls of the interface. *)
LEMMA InterfaceType == PlayerTypeOK /\ (UiCalls \/ UiGoesOn) => PlayerTypeOK'
<1> SUFFICES ASSUME PlayerTypeOK, UiCalls \/ UiGoesOn PROVE PlayerTypeOK'
  OBVIOUS
<1> USE DEF PlayerTypeOK, DPcs, UPcs
<1>1. ASSUME Calls PROVE calls' \in 0..MaxCalls
  BY <1>1, CallsAssumption DEF Calls
<1>2. ASSUME NEW g \in {"stop", "play", "exit"}, AudioStop(g) PROVE PlayerTypeOK'
  <2>1. calls' \in 0..MaxCalls /\ goal' \in {"stop", "play", "exit"}
    BY <1>1, <1>2 DEF AudioStop
  <2>2. CASE running
    <3>1. upc' = "stop" /\ stopPlaying' = TRUE /\ state' = state
      BY <1>2, <2>2 DEF AudioStop
    <3> QED
      BY <1>2, <2>1, <3>1 DEF AudioStop
  <2>3. CASE ~running
    <3>1. upc' \in {"idle", "start", "destroy"}
      BY <1>2, <2>3 DEF AudioStop
    <3>2. state' \in {"play", "stop", "pause"} /\ stopPlaying' = stopPlaying
      BY <1>2, <2>3 DEF AudioStop
    <3> QED
      BY <1>2, <2>1, <3>1, <3>2 DEF AudioStop
  <2> QED
    BY <2>2, <2>3
<1>3. CASE AudioSkip \/ AudioSeek
  BY <1>1, <1>3 DEF AudioSkip, AudioSeek, Asks
<1>4. CASE AudioPause \/ AudioUnpause
  BY <1>1, <1>4 DEF AudioPause, AudioUnpause
<1>5. CASE StopAsks \/ StopNotifies \/ StopJoins
  <2>1. CASE StopAsks
    BY <2>1 DEF StopAsks, Asks
  <2>2. CASE StopNotifies
    BY <2>2 DEF StopNotifies
  <2>3. CASE StopJoins
    BY <2>3 DEF StopJoins
  <2> QED
    BY <1>5, <2>1, <2>2, <2>3
<1>6. CASE AudioPlayStarts
  BY <1>6 DEF AudioPlayStarts
<1>7. CASE SeekAsks \/ SkipOrSeekNotifies \/ SetsState \/ ExitDestroys
  <2>1. CASE SeekAsks
    BY <2>1 DEF SeekAsks, Asks
  <2>2. CASE SkipOrSeekNotifies
    BY <2>2 DEF SkipOrSeekNotifies
  <2>3. CASE SetsState
    BY <2>3 DEF SetsState
  <2>4. CASE ExitDestroys
    BY <2>4 DEF ExitDestroys
  <2> QED
    BY <1>7, <2>1, <2>2, <2>3, <2>4
<1> QED
  BY <1>2, <1>3, <1>4, <1>5, <1>6, <1>7 DEF UiCalls, UiGoesOn

(* So does every step of the system. *)
LEMMA PlayerNextType == PlayerTypeOK /\ [PlayerNext]_vars => PlayerTypeOK'
<1> SUFFICES ASSUME PlayerTypeOK, [PlayerNext]_vars PROVE PlayerTypeOK'
  OBVIOUS
<1> USE DEF PlayerTypeOK
<1>1. CASE ReaderStep
  <2>1. conv' \in BOOLEAN
    BY <1>1, OptionAssumption DEF ReaderStep
  <2>2. dpc' \in DPcs
    BY <1>1 DEF ReaderStep, DPcs
  <2>3. UNCHANGED <<audioVars, playVars, reqVars, pcVars, uiVars>>
    BY <1>1 DEF ReaderStep
  <2> QED
    BY <2>1, <2>2, <2>3
<1>2. CASE CallStep \/ PlayerFinished \/ UNCHANGED vars
  BY <1>2 DEF CallStep, PlayerFinished, vars, plVars
<1>3. CASE PlayingThread
  <2> HIDE DEF PlayerTypeOK
  <2> QED
    BY <1>3, OpeningType, LoopType, EndingType DEF PlayingThread
<1>4. CASE PrecacheThread
  <2>1. {pcRunning, pcOk, pcBusy}' \subseteq BOOLEAN
    BY <1>4 DEF PrecacheThread
  <2>2. UNCHANGED <<audioVars, playVars, reqVars, dpc, conv, pcFile, uiVars>>
    BY <1>4 DEF PrecacheThread
  <2> QED
    BY <2>1, <2>2
<1> QED
  BY <1>1, <1>2, <1>3, <1>4, InterfaceType DEF PlayerNext

(* The variables of the player have their types, whatever files end or     *)
(* refuse to, and whatever is called.                                      *)
THEOREM PlayerTypes == PlayerSafetySpec => []PlayerTypeOK
<1>1. ASSUME PlayerInit PROVE PlayerTypeOK
  <2>1. /\ running \in BOOLEAN
        /\ stopPlaying \in BOOLEAN
        /\ {eof, change, known, conv, unserved} \subseteq BOOLEAN
        /\ {pcRunning, pcOk, pcBusy} \subseteq BOOLEAN
    BY <1>1 DEF PlayerInit
  <2>2. dpos \in 0..SongLen /\ decoded \in 0..1 /\ calls \in 0..MaxCalls
    BY <1>1, LenAssumption, CallsAssumption DEF PlayerInit
  <2> QED
    BY <1>1, <2>1, <2>2 DEF PlayerInit, PlayerTypeOK, DPcs, UPcs
<1> QED
  BY <1>1, PlayerNextType, PTL DEF PlayerSafetySpec

-----------------------------------------------------------------------------
(* The precache thread. *)

(* From the join before a file is opened to the end of that file, there is *)
(* no precache thread to join.                                             *)
PcInv ==
    /\ PrecacheIsJoined
    /\ dpc \in {"open", "pcOpening", "pcPut", "started"} => ~pcRunning

(* Each step keeps track of the precache thread. *)
LEMMA NextPc == PcInv /\ [PlayerNext]_vars => PcInv'
<1> SUFFICES ASSUME PcInv, [PlayerNext]_vars PROVE PcInv'
  OBVIOUS
<1> USE DEF PcInv, PrecacheIsJoined
<1>1. CASE Pick \/ PlayFileResets \/ PlayFileJoinsPrecache
  BY <1>1 DEF Pick, PlayFileResets, PlayFileJoinsPrecache, PrecacheDone
<1>2. CASE PrecachedOpens \/ PrecachedOpenFails \/ PrecachedPuts
  BY <1>2 DEF PrecachedOpens, PrecachedOpenFails, PrecachedPuts
<1>3. CASE FileOpens \/ FileOpenFails \/ Started
  BY <1>3 DEF FileOpens, FileOpenFails, Started
<1>4. CASE LoopDecodes \/ LoopWaits \/ LoopGoesOn \/ Decode \/ DecodeEnds
  BY <1>4 DEF LoopDecodes, LoopWaits, LoopGoesOn, Decode, DecodeEnds
<1>5. CASE \/ DispatchStop \/ DispatchSeek \/ DispatchSeekFails \/ DispatchPut
           \/ DispatchChange \/ DispatchEnd \/ DispatchNothing
  BY <1>5 DEF DispatchStop, DispatchSeek, DispatchSeekFails, DispatchPut,
     DispatchChange, DispatchEnd, DispatchNothing
<1>6. CASE ClearStop \/ SeekStops \/ SeekResets \/ SeekSetsTime \/ ClearSeek \/ PutDone
  BY <1>6 DEF ClearStop, SeekStops, SeekResets, SeekSetsTime, ClearSeek, PutDone
<1>7. CASE ChangeOpens \/ ChangeOpenFails \/ StopCloses \/ Closes \/ DropsPrecache
  BY <1>7 DEF ChangeOpens, ChangeOpenFails, StopCloses, Closes, DropsPrecache,
     PrecacheDone
<1>8. CASE Ended \/ GoesToAnotherFile \/ Finishes \/ ClosesDevice
  BY <1>8 DEF Ended, GoesToAnotherFile, Finishes, ClosesDevice
<1>9. CASE ReaderStep \/ CallStep \/ PrecacheThread
  <2>1. CASE ReaderStep
    <3>1. dpc' \in {dpc, "dispatch"} /\ UNCHANGED pcVars
      BY <2>1 DEF ReaderStep
    <3> QED
      BY <3>1
  <2> QED
    BY <1>9, <2>1 DEF CallStep, PrecacheThread, plVars
<1>10. CASE UiCalls
  BY <1>10 DEF UiCalls, AudioStop, AudioSkip, AudioSeek, AudioPause, AudioUnpause
<1>11. CASE UiGoesOn
  BY <1>11 DEF UiGoesOn, StopAsks, StopNotifies, StopJoins, AudioPlayStarts, SeekAsks,
     SkipOrSeekNotifies, SetsState, ExitDestroys
<1>12. CASE PlayerFinished \/ UNCHANGED vars
  BY <1>12 DEF PlayerFinished, vars, plVars
<1> QED
  BY <1>1, <1>2, <1>3, <1>4, <1>5, <1>6, <1>7, <1>8, <1>9, <1>10, <1>11, <1>12
     DEF PlayerNext, PlayingThread

(* No precache thread is started while one has yet to be joined, and the   *)
(* state of the precache is not reset under one.                           *)
THEOREM PrecacheJoins == PlayerSafetySpec => []PrecacheIsJoined
<1>1. PlayerInit => PcInv
  BY DEF PlayerInit, PcInv, PrecacheIsJoined
<1>2. PcInv => PrecacheIsJoined
  BY DEF PcInv
<1> QED
  BY <1>1, <1>2, NextPc, PTL DEF PlayerSafetySpec

-----------------------------------------------------------------------------
(* The player is a client of the output buffer. *)

(* What audio_send_buf() hands on is sound. *)
LEMMA DataType ==
    ASSUME PlayerTypeOK, NEW n \in Nat
    PROVE  Data(n) \in Seq(Unit) /\ (n # 0 => Data(n) # <<>>)
<1> DEFINE len == IF conv THEN n * PutLen ELSE n
<1>1. len \in Nat /\ (n # 0 => len # 0)
  BY LenAssumption
<1>2. Data(n) = [i \in 1..len |-> IF conv = NeedConv THEN "pcm" ELSE "raw"]
  BY DEF Data
<1>3. \A i \in 1..len : (IF conv = NeedConv THEN "pcm" ELSE "raw") \in Unit
  BY UnitAssumption
<1> HIDE DEF len
<1> QED
  BY <1>1, <1>2, <1>3

(* A time counts units. *)
LEMMA TimeType == ASSUME PlayerTypeOK PROVE dpos * UnitsPerPiece \in Nat
<1>1. dpos \in Nat /\ UnitsPerPiece \in Nat
  BY LenAssumption DEF PlayerTypeOK, UnitsPerPiece
<1> HIDE DEF UnitsPerPiece
<1> QED
  BY <1>1

(* Each step of the player is a put() of a piece, another step of the      *)
(* buffer with some client, or none of it.                                 *)
LEMMA UsesBuffer ==
    PlayerTypeOK /\ [PlayerNext]_vars =>
        \/ PrecachedPuts \/ DispatchPut
        \/ Reader \/ OtherCall \/ ClientGoesOn \/ UNCHANGED obVars
<1> SUFFICES ASSUME PlayerTypeOK, [PlayerNext]_vars, ~PrecachedPuts, ~DispatchPut
             PROVE  Reader \/ OtherCall \/ ClientGoesOn \/ UNCHANGED obVars
  OBVIOUS
<1>1. CASE Pick \/ PlayFileResets \/ PlayFileJoinsPrecache
  BY <1>1 DEF Pick, PlayFileResets, PlayFileJoinsPrecache, OtherCall
<1>2. CASE PrecachedOpens \/ PrecachedOpenFails
  BY <1>2 DEF PrecachedOpens, PrecachedOpenFails
<1>3. CASE FileOpens \/ FileOpenFails \/ Started
  BY <1>3 DEF FileOpens, FileOpenFails, Started, OtherCall
<1>4. CASE LoopDecodes \/ LoopWaits \/ LoopGoesOn \/ Decode \/ DecodeEnds
  BY <1>4 DEF LoopDecodes, LoopWaits, LoopGoesOn, Decode, DecodeEnds
<1>5. CASE \/ DispatchStop \/ DispatchSeek \/ DispatchSeekFails
           \/ DispatchChange \/ DispatchEnd \/ DispatchNothing
  BY <1>5 DEF DispatchStop, DispatchSeek, DispatchSeekFails, DispatchChange,
     DispatchEnd, DispatchNothing, OtherCall
<1>6. CASE SeekSetsTime
  <2>1. TimeSet(dpos * UnitsPerPiece)
    BY <1>6 DEF SeekSetsTime
  <2> QED
    BY <2>1, TimeType DEF OtherCall
<1>7. CASE ClearStop \/ SeekStops \/ SeekResets \/ ClearSeek \/ PutDone
  BY <1>7 DEF ClearStop, SeekStops, SeekResets, ClearSeek, PutDone, OtherCall
<1>8. CASE ChangeOpens \/ ChangeOpenFails \/ StopCloses \/ Closes \/ DropsPrecache
  BY <1>8 DEF ChangeOpens, ChangeOpenFails, StopCloses, Closes, DropsPrecache, OtherCall
<1>9. CASE Ended \/ GoesToAnotherFile \/ Finishes \/ ClosesDevice
  BY <1>9 DEF Ended, GoesToAnotherFile, Finishes, ClosesDevice, OtherCall
<1>10. CASE ReaderStep \/ CallStep \/ PrecacheThread
  BY <1>10 DEF ReaderStep, CallStep, PrecacheThread
<1>11. CASE UiCalls
  BY <1>11 DEF UiCalls, AudioStop, AudioSkip, AudioSeek, AudioPause, AudioUnpause,
     OtherCall
<1>12. CASE UiGoesOn
  BY <1>12 DEF UiGoesOn, StopAsks, StopNotifies, StopJoins, AudioPlayStarts,
     SeekAsks, SkipOrSeekNotifies, SetsState, ExitDestroys, OtherCall
<1>13. CASE PlayerFinished \/ UNCHANGED vars
  BY <1>13 DEF PlayerFinished, vars
<1> QED
  BY <1>1, <1>2, <1>3, <1>4, <1>5, <1>6, <1>7, <1>8, <1>9, <1>10, <1>11, <1>12, <1>13
     DEF PlayerNext, PlayingThread

(* Where a request is looked for, there is a piece to put, or the file has *)
(* ended.                                                                  *)
PieceThere == dpc \in {"dispatch", "reqWait"} => eof \/ decoded # 0

(* Each step keeps it: nobody but the playing thread has a piece, and a    *)
(* notification finds the thread where it was.                             *)
LEMMA NextPiece == PieceThere /\ [PlayerNext]_vars => PieceThere'
<1> SUFFICES ASSUME PieceThere, [PlayerNext]_vars PROVE PieceThere'
  OBVIOUS
<1> USE DEF PieceThere
<1>1. CASE Pick \/ PlayFileResets \/ PlayFileJoinsPrecache
  BY <1>1 DEF Pick, PlayFileResets, PlayFileJoinsPrecache
<1>2. CASE PrecachedOpens \/ PrecachedOpenFails \/ PrecachedPuts
  BY <1>2 DEF PrecachedOpens, PrecachedOpenFails, PrecachedPuts
<1>3. CASE FileOpens \/ FileOpenFails \/ Started
  BY <1>3 DEF FileOpens, FileOpenFails, Started
<1>4. CASE LoopDecodes \/ LoopWaits \/ LoopGoesOn \/ Decode \/ DecodeEnds
  BY <1>4 DEF LoopDecodes, LoopWaits, LoopGoesOn, Decode, DecodeEnds
<1>5. CASE \/ DispatchStop \/ DispatchSeek \/ DispatchSeekFails \/ DispatchPut
           \/ DispatchChange \/ DispatchEnd \/ DispatchNothing
  BY <1>5 DEF DispatchStop, DispatchSeek, DispatchSeekFails, DispatchPut,
     DispatchChange, DispatchEnd, DispatchNothing
<1>6. CASE ClearStop \/ SeekStops \/ SeekResets \/ SeekSetsTime \/ ClearSeek \/ PutDone
  BY <1>6 DEF ClearStop, SeekStops, SeekResets, SeekSetsTime, ClearSeek, PutDone
<1>7. CASE ChangeOpens \/ ChangeOpenFails \/ StopCloses \/ Closes \/ DropsPrecache
  BY <1>7 DEF ChangeOpens, ChangeOpenFails, StopCloses, Closes, DropsPrecache
<1>8. CASE Ended \/ GoesToAnotherFile \/ Finishes \/ ClosesDevice
  BY <1>8 DEF Ended, GoesToAnotherFile, Finishes, ClosesDevice
<1>9. CASE ReaderStep
  <2>1. dpc' = dpc \/ (dpc = "reqWait" /\ dpc' = "dispatch")
    BY <1>9 DEF ReaderStep
  <2> QED
    BY <1>9, <2>1 DEF ReaderStep
<1>10. CASE CallStep \/ PrecacheThread
  BY <1>10 DEF CallStep, PrecacheThread, plVars
<1>11. CASE UiCalls
  BY <1>11 DEF UiCalls, AudioStop, AudioSkip, AudioSeek, AudioPause, AudioUnpause
<1>12. CASE UiGoesOn
  BY <1>12 DEF UiGoesOn, StopAsks, StopNotifies, StopJoins, AudioPlayStarts, SeekAsks,
     SkipOrSeekNotifies, SetsState, ExitDestroys
<1>13. CASE PlayerFinished \/ UNCHANGED vars
  BY <1>13 DEF PlayerFinished, vars, plVars
<1> QED
  BY <1>1, <1>2, <1>3, <1>4, <1>5, <1>6, <1>7, <1>8, <1>9, <1>10, <1>11, <1>12, <1>13
     DEF PlayerNext, PlayingThread

LEMMA PieceAlways == PlayerSafetySpec => []PieceThere
<1>1. PlayerInit => PieceThere
  BY DEF PlayerInit, PieceThere
<1> QED
  BY <1>1, NextPiece, PTL DEF PlayerSafetySpec

(* So each is a step of the buffer with a client OutBufProofs knows.       *)
LEMMA IsAClient == PlayerTypeOK /\ PieceThere /\ [PlayerNext]_vars => [Step]_obVars
<1> SUFFICES ASSUME PlayerTypeOK, PieceThere, [PlayerNext]_vars PROVE [Step]_obVars
  OBVIOUS
<1>1. CASE PrecachedPuts
  <2>1. PrecacheLen \in Nat \ {0}
    BY LenAssumption
  <2>2. PutCall(Data(PrecacheLen)) /\ Data(PrecacheLen) \in Seq(Unit) \ {<<>>}
    BY <1>1, <2>1, DataType DEF PrecachedPuts
  <2> QED
    BY <2>2 DEF AnyCall, Step
<1>2. CASE DispatchPut
  <2>1. decoded \in Nat \ {0}
    BY <1>2 DEF DispatchPut, PieceThere, PlayerTypeOK
  <2>2. PutCall(Data(decoded)) /\ Data(decoded) \in Seq(Unit) \ {<<>>}
    BY <1>2, <2>1, DataType DEF DispatchPut
  <2> QED
    BY <2>2 DEF AnyCall, Step
<1> QED
  BY <1>1, <1>2, UsesBuffer DEF AnyCall, Step

(* What holds of the buffer with any client holds of it in the player: no  *)
(* condition variable wakes up by itself here.                             *)
BufferInv == TypeOK /\ ParkInv /\ QuietInv /\ TimeInv /\ OfferInv

(* It holds in every reachable state.                                      *)
LEMMA BufferAlways == PlayerSafetySpec => []BufferInv
<1>1. PlayerInit => BufferInv
  BY InitType DEF PlayerInit, Init, BufferInv, ParkInv, ParkedOnlyWhenIdle, QuietInv,
     TimeInv, OfferInv, Sending
<1>2. PlayerTypeOK /\ PieceThere /\ BufferInv /\ [PlayerNext]_vars => BufferInv'
  BY IsAClient, StepType, StepPark, StepQuiet, StepTime, StepOffer DEF BufferInv
<1> QED
  BY <1>1, <1>2, PlayerTypes, PieceAlways, PTL DEF PlayerSafetySpec

(* The player with all of its threads drives the line of sound as it is    *)
(* meant to be driven: from the pieces of a file to the device nothing is  *)
(* lost, repeated or out of order but for what a stop or seek threw away,  *)
(* and a new piece is offered only when the last one was taken in.         *)
THEOREM PlayerImplements == PlayerSafetySpec => ImplementsSoundLine
<1>1. PlayerInit => SL!Init
  BY InitImplements DEF PlayerInit
<1>2. /\ PlayerTypeOK /\ PieceThere /\ BufferInv /\ BufferInv' /\ [PlayerNext]_vars
      => [SL!Next]_(SL!lineVars)
  BY IsAClient, StepImplements DEF BufferInv, LineInv
<1>3. PlayerSafetySpec => SL!Spec
  BY <1>1, <1>2, PlayerTypes, PieceAlways, BufferAlways, PTL DEF PlayerSafetySpec, SL!Spec
<1> QED
  BY <1>3 DEF ImplementsSoundLine

-----------------------------------------------------------------------------
(* What the buffer and the state shown look like at each place. *)

(* Places where the playing thread is in no call and the buffer is quiet.  *)
Silent == {"none", "pick", "reset", "pcWait", "open", "pcOpening", "pcPut", "seekTime",
           "stopClosing", "ended", "next", "finish", "closeDevice", "dead"}

(* Places where no file is current. *)
NoFile == {"none", "finish", "closeDevice", "dead"}

(* stop() and wait() leave a quiet buffer when they return.  wait() is     *)
(* called on an empty FIFO or a quiet buffer only, and nobody fills it     *)
(* meanwhile.                                                              *)
QuietAtStages ==
    /\ dpc \in Silent => cpc = "idle" /\ quiet
    /\ dpc \in {"clearStop", "seekReset"} =>
         \/ cpc \in {"stopWait", "stopWoken"}
         \/ cpc = "idle" /\ quiet
    /\ dpc \in {"chOpening", "closing", "drop"} =>
         \/ cpc \in {"wait", "waitWait"} /\ (quiet \/ fifo = <<>>)
         \/ cpc = "idle" /\ quiet

(* The interface starts a playing thread, and destroys the buffer, only    *)
(* when there is no playing thread; and pauses only what plays.            *)
StateAtStages ==
    /\ running <=> dpc # "none"
    /\ upc \in {"start", "destroy", "exited"} => dpc = "none"
    /\ song = NoSong <=> dpc \in NoFile
    /\ ModeLocked => dpc \notin NoFile
    /\ dpc \in {"none", "closeDevice", "dead"} => state = "stop"

StageInv == QuietAtStages /\ StateAtStages

(* The playing thread keeps the state in step with the place where it is.  *)
LEMMA ThreadState == StateAtStages /\ PlayingThread => StateAtStages'
<1> SUFFICES ASSUME StateAtStages, PlayingThread PROVE StateAtStages'
  OBVIOUS
<1> USE DEF StateAtStages, NoFile, ModeLocked
<1>1. CASE Pick \/ PlayFileResets \/ PlayFileJoinsPrecache
  BY <1>1 DEF Pick, PlayFileResets, PlayFileJoinsPrecache
<1>2. CASE PrecachedOpens \/ PrecachedOpenFails \/ PrecachedPuts
  BY <1>2 DEF PrecachedOpens, PrecachedOpenFails, PrecachedPuts
<1>3. CASE FileOpens \/ FileOpenFails \/ Started
  BY <1>3 DEF FileOpens, FileOpenFails, Started
<1>4. CASE LoopDecodes \/ LoopWaits \/ LoopGoesOn \/ Decode \/ DecodeEnds
  BY <1>4 DEF LoopDecodes, LoopWaits, LoopGoesOn, Decode, DecodeEnds
<1>5. CASE \/ DispatchStop \/ DispatchSeek \/ DispatchSeekFails \/ DispatchPut
           \/ DispatchChange \/ DispatchEnd \/ DispatchNothing
  BY <1>5 DEF DispatchStop, DispatchSeek, DispatchSeekFails, DispatchPut,
     DispatchChange, DispatchEnd, DispatchNothing
<1>6. CASE ClearStop \/ SeekStops \/ SeekResets \/ SeekSetsTime \/ ClearSeek \/ PutDone
  BY <1>6 DEF ClearStop, SeekStops, SeekResets, SeekSetsTime, ClearSeek, PutDone
<1>7. CASE ChangeOpens \/ ChangeOpenFails \/ StopCloses \/ Closes \/ DropsPrecache
  BY <1>7 DEF ChangeOpens, ChangeOpenFails, StopCloses, Closes, DropsPrecache
<1>8. CASE Ended \/ GoesToAnotherFile \/ Finishes \/ ClosesDevice
  BY <1>8, SongAssumption DEF Ended, GoesToAnotherFile, Finishes, ClosesDevice
<1> QED
  BY <1>1, <1>2, <1>3, <1>4, <1>5, <1>6, <1>7, <1>8 DEF PlayingThread

(* It goes where the buffer has to be quiet only from where it is.         *)
LEMMA ThreadQuiet == QuietAtStages /\ PlayingThread => QuietAtStages'
<1> SUFFICES ASSUME QuietAtStages, PlayingThread PROVE QuietAtStages'
  OBVIOUS
<1> USE DEF QuietAtStages, Silent, obVars
<1>1. CASE Pick \/ PlayFileResets \/ PlayFileJoinsPrecache
  BY <1>1 DEF Pick, TimeSet, PlayFileResets, Reset, PlayFileJoinsPrecache
<1>2. CASE PrecachedOpens \/ PrecachedOpenFails \/ PrecachedPuts
  BY <1>2 DEF PrecachedOpens, PrecachedOpenFails, PrecachedPuts, PutCall
<1>3. CASE FileOpens \/ FileOpenFails \/ Started
  BY <1>3 DEF FileOpens, FileOpenFails, Started, SetFreeCallback
<1>4. CASE LoopDecodes \/ LoopWaits \/ LoopGoesOn \/ Decode \/ DecodeEnds
  BY <1>4 DEF LoopDecodes, LoopWaits, LoopGoesOn, Decode, DecodeEnds
<1>5. CASE DispatchStop \/ DispatchSeek \/ DispatchSeekFails \/ DispatchPut
  BY <1>5 DEF DispatchStop, StopCall, DispatchSeek, DispatchSeekFails, DispatchPut,
     PutCall
<1>6. CASE DispatchChange \/ DispatchEnd \/ DispatchNothing
  BY <1>6 DEF DispatchChange, DispatchEnd, WaitCall, DispatchNothing
<1>7. CASE ClearStop \/ SeekStops \/ SeekResets
  BY <1>7 DEF ClearStop, SeekStops, StopCall, SeekResets, Reset
<1>8. CASE SeekSetsTime \/ ClearSeek \/ PutDone
  BY <1>8 DEF SeekSetsTime, TimeSet, ClearSeek, PutDone
<1>9. CASE ChangeOpens \/ ChangeOpenFails \/ StopCloses
  BY <1>9 DEF ChangeOpens, ChangeOpenFails, StopCloses, WaitCall
<1>10. CASE Closes \/ DropsPrecache
  BY <1>10 DEF Closes, DropsPrecache
<1>11. CASE Ended \/ GoesToAnotherFile \/ Finishes \/ ClosesDevice
  BY <1>11 DEF Ended, TimeSet, GoesToAnotherFile, Finishes, ClosesDevice
<1> QED
  BY <1>1, <1>2, <1>3, <1>4, <1>5, <1>6, <1>7, <1>8, <1>9, <1>10, <1>11
     DEF PlayingThread

(* The reader touches neither, but that it wakes who waits in a call.      *)
LEMMA ReaderStages == StageInv /\ ReaderStep => StageInv'
<1> SUFFICES ASSUME StageInv, ReaderStep PROVE StageInv'
  OBVIOUS
<1>1. /\ dpc' = dpc \/ (dpc = "reqWait" /\ dpc' = "dispatch")
      /\ UNCHANGED <<song, running, state, upc>>
  BY DEF ReaderStep
<1>2. StateAtStages'
  BY <1>1 DEF StageInv, StateAtStages, NoFile, ModeLocked
<1>3. quiet' = quiet /\ (fifo = <<>> => fifo' = <<>>)
  <2>1. CASE ReaderTop
    BY <2>1 DEF ReaderTop, Kept
  <2>2. CASE ReaderTakes
    BY <2>2 DEF ReaderTakes
  <2>3. CASE ~ReaderTop /\ ~ReaderTakes
    BY <2>3 DEF ReaderStep, Reader, ReaderCallback, ReaderNotify, ReaderProceed,
       ReaderReopened, ReaderReopenFails, ReaderExits, ReaderContinues, ReaderSends,
       ReaderCounts
  <2> QED
    BY <2>1, <2>2, <2>3
<1>4. cpc' = cpc \/ cpc' = Woken(cpc)
  <2>1. CASE ReaderNotify
    BY <2>1 DEF ReaderNotify
  <2>2. CASE ~ReaderNotify
    BY <2>2 DEF ReaderStep, Reader, ReaderTop, ReaderCallback, ReaderProceed,
       ReaderReopened, ReaderReopenFails, ReaderExits, ReaderContinues, ReaderTakes,
       ReaderSends, ReaderCounts
  <2> QED
    BY <2>1, <2>2
<1>5. /\ cpc = "idle" => cpc' = "idle"
      /\ cpc \in {"stopWait", "stopWoken"} => cpc' \in {"stopWait", "stopWoken"}
      /\ cpc \in {"wait", "waitWait"} => cpc' \in {"wait", "waitWait"}
  BY <1>4 DEF Woken
<1>6. QuietAtStages'
  BY <1>1, <1>3, <1>5 DEF StageInv, QuietAtStages, Silent
<1> QED
  BY <1>2, <1>6 DEF StageInv

(* A call that returns leaves a quiet buffer where one is needed.          *)
LEMMA CallStages == StageInv /\ CallStep => StageInv'
<1> SUFFICES ASSUME StageInv, CallStep PROVE StageInv'
  OBVIOUS
<1>1. UNCHANGED <<dpc, song, running, state, upc>> /\ ClientGoesOn
  BY DEF CallStep, plVars
<1>2. StateAtStages'
  BY <1>1 DEF StageInv, StateAtStages, NoFile, ModeLocked
<1>3. QuietAtStages'
  <2> USE DEF StageInv, QuietAtStages, Silent
  <2>1. CASE PutWaits \/ PutRefused \/ PutWrites
    <3>1. cpc \in {"put", "putWoken"}
      BY <2>1 DEF PutWaits, PutRefused, PutWrites, PutReady
    <3> QED
      BY <1>1, <3>1
  <2>2. CASE StopReturns
    BY <1>1, <2>2 DEF StopReturns
  <2>3. CASE WaitWaits
    BY <1>1, <2>3 DEF WaitWaits
  <2>4. CASE WaitReturns
    <3>1. cpc = "wait" /\ cpc' = "idle" /\ ((quiet \/ fifo = <<>>) => quiet')
      BY <2>4 DEF WaitReturns
    <3> QED
      BY <1>1, <3>1
  <2> QED
    BY <1>1, <2>1, <2>2, <2>3, <2>4 DEF ClientGoesOn
<1> QED
  BY <1>2, <1>3 DEF StageInv

(* The interface starts, joins, pauses and destroys only where it may.     *)
LEMMA InterfaceState ==
    PlayerTypeOK /\ StateAtStages /\ (UiCalls \/ UiGoesOn) => StateAtStages'
<1> SUFFICES ASSUME PlayerTypeOK, StateAtStages, UiCalls \/ UiGoesOn
             PROVE  StateAtStages'
  OBVIOUS
<1> USE DEF StateAtStages, NoFile, ModeLocked
<1>1. ASSUME NEW g \in {"stop", "play", "exit"}, AudioStop(g) PROVE StateAtStages'
  <2>1. UNCHANGED <<running, song, dpc>>
    BY <1>1 DEF AudioStop
  <2>2. CASE running
    <3>1. upc' = "stop" /\ state' = state
      BY <1>1, <2>2 DEF AudioStop
    <3> QED
      BY <2>1, <3>1
  <2>3. CASE ~running
    <3>1. dpc = "none" /\ upc' \in {"idle", "start", "destroy"} /\ state' = "stop"
      BY <1>1, <2>3 DEF AudioStop
    <3> QED
      BY <2>1, <3>1
  <2> QED
    BY <2>2, <2>3
<1>2. CASE AudioSkip \/ AudioSeek \/ AudioPause \/ AudioUnpause
  BY <1>2 DEF AudioSkip, AudioSeek, AudioPause, AudioUnpause
<1>3. CASE StopAsks \/ StopNotifies
  BY <1>3 DEF StopAsks, StopNotifies
<1>4. CASE StopJoins
  <2>1. upc' \in {"idle", "start", "destroy"}
    BY <1>4 DEF StopJoins, PlayerTypeOK
  <2> QED
    BY <1>4, <2>1 DEF StopJoins
<1>5. CASE AudioPlayStarts
  BY <1>5, SongAssumption DEF AudioPlayStarts
<1>6. CASE SeekAsks \/ SkipOrSeekNotifies \/ SetsState \/ ExitDestroys
  BY <1>6 DEF SeekAsks, SkipOrSeekNotifies, SetsState, ExitDestroys
<1> QED
  BY <1>1, <1>2, <1>3, <1>4, <1>5, <1>6 DEF UiCalls, UiGoesOn

(* It makes no sound.                                                      *)
LEMMA InterfaceQuiet == StageInv /\ (UiCalls \/ UiGoesOn) => QuietAtStages'
<1> SUFFICES ASSUME StageInv, UiCalls \/ UiGoesOn PROVE QuietAtStages'
  OBVIOUS
<1>1. UNCHANGED <<fifo, cpc, quiet>>
  BY DEF UiCalls, AudioStop, AudioSkip, AudioSeek, AudioPause, Pause, AudioUnpause,
     Unpause, UiGoesOn, StopAsks, StopNotifies, StopJoins, AudioPlayStarts, SeekAsks,
     SkipOrSeekNotifies, SetsState, ExitDestroys, Destroy, obVars
<1>2. \/ dpc' = dpc
      \/ dpc = "reqWait" /\ dpc' = "dispatch"
      \/ dpc \in {"none", "dead"} /\ dpc' \in Silent
  BY DEF UiCalls, AudioStop, AudioSkip, AudioSeek, AudioPause, AudioUnpause,
     UiGoesOn, StopAsks, StopNotifies, StopJoins, AudioPlayStarts, SeekAsks,
     SkipOrSeekNotifies, SetsState, ExitDestroys, StageInv, StateAtStages, Silent
<1> QED
  BY <1>1, <1>2 DEF StageInv, QuietAtStages, Silent

(* They hold in every reachable state. *)
LEMMA StagesAlways == PlayerSafetySpec => []StageInv
<1>1. PlayerInit => StageInv
  BY DEF PlayerInit, Init, StageInv, QuietAtStages, StateAtStages, Silent, NoFile,
     ModeLocked
<1>2. PlayerTypeOK /\ StageInv /\ [PlayerNext]_vars => StageInv'
  <2> SUFFICES ASSUME PlayerTypeOK, StageInv, [PlayerNext]_vars PROVE StageInv'
    OBVIOUS
  <2>1. CASE PrecacheThread \/ PlayerFinished \/ UNCHANGED vars
    <3>1. UNCHANGED <<fifo, cpc, quiet, dpc, song, running, state, upc>>
      BY <2>1 DEF PrecacheThread, PlayerFinished, vars, plVars, obVars
    <3>2. QuietAtStages'
      BY <3>1 DEF StageInv, QuietAtStages, Silent
    <3>3. StateAtStages'
      BY <3>1 DEF StageInv, StateAtStages, NoFile, ModeLocked
    <3> QED
      BY <3>2, <3>3 DEF StageInv
  <2>2. CASE PlayingThread
    BY <2>2, ThreadState, ThreadQuiet DEF StageInv
  <2>3. CASE UiCalls \/ UiGoesOn
    BY <2>3, InterfaceState, InterfaceQuiet DEF StageInv
  <2> QED
    BY <2>1, <2>2, <2>3, ReaderStages, CallStages DEF PlayerNext
<1> QED
  BY <1>1, <1>2, PlayerTypes, PTL DEF PlayerSafetySpec

(* The player resets the buffer, sets its time and destroys it only while  *)
(* it is quiet, as OutBuf asks of its client.                              *)
THEOREM CallsAllowed == PlayerSafetySpec => []CallsAreAllowed
<1>1. StageInv => CallsAreAllowed
  BY DEF StageInv, QuietAtStages, StateAtStages, Silent, CallsAreAllowed
<1> QED
  BY <1>1, StagesAlways, PTL

(* Once audio_stop() has returned, or the playing thread has come to its   *)
(* end, no file is current, the state shown is STOP and the device gets no *)
(* more sound.                                                             *)
THEOREM StopsForGood == PlayerSafetySpec => []StoppedIsStopped
<1>1. BufferInv /\ StageInv => StoppedIsStopped
  BY DEF BufferInv, QuietInv, StageInv, QuietAtStages, StateAtStages, Silent, NoFile,
     StoppedIsStopped
<1> QED
  BY <1>1, StagesAlways, BufferAlways, PTL

-----------------------------------------------------------------------------
(* The format of what is queued, for a device that can pause: nobody       *)
(* closes it under the playing thread.                                     *)

(* From the first data of a file to its end. *)
Playing == {"pcPut", "started", "loop", "decode", "reqWait", "dispatch", "put",
            "clearStop", "seekStop", "seekReset", "seekTime", "clearSeek"}

(* What is decoded before the device was opened for it waits for a change  *)
(* of the parameters.                                                      *)
FormatInv ==
    /\ ~devClosed
    /\ dpc \in {"pcPut", "chOpening"} => known
    /\ dpc \in Playing /\ known => conv = NeedConv
    /\ dpc \in Playing /\ decoded # 0 => known \/ change \/ dpc \in {"pcPut", "started"}

(* The device stays open for the reader, and conv with it. *)
LEMMA ReaderFormat == CanHwPause /\ FormatInv /\ ReaderStep => FormatInv'
<1> SUFFICES ASSUME CanHwPause, FormatInv, ReaderStep PROVE FormatInv'
  OBVIOUS
<1>1. ~devClosed /\ Reader
  BY DEF FormatInv, ReaderStep
<1>2. ~devClosed'
  <2>1. CASE ReaderNotify
    BY <1>1, <2>1 DEF ReaderNotify
  <2>2. CASE ReaderReopened
    BY <2>2 DEF ReaderReopened
  <2> QED
    BY <1>1, <2>1, <2>2 DEF Reader, ReaderTop, ReaderCallback, ReaderProceed,
       ReaderReopenFails, ReaderExits, ReaderContinues, ReaderTakes, ReaderSends,
       ReaderCounts
<1>3. conv' = conv /\ UNCHANGED <<known, decoded, change>>
  BY <1>1, <1>2 DEF ReaderStep
<1>4. dpc' = dpc \/ (dpc = "reqWait" /\ dpc' = "dispatch")
  BY DEF ReaderStep
<1> QED
  BY <1>2, <1>3, <1>4 DEF FormatInv, Playing

(* Only the playing thread opens and closes it. *)
LEMMA ThreadFormat ==
    PlayerTypeOK /\ FormatInv /\ PlayingThread => FormatInv'
<1> SUFFICES ASSUME PlayerTypeOK, FormatInv, PlayingThread PROVE FormatInv'
  OBVIOUS
<1>1. devClosed' = devClosed
  BY DEF PlayingThread, Pick, TimeSet, PlayFileResets, Reset, PlayFileJoinsPrecache,
     PrecachedOpens, PrecachedOpenFails, PrecachedPuts, PutCall, FileOpens, FileOpenFails,
     Started, SetFreeCallback, LoopDecodes, LoopWaits, LoopGoesOn, Decode, DecodeEnds,
     DispatchStop, StopCall, DispatchSeek, DispatchSeekFails, DispatchPut,
     DispatchChange, DispatchEnd, WaitCall, DispatchNothing, ClearStop, SeekStops,
     SeekResets, SeekSetsTime, ClearSeek, PutDone, ChangeOpens, ChangeOpenFails,
     StopCloses, Closes, DropsPrecache, Ended, GoesToAnotherFile, Finishes, ClosesDevice,
     obVars
<1> USE <1>1 DEF FormatInv, Playing
<1>2. CASE Pick \/ PlayFileResets \/ PlayFileJoinsPrecache
  BY <1>2 DEF Pick, PlayFileResets, PlayFileJoinsPrecache
<1>3. CASE PrecachedOpens \/ PrecachedOpenFails \/ PrecachedPuts
  BY <1>3 DEF PrecachedOpens, PrecachedOpenFails, PrecachedPuts
<1>4. CASE FileOpens \/ FileOpenFails \/ Started
  BY <1>4 DEF FileOpens, FileOpenFails, Started
<1>5. CASE LoopDecodes \/ LoopWaits \/ LoopGoesOn \/ DecodeEnds
  BY <1>5 DEF LoopDecodes, LoopWaits, LoopGoesOn, DecodeEnds
<1>6. CASE Decode
  <2>1. change' = FALSE => known
    BY <1>6, OptionAssumption DEF Decode, Changes, PlayerTypeOK
  <2> QED
    BY <1>6, <2>1, OptionAssumption DEF Decode, Changes, PlayerTypeOK
<1>7. CASE \/ DispatchStop \/ DispatchSeek \/ DispatchSeekFails \/ DispatchPut
           \/ DispatchChange \/ DispatchEnd \/ DispatchNothing
  BY <1>7 DEF DispatchStop, DispatchSeek, DispatchSeekFails, DispatchPut,
     DispatchChange, DispatchEnd, DispatchNothing
<1>8. CASE ClearStop \/ SeekStops \/ SeekResets \/ SeekSetsTime \/ ClearSeek \/ PutDone
  BY <1>8 DEF ClearStop, SeekStops, SeekResets, SeekSetsTime, ClearSeek, PutDone
<1>9. CASE ChangeOpens \/ ChangeOpenFails \/ StopCloses \/ Closes \/ DropsPrecache
  BY <1>9 DEF ChangeOpens, ChangeOpenFails, StopCloses, Closes, DropsPrecache
<1>10. CASE Ended \/ GoesToAnotherFile \/ Finishes \/ ClosesDevice
  BY <1>10 DEF Ended, GoesToAnotherFile, Finishes, ClosesDevice
<1> QED
  BY <1>2, <1>3, <1>4, <1>5, <1>6, <1>7, <1>8, <1>9, <1>10 DEF PlayingThread

(* The interface and the calls under way leave it alone. *)
LEMMA RestFormat ==
    ASSUME FormatInv,
           CallStep \/ PrecacheThread \/ UiCalls \/ UiGoesOn \/ PlayerFinished
             \/ UNCHANGED vars
    PROVE  FormatInv'
<1> USE DEF FormatInv, Playing
<1>1. CASE CallStep
  BY <1>1 DEF CallStep, ClientGoesOn, PutWaits, PutRefused, PutWrites, TellReader,
     StopReturns, WaitWaits, WaitReturns, plVars
<1>2. CASE PrecacheThread \/ PlayerFinished \/ UNCHANGED vars
  BY <1>2 DEF PrecacheThread, PlayerFinished, vars, plVars, obVars
<1>3. CASE UiCalls
  BY <1>3 DEF UiCalls, AudioStop, AudioSkip, AudioSeek, AudioPause, Pause, AudioUnpause,
     Unpause, obVars
<1>4. CASE UiGoesOn
  BY <1>4 DEF UiGoesOn, StopAsks, StopNotifies, StopJoins, AudioPlayStarts, SeekAsks,
     SkipOrSeekNotifies, SetsState, ExitDestroys, Destroy, obVars
<1> QED
  BY <1>1, <1>2, <1>3, <1>4

(* It holds in every reachable state. *)
LEMMA FormatAlways == CanHwPause => (PlayerSafetySpec => []FormatInv)
<1> SUFFICES ASSUME CanHwPause PROVE PlayerSafetySpec => []FormatInv
  OBVIOUS
<1>1. PlayerInit => FormatInv
  BY DEF PlayerInit, Init, FormatInv, Playing
<1>2. PlayerTypeOK /\ FormatInv /\ [PlayerNext]_vars => FormatInv'
  BY ReaderFormat, ThreadFormat, RestFormat DEF PlayerNext
<1> QED
  BY <1>1, <1>2, PlayerTypes, PTL DEF PlayerSafetySpec

(* What is queued, in the hands of the reader or to be put is sound in the *)
(* format of the device.                                                   *)
PcmInv == fifo \in Seq({"pcm"}) /\ chunk \in Seq({"pcm"}) /\ cdata \in Seq({"pcm"})

(* A put() brings such sound. *)
LEMMA PutsPcm ==
    ASSUME PlayerTypeOK, FormatInv, PrecachedPuts \/ DispatchPut
    PROVE  cdata' \in Seq({"pcm"}) /\ UNCHANGED <<fifo, chunk>>
<1>1. CASE PrecachedPuts
  <2>1. conv = NeedConv
    BY <1>1 DEF PrecachedPuts, FormatInv, Playing
  <2>2. Data(PrecacheLen) \in Seq({"pcm"})
    BY <2>1, LenAssumption DEF Data
  <2> QED
    BY <1>1, <2>2 DEF PrecachedPuts, PutCall
<1>2. CASE DispatchPut
  <2>1. cdata' = Data(decoded) /\ UNCHANGED <<fifo, chunk>>
    BY <1>2 DEF DispatchPut, PutCall
  <2>2. CASE decoded = 0
    <3>1. Data(decoded) \in Seq({"pcm"})
      BY <2>2, LenAssumption DEF Data
    <3> QED
      BY <2>1, <3>1
  <2>3. CASE decoded # 0
    <3>1. conv = NeedConv
      BY <1>2, <2>3 DEF DispatchPut, FormatInv, Playing
    <3>2. Data(decoded) \in Seq({"pcm"})
      BY <3>1, LenAssumption DEF Data, PlayerTypeOK
    <3> QED
      BY <2>1, <3>2
  <2> QED
    BY <2>2, <2>3
<1> QED
  BY <1>1, <1>2

(* Nothing else brings sound into the buffer, or changes it. *)
LEMMA KeepsPcm ==
    ASSUME TypeOK, PcmInv, Reader \/ OtherCall \/ ClientGoesOn \/ UNCHANGED obVars
    PROVE  PcmInv'
<1> USE DEF PcmInv
<1>1. CASE ReaderTop
  <2>1. fifo' \in Seq({"pcm"})
    BY <1>1, EmptyType DEF ReaderTop, Kept
  <2> QED
    BY <1>1, <2>1 DEF ReaderTop
<1>2. CASE ReaderTakes
  <2>1. TakeLen \in 0..Len(fifo)
    BY SizeAssumption DEF TakeLen
  <2> QED
    BY <1>2, <2>1, PrefixType, SuffixType DEF ReaderTakes
<1>3. CASE ReaderCounts
  <2>1. chunk' \in Seq({"pcm"})
    BY <1>3, EmptyType DEF ReaderCounts
  <2> QED
    BY <1>3, <2>1 DEF ReaderCounts
<1>4. CASE Reader /\ ~ReaderTop /\ ~ReaderTakes /\ ~ReaderCounts
  BY <1>4 DEF Reader, ReaderCallback, ReaderNotify, ReaderProceed, ReaderReopened,
     ReaderReopenFails, ReaderExits, ReaderContinues, ReaderSends
<1>5. CASE Reset
  <2>1. fifo' \in Seq({"pcm"})
    BY <1>5, EmptyType DEF Reset
  <2> QED
    BY <1>5, <2>1 DEF Reset
<1>6. CASE OtherCall /\ ~Reset
  BY <1>6 DEF OtherCall, StopCall, WaitCall, TimeSet, SetFreeCallback, Destroy, Pause,
     Unpause
<1>7. CASE PutWrites
  <2>1. Written \in 0..Len(cdata)
    BY SizeAssumption DEF Written, TypeOK
  <2>2. /\ fifo' = fifo \o SubSeq(cdata, 1, Written)
        /\ cdata' = SubSeq(cdata, Written + 1, Len(cdata))
        /\ chunk' = chunk
    BY <1>7 DEF PutWrites, Written
  <2>3. fifo' \in Seq({"pcm"})
    BY <2>1, <2>2, PrefixType, ConcatType
  <2>4. cdata' \in Seq({"pcm"})
    BY <2>1, <2>2, SuffixType
  <2> QED
    BY <2>2, <2>3, <2>4
<1>8. CASE PutRefused
  <2>1. cdata' \in Seq({"pcm"})
    BY <1>8, EmptyType DEF PutRefused
  <2> QED
    BY <1>8, <2>1 DEF PutRefused
<1>9. CASE ClientGoesOn /\ ~PutWrites /\ ~PutRefused
  BY <1>9 DEF ClientGoesOn, PutWaits, StopReturns, WaitWaits, WaitReturns
<1>10. CASE UNCHANGED obVars
  BY <1>10 DEF obVars
<1> QED
  BY <1>1, <1>2, <1>3, <1>4, <1>5, <1>6, <1>7, <1>8, <1>9, <1>10

(* Only sound in the format of the device enters the buffer, provided that *)
(* the device can pause: otherwise the reader closes it on a pause, which  *)
(* switches the conversion off under the playing thread.                   *)
THEOREM NothingRaw == CanHwPause => (PlayerSafetySpec => []NothingRawQueued)
<1> SUFFICES ASSUME CanHwPause PROVE PlayerSafetySpec => []NothingRawQueued
  OBVIOUS
<1>1. PlayerInit => PcmInv
  BY EmptyType DEF PlayerInit, Init, PcmInv
<1>2. PlayerTypeOK /\ BufferInv /\ FormatInv /\ PcmInv /\ [PlayerNext]_vars => PcmInv'
  <2> SUFFICES ASSUME PlayerTypeOK, BufferInv, FormatInv, PcmInv, [PlayerNext]_vars
               PROVE  PcmInv'
    OBVIOUS
  <2>1. CASE PrecachedPuts \/ DispatchPut
    BY <2>1, PutsPcm DEF PcmInv
  <2>2. CASE Reader \/ OtherCall \/ ClientGoesOn \/ UNCHANGED obVars
    BY <2>2, KeepsPcm DEF BufferInv
  <2> QED
    BY <2>1, <2>2, UsesBuffer
<1>3. PcmInv => NothingRawQueued
  <2>1. ASSUME NEW s \in Seq({"pcm"}), NEW i \in 1..Len(s) PROVE s[i] = "pcm"
    BY <2>1, ElementType
  <2> QED
    BY <2>1 DEF PcmInv, NothingRawQueued
<1>4. PlayerSafetySpec => []FormatInv
  BY FormatAlways
<1> QED
  BY <1>1, <1>2, <1>3, <1>4, PlayerTypes, BufferAlways, PTL DEF PlayerSafetySpec

-----------------------------------------------------------------------------
(* The time shown agrees with the position of the decoder, for a device    *)
(* that can pause.                                                         *)

(* What has been put since the last time_set(), on top of its value.       *)
Put == time + Len(chunk) + Len(fifo) + Len(cdata)

(* Where the decoder is, less what is still in the decode buffer.          *)
Decoded == (dpos - decoded) * UnitsPerPiece

(* Places where the two agree, *)
Counting == Decoding \/ dpc \in {"started", "clearSeek", "chOpening"}

(* where nothing has been put yet, *)
Empty == dpc \in {"pcWait", "open", "pcOpening", "pcPut", "seekTime"}

(* and where the decode buffer is empty.                                   *)
Fresh == dpc \in {"none", "next", "finish", "closeDevice", "dead", "pick", "reset",
                  "pcWait", "open", "pcOpening", "pcPut", "started", "decode"}

ClockInv ==
    /\ Counting => Put = Decoded /\ decoded <= dpos
    /\ Counting \/ Empty => ~isStopped
    /\ Empty => fifo = <<>>
    /\ dpc \in {"reset", "pcWait", "open", "pcOpening", "pcPut"} => time = 0
    /\ Fresh => decoded = 0

USE DEF Counting, Decoding, Empty, Fresh

(* A quiet buffer has put everything it holds.                             *)
LEMMA QuietPut ==
    ASSUME BufferInv, quiet, cpc = "idle"
    PROVE  chunk = <<>> /\ cdata = <<>> /\ Len(chunk) = 0 /\ Len(cdata) = 0 /\ ~Sending
<1>1. ~Sending /\ chunk = <<>> /\ cdata = <<>>
  BY DEF BufferInv, QuietInv, TimeInv, OfferInv
<1> QED
  BY <1>1, EmptyType

(* Pieces of sound become that many units.                                 *)
LEMMA DataLength ==
    ASSUME NEW n \in Nat, PlayerTypeOK, conv = NeedConv
    PROVE  Len(Data(n)) = n * UnitsPerPiece
<1> DEFINE len == IF conv THEN n * PutLen ELSE n
<1>1. len \in Nat /\ len = n * UnitsPerPiece
  BY LenAssumption DEF UnitsPerPiece
<1>2. Data(n) = [i \in 1..len |-> IF conv = NeedConv THEN "pcm" ELSE "raw"]
  BY DEF Data
<1> HIDE DEF len
<1> QED
  BY <1>1, <1>2

(* A piece more is UnitsPerPiece units more.                               *)
LEMMA OneMore ==
    ASSUME NEW a \in Nat
    PROVE  (a + 1) * UnitsPerPiece = a * UnitsPerPiece + UnitsPerPiece
<1>1. UnitsPerPiece \in Nat
  BY LenAssumption DEF UnitsPerPiece
<1> HIDE DEF UnitsPerPiece
<1> QED
  BY <1>1

(* With what is in the decode buffer, it is where the decoder is.          *)
LEMMA WithTheRest ==
    ASSUME PlayerTypeOK, decoded <= dpos
    PROVE  Decoded + decoded * UnitsPerPiece = dpos * UnitsPerPiece
<1>1. UnitsPerPiece \in Nat
  BY LenAssumption DEF UnitsPerPiece
<1>2. dpos \in Nat /\ decoded \in {0, 1}
  BY LenAssumption DEF PlayerTypeOK
<1>3. CASE decoded = 0
  BY <1>1, <1>2, <1>3 DEF Decoded
<1>4. CASE decoded = 1
  <2>1. dpos - 1 \in Nat /\ (dpos - 1) + 1 = dpos
    BY <1>2, <1>4
  <2>2. dpos * UnitsPerPiece = (dpos - 1) * UnitsPerPiece + UnitsPerPiece
    BY <2>1, OneMore
  <2>3. decoded * UnitsPerPiece = UnitsPerPiece
    BY <1>1, <1>4
  <2> QED
    BY <1>4, <2>2, <2>3 DEF Decoded
<1> QED
  BY <1>2, <1>3, <1>4

(* The reader moves sound along and drops none of a buffer not stopped.    *)
LEMMA ReaderPut ==
    ASSUME TypeOK, TimeInv, Reader, ~isStopped
    PROVE  Put' = Put
<1> USE DEF Put
<1>1. CASE ReaderTop
  BY <1>1 DEF ReaderTop, Kept
<1>2. CASE ReaderTakes
  <2>1. TakeLen \in 0..Len(fifo)
    BY SizeAssumption DEF TakeLen, TypeOK
  <2>2. Len(chunk') = TakeLen /\ Len(fifo') = Len(fifo) - TakeLen
    BY <1>2, <2>1, PrefixType, SuffixType DEF ReaderTakes, TypeOK
  <2>3. Len(chunk) = 0
    BY <1>2, EmptyType DEF ReaderTakes, TimeInv, Sending
  <2>4. time' = time /\ Len(cdata') = Len(cdata)
    BY <1>2 DEF ReaderTakes
  <2> QED
    BY <2>1, <2>2, <2>3, <2>4 DEF TypeOK
<1>3. CASE ReaderCounts
  <2>1. time' = time + Len(chunk) /\ Len(chunk') = 0 /\ UNCHANGED <<fifo, cdata>>
    BY <1>3, EmptyType DEF ReaderCounts, Counted
  <2> QED
    BY <2>1 DEF TypeOK
<1>4. CASE Reader /\ ~ReaderTop /\ ~ReaderTakes /\ ~ReaderCounts
  BY <1>4 DEF Reader, ReaderCallback, ReaderNotify, ReaderProceed, ReaderReopened,
     ReaderReopenFails, ReaderExits, ReaderContinues, ReaderSends
<1> QED
  BY <1>1, <1>2, <1>3, <1>4

(* Beyond that it leaves a quiet buffer as it is. *)
LEMMA ReaderClock == BufferInv /\ StageInv /\ ClockInv /\ ReaderStep => ClockInv'
<1> SUFFICES ASSUME BufferInv, StageInv, ClockInv, ReaderStep PROVE ClockInv'
  OBVIOUS
<1>1. /\ dpc' = dpc \/ (dpc = "reqWait" /\ dpc' = "dispatch")
      /\ UNCHANGED <<dpos, decoded>>
      /\ Reader
  BY DEF ReaderStep
<1>2. isStopped' = isStopped
  BY <1>1 DEF Reader, ReaderTop, ReaderCallback, ReaderNotify, ReaderProceed,
     ReaderReopened, ReaderReopenFails, ReaderExits, ReaderContinues, ReaderTakes,
     ReaderSends, ReaderCounts
<1>3. Counting => Put' = Put
  BY <1>1, ReaderPut DEF ClockInv, BufferInv
<1>4. ASSUME ~Sending, ~isStopped, fifo = <<>> PROVE fifo' = <<>> /\ time' = time
  BY <1>1, <1>4 DEF Sending, Reader, ReaderTop, Kept, ReaderCallback, ReaderNotify,
     ReaderProceed, ReaderReopened, ReaderReopenFails, ReaderExits, ReaderContinues,
     ReaderTakes, ReaderSends, ReaderCounts
<1>5. ASSUME ~Sending PROVE time' = time
  BY <1>1, <1>5 DEF Sending, Reader, ReaderTop, Kept, ReaderCallback, ReaderNotify,
     ReaderProceed, ReaderReopened, ReaderReopenFails, ReaderExits, ReaderContinues,
     ReaderTakes, ReaderSends, ReaderCounts
<1>6. Empty \/ dpc = "reset" => ~Sending
  BY QuietPut DEF StageInv, QuietAtStages, Silent
<1>7. Decoded' = Decoded
  BY <1>1 DEF Decoded, UnitsPerPiece
<1> QED
  BY <1>1, <1>2, <1>3, <1>4, <1>5, <1>6, <1>7 DEF ClockInv

(* So do the calls under way: put() is refused only by a stopped buffer.   *)
LEMMA CallClock == BufferInv /\ StageInv /\ ClockInv /\ CallStep => ClockInv'
<1> SUFFICES ASSUME BufferInv, StageInv, ClockInv, CallStep PROVE ClockInv'
  OBVIOUS
<1>1. UNCHANGED <<dpc, dpos, decoded>> /\ ClientGoesOn
  BY DEF CallStep, plVars
<1>2. cpc # "idle"
  BY <1>1 DEF ClientGoesOn, PutWaits, PutRefused, PutWrites, PutReady, StopReturns,
     WaitWaits, WaitReturns
<1>3. dpc \notin Silent
  BY <1>2 DEF StageInv, QuietAtStages
<1>4. ~Empty /\ dpc # "reset" /\ UNCHANGED <<isStopped, time>>
  BY <1>1, <1>3 DEF Silent, ClientGoesOn, PutWaits, PutRefused, PutWrites, Written,
     TellReader, StopReturns, WaitWaits, WaitReturns
<1>5. Counting => Put' = Put
  <2>1. CASE PutWrites
    <3>1. Written \in 0..Len(cdata)
      BY SizeAssumption DEF Written, BufferInv, TypeOK
    <3>2. /\ fifo' = fifo \o SubSeq(cdata, 1, Written)
          /\ cdata' = SubSeq(cdata, Written + 1, Len(cdata))
          /\ UNCHANGED <<chunk, time>>
      BY <2>1 DEF PutWrites, Written
    <3>3. Len(fifo') = Len(fifo) + Written /\ Len(cdata') = Len(cdata) - Written
      BY <3>1, <3>2, PrefixType, SuffixType, ConcatType DEF BufferInv, TypeOK
    <3> QED
      BY <3>1, <3>2, <3>3 DEF Put, BufferInv, TypeOK
  <2>2. CASE PutRefused
    BY <2>2 DEF PutRefused, ClockInv
  <2>3. CASE ClientGoesOn /\ ~PutWrites /\ ~PutRefused
    BY <2>3 DEF ClientGoesOn, PutWaits, StopReturns, WaitWaits, WaitReturns, Put
  <2> QED
    BY <1>1, <2>1, <2>2, <2>3
<1>6. Decoded' = Decoded
  BY <1>1 DEF Decoded, UnitsPerPiece
<1> QED
  BY <1>1, <1>4, <1>5, <1>6 DEF ClockInv

(* Steps of the playing thread that move neither sound nor the decoder. *)
LEMMA StillClock ==
    ASSUME PlayerTypeOK, ClockInv,
           \/ PlayFileJoinsPrecache \/ PrecachedOpens \/ PrecachedOpenFails \/ FileOpenFails
           \/ LoopDecodes \/ LoopWaits \/ LoopGoesOn \/ DecodeEnds
           \/ DispatchSeekFails \/ DispatchNothing \/ DispatchChange
           \/ ClearStop \/ ClearSeek \/ PutDone \/ ChangeOpens
           \/ Closes \/ DropsPrecache \/ GoesToAnotherFile \/ Finishes \/ ClosesDevice
    PROVE  ClockInv'
<1>1. UNCHANGED <<fifo, isStopped, time, chunk, cdata, dpos, decoded>>
  BY DEF PlayFileJoinsPrecache, PrecachedOpens, PrecachedOpenFails, FileOpenFails,
     LoopDecodes, LoopWaits, LoopGoesOn, DecodeEnds, DispatchSeekFails, DispatchNothing,
     DispatchChange, WaitCall, ClearStop, ClearSeek, PutDone, ChangeOpens, Closes,
     DropsPrecache, GoesToAnotherFile, Finishes, ClosesDevice, obVars
<1>2. Put' = Put /\ Decoded' = Decoded
  BY <1>1 DEF Put, Decoded, UnitsPerPiece
<1> USE DEF ClockInv
<1>3. CASE PlayFileJoinsPrecache \/ PrecachedOpens \/ PrecachedOpenFails \/ FileOpenFails
  BY <1>1, <1>2, <1>3 DEF PlayFileJoinsPrecache, PrecachedOpens, PrecachedOpenFails,
     FileOpenFails
<1>4. CASE LoopDecodes \/ LoopWaits \/ LoopGoesOn \/ DecodeEnds
  BY <1>1, <1>2, <1>4 DEF LoopDecodes, LoopWaits, LoopGoesOn, DecodeEnds
<1>5. CASE DispatchSeekFails \/ DispatchNothing \/ DispatchChange
  BY <1>1, <1>2, <1>5 DEF DispatchSeekFails, DispatchNothing, DispatchChange
<1>6. CASE ClearStop \/ ClearSeek \/ PutDone \/ ChangeOpens
  BY <1>1, <1>2, <1>6 DEF ClearStop, ClearSeek, PutDone, ChangeOpens
<1>7. CASE Closes \/ DropsPrecache \/ GoesToAnotherFile \/ Finishes \/ ClosesDevice
  BY <1>1, <1>2, <1>7 DEF Closes, DropsPrecache, GoesToAnotherFile, Finishes,
     ClosesDevice
<1> QED
  BY <1>3, <1>4, <1>5, <1>6, <1>7

(* Steps that lead where the time and the decoder need not agree. *)
LEMMA LeavingClock ==
    ASSUME ClockInv,
           DispatchStop \/ DispatchSeek \/ DispatchEnd \/ SeekStops \/ StopCloses
             \/ ChangeOpenFails \/ Ended
    PROVE  ClockInv'
<1>1. \/ dpc' \in {"clearStop", "seekStop", "closing", "seekReset", "drop"}
      \/ dpc' = "next" /\ decoded' = 0
  BY DEF DispatchStop, DispatchSeek, DispatchEnd, SeekStops, StopCloses, ChangeOpenFails,
     Ended
<1> QED
  BY <1>1 DEF ClockInv

(* Steps of the playing thread that count from the start of a file. *)
LEMMA StartingClock ==
    ASSUME PlayerTypeOK, BufferInv, FormatInv, StageInv, ClockInv,
           Pick \/ PlayFileResets \/ FileOpens \/ PrecachedPuts \/ Started
    PROVE  ClockInv'
<1> USE DEF ClockInv
<1>1. UnitsPerPiece \in Nat /\ UnitsPerPiece' = UnitsPerPiece
  BY LenAssumption DEF UnitsPerPiece
<1>2. CASE Pick
  BY <1>2 DEF Pick, TimeSet
<1>3. CASE PlayFileResets
  BY <1>3 DEF PlayFileResets, Reset
<1>4. ASSUME dpc \in {"open", "pcPut"}
      PROVE  time = 0 /\ fifo = <<>> /\ Len(fifo) = 0 /\ Len(chunk) = 0 /\ cdata = <<>>
             /\ Len(cdata) = 0 /\ ~isStopped /\ decoded = 0
  <2>1. quiet /\ cpc = "idle"
    BY <1>4 DEF StageInv, QuietAtStages, Silent
  <2> QED
    BY <1>4, <2>1, QuietPut, EmptyType
<1>5. CASE FileOpens
  <2>1. Put' = 0
    BY <1>4, <1>5 DEF FileOpens, Put, obVars
  <2>2. dpos' = 0 /\ decoded' = 0 /\ isStopped' = isStopped /\ dpc' = "started"
    BY <1>4, <1>5 DEF FileOpens, obVars
  <2>3. Decoded' = 0
    BY <1>1, <2>2 DEF Decoded
  <2> QED
    BY <1>4, <1>5, <2>1, <2>2, <2>3 DEF FileOpens
<1>6. CASE PrecachedPuts
  <2>1. PutCall(Data(PrecacheLen)) /\ dpos' = PrecacheLen /\ decoded' = decoded
        /\ dpc' = "started"
    BY <1>6 DEF PrecachedPuts
  <2>2. conv = NeedConv
    BY <1>6 DEF PrecachedPuts, FormatInv, Playing
  <2>3. Len(cdata') = PrecacheLen * UnitsPerPiece /\ PrecacheLen \in Nat
    BY <2>1, <2>2, DataLength, LenAssumption DEF PutCall
  <2>4. UNCHANGED <<fifo, chunk, time, isStopped>>
    BY <2>1 DEF PutCall
  <2>5. Put' = Len(cdata')
    <3>1. PrecacheLen * UnitsPerPiece \in Nat
      BY <1>1, <2>3
    <3> QED
      BY <1>4, <1>6, <2>3, <2>4, <3>1 DEF PrecachedPuts, Put
  <2>6. Decoded' = PrecacheLen * UnitsPerPiece
    <3>1. dpos' - decoded' = PrecacheLen
      BY <1>4, <1>6, <2>1, <2>3 DEF PrecachedPuts
    <3> QED
      BY <1>1, <3>1 DEF Decoded
  <2> QED
    BY <1>4, <1>6, <2>1, <2>3, <2>4, <2>5, <2>6 DEF PrecachedPuts
<1>7. CASE Started
  <2>1. decoded' = decoded /\ dpos' = dpos /\ dpc' = "loop"
    BY <1>7 DEF Started
  <2>2. UNCHANGED <<fifo, isStopped, time, chunk, cdata>>
    BY <1>7 DEF Started, SetFreeCallback
  <2>3. Put' = Put /\ Decoded' = Decoded
    BY <1>1, <2>1, <2>2 DEF Put, Decoded
  <2> QED
    BY <1>7, <2>1, <2>2, <2>3 DEF Started
<1> QED
  BY <1>2, <1>3, <1>5, <1>6, <1>7

(* Steps that decode a piece, put one, or count anew after a seek. *)
LEMMA MovingClock ==
    ASSUME PlayerTypeOK, BufferInv, FormatInv, StageInv, ClockInv,
           Decode \/ DispatchPut \/ SeekResets \/ SeekSetsTime
    PROVE  ClockInv'
<1> USE DEF ClockInv
<1>1. UnitsPerPiece \in Nat /\ UnitsPerPiece' = UnitsPerPiece
  BY LenAssumption DEF UnitsPerPiece
<1>2. CASE Decode
  <2>1. dpos' = dpos + 1 /\ decoded' = 1 /\ decoded = 0 /\ dpos \in Nat /\ dpc' = "dispatch"
    BY <1>2, LenAssumption DEF Decode, PlayerTypeOK
  <2>2. UNCHANGED <<fifo, isStopped, time, chunk, cdata>>
    BY <1>2 DEF Decode, obVars
  <2>3. dpos' - decoded' = dpos - decoded
    BY <2>1
  <2>4. Put' = Put /\ Decoded' = Decoded
    BY <1>1, <2>2, <2>3 DEF Put, Decoded
  <2> QED
    BY <1>2, <2>1, <2>2, <2>4 DEF Decode
<1>3. CASE DispatchPut
  <2>1. PutCall(Data(decoded)) /\ decoded' = 0 /\ dpos' = dpos /\ dpc' = "put"
        /\ dpc = "dispatch"
    BY <1>3 DEF DispatchPut
  <2>2. cdata = <<>> /\ UNCHANGED <<fifo, isStopped, time, chunk>>
    BY <2>1 DEF PutCall, BufferInv, OfferInv
  <2>3. Len(cdata') = decoded * UnitsPerPiece
    <3>1. CASE decoded = 0
      <4>1. Data(0) = <<>>
        BY LenAssumption DEF Data
      <4> QED
        BY <1>1, <2>1, <3>1, <4>1, EmptyType DEF PutCall
    <3>2. CASE decoded = 1
      <4>1. conv = NeedConv
        BY <1>3, <3>2 DEF DispatchPut, FormatInv, Playing
      <4> QED
        BY <2>1, <3>2, <4>1, DataLength DEF PutCall
    <3> QED
      BY <3>1, <3>2 DEF PlayerTypeOK
  <2>4. dpos \in Nat /\ decoded \in {0, 1} /\ decoded <= dpos
    BY <2>1, LenAssumption DEF PlayerTypeOK
  <2>5. Decoded' = Decoded + decoded * UnitsPerPiece
    <3>1. Decoded' = dpos * UnitsPerPiece
      BY <1>1, <2>1, <2>4 DEF Decoded
    <3> QED
      BY <2>4, <3>1, WithTheRest
  <2>6. Put' = Put + decoded * UnitsPerPiece
    <3>1. Len(cdata) = 0 /\ decoded * UnitsPerPiece \in Nat
      BY <1>1, <2>2, <2>4, EmptyType
    <3>2. time \in Nat /\ Len(fifo) \in Nat /\ Len(chunk) \in Nat
      BY DEF BufferInv, TypeOK
    <3> QED
      BY <2>2, <2>3, <3>1, <3>2 DEF Put
  <2>7. ~isStopped' /\ Put = Decoded
    BY <2>1, <2>2
  <2> QED
    BY <2>1, <2>4, <2>5, <2>6, <2>7
<1>4. CASE SeekResets
  BY <1>4 DEF SeekResets, Reset
<1>5. CASE SeekSetsTime
  <2>1. /\ time' = dpos * UnitsPerPiece /\ decoded' = 0 /\ dpos' = dpos
        /\ dpc = "seekTime" /\ dpc' = "clearSeek"
        /\ UNCHANGED <<fifo, isStopped, chunk, cdata>>
    BY <1>5 DEF SeekSetsTime, TimeSet
  <2>2. Len(fifo) = 0 /\ Len(chunk) = 0 /\ Len(cdata) = 0
    BY <2>1, QuietPut, EmptyType DEF StageInv, QuietAtStages, Silent
  <2>3. dpos \in Nat
    BY LenAssumption DEF PlayerTypeOK
  <2>4. dpos * UnitsPerPiece \in Nat
    BY <1>1, <2>3
  <2>5. Put' = dpos * UnitsPerPiece
    BY <2>1, <2>2, <2>4 DEF Put
  <2>6. Decoded' = dpos * UnitsPerPiece
    BY <1>1, <2>1, <2>3 DEF Decoded
  <2> QED
    BY <2>1, <2>3, <2>5, <2>6
<1> QED
  BY <1>2, <1>3, <1>4, <1>5

(* The interface and the precache thread move no sound. *)
LEMMA InterfaceClock ==
    ASSUME StageInv, ClockInv,
           UiCalls \/ UiGoesOn \/ PrecacheThread \/ PlayerFinished \/ UNCHANGED vars
    PROVE  ClockInv'
<1>1. UNCHANGED <<fifo, isStopped, time, chunk, cdata, dpos, decoded>>
  BY DEF UiCalls, AudioStop, AudioSkip, AudioSeek, AudioPause, Pause, AudioUnpause,
     Unpause, UiGoesOn, StopAsks, StopNotifies, StopJoins, AudioPlayStarts, SeekAsks,
     SkipOrSeekNotifies, SetsState, ExitDestroys, Destroy, PrecacheThread,
     PlayerFinished, vars, plVars, obVars
<1>2. \/ dpc' = dpc
      \/ dpc = "reqWait" /\ dpc' = "dispatch"
      \/ dpc \in {"none", "dead"} /\ dpc' \in {"none", "finish", "pick"}
  BY DEF UiCalls, AudioStop, AudioSkip, AudioSeek, AudioPause, AudioUnpause,
     UiGoesOn, StopAsks, StopNotifies, StopJoins, AudioPlayStarts, SeekAsks,
     SkipOrSeekNotifies, SetsState, ExitDestroys, PrecacheThread, PlayerFinished, vars,
     plVars, StageInv, StateAtStages
<1>3. Put' = Put /\ Decoded' = Decoded
  BY <1>1 DEF Put, Decoded, UnitsPerPiece
<1> QED
  BY <1>1, <1>2, <1>3 DEF ClockInv

(* For a device that can pause, the time shown agrees with the decoder:    *)
(* what it has produced since the last time_set() is played, in the FIFO,  *)
(* in the hands of put(), or in the decode buffer.                         *)
THEOREM TimeAgrees == CanHwPause => (PlayerSafetySpec => []TimeAgreesWithDecoder)
<1> SUFFICES ASSUME CanHwPause PROVE PlayerSafetySpec => []TimeAgreesWithDecoder
  OBVIOUS
<1>1. PlayerInit => ClockInv
  BY DEF PlayerInit, Init, ClockInv
<1>2. PlayerTypeOK /\ BufferInv /\ FormatInv /\ StageInv /\ ClockInv /\ [PlayerNext]_vars
      => ClockInv'
  BY ReaderClock, CallClock, StillClock, LeavingClock, StartingClock, MovingClock,
     InterfaceClock DEF PlayerNext, PlayingThread
<1>3. PlayerTypeOK /\ BufferInv /\ ClockInv => TimeAgreesWithDecoder
  <2> SUFFICES ASSUME PlayerTypeOK, BufferInv, ClockInv, Decoding, ~Sending
               PROVE  time + Len(fifo) + Len(cdata) + decoded * UnitsPerPiece
                      = dpos * UnitsPerPiece
    BY DEF TimeAgreesWithDecoder
  <2>1. Len(chunk) = 0
    BY EmptyType DEF BufferInv, TimeInv
  <2>2. time \in Nat /\ Len(fifo) \in Nat /\ Len(cdata) \in Nat
    BY DEF BufferInv, TypeOK
  <2>3. time + Len(fifo) + Len(cdata) = Decoded
    BY <2>1, <2>2 DEF ClockInv, Put
  <2>4. Decoded + decoded * UnitsPerPiece = dpos * UnitsPerPiece
    BY WithTheRest DEF ClockInv
  <2> QED
    BY <2>3, <2>4
<1>4. PlayerSafetySpec => []FormatInv
  BY FormatAlways
<1> QED
  BY <1>1, <1>2, <1>3, <1>4, PlayerTypes, BufferAlways, StagesAlways, PTL
     DEF PlayerSafetySpec
=============================================================================
