---------------------------- MODULE EngineProofs ----------------------------
(***************************************************************************)
(* Proofs about Engine and the tags cache in it, for any files, any limit  *)
(* of the cache, any number of calls, changes and signals.                 *)
(***************************************************************************)
EXTENDS Engine, SeqLemmas, FiniteSetTheorems

USE DEF Threads, RestPcs, AskPcs, ReadPcs, Kinds

-----------------------------------------------------------------------------
(* Type correctness. *)

(* What a thread is doing is at rest or at work. *)
LEMMA WorkType ==
    ASSUME NEW c \in Rest \cup Work, c.pc \notin RestPcs
    PROVE  /\ c \in Work
           /\ c.file \in Files /\ c.sel \in SUBSET Kinds /\ c.tags \in Tags
           /\ c.time \in 0..MaxVersion /\ c.n \in Nat
BY DEF Rest, Work

LEMMA TagsTypes ==
    /\ Unfilled \in Tags
    /\ \A f \in Files, t \in Tags : Kept(f, t) \in Tags
    /\ \A v \in 0..MaxVersion, t \in Tags, missing \in SUBSET Kinds : ReadFrom(v, t, missing) \in Tags
    /\ \A v \in Unread..MaxVersion, t \in Tags : [t EXCEPT !["time"] = v] \in Tags
BY VersionAssumption DEF Unfilled, Unread, Tags, Kept, ReadFrom

LEMMA NewCallType ==
    ASSUME NEW pc \in AskPcs \cup ReadPcs, NEW f \in Files, NEW sel \in SUBSET Kinds
    PROVE  NewCall(pc, f, sel) \in Work
BY TagsTypes, VersionAssumption DEF NewCall, Work

LEMMA RestsType == \A t \in Threads : Rests(t) \in Rest
BY DEF Rests, Rest

(* Only the thread t moves, to one of pcs. *)
Moves(t, pcs) ==
    /\ call' \in [Threads -> Rest \cup Work]
    /\ call'[t].pc \in pcs
    /\ \A u \in Threads \ {t} : call'[u] = call[u]

LEMMA StepMoves ==
    ASSUME TypeOK, NEW t \in Threads, NEW d \in Work, call' = [call EXCEPT ![t] = d]
    PROVE  Moves(t, {d.pc}) /\ call'[t] = d
BY DEF TypeOK, Moves

(* The steps of a call. *)
LEMMA FinishedMoves ==
    ASSUME TypeOK, NEW t \in Threads, call[t] \in Work, call' = [call EXCEPT ![t] = Finished(call[t])]
    PROVE  Moves(t, {"answer"})
<1> DEFINE d == Finished(call[t])
<1>1. d \in Work /\ d.pc = "answer"
  BY NewCallType DEF Work, Finished, NewCall
<1> HIDE DEF d
<1> QED
  BY <1>1, StepMoves DEF d

LEMMA LookMoves ==
    ASSUME TypeOK, NEW t \in Threads, Look(t)
    PROVE  /\ Moves(t, {"answer", "length", "read"})
           /\ call'[t].pc # "answer" =>
                /\ call'[t].file = call[t].file
                /\ \/ call'[t].tags = Unfilled
                   \/ UpToDate(call[t].file) /\ call'[t].tags = db[call[t].file].tags
<1>0. PICK given \in Gives(call[t].file) :
        LET c    == call[t]
            done == given /\ c.sel \subseteq Filled(db[c.file].tags) /\ t = "interface"
        IN  call' = [call EXCEPT ![t] =
                       IF done THEN Finished(c)
                       ELSE [c EXCEPT !.pc   = IF "time" \in c.sel THEN "length" ELSE "read",
                                      !.tags = IF given THEN db[c.file].tags ELSE Unfilled]]
  BY DEF Look
<1> DEFINE c    == call[t]
           tags == IF given THEN db[c.file].tags ELSE Unfilled
           pc   == IF "time" \in c.sel THEN "length" ELSE "read"
           d    == [c EXCEPT !.pc = pc, !.tags = tags]
<1>1. c \in Work /\ c.file \in Files
  BY WorkType DEF TypeOK, Look
<1>2. /\ tags \in Tags
      /\ tags = Unfilled \/ (UpToDate(c.file) /\ tags = db[c.file].tags)
  <2>1. given = TRUE \/ given = FALSE
    BY <1>0 DEF Gives
  <2>2. CASE given = TRUE
    <3>1. UpToDate(c.file) /\ tags = db[c.file].tags
      BY <1>0, <2>2 DEF Gives
    <3> QED
      BY <1>1, <3>1 DEF TypeOK, UpToDate, Record
  <2>3. CASE given = FALSE
    <3>1. tags = Unfilled
      BY <2>3
    <3>2. Unfilled \in Tags
      BY TagsTypes
    <3> HIDE DEF tags
    <3> QED
      BY <3>1, <3>2
  <2> QED
    BY <2>1, <2>2, <2>3
<1>3. call' = [call EXCEPT ![t] = Finished(c)] \/ call' = [call EXCEPT ![t] = d]
  BY <1>0
<1> HIDE DEF tags
<1>4. d \in Work /\ d.pc \in {"length", "read"} /\ d.file = c.file /\ d.tags = tags
  BY <1>1, <1>2 DEF Work
<1> HIDE DEF d
<1>5. CASE call' = [call EXCEPT ![t] = Finished(c)]
  BY <1>1, <1>5, FinishedMoves DEF Moves
<1>6. CASE call' = [call EXCEPT ![t] = d]
  BY <1>2, <1>4, <1>6, StepMoves DEF Moves
<1> QED
  BY <1>3, <1>5, <1>6

LEMMA ListedType ==
    ASSUME TypeOK, NEW f \in Files
    PROVE  ListedLength(f) \in Unread..MaxVersion
BY VersionAssumption DEF TypeOK, Length, ListedLength, Unread

LEMMA FindMoves ==
    ASSUME TypeOK, NEW t \in Threads, FindLength(t)
    PROVE  /\ Moves(t, {"answer", "read"})
           /\ call'[t].pc # "answer" =>
                /\ call'[t].file = call[t].file
                /\ \/ call'[t].tags = call[t].tags
                   \/ /\ ListedLength(call[t].file) # Unread
                      /\ call'[t].tags = [call[t].tags EXCEPT !["time"] = ListedLength(call[t].file)]
<1> DEFINE c == call[t]
           listed == ListedLength(c.file)
           tags == [c.tags EXCEPT !["time"] = listed]
           d == [c EXCEPT !.pc = "read"]
           e == [c EXCEPT !.pc = "read", !.sel = @ \ {"time"}, !.tags = tags]
<1>1. c \in Work /\ c.file \in Files /\ c.tags \in Tags /\ c.sel \in SUBSET Kinds
  BY WorkType DEF TypeOK, FindLength
<1>2. tags \in Tags
  BY <1>1, TagsTypes, ListedType
<1>3. \/ call' = [call EXCEPT ![t] = Finished(c)]
      \/ call' = [call EXCEPT ![t] = d]
      \/ listed # Unread /\ call' = [call EXCEPT ![t] = e]
  BY DEF FindLength
<1>4. d \in Work /\ d.pc = "read" /\ d.file = c.file /\ d.tags = c.tags
  BY <1>1 DEF Work
<1> HIDE DEF tags, listed
<1>5. e \in Work /\ e.pc = "read" /\ e.file = c.file /\ e.tags = tags
  BY <1>1, <1>2 DEF Work
<1> HIDE DEF d, e
<1>6. CASE call' = [call EXCEPT ![t] = Finished(c)]
  BY <1>1, <1>6, FinishedMoves DEF Moves
<1>7. CASE call' = [call EXCEPT ![t] = d]
  BY <1>4, <1>7, StepMoves DEF Moves
<1>8. CASE listed # Unread /\ call' = [call EXCEPT ![t] = e]
  BY <1>5, <1>8, StepMoves DEF Moves, tags, listed
<1> QED
  BY <1>3, <1>6, <1>7, <1>8

LEMMA ReadMoves ==
    ASSUME TypeOK, NEW t \in Threads, ReadTags(t)
    PROVE  /\ Moves(t, {"answer", "stamp"})
           /\ call'[t].pc # "answer" =>
                /\ call'[t].file = call[t].file
                /\ call'[t].tags = ReadFrom(version[call[t].file], call[t].tags,
                                            call[t].sel \ Filled(call[t].tags))
<1> DEFINE c    == call[t]
           tags == ReadFrom(version[c.file], c.tags, c.sel \ Filled(c.tags))
           d    == [c EXCEPT !.pc = "stamp", !.sel = {}, !.tags = tags]
<1>1. c \in Work /\ c.file \in Files /\ c.sel \in SUBSET Kinds /\ c.tags \in Tags
  BY WorkType DEF TypeOK, ReadTags
<1>2. tags \in Tags
  <2>1. version[c.file] \in 0..MaxVersion
    BY <1>1 DEF TypeOK
  <2>2. c.sel \ Filled(c.tags) \in SUBSET Kinds
    BY <1>1
  <2> QED
    BY <1>1, <2>1, <2>2, TagsTypes
<1>3. call' = [call EXCEPT ![t] = Finished(c)] \/ call' = [call EXCEPT ![t] = d]
  BY DEF ReadTags
<1> HIDE DEF tags
<1>4. d \in Work /\ d.pc = "stamp" /\ d.file = c.file /\ d.tags = tags
  BY <1>1, <1>2 DEF Work
<1> HIDE DEF d
<1>5. CASE call' = [call EXCEPT ![t] = Finished(c)]
  BY <1>1, <1>5, FinishedMoves DEF Moves
<1>6. CASE call' = [call EXCEPT ![t] = d]
  BY <1>4, <1>6, StepMoves DEF Moves, tags
<1> QED
  BY <1>3, <1>5, <1>6

LEMMA StampMoves ==
    ASSUME TypeOK, NEW t \in Threads, Stamp(t)
    PROVE  /\ Moves(t, {"gc"})
           /\ call'[t].file = call[t].file
           /\ call'[t].tags = call[t].tags
           /\ call'[t].time = version[call[t].file]
<1> DEFINE c    == call[t]
           time == version[c.file]
<1>1. c \in Work /\ c.file \in Files /\ c.tags \in Tags /\ c.n \in Nat
  BY WorkType DEF TypeOK, Stamp
<1>2. time \in 0..MaxVersion
  BY <1>1 DEF TypeOK
<1>3. call' = [call EXCEPT ![t] = [c EXCEPT !.pc = "gc", !.time = time]]
  BY DEF Stamp, TypeOK
<1> DEFINE d == [c EXCEPT !.pc = "gc", !.time = time]
<1> HIDE DEF time
<1>4. d \in Work /\ d.pc = "gc" /\ d.file = c.file /\ d.tags = c.tags /\ d.time = time
  BY <1>1, <1>2 DEF Work
<1> HIDE DEF d
<1> QED
  BY <1>3, <1>4, StepMoves DEF d, Moves, time

(* The steps that change the place only. *)
LEMMA PcMoves ==
    ASSUME TypeOK, NEW t \in Threads, call[t] \in Work, NEW pc \in AskPcs \cup ReadPcs,
           call' = [call EXCEPT ![t].pc = pc]
    PROVE  /\ Moves(t, {pc})
           /\ call'[t].file = call[t].file
           /\ call'[t].tags = call[t].tags /\ call'[t].time = call[t].time /\ call'[t].n = call[t].n
<1> DEFINE c == call[t]
           d == [c EXCEPT !.pc = pc]
<1>1. /\ d \in Work /\ d.pc = pc /\ d.file = c.file
      /\ d.tags = c.tags /\ d.time = c.time /\ d.n = c.n
  BY DEF Work
<1>2. call' = [call EXCEPT ![t] = d]
  BY DEF TypeOK
<1> HIDE DEF d
<1> QED
  BY <1>1, <1>2, StepMoves

LEMMA CountedMoves ==
    ASSUME TypeOK, NEW t \in Threads, call[t] \in Work, nitems \in Nat,
           call' = [call EXCEPT ![t] = [NewCall("count", call[t].file, {}) EXCEPT !.n = nitems]]
    PROVE  Moves(t, {"count"}) /\ call'[t].n = nitems
<1> DEFINE c == NewCall("count", call[t].file, {})
           d == [c EXCEPT !.n = nitems]
<1>1. c \in Work /\ c.pc = "count"
  BY NewCallType DEF Work, NewCall
<1> HIDE DEF c
<1>2. d \in Work /\ d.pc = "count" /\ d.n = nitems
  BY <1>1 DEF Work
<1> HIDE DEF d
<1> QED
  BY <1>2, StepMoves DEF c, d

LEMMA AnswerMoves == ASSUME TypeOK, NEW t \in Threads, Answer(t) PROVE Moves(t, {"top", "idle"})
<1>1. Rests(t) \in Rest /\ Rests(t).pc \in {"top", "idle"}
  BY DEF Rests, Rest
<1> QED
  BY <1>1 DEF TypeOK, Answer, Moves

LEMMA ItemsFinite == IsFiniteSet(Items) /\ Cardinality(Items) \in Nat
<1>1. Items \subseteq Files
  BY DEF Items
<1> QED
  BY <1>1, FilesAssumption, FS_Subset, FS_CardinalityType

(* To collect leaves a known count and records only. *)
LEMMA CollectsType ==
    ASSUME TypeOK, Collects
    PROVE  nitems' \in Nat /\ db' \in [Files -> Record \cup {NoRecord}] /\ failed' \in BOOLEAN
<1>1. PICK seen \in SUBSET Items : CountsItems(seen) \/ RemovesItem(seen)
  BY DEF Collects
<1>2. Cardinality(seen) \in Nat
  BY ItemsFinite, FS_Subset, FS_CardinalityType
<1>3. seen \subseteq Files
  BY DEF Items
<1>4. CASE CountsItems(seen)
  BY <1>2, <1>4 DEF CountsItems, TypeOK
<1>5. CASE RemovesItem(seen)
  <2>1. nitems' \in Nat
    BY <1>2, <1>5, MaxItemsAssumption DEF RemovesItem, AtLimit
  <2>2. db' \in [Files -> Record \cup {NoRecord}]
    BY <1>3, <1>5 DEF RemovesItem, TypeOK
  <2>3. failed' \in BOOLEAN
    BY <1>5 DEF RemovesItem
  <2> QED
    BY <2>1, <2>2, <2>3
<1> QED
  BY <1>1, <1>4, <1>5

LEMMA GcMoves ==
    ASSUME TypeOK, NEW t \in Threads, Gc(t)
    PROVE  /\ Moves(t, {"put"})
           /\ call'[t].file = call[t].file /\ call'[t].tags = call[t].tags /\ call'[t].time = call[t].time
           /\ nitems' \in Nat
           /\ db' \in [Files -> Record \cup {NoRecord}]
           /\ failed' \in BOOLEAN
<1>1. nitems' \in Nat /\ db' \in [Files -> Record \cup {NoRecord}] /\ failed' \in BOOLEAN
  <2>1. CASE HasRoom
    BY <2>1 DEF HasRoom, Gc, TypeOK, dbVars
  <2>2. CASE ~HasRoom
    BY <2>2, CollectsType DEF Gc
  <2> QED
    BY <2>1, <2>2
<1>2. call[t] \in Work
  BY WorkType DEF Gc, TypeOK
<1> QED
  BY <1>1, <1>2, PcMoves DEF Gc

LEMMA PutMoves ==
    ASSUME TypeOK, NEW t \in Threads, Put(t)
    PROVE  /\ Moves(t, {"count", "answer"})
           /\ db' \in [Files -> Record \cup {NoRecord}]
           /\ call'[t].pc = "count" => nitems >= 0 /\ call'[t].n = nitems
<1> DEFINE c == call[t]
           record == [time |-> c.time, tags |-> Kept(c.file, c.tags)]
<1>1. c \in Work /\ c.file \in Files /\ c.tags \in Tags /\ c.time \in 0..MaxVersion
  BY WorkType DEF TypeOK, Put
<1>2. db' \in [Files -> Record \cup {NoRecord}]
  <2>1. record \in Record
    BY <1>1, TagsTypes DEF Record
  <2>2. db' = db \/ db' = [db EXCEPT ![c.file] = record]
    BY DEF Put
  <2> QED
    BY <2>1, <2>2 DEF TypeOK
<1>3. CASE call' = [call EXCEPT ![t] = Finished(c)]
  BY <1>1, <1>2, <1>3, FinishedMoves DEF Moves
<1>4. CASE /\ nitems >= 0
           /\ call' = [call EXCEPT ![t] = [NewCall("count", c.file, {}) EXCEPT !.n = nitems]]
  <2>1. nitems \in Nat
    BY <1>4 DEF TypeOK
  <2> QED
    BY <1>1, <1>2, <1>4, <2>1, CountedMoves DEF Moves
<1> QED
  BY <1>3, <1>4 DEF Put

LEMMA CountMoves ==
    ASSUME TypeOK, NEW t \in Threads, CountItem(t)
    PROVE  Moves(t, {"answer"}) /\ nitems' \in Nat
<1>1. call[t] \in Work /\ call[t].n \in Nat
  BY WorkType DEF TypeOK, CountItem
<1>2. Moves(t, {"answer"})
  BY <1>1, FinishedMoves DEF CountItem, TypeOK
<1>3. nitems' \in Nat
  BY <1>1 DEF CountItem
<1> QED
  BY <1>2, <1>3

(* All of a read. *)
LEMMA ReadAddType ==
    ASSUME TypeOK, NEW t \in Threads, ReadAdd(t)
    PROVE  TypeOK'
<1> USE DEF TypeOK, Moves, fileVars, dbVars, answerVars, pastVars
<1>1. CASE Look(t)
  BY <1>1, LookMoves DEF Look
<1>2. CASE FindLength(t)
  BY <1>2, FindMoves DEF FindLength
<1>3. CASE ReadTags(t)
  BY <1>3, ReadMoves DEF ReadTags
<1>4. CASE Stamp(t)
  BY <1>4, StampMoves DEF Stamp
<1>5. CASE Gc(t)
  <2>1. together' \in BOOLEAN
    BY <1>5 DEF Gc
  <2> QED
    BY <1>5, <2>1, GcMoves DEF Gc
<1>6. CASE Put(t)
  BY <1>6, PutMoves DEF Put
<1>7. CASE CountItem(t)
  BY <1>7, CountMoves DEF CountItem
<1>8. CASE Answer(t)
  <2>1. answered' \in Nat
    BY <1>8 DEF Answer
  <2> QED
    BY <1>8, <2>1, AnswerMoves DEF Answer
<1> QED
  BY <1>1, <1>2, <1>3, <1>4, <1>5, <1>6, <1>7, <1>8 DEF ReadAdd

(* What earlier sessions have left is of the type of records. *)
LEMMA OldType == ASSUME CacheInit PROVE db \in [Files -> Record \cup {NoRecord}]
<1>1. PICK old \in SUBSET Recorded : \E records \in [old -> OldRecords] :
        db = [f \in Files |-> IF f \notin old THEN NoRecord
                              ELSE [time |-> records[f].time, tags |-> Kept(f, records[f].tags)]]
  BY DEF CacheInit
<1>2. PICK records \in [old -> OldRecords] :
        db = [f \in Files |-> IF f \notin old THEN NoRecord
                              ELSE [time |-> records[f].time, tags |-> Kept(f, records[f].tags)]]
  BY <1>1
<1>3. ASSUME NEW f \in Files, f \in old
      PROVE  [time |-> records[f].time, tags |-> Kept(f, records[f].tags)] \in Record
  <2>1. records[f] \in [time : 0..1, tags : [Kinds -> Unread..1]]
    BY <1>3, OldRecordsAssumption
  <2>2. records[f].time \in 0..MaxVersion
    BY <2>1, VersionAssumption
  <2>3. records[f].tags \in Tags
    BY <2>1, VersionAssumption DEF Tags, Unread
  <2> QED
    BY <2>2, <2>3, TagsTypes DEF Record
<1> QED
  BY <1>2, <1>3

LEMMA InitType == Init => EngineTypeOK
<1> SUFFICES ASSUME Init PROVE EngineTypeOK
  OBVIOUS
<1>0. CacheInit
  BY DEF Init
<1>1. call \in [Threads -> Rest \cup Work]
  BY <1>0 DEF CacheInit, Rest
<1>2. version \in [Files -> 0..MaxVersion] /\ length \in [Files -> Length]
  BY <1>0, VersionAssumption DEF CacheInit, Length, NoLength, Unread
<1>3. queue \in Seq(Request)
  BY <1>0, EmptyType DEF CacheInit
<1>4. enabled \in BOOLEAN /\ {stopReader, together, failed} \subseteq BOOLEAN
  BY <1>0 DEF CacheInit
<1>5. nitems \in {-1} \cup Nat /\ {asked, answered, found} \subseteq Nat
  BY <1>0, ItemsFinite DEF CacheInit
<1>6. raced \cup mistimed \subseteq Files
  BY <1>0 DEF CacheInit, Items
<1>7. TypeOK
  BY <1>0, <1>1, <1>2, <1>3, <1>4, <1>5, <1>6, OldType DEF TypeOK
<1>8. calls \in 0..MaxAsked /\ signals \in 0..MaxSignals
  BY EngineBounds DEF Init
<1> QED
  BY <1>7, <1>8 DEF Init, EngineTypeOK, MainPcs, EnginePcs

(* A record that another thread may look at is one of a thread at rest, so *)
(* that to wake the reader does nothing to one that works.                 *)
LEMMA WakeMoves ==
    ASSUME NEW c \in [Threads -> Rest \cup Work]
    PROVE  /\ WakeReader(c) \in [Threads -> Rest \cup Work]
           /\ WakeReader(c)["interface"] = c["interface"]
           /\ \/ WakeReader(c) = c
              \/ c["reader"].pc = "wait" /\ WakeReader(c)["reader"].pc = "top"
BY DEF WakeReader, Rest

LEMMA TakeMoves ==
    ASSUME TypeOK, TakeRequest
    PROVE  /\ Moves("reader", {"wait", "look"})
           /\ queue' \in Seq(Request)
           /\ call'["reader"].pc = "look" => queue # <<>> /\ call'["reader"] = NewCall("look", Head(queue).file, Head(queue).sel)
<1>1. CASE queue = <<>>
  BY <1>1 DEF TypeOK, TakeRequest, Moves, Rest
<1>2. CASE queue # <<>>
  <2> DEFINE r == Head(queue)
             d == NewCall("look", r.file, r.sel)
  <2>1. r \in Request /\ Tail(queue) \in Seq(Request)
    BY <1>2, HeadThenTail DEF TypeOK
  <2>2. d \in Work /\ d.pc = "look"
    BY <2>1, NewCallType DEF Request, NewCall
  <2>3. call' = [call EXCEPT !["reader"] = d] /\ queue' = Tail(queue)
    BY <1>2 DEF TakeRequest
  <2> HIDE DEF d
  <2>4. Moves("reader", {"look"}) /\ call'["reader"] = d
    BY <2>2, <2>3, StepMoves
  <2> QED
    BY <1>2, <2>1, <2>3, <2>4 DEF Moves, d
<1> QED
  BY <1>1, <1>2

LEMMA ReaderType == ASSUME TypeOK, Reader PROVE TypeOK'
<1> USE DEF TypeOK, Moves, fileVars, dbVars, answerVars, pastVars
<1>1. CASE TakeRequest
  BY <1>1, TakeMoves DEF TakeRequest
<1>2. CASE ReaderExits
  BY <1>2 DEF ReaderExits, Rest
<1>3. CASE ReadAdd("reader")
  BY <1>3, ReadAddType
<1> QED
  BY <1>1, <1>2, <1>3 DEF Reader

(* The interface's call begins... *)
LEMMA AskType ==
    ASSUME TypeOK, NEW f \in Files,
           GetImmediate(f) \/ \E sel \in Selections : Ask(f, sel)
    PROVE  /\ TypeOK' /\ Moves("interface", {"look", "ask"})
           /\ call'["interface"].tags = Unfilled
<1>1. PICK pc \in {"look", "ask"}, sel \in SUBSET Kinds :
        call' = [call EXCEPT !["interface"] = NewCall(pc, f, sel)]
  BY SelectAssumption DEF Ask, GetImmediate
<1> DEFINE d == NewCall(pc, f, sel)
<1>2. d \in Work /\ d.pc = pc /\ d.tags = Unfilled
  BY NewCallType DEF NewCall
<1> HIDE DEF d
<1>3. Moves("interface", {pc}) /\ call'["interface"] = d
  BY <1>1, <1>2, StepMoves DEF d
<1>4. asked' \in Nat
  BY DEF Ask, GetImmediate, answerVars, TypeOK
<1> QED
  BY <1>2, <1>3, <1>4 DEF TypeOK, Moves, Ask, GetImmediate, fileVars, dbVars, answerVars, pastVars

(* ...and goes on. *)
LEMMA AskLookMoves ==
    ASSUME TypeOK, AskLook
    PROVE  Moves("interface", {"idle", "push"}) /\ answered' \in Nat
<1>1. call["interface"] \in Work
  BY WorkType DEF TypeOK, AskLook
<1>2. CASE call' = [call EXCEPT !["interface"] = Rests("interface")] /\ answered' = answered + 1
  BY <1>2 DEF TypeOK, Moves, Rests, Rest
<1>3. CASE call' = [call EXCEPT !["interface"].pc = "push"] /\ UNCHANGED answered
  <2>1. Moves("interface", {"push"})
    BY <1>1, <1>3, PcMoves
  <2> QED
    BY <1>3, <2>1 DEF Moves, TypeOK
<1> QED
  BY <1>2, <1>3 DEF AskLook

LEMMA AskPushMoves ==
    ASSUME TypeOK, AskPush
    PROVE  /\ call' \in [Threads -> Rest \cup Work]
           /\ call'["interface"].pc = "idle"
           /\ \/ call'["reader"] = call["reader"]
              \/ call["reader"].pc = "wait" /\ call'["reader"].pc = "top"
           /\ queue' \in Seq(Request)
<1> DEFINE c == [call EXCEPT !["interface"] = Rests("interface")]
           r == [file |-> call["interface"].file, sel |-> call["interface"].sel]
<1>1. c \in [Threads -> Rest \cup Work] /\ c["interface"].pc = "idle" /\ c["reader"] = call["reader"]
  BY DEF TypeOK, Rests, Rest
<1>2. call' = WakeReader(c)
  BY DEF AskPush, Awoken
<1>3. r \in Request
  BY WorkType DEF TypeOK, AskPush, Request
<1>4. queue' \in Seq(Request)
  <2> HIDE DEF r
  <2>1. queue' = Append(queue, r)
    BY DEF AskPush, r
  <2> QED
    BY <1>3, <2>1, AppendAsConcat DEF TypeOK
<1> HIDE DEF c
<1> QED
  BY <1>1, <1>2, <1>4, WakeMoves

LEMMA CalledType == ASSUME TypeOK, Called PROVE TypeOK'
<1> USE DEF TypeOK, Moves, fileVars, dbVars, answerVars, pastVars
<1>1. CASE AskLook
  BY <1>1, AskLookMoves DEF AskLook
<1>2. CASE AskPush
  BY <1>2, AskPushMoves DEF AskPush
<1>3. CASE ReadAdd("interface")
  BY <1>3, ReadAddType
<1> QED
  BY <1>1, <1>2, <1>3 DEF Called

LEMMA ChangesType == ASSUME TypeOK, FileChanges PROVE TypeOK'
<1>1. PICK f \in Changing : /\ version[f] < MaxVersion
                            /\ version' = [version EXCEPT ![f] = @ + 1]
                            /\ raced' = IF HalfRead(f) THEN raced \cup {f} ELSE raced \ {f}
                            /\ mistimed' = mistimed \ {f}
  BY DEF FileChanges
<1>2. f \in Files
  BY VersionAssumption
<1>3. version' \in [Files -> 0..MaxVersion]
  BY <1>1, <1>2, VersionAssumption DEF TypeOK
<1>4. raced' \cup mistimed' \subseteq Files
  BY <1>1, <1>2 DEF TypeOK
<1> QED
  BY <1>3, <1>4 DEF FileChanges, TypeOK, dbVars, answerVars

LEMMA LengthType == ASSUME TypeOK, SetLength PROVE TypeOK'
<1>1. PICK f \in Played :
        \/ \E v \in 1..version[f] : v >= length[f].of /\ SetsLength(f, v)
        \/ length' = [length EXCEPT ![f] = NoLength] /\ UNCHANGED mistimed
  BY DEF SetLength
<1>2. f \in Files /\ version[f] \in 0..MaxVersion
  BY VersionAssumption DEF TypeOK
<1>3. length' \in [Files -> Length] /\ mistimed' \subseteq Files
  <2>1. CASE length' = [length EXCEPT ![f] = NoLength] /\ UNCHANGED mistimed
    <3>1. NoLength \in Length
      BY VersionAssumption DEF NoLength, Length, Unread
    <3> QED
      BY <2>1, <3>1 DEF TypeOK
  <2>2. ASSUME NEW v \in 1..version[f], SetsLength(f, v)
        PROVE  length' \in [Files -> Length] /\ mistimed' \subseteq Files
    <3>1. [of |-> v, mtime |-> version[f]] \in Length
      BY <1>2, VersionAssumption DEF Length, Unread
    <3> QED
      BY <1>2, <2>2, <3>1 DEF TypeOK, SetsLength
  <2> QED
    BY <1>1, <2>1, <2>2
<1> QED
  BY <1>3 DEF SetLength, TypeOK, dbVars, answerVars

LEMMA CacheUnchanged == ASSUME TypeOK, UNCHANGED cacheVars PROVE TypeOK'
BY DEF TypeOK, cacheVars, fileVars, dbVars, answerVars, pastVars

(* The engine thread starts the reader, wakes it up, and frees the cache. *)
LEMMA EngineThreadType ==
    ASSUME EngineTypeOK, EngineThread
    PROVE  EngineTypeOK'
<1> USE DEF EngineTypeOK, EnginePcs, EngineGoes, OnlyEngine, lifeVars
<1>1. CASE NewCache
  BY <1>1 DEF NewCache, CacheButCall, TypeOK, Rest, fileVars, dbVars, answerVars, pastVars
<1>2. CASE LoadCache
  BY <1>2 DEF LoadCache, TypeOK, fileVars, dbVars, answerVars, pastVars
<1>3. CASE EngineHandlers
  BY <1>3, CacheUnchanged DEF EngineHandlers
<1>4. CASE SignalReady
  BY <1>4, CacheUnchanged DEF SignalReady
<1>5. CASE CheckQuit
  BY <1>5, CacheUnchanged DEF CheckQuit
<1>6. CASE StartWait
  BY <1>6, CacheUnchanged DEF StartWait
<1>7. CASE WaitTimesOut
  BY <1>7, CacheUnchanged DEF WaitTimesOut
<1>8. CASE AudioExit
  BY <1>8, CacheUnchanged DEF AudioExit
<1>9. CASE StopReader
  BY <1>9, WakeMoves DEF StopReader, TypeOK, fileVars, dbVars, answerVars, pastVars
<1>10. CASE JoinReader
  BY <1>10, CacheUnchanged DEF JoinReader
<1>11. CASE FreeCache
  BY <1>11, EmptyType DEF FreeCache, TypeOK, fileVars, dbVars, answerVars, pastVars
<1> QED
  BY <1>1, <1>2, <1>3, <1>4, <1>5, <1>6, <1>7, <1>8, <1>9, <1>10, <1>11 DEF EngineThread

LEMMA MainThreadType ==
    ASSUME EngineTypeOK, MainThread
    PROVE  EngineTypeOK'
<1> USE DEF EngineTypeOK, MainPcs, EnginePcs, OnlyMain, lifeVars
<1>1. CASE WaitReady
  BY <1>1, CacheUnchanged DEF WaitReady
<1>2. CASE InterfaceHandlers
  BY <1>2, CacheUnchanged DEF InterfaceHandlers
<1>3. CASE CallCache
  <2>1. TypeOK'
    BY <1>3, AskType DEF CallCache
  <2>2. calls' \in 0..MaxAsked
    BY <1>3, EngineBounds DEF CallCache
  <2> QED
    BY <1>3, <2>1, <2>2 DEF CallCache
<1>4. CASE InCall
  BY <1>4, CalledType DEF InCall
<1>5. CASE QuitKey
  BY <1>5, CacheUnchanged DEF QuitKey
<1>6. CASE LeaveInterface
  BY <1>6, CacheUnchanged DEF LeaveInterface, EngineQuit
<1>7. CASE StopperQuits
  BY <1>7, CacheUnchanged DEF StopperQuits, EngineQuit
<1>8. CASE JoinEngine
  BY <1>8, CacheUnchanged DEF JoinEngine
<1> QED
  BY <1>1, <1>2, <1>3, <1>4, <1>5, <1>6, <1>7, <1>8 DEF MainThread

LEMMA NextType ==
    ASSUME EngineTypeOK, [Next]_engineVars
    PROVE  EngineTypeOK'
<1> USE DEF lifeVars
<1>1. CASE Signal
  <2>1. signals' \in 0..MaxSignals
    BY <1>1, EngineBounds DEF Signal, EngineTypeOK
  <2> QED
    BY <1>1, <2>1, CacheUnchanged DEF Signal, EngineTypeOK
<1>2. CASE ReaderThread
  BY <1>2, ReaderType DEF ReaderThread, EngineTypeOK
<1>3. CASE Outside
  BY <1>3, ChangesType DEF Outside, EngineTypeOK
<1>4. CASE Playback
  BY <1>4, LengthType DEF Playback, EngineTypeOK
<1>5. CASE UNCHANGED engineVars
  BY <1>5, CacheUnchanged DEF engineVars, EngineTypeOK
<1> QED
  BY <1>1, <1>2, <1>3, <1>4, <1>5, EngineThreadType, MainThreadType DEF Next

(* The variables keep their types. *)
THEOREM TypeCorrect == Spec => []EngineTypeOK
<1>1. EngineTypeOK /\ [Next]_engineVars => EngineTypeOK'
  BY NextType
<1> QED
  BY InitType, <1>1, PTL DEF Spec

-----------------------------------------------------------------------------
(* The cache is there. *)

ShuttingDown == {"audioExit", "stopReader", "joinReader", "close", "exit"}

(* Which of the threads are where: the interface calls the cache only      *)
(* between the hand-shake and its end; the reader has something to do only *)
(* after the interface has called; and, without an early signal, the       *)
(* engine shuts down only after the interface has ended.                   *)
LifeInv ==
    /\ ready => epc \notin {"init", "load", "handlers", "ready"}
    /\ mpc # "waitReady" => ready
    /\ cache = "open" <=> epc \notin {"init", "load", "exit"}
    /\ cache \in {"none", "freed"} => epc \in {"init", "exit"}
    /\ epc \in {"init", "close", "exit"} => call["reader"].pc = "exit"
    /\ Busy("interface") => mpc = "loop"
    /\ queue # <<>> \/ Busy("reader") => ready
    /\ ~early /\ epc \in ShuttingDown => serverQuit
    /\ ~early /\ serverQuit => mpc \in {"stopper", "join", "done"}

LEMMA LifeImplies == LifeInv => CacheIsThereUnlessEarly
BY DEF LifeInv, CacheIsThereUnlessEarly, CacheIsThere, Busy, ShuttingDown

LEMMA InitLife == Init => LifeInv
BY DEF Init, CacheInit, LifeInv, Busy, ShuttingDown

(* A thread that reads tags stays at work or comes to rest, and the other  *)
(* stays where it is.                                                      *)
LEMMA ReadAddMoves ==
    ASSUME TypeOK, NEW t \in Threads, ReadAdd(t)
    PROVE  /\ Busy(t)
           /\ call'[t].pc # "exit"
           /\ \A u \in Threads \ {t} : call'[u] = call[u]
           /\ UNCHANGED <<queue, stopReader, asked, enabled, fileVars>>
<1> USE DEF Busy, Moves, dbVars, answerVars
<1>1. CASE Look(t)
  BY <1>1, LookMoves DEF Look
<1>2. CASE FindLength(t)
  BY <1>2, FindMoves DEF FindLength
<1>3. CASE ReadTags(t)
  BY <1>3, ReadMoves DEF ReadTags
<1>4. CASE Stamp(t)
  BY <1>4, StampMoves DEF Stamp
<1>5. CASE Gc(t)
  BY <1>5, GcMoves DEF Gc
<1>6. CASE Put(t)
  BY <1>6, PutMoves DEF Put
<1>7. CASE CountItem(t)
  BY <1>7, CountMoves DEF CountItem
<1>8. CASE Answer(t)
  BY <1>8, AnswerMoves DEF Answer
<1> QED
  BY <1>1, <1>2, <1>3, <1>4, <1>5, <1>6, <1>7, <1>8 DEF ReadAdd

LEMMA ReaderLife == ASSUME EngineTypeOK, LifeInv, ReaderThread PROVE LifeInv'
<1> USE DEF LifeInv, Busy, lifeVars, ReaderThread, EngineTypeOK
<1>1. CASE TakeRequest
  BY <1>1, TakeMoves DEF TakeRequest, Moves
<1>2. CASE ReaderExits
  BY <1>2 DEF ReaderExits, TypeOK
<1>3. CASE ReadAdd("reader")
  BY <1>3, ReadAddMoves
<1> QED
  BY <1>1, <1>2, <1>3 DEF Reader

LEMMA EngineLife == ASSUME EngineTypeOK, LifeInv, EngineThread PROVE LifeInv'
<1> USE DEF LifeInv, Busy, ShuttingDown, EngineGoes, OnlyEngine, cacheVars, EngineTypeOK
<1>1. CASE NewCache
  BY <1>1 DEF NewCache, CacheButCall, TypeOK
<1>2. CASE LoadCache
  BY <1>2 DEF LoadCache
<1>3. CASE EngineHandlers
  BY <1>3 DEF EngineHandlers
<1>4. CASE SignalReady
  BY <1>4 DEF SignalReady
<1>5. CASE CheckQuit
  BY <1>5 DEF CheckQuit
<1>6. CASE StartWait
  BY <1>6 DEF StartWait
<1>7. CASE WaitTimesOut
  BY <1>7 DEF WaitTimesOut, WaitsASecond
<1>8. CASE AudioExit
  BY <1>8 DEF AudioExit
<1>9. CASE StopReader
  BY <1>9, WakeMoves DEF StopReader, TypeOK
<1>10. CASE JoinReader
  BY <1>10 DEF JoinReader, ReaderJoined
<1>11. CASE FreeCache
  BY <1>11 DEF FreeCache
<1> QED
  BY <1>1, <1>2, <1>3, <1>4, <1>5, <1>6, <1>7, <1>8, <1>9, <1>10, <1>11 DEF EngineThread

LEMMA MainLife == ASSUME EngineTypeOK, LifeInv, MainThread PROVE LifeInv'
<1> USE DEF LifeInv, Busy, ShuttingDown, OnlyMain, cacheVars, EngineTypeOK
<1>1. CASE WaitReady
  BY <1>1 DEF WaitReady
<1>2. CASE InterfaceHandlers
  BY <1>2 DEF InterfaceHandlers
<1>3. CASE CallCache
  <2>1. call'["reader"] = call["reader"] /\ queue' = queue
    BY <1>3, AskType DEF CallCache, Moves, Ask, GetImmediate
  <2> QED
    BY <1>3, <2>1 DEF CallCache
<1>4. CASE InCall
  <2>1. CASE AskLook
    BY <1>4, <2>1, AskLookMoves DEF InCall, AskLook, Moves
  <2>2. CASE AskPush
    BY <1>4, <2>2, AskPushMoves DEF InCall, AskPush
  <2>3. CASE ReadAdd("interface")
    BY <1>4, <2>3, ReadAddMoves DEF InCall
  <2> QED
    BY <1>4, <2>1, <2>2, <2>3 DEF InCall, Called
<1>5. CASE QuitKey
  BY <1>5 DEF QuitKey
<1>6. CASE LeaveInterface
  BY <1>6 DEF LeaveInterface, EngineQuit
<1>7. CASE StopperQuits
  BY <1>7 DEF StopperQuits, EngineQuit
<1>8. CASE JoinEngine
  BY <1>8 DEF JoinEngine
<1> QED
  BY <1>1, <1>2, <1>3, <1>4, <1>5, <1>6, <1>7, <1>8 DEF MainThread

LEMMA NextLife ==
    ASSUME EngineTypeOK, LifeInv, [Next]_engineVars
    PROVE  LifeInv'
<1>1. CASE Signal
  BY <1>1 DEF Signal, LifeInv, Busy, cacheVars
<1>2. CASE Outside
  BY <1>2 DEF Outside, FileChanges, LifeInv, Busy, lifeVars
<1>3. CASE Playback
  BY <1>3 DEF Playback, SetLength, LifeInv, Busy, lifeVars
<1>4. CASE UNCHANGED engineVars
  BY <1>4 DEF engineVars, cacheVars, lifeVars, LifeInv, Busy
<1> QED
  BY <1>1, <1>2, <1>3, <1>4, ReaderLife, EngineLife, MainLife DEF Next

(* Nobody uses the tags cache before it is open or after it is freed,      *)
(* unless a signal has stopped the engine before the interface was ready.  *)
THEOREM CacheThere == Spec => []CacheIsThereUnlessEarly
<1> DEFINE I == EngineTypeOK /\ LifeInv
<1>1. Init => I
  BY InitType, InitLife
<1>2. I /\ [Next]_engineVars => I'
  BY NextType, NextLife
<1>3. I => CacheIsThereUnlessEarly
  BY LifeImplies
<1> HIDE DEF I
<1> QED
  BY <1>1, <1>2, <1>3, PTL DEF Spec

-----------------------------------------------------------------------------
(* What the tags cache keeps: its records are true, and it keeps to its    *)
(* limit.                                                                  *)

(* A thread is at one of pcs. *)
At(t, pcs) == call[t].pc \in pcs

(* A thread stays, or moves without reading a record: it may be about to.  *)
Idle(t) ==
    \/ call'[t] = call[t]
    \/ /\ At(t, RestPcs \cup AskPcs)
       /\ call'[t].pc \in RestPcs \cup AskPcs \cup {"look"}

(* Nothing that the properties are about changes. *)
AllIdle == /\ \A t \in Threads : Idle(t)
           /\ UNCHANGED <<fileVars, dbVars, pastVars>>

LEMMA NextActions ==
    ASSUME EngineTypeOK, LifeInv, [Next]_engineVars
    PROVE  (\E t \in Threads : ReadAdd(t)) \/ FileChanges \/ SetLength \/ AllIdle
<1> USE DEF AllIdle, Idle, At, EngineTypeOK
<1>1. CASE EngineThread
  <2>1. CASE NewCache
    BY <2>1 DEF NewCache, CacheButCall, TypeOK, EngineGoes, LifeInv
  <2>2. CASE StopReader
    BY <2>2, WakeMoves DEF StopReader, TypeOK
  <2>3. CASE LoadCache \/ FreeCache
    BY <2>3 DEF LoadCache, FreeCache
  <2>4. CASE UNCHANGED cacheVars
    BY <2>4 DEF cacheVars
  <2> QED
    BY <1>1, <2>1, <2>2, <2>3, <2>4 DEF EngineThread, EngineHandlers, SignalReady, CheckQuit,
       StartWait, WaitTimesOut, AudioExit, JoinReader
<1>2. CASE MainThread
  <2>1. CASE CallCache
    BY <2>1, AskType DEF CallCache, Moves, Ask, GetImmediate
  <2>2. CASE InCall /\ AskLook
    BY <2>2, AskLookMoves DEF AskLook, Moves
  <2>3. CASE InCall /\ AskPush
    BY <2>3, AskPushMoves DEF AskPush
  <2>4. CASE UNCHANGED cacheVars
    BY <2>4 DEF cacheVars
  <2> QED
    BY <1>2, <2>1, <2>2, <2>3, <2>4 DEF MainThread, WaitReady, InterfaceHandlers, InCall, Called,
       QuitKey, LeaveInterface, StopperQuits, JoinEngine
<1>3. CASE Reader
  <2>1. CASE TakeRequest
    BY <2>1, TakeMoves DEF TakeRequest, Moves
  <2>2. CASE ReaderExits
    BY <2>2 DEF ReaderExits, TypeOK
  <2> QED
    BY <1>3, <2>1, <2>2 DEF Reader
<1>4. CASE Signal \/ UNCHANGED engineVars
  BY <1>4 DEF Signal, engineVars, cacheVars
<1> QED
  BY <1>1, <1>2, <1>3, <1>4 DEF Next, ReaderThread, Playback, Outside

-----------------------------------------------------------------------------
(* The records are true. *)

(* What is filled in tags is of the present version of f, but for a length *)
(* that was set too late.                                                  *)
TagsTrue(f, tags) == Stale(tags, version[f]) \subseteq IF f \in mistimed THEN {"time"} ELSE {}

(* The record of f is not of a later time than the file, and is true. *)
RecordTrue(f) ==
    f \in Items =>
      /\ db[f].time <= version[f]
      /\ f \notin raced /\ db[f].time = version[f] => TagsTrue(f, db[f].tags)

(* So is the length of f in the playlist. *)
LengthTrue(f) ==
    /\ length[f].mtime <= version[f]
    /\ length[f].mtime = version[f] /\ f \notin mistimed => length[f].of \in {Unread, version[f]}

(* So is what the thread t has read, and what it is about to add. *)
ReadTrue(t) ==
    LET c == call[t]
    IN  /\ At(t, {"length", "read", "stamp"}) /\ c.file \notin raced => TagsTrue(c.file, c.tags)
        /\ At(t, {"gc", "put"}) =>
             /\ c.time <= version[c.file]
             /\ c.file \notin raced /\ c.time = version[c.file] => TagsTrue(c.file, c.tags)

TrueInv ==
    /\ \A f \in Files : RecordTrue(f) /\ LengthTrue(f)
    /\ \A t \in Threads : ReadTrue(t)

LEMMA TrueImplies == TrueInv => RecordsAreTrue
BY DEF TrueInv, RecordTrue, RecordsAreTrue, TagsTrue, Items

LEMMA KeptIsTrue ==
    ASSUME NEW f \in Files, NEW tags \in Tags, TagsTrue(f, tags)
    PROVE  TagsTrue(f, Kept(f, tags))
BY DEF TagsTrue, Stale, Kept, Filled, Tags

LEMMA ReadIsTrue ==
    ASSUME NEW f \in Files, NEW tags \in Tags, NEW missing, TagsTrue(f, tags)
    PROVE  TagsTrue(f, ReadFrom(version[f], tags, missing))
BY DEF TagsTrue, Stale, ReadFrom, Filled, Tags

LEMMA ListedIsTrue ==
    ASSUME NEW f \in Files, NEW tags \in Tags, TagsTrue(f, tags), LengthTrue(f),
           ListedLength(f) # Unread
    PROVE  TagsTrue(f, [tags EXCEPT !["time"] = ListedLength(f)])
<1>1. f \notin mistimed => ListedLength(f) = version[f]
  BY DEF LengthTrue, ListedLength
<1>2. PICK v : v = ListedLength(f)
  OBVIOUS
<1>3. f \notin mistimed => v = version[f]
  BY <1>1, <1>2
<1>4. TagsTrue(f, [tags EXCEPT !["time"] = v])
  BY <1>3 DEF TagsTrue, Stale, Filled, Tags
<1> QED
  BY <1>2, <1>4

LEMMA UnfilledIsTrue == \A f \in Files : TagsTrue(f, Unfilled)
BY DEF TagsTrue, Stale, Filled, Unfilled

LEMMA InitTrue == Init => TrueInv
<1> SUFFICES ASSUME Init PROVE TrueInv
  OBVIOUS
<1>1. CacheInit
  BY DEF Init
<1>2. \A t \in Threads : ReadTrue(t)
  BY <1>1 DEF CacheInit, ReadTrue, At
<1>3. ASSUME NEW f \in Files PROVE RecordTrue(f)
  <2>1. version[f] = 1
    BY <1>1 DEF CacheInit
  <2>2. f \in Items => db[f].time \in 0..1
    BY <1>1, OldRecordsAssumption DEF CacheInit, Items
  <2>3. f \in Items /\ f \notin raced /\ db[f].time = 1 => Stale(db[f].tags, 1) = {}
    BY <1>1 DEF CacheInit
  <2> QED
    BY <2>1, <2>2, <2>3 DEF RecordTrue, TagsTrue
<1>4. ASSUME NEW f \in Files PROVE LengthTrue(f)
  BY <1>1 DEF CacheInit, NoLength, LengthTrue
<1> QED
  BY <1>2, <1>3, <1>4 DEF TrueInv

(* While the files and the records stay, what a thread at rest or asking   *)
(* does not matter.                                                        *)
LEMMA IdleTrue ==
    ASSUME TrueInv, NEW t \in Threads, Idle(t), UNCHANGED <<version, raced, mistimed>>
    PROVE  ReadTrue(t)'
BY DEF TrueInv, ReadTrue, TagsTrue, Idle, At

LEMMA OtherTrue ==
    ASSUME TrueInv, NEW t \in Threads, call'[t] = call[t], UNCHANGED <<version, raced, mistimed>>
    PROVE  ReadTrue(t)'
BY DEF TrueInv, ReadTrue, TagsTrue, At

LEMMA SameLengths ==
    ASSUME TrueInv, UNCHANGED <<version, length, mistimed>>
    PROVE  \A f \in Files : LengthTrue(f)'
BY DEF TrueInv, LengthTrue

LEMMA SameRecords ==
    ASSUME TrueInv, UNCHANGED <<fileVars, raced, mistimed, db>>
    PROVE  \A f \in Files : RecordTrue(f)' /\ LengthTrue(f)'
<1>1. \A f \in Files : RecordTrue(f)'
  BY DEF TrueInv, RecordTrue, TagsTrue, Items, fileVars
<1> QED
  BY <1>1, SameLengths DEF fileVars

LEMMA ReadAddTrue ==
    ASSUME TypeOK, TrueInv, NEW t \in Threads, ReadAdd(t)
    PROVE  TrueInv'
<1> DEFINE c == call[t]
           f == c.file
<1>1. UNCHANGED <<fileVars, raced, mistimed>>
  BY DEF ReadAdd, Look, FindLength, ReadTags, Stamp, Gc, Put, CountItem, Answer, pastVars
<1>2. \A u \in Threads \ {t} : ReadTrue(u)'
  BY <1>1, ReadAddMoves, OtherTrue DEF fileVars
<1>3. c \in Work /\ f \in Files /\ c.sel \in SUBSET Kinds /\ c.tags \in Tags /\ c.time \in 0..MaxVersion
  BY WorkType, ReadAddMoves DEF Busy, TypeOK
<1>4. version[f] \in 0..MaxVersion
  BY <1>3 DEF TypeOK
<1>5. ReadTrue(t) /\ RecordTrue(f) /\ LengthTrue(f)
  BY <1>3 DEF TrueInv
<1>7. ASSUME UNCHANGED db, ReadTrue(t)' PROVE TrueInv'
  BY <1>1, <1>2, <1>7, SameRecords DEF TrueInv
<1>8. CASE Look(t)
  <2>1. UNCHANGED db /\ Moves(t, {"answer", "length", "read"})
    BY <1>8, LookMoves DEF Look, dbVars
  <2>2. CASE call'[t].pc = "answer"
    BY <1>7, <2>1, <2>2 DEF ReadTrue, At
  <2>3. CASE call'[t].pc # "answer"
    <3>1. call'[t].file = f /\ (f \notin raced => TagsTrue(f, call'[t].tags))
      BY <1>3, <1>5, <1>8, <2>3, LookMoves, UnfilledIsTrue DEF UpToDate, RecordTrue, Items
    <3> QED
      BY <1>1, <1>7, <2>1, <3>1 DEF ReadTrue, At, Moves, TagsTrue, fileVars
  <2> QED
    BY <2>2, <2>3
<1>9. CASE FindLength(t)
  <2>1. UNCHANGED db /\ Moves(t, {"answer", "read"}) /\ At(t, {"length"})
    BY <1>9, FindMoves DEF FindLength, dbVars, At
  <2>2. CASE call'[t].pc = "answer"
    BY <1>7, <2>1, <2>2 DEF ReadTrue, At
  <2>3. CASE call'[t].pc # "answer"
    <3>1. f \notin raced => TagsTrue(f, c.tags)
      BY <1>5, <2>1 DEF ReadTrue, At
    <3>2. call'[t].file = f /\ (f \notin raced => TagsTrue(f, call'[t].tags))
      BY <1>3, <1>5, <1>9, <2>3, <3>1, FindMoves, ListedIsTrue
    <3> QED
      BY <1>1, <1>7, <2>1, <3>2 DEF ReadTrue, At, Moves, TagsTrue, fileVars
  <2> QED
    BY <2>2, <2>3
<1>10. CASE ReadTags(t)
  <2>1. UNCHANGED db /\ Moves(t, {"answer", "stamp"}) /\ At(t, {"read"})
    BY <1>10, ReadMoves DEF ReadTags, dbVars, At
  <2>2. CASE call'[t].pc = "answer"
    BY <1>7, <2>1, <2>2 DEF ReadTrue, At
  <2>3. CASE call'[t].pc # "answer"
    <3>1. f \notin raced => TagsTrue(f, c.tags)
      BY <1>5, <2>1 DEF ReadTrue, At
    <3>2. call'[t].file = f /\ (f \notin raced => TagsTrue(f, call'[t].tags))
      BY <1>3, <1>10, <2>3, <3>1, ReadMoves, ReadIsTrue
    <3> QED
      BY <1>1, <1>7, <2>1, <3>2 DEF ReadTrue, At, Moves, TagsTrue, fileVars
  <2> QED
    BY <2>2, <2>3
<1>11. CASE Stamp(t)
  <2>1. /\ UNCHANGED db /\ Moves(t, {"gc"}) /\ call'[t].file = f /\ call'[t].tags = c.tags
        /\ call'[t].time = version[f] /\ At(t, {"stamp"})
    BY <1>11, StampMoves DEF Stamp, dbVars, At
  <2>2. f \notin raced => TagsTrue(f, c.tags)
    BY <1>5, <2>1 DEF ReadTrue, At
  <2> QED
    BY <1>1, <1>4, <1>7, <2>1, <2>2 DEF ReadTrue, At, Moves, TagsTrue, fileVars
<1>12. CASE Gc(t)
  <2>1. /\ Moves(t, {"put"}) /\ call'[t].file = f /\ call'[t].tags = c.tags /\ call'[t].time = c.time
        /\ At(t, {"gc"})
    BY <1>12, GcMoves DEF Gc, At
  <2>2. ReadTrue(t)'
    BY <1>1, <1>5, <2>1 DEF ReadTrue, At, Moves, TagsTrue, fileVars
  <2>3. \A g \in Files : db'[g] = db[g] \/ db'[g] = NoRecord
    BY <1>12 DEF Gc, Collects, CountsItems, RemovesItem, dbVars, TypeOK
  <2>4. \A g \in Files : RecordTrue(g)'
    BY <1>1, <2>3 DEF TrueInv, RecordTrue, TagsTrue, Items, fileVars
  <2> QED
    BY <1>1, <1>2, <2>2, <2>4, SameLengths DEF TrueInv, fileVars
<1>13. CASE Put(t)
  <2>1. Moves(t, {"count", "answer"}) /\ At(t, {"put"})
    BY <1>13, PutMoves DEF Put, At
  <2>2. ReadTrue(t)'
    BY <2>1 DEF ReadTrue, At, Moves
  <2>3. CASE UNCHANGED db
    BY <1>7, <2>2, <2>3
  <2>4. CASE db' = [db EXCEPT ![f] = [time |-> c.time, tags |-> Kept(f, c.tags)]]
    <3> PICK h \in Files : h = f
      BY <1>3
    <3>1. db'[h].time = c.time /\ db'[h].tags = Kept(f, c.tags)
      BY <1>3, <2>4 DEF TypeOK
    <3>2. /\ c.time <= version[h]
          /\ h \notin raced /\ c.time = version[h] => TagsTrue(h, Kept(f, c.tags))
      BY <1>3, <1>5, <2>1, KeptIsTrue DEF ReadTrue, At
    <3>3. RecordTrue(h)'
      BY <1>1, <3>1, <3>2 DEF RecordTrue, TagsTrue, fileVars
    <3>4. ASSUME NEW g \in Files, g # h PROVE RecordTrue(g)'
      BY <1>1, <2>4, <3>4 DEF TrueInv, RecordTrue, TagsTrue, Items, TypeOK, fileVars
    <3>5. \A g \in Files : RecordTrue(g)'
      BY <3>3, <3>4
    <3> QED
      BY <1>1, <1>2, <2>2, <3>5, SameLengths DEF TrueInv, fileVars
  <2> QED
    BY <1>13, <2>3, <2>4 DEF Put
<1>14. CASE CountItem(t)
  <2>1. UNCHANGED db /\ Moves(t, {"answer"})
    BY <1>14, CountMoves DEF CountItem
  <2> QED
    BY <1>7, <2>1 DEF ReadTrue, At, Moves
<1>15. CASE Answer(t)
  <2>1. UNCHANGED db /\ Moves(t, {"top", "idle"})
    BY <1>15, AnswerMoves DEF Answer, dbVars
  <2> QED
    BY <1>7, <2>1 DEF ReadTrue, At, Moves
<1> QED
  BY <1>8, <1>9, <1>10, <1>11, <1>12, <1>13, <1>14, <1>15 DEF ReadAdd

(* A file that changes makes every time that was read before an old one.   *)
LEMMA ChangesTrue ==
    ASSUME TypeOK, TrueInv, FileChanges
    PROVE  TrueInv'
<1>1. PICK f \in Changing : /\ version[f] < MaxVersion
                            /\ version' = [version EXCEPT ![f] = @ + 1]
                            /\ raced' = IF HalfRead(f) THEN raced \cup {f} ELSE raced \ {f}
                            /\ mistimed' = mistimed \ {f}
                            /\ UNCHANGED <<length, db, call>>
  BY DEF FileChanges, dbVars
<1>2. f \in Files
  BY VersionAssumption
<1>3. version'[f] = version[f] + 1 /\ \A g \in Files \ {f} : version'[g] = version[g]
  BY <1>1, <1>2 DEF TypeOK
<1>4. version[f] \in Nat
  BY <1>2, VersionAssumption DEF TypeOK
<1>5. \A g \in Files \ {f} : (g \in raced' <=> g \in raced) /\ (g \in mistimed' <=> g \in mistimed)
  BY <1>1
<1>7. ASSUME NEW g \in Files PROVE RecordTrue(g)' /\ LengthTrue(g)'
  <2>1. CASE g = f
    <3>1. g \in Items => db[g].time \in 0..MaxVersion /\ db[g].time <= version[g]
      BY <1>2 DEF TrueInv, RecordTrue, TypeOK, Items, Record
    <3>2. Items' = Items
      BY <1>1 DEF Items
    <3>3. length[g].mtime \in 0..MaxVersion /\ length[g].mtime <= version[g]
      BY <1>2 DEF TrueInv, LengthTrue, TypeOK, Length
    <3> QED
      BY <1>1, <1>3, <1>4, <2>1, <3>1, <3>2, <3>3, VersionAssumption DEF RecordTrue, LengthTrue
  <2>2. CASE g # f
    BY <1>1, <1>3, <1>5, <2>2 DEF TrueInv, RecordTrue, LengthTrue, TagsTrue, Items
  <2> QED
    BY <2>1, <2>2
<1>8. ASSUME NEW t \in Threads PROVE ReadTrue(t)'
  <2> DEFINE c == call[t]
  <2>1. CASE ~At(t, {"length", "read", "stamp", "gc", "put"})
    BY <1>1, <2>1 DEF ReadTrue, At
  <2>2. CASE At(t, {"length", "read", "stamp", "gc", "put"})
    <3>1. c.file \in Files /\ c.time \in 0..MaxVersion
      BY <2>2, WorkType DEF At, TypeOK
    <3>2. CASE c.file # f
      BY <1>1, <1>3, <1>5, <3>1, <3>2 DEF TrueInv, ReadTrue, TagsTrue, At
    <3>3. CASE c.file = f
      <4>1. At(t, {"length", "read", "stamp"}) /\ f \notin raced' => Filled(c.tags) = {}
        BY <1>1, <3>3 DEF HalfRead, At
      <4>2. At(t, {"gc", "put"}) => c.time <= version[f]
        BY <3>3 DEF TrueInv, ReadTrue
      <4> QED
        BY <1>1, <1>3, <1>4, <3>1, <3>3, <4>1, <4>2, VersionAssumption DEF ReadTrue, At, TagsTrue, Stale
    <3> QED
      BY <3>2, <3>3
  <2> QED
    BY <2>1, <2>2
<1> QED
  BY <1>7, <1>8 DEF TrueInv

(* A length that is set is that of the file, or the file is mistimed. *)
LEMMA LengthsTrue ==
    ASSUME TypeOK, TrueInv, SetLength
    PROVE  TrueInv'
<1>1. PICK f \in Played :
        \/ \E v \in 1..version[f] : v >= length[f].of /\ SetsLength(f, v)
        \/ length' = [length EXCEPT ![f] = NoLength] /\ UNCHANGED mistimed
  BY DEF SetLength
<1>2. f \in Files /\ version[f] \in Nat
  BY VersionAssumption DEF TypeOK
<1>3. UNCHANGED <<version, db, call, raced>>
  BY DEF SetLength, dbVars
<1>4. mistimed \subseteq mistimed' /\ \A g \in Files \ {f} : length'[g] = length[g]
  BY <1>1, <1>2 DEF SetsLength, TypeOK
<1>5. LengthTrue(f)'
  <2>1. CASE length' = [length EXCEPT ![f] = NoLength] /\ UNCHANGED mistimed
    BY <1>2, <1>3, <2>1 DEF LengthTrue, NoLength, TypeOK
  <2>2. ASSUME NEW v \in 1..version[f], SetsLength(f, v) PROVE LengthTrue(f)'
    <3>1. length'[f] = [of |-> v, mtime |-> version[f]]
      BY <1>2, <2>2 DEF SetsLength, TypeOK
    <3> QED
      BY <1>2, <1>3, <2>2, <3>1 DEF SetsLength, LengthTrue
  <2> QED
    BY <1>1, <2>1, <2>2
<1>6. \A g \in Files : LengthTrue(g)'
  BY <1>3, <1>4, <1>5 DEF TrueInv, LengthTrue
<1>7. \A g \in Files : RecordTrue(g)'
  BY <1>3, <1>4 DEF TrueInv, RecordTrue, TagsTrue, Items
<1>8. \A t \in Threads : ReadTrue(t)'
  BY <1>3, <1>4 DEF TrueInv, ReadTrue, TagsTrue, At
<1> QED
  BY <1>6, <1>7, <1>8 DEF TrueInv

LEMMA NextTrue ==
    ASSUME EngineTypeOK, LifeInv, TrueInv, [Next]_engineVars
    PROVE  TrueInv'
<1>1. TypeOK
  BY DEF EngineTypeOK
<1>2. CASE AllIdle
  <2>1. UNCHANGED <<fileVars, version, db, raced, mistimed>> /\ \A t \in Threads : Idle(t)
    BY <1>2 DEF AllIdle, fileVars, dbVars, pastVars
  <2> QED
    BY <2>1, IdleTrue, SameRecords DEF TrueInv
<1> QED
  BY <1>1, <1>2, NextActions, ReadAddTrue, ChangesTrue, LengthsTrue

(* A record that has its file's time has its file's tags, unless the file  *)
(* changed while they were read; its length may be the playlist's, if that *)
(* was set too late.                                                       *)
THEOREM RecordsTrue == Spec => []RecordsAreTrue
<1> DEFINE I == EngineTypeOK /\ LifeInv /\ TrueInv
<1>1. Init => I
  BY InitType, InitLife, InitTrue
<1>2. I /\ [Next]_engineVars => I'
  BY NextType, NextLife, NextTrue
<1>3. I => RecordsAreTrue
  BY TrueImplies
<1> HIDE DEF I
<1> QED
  BY <1>1, <1>2, <1>3, PTL DEF Spec

-----------------------------------------------------------------------------
(* The limit is kept. *)

Adding(t) == At(t, {"put", "count"})

(* How many items there may be. *)
Most == Larger(MaxItems, found)

(* One thread at most adds a record; it has seen room for it, or counts    *)
(* from a number that is at most the new one below.                        *)
LimitInv ==
    /\ \A t, u \in Threads : Adding(t) /\ Adding(u) => t = u
    /\ Cardinality(Items) <= Most
    /\ nitems >= 0 /\ (\A t \in Threads : ~At(t, {"count"})) => nitems >= Cardinality(Items)
    /\ \A t \in Threads :
         /\ At(t, {"put"})   => nitems >= 0 /\ Cardinality(Items) < Most
         /\ At(t, {"count"}) => call[t].n = nitems /\ nitems + 1 >= Cardinality(Items)

LEMMA LimitImplies == (~together /\ ~failed => LimitInv) => LimitIsKept
BY DEF LimitInv, LimitIsKept, Most, At

LEMMA MostType == TypeOK => Most \in Nat /\ Most >= MaxItems
BY MaxItemsAssumption DEF TypeOK, Most, Larger

LEMMA InitLimit == Init => LimitInv
<1> SUFFICES ASSUME Init PROVE LimitInv
  OBVIOUS
<1>1. CacheInit
  BY DEF Init
<1>2. Cardinality(Items) \in Nat /\ found = Cardinality(Items)
  BY <1>1, ItemsFinite DEF CacheInit
<1> QED
  BY <1>1, <1>2, MaxItemsAssumption DEF CacheInit, LimitInv, Most, Larger, Adding, At

(* Nothing changes for a thread that does not add, and nothing in the rest. *)
LEMMA IdleLimit ==
    ASSUME LimitInv, \A t \in Threads : ~At(t, {"put", "count"})' \/ call'[t] = call[t],
           UNCHANGED <<db, nitems, found>>,
           \A t \in Threads : ~At(t, {"count"}) \/ call'[t] = call[t]
    PROVE  LimitInv'
<1>1. Items' = Items /\ Most' = Most
  BY DEF Items, Most, Larger
<1> QED
  BY <1>1 DEF LimitInv, Adding, At

(* To collect without a failure leaves room, and an exact count. *)
LEMMA CollectsRoom ==
    ASSUME TypeOK, Cardinality(Items) <= Most, Collects, ~failed'
    PROVE  nitems' = Cardinality(Items') /\ Cardinality(Items') < Most
<1>1. PICK seen \in SUBSET Items : CountsItems(seen) \/ RemovesItem(seen)
  BY DEF Collects
<1>2. CASE CountsItems(seen)
  <2>1. seen = Items /\ ~AtLimit(Cardinality(seen)) /\ Items' = Items
    BY <1>2 DEF CountsItems, Items
  <2> QED
    BY <1>2, <2>1, MostType, MaxItemsAssumption, ItemsFinite DEF CountsItems, AtLimit
<1>3. CASE RemovesItem(seen)
  <2>1. seen = Items /\ nitems' = Cardinality(Items) - 1
    BY <1>3 DEF RemovesItem
  <2>2. PICK f \in Items : db' = [db EXCEPT ![f] = NoRecord]
    BY <1>3, <2>1 DEF RemovesItem
  <2>3. Items' = Items \ {f}
    BY <2>2 DEF Items, TypeOK
  <2>4. Cardinality(Items') = Cardinality(Items) - 1
    BY <2>3, ItemsFinite, FS_RemoveElement
  <2> QED
    BY <2>1, <2>4, ItemsFinite, MostType
<1> QED
  BY <1>1, <1>2, <1>3

LEMMA GcLimit ==
    ASSUME TypeOK, LimitInv, NEW t \in Threads, Gc(t), ~together', ~failed'
    PROVE  LimitInv'
<1>1. Moves(t, {"put"}) /\ \A u \in Threads \ {t} : ~Adding(u)'
  BY GcMoves DEF Gc, Adding, At, Moves
<1>2. \A u \in Threads : ~At(u, {"count"})
  BY DEF Gc, At
<1>3. Most' = Most
  BY DEF Gc, Most, Larger
<1>4. nitems' >= 0 /\ nitems' >= Cardinality(Items') /\ Cardinality(Items') < Most
  <2>1. CASE HasRoom
    <3>1. Items' = Items /\ nitems' = nitems
      BY <2>1 DEF Gc, dbVars, Items
    <3> QED
      BY <1>2, <2>1, <3>1, MostType, MaxItemsAssumption, ItemsFinite DEF HasRoom, LimitInv, TypeOK
  <2>2. CASE ~HasRoom
    <3>1. Collects
      BY <2>2 DEF Gc
    <3>2. nitems' \in Nat
      BY <3>1, CollectsType
    <3> QED
      BY <3>1, <3>2, CollectsRoom DEF LimitInv
  <2> QED
    BY <2>1, <2>2
<1>5. Cardinality(Items') \in Nat
  <2>1. Items' \subseteq Files
    BY DEF Items
  <2> QED
    BY <2>1, FilesAssumption, FS_Subset, FS_CardinalityType
<1>6. Cardinality(Items') <= Most
  BY <1>4, <1>5, MostType
<1> QED
  BY <1>1, <1>3, <1>4, <1>6 DEF LimitInv, Adding, At, Moves

LEMMA PutLimit ==
    ASSUME TypeOK, LimitInv, NEW t \in Threads, Put(t)
    PROVE  LimitInv'
<1> DEFINE c == call[t]
<1>1. Moves(t, {"count", "answer"}) /\ UNCHANGED nitems /\ At(t, {"put"}) /\ UNCHANGED found
  BY PutMoves DEF Put, At, pastVars
<1>2. \A u \in Threads \ {t} : ~Adding(u) /\ ~Adding(u)'
  BY <1>1 DEF LimitInv, Adding, At, Moves
<1>3. nitems \in Nat /\ Cardinality(Items) < Most /\ nitems >= Cardinality(Items)
  BY <1>1, <1>2 DEF LimitInv, Adding, At, TypeOK
<1>4. c \in Work /\ c.file \in Files
  BY WorkType DEF Put, TypeOK
<1>5. CASE UNCHANGED db /\ call' = [call EXCEPT ![t] = Finished(c)]
  <2>1. Moves(t, {"answer"})
    BY <1>4, <1>5, FinishedMoves
  <2> QED
    BY <1>1, <1>5, <2>1, IdleLimit DEF At, Moves
<1>6. CASE /\ db' = [db EXCEPT ![c.file] = [time |-> c.time, tags |-> Kept(c.file, c.tags)]]
           /\ call' = [call EXCEPT ![t] = [NewCall("count", c.file, {}) EXCEPT !.n = nitems]]
  <2>1. Moves(t, {"count"}) /\ call'[t].n = nitems
    BY <1>3, <1>4, <1>6, CountedMoves
  <2>2. Items' \subseteq Items \cup {c.file}
    BY <1>4, <1>6 DEF Items, TypeOK
  <2>3. /\ Cardinality(Items \cup {c.file}) <= Cardinality(Items) + 1
        /\ IsFiniteSet(Items \cup {c.file})
    <3>1. CASE c.file \in Items
      <4>1. Items \cup {c.file} = Items
        BY <3>1
      <4> QED
        BY <4>1, ItemsFinite
    <3>2. CASE c.file \notin Items
      BY <3>2, ItemsFinite, FS_AddElement
    <3> QED
      BY <3>1, <3>2
  <2>4. Cardinality(Items') <= Cardinality(Items \cup {c.file}) /\ Cardinality(Items') \in Nat
    BY <2>2, <2>3, FS_Subset, FS_CardinalityType
  <2>5. Cardinality(Items \cup {c.file}) \in Nat
    BY <2>3, FS_CardinalityType
  <2>6. Cardinality(Items') <= nitems + 1 /\ Cardinality(Items') <= Most
    BY <1>3, <2>3, <2>4, <2>5, ItemsFinite, MostType
  <2>7. Most' = Most
    BY <1>1 DEF Most, Larger
  <2> QED
    BY <1>1, <1>2, <2>1, <2>6, <2>7 DEF LimitInv, Adding, At, Moves
<1> QED
  BY <1>3, <1>5, <1>6 DEF Put

LEMMA ReadAddLimit ==
    ASSUME TypeOK, LimitInv, NEW t \in Threads, ReadAdd(t), ~together', ~failed'
    PROVE  LimitInv'
<1>1. CASE Look(t)
  BY <1>1, LookMoves, IdleLimit DEF Look, Moves, At, dbVars, pastVars
<1>2. CASE FindLength(t)
  BY <1>2, FindMoves, IdleLimit DEF FindLength, Moves, At, dbVars, pastVars
<1>3. CASE ReadTags(t)
  BY <1>3, ReadMoves, IdleLimit DEF ReadTags, Moves, At, dbVars, pastVars
<1>4. CASE Stamp(t)
  BY <1>4, StampMoves, IdleLimit DEF Stamp, Moves, At, dbVars, pastVars
<1>5. CASE CountItem(t)
  <2>1. /\ Moves(t, {"answer"}) /\ nitems' \in Nat /\ At(t, {"count"})
        /\ Items' = Items /\ Most' = Most
    BY <1>5, CountMoves DEF CountItem, Items, Most, Larger, At, pastVars
  <2>2. nitems' = nitems + 1 /\ nitems + 1 >= Cardinality(Items)
    BY <1>5, <2>1 DEF CountItem, LimitInv
  <2>3. \A u \in Threads \ {t} : ~Adding(u)'
    BY <2>1 DEF LimitInv, Adding, At, Moves
  <2> QED
    BY <2>1, <2>2, <2>3 DEF LimitInv, Adding, At, Moves
<1>6. CASE Answer(t)
  BY <1>6, AnswerMoves, IdleLimit DEF Answer, Moves, At, dbVars, pastVars
<1> QED
  BY <1>1, <1>2, <1>3, <1>4, <1>5, <1>6, GcLimit, PutLimit DEF ReadAdd

(* What has gone wrong once is remembered. *)
LEMMA PastStays ==
    ASSUME EngineTypeOK, LifeInv, [Next]_engineVars
    PROVE  (together => together') /\ (failed => failed')
<1>1. ASSUME NEW t \in Threads, ReadAdd(t)
      PROVE  (together => together') /\ (failed => failed')
  <2>1. CASE Gc(t)
    <3>1. CASE HasRoom
      BY <2>1, <3>1 DEF Gc
    <3>2. CASE \E seen \in SUBSET Items : CountsItems(seen) \/ RemovesItem(seen)
      <4>1. failed => failed'
        BY <3>2 DEF CountsItems, RemovesItem
      <4> QED
        BY <2>1, <4>1 DEF Gc
    <3> QED
      BY <2>1, <3>1, <3>2 DEF Gc, Collects
  <2>2. CASE UNCHANGED pastVars
    BY <2>2 DEF pastVars
  <2> QED
    BY <1>1, <2>1, <2>2 DEF ReadAdd, Look, FindLength, ReadTags, Stamp, Put, CountItem, Answer
<1>2. CASE FileChanges \/ SetLength
  BY <1>2 DEF FileChanges, SetLength
<1>3. CASE AllIdle
  BY <1>3 DEF AllIdle, pastVars
<1> QED
  BY <1>1, <1>2, <1>3, NextActions

LEMMA NextLimit ==
    ASSUME EngineTypeOK, LifeInv, ~together /\ ~failed => LimitInv, [Next]_engineVars
    PROVE  ~together' /\ ~failed' => LimitInv'
<1> SUFFICES ASSUME ~together', ~failed' PROVE LimitInv'
  OBVIOUS
<1>1. TypeOK /\ LimitInv
  BY PastStays DEF EngineTypeOK
<1>2. CASE FileChanges \/ SetLength
  BY <1>1, <1>2, IdleLimit DEF FileChanges, SetLength, dbVars, At
<1>3. CASE AllIdle
  BY <1>1, <1>3, IdleLimit DEF AllIdle, dbVars, pastVars, Idle, At
<1> QED
  BY <1>1, <1>2, <1>3, NextActions, ReadAddLimit

(* The cache keeps to its limit, or does not grow if it was found above    *)
(* it, and counts no item too few, as long as its two threads do not add   *)
(* records at once and the database does not fail.                         *)
THEOREM LimitKept == Spec => []LimitIsKept
<1> DEFINE I == EngineTypeOK /\ LifeInv /\ (~together /\ ~failed => LimitInv)
<1>1. Init => I
  BY InitType, InitLife, InitLimit
<1>2. I /\ [Next]_engineVars => I'
  BY NextType, NextLife, NextLimit
<1>3. I => LimitIsKept
  BY LimitImplies
<1> HIDE DEF I
<1> QED
  BY <1>1, <1>2, <1>3, PTL DEF Spec

=============================================================================
