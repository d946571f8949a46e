----------------------------- MODULE TagsCache -----------------------------
(***************************************************************************)
(* The tags cache, library/tags_cache.cpp: tags that were read from files  *)
(* once are kept in a database, with the time of the file they are of.     *)
(* The interface's thread asks for tags; what the database does not have   *)
(* is read by the reader thread.  The interface also reads tags itself     *)
(* (tags_cache_get_immediate), in the same way.                            *)
(*                                                                         *)
(* with_db_lock() takes the lock of a record with one locker for all       *)
(* threads; a locker is never in conflict with itself, so that the lock    *)
(* keeps nobody out and is left out.  Each call of the database, each look *)
(* at a file and each region under the mutex is a step.                    *)
(*                                                                         *)
(* A version of a file stands for its time and for the tags it has; 1 is   *)
(* the version that the session finds, 0 what it was in an earlier one.    *)
(* The playing thread sets lengths in the playlist (library/player.cpp,    *)
(* audio/audio.cpp), which the cache prefers to those it can read.         *)
(***************************************************************************)
EXTENDS Integers, Sequences, FiniteSets

CONSTANTS
    Files,
    Untitled,       \* files that have no title
    Misnamed,       \* files of another format than their names say
    MaxItems,       \* TagsCacheSize
    Changing,       \* bound: files that change
    MaxVersion,     \* bound: how often they change
    Selections,     \* bound: what the interface asks for
    Recorded,       \* bound: files that earlier sessions have left records of
    OldRecords,     \* bound: those records
    Played,         \* bound: files on the playlist that are played
    NoRecord

ASSUME FilesAssumption     == IsFiniteSet(Files)
ASSUME FileKindsAssumption == Untitled \subseteq Files /\ Misnamed \subseteq Files
ASSUME MaxItemsAssumption  == MaxItems \in Nat \ {0}
ASSUME VersionAssumption   == MaxVersion \in Nat \ {0} /\ Changing \cup Played \subseteq Files
ASSUME SelectAssumption    == Selections \subseteq SUBSET {"comments", "time"}

VARIABLES
    version,        \* the version of each file
    length,         \* the length of each file in the playlist: of which
                    \*   version it is, and the time it was given (mtime)
    db,             \* the database: a record, or none, for each file
    enabled,        \* max_items is not 0
    nitems,         \* nitems
    queue,          \* queue: the requests
    stopReader,     \* stop_reader_thread
    call,           \* what each thread is doing
    asked, answered,\* history: requests, and answers to them
    raced,          \* history: files whose last change was in between the
                    \*   reading of their tags and of their time, or whose
                    \*   record an earlier session has left wrong
    mistimed,       \* history: files whose length was measured before their
                    \*   last change and set after it
    together,       \* history: both threads were adding a record at once
    failed,         \* history: not all items were counted, or none of them
                    \*   was removed at the limit
    found           \* history: how many records earlier sessions have left

fileVars    == <<version, length>>
dbVars      == <<db, nitems>>
answerVars  == <<asked, answered>>
pastVars    == <<raced, mistimed, together, failed, found>>
cacheVars   == <<fileVars, dbVars, enabled, queue, stopReader, call, answerVars, pastVars>>

Threads == {"reader", "interface"}
Kinds   == {"comments", "time"}

Unread   == -1
Unfilled == [k \in Kinds |-> Unread]

Filled(tags) == {k \in Kinds : tags[k] # Unread}

Tags    == [Kinds -> Unread..MaxVersion]
Record  == [time : 0..MaxVersion, tags : Tags]
Length  == [of : Unread..MaxVersion, mtime : 0..MaxVersion]
Request == [file : Files, sel : SUBSET Kinds]

ASSUME NoRecordAssumption   == NoRecord \notin Record
ASSUME OldRecordsAssumption == OldRecords \subseteq [time : 0..1, tags : [Kinds -> Unread..1]]

NoLength == [of |-> Unread, mtime |-> 0]

RestPcs == {"top", "wait", "exit", "idle"}
AskPcs  == {"ask", "push"}
ReadPcs == {"look", "length", "read", "stamp", "gc", "put", "count", "answer"}

Rest == [pc : RestPcs]
Work == [pc : AskPcs \cup ReadPcs, file : Files, sel : SUBSET Kinds, tags : Tags,
         time : 0..MaxVersion, n : Nat]

(* The cache is in use by a thread that is not at rest. *)
Busy(t) == call[t].pc \notin RestPcs

TypeOK ==
    /\ version \in [Files -> 0..MaxVersion]
    /\ length \in [Files -> Length]
    /\ db \in [Files -> Record \cup {NoRecord}]
    /\ enabled \in BOOLEAN
    /\ nitems \in {-1} \cup Nat
    /\ queue \in Seq(Request)
    /\ {stopReader, together, failed} \subseteq BOOLEAN
    /\ call \in [Threads -> Rest \cup Work]
    /\ {asked, answered, found} \subseteq Nat
    /\ raced \cup mistimed \subseteq Files

Kept(f, tags) == IF f \in Untitled THEN [tags EXCEPT !["comments"] = Unread] ELSE tags

(* What has been read of another version than v. *)
Stale(tags, v) == {k \in Filled(tags) : tags[k] # v}

Items == {f \in Files : db[f] # NoRecord}

(* The database is whatever is on the disk, with more than MaxItems        *)
(* records if the limit was a higher one, or wrong ones.                   *)
CacheInit ==
    /\ version = [f \in Files |-> 1]
    /\ length = [f \in Files |-> NoLength]
    /\ \E old \in SUBSET Recorded : \E records \in [old -> OldRecords] :
         db = [f \in Files |-> IF f \notin old THEN NoRecord
                              ELSE [time |-> records[f].time, tags |-> Kept(f, records[f].tags)]]
    /\ enabled = TRUE
    /\ nitems = -1
    /\ queue = <<>>
    /\ stopReader = FALSE
    /\ call = [t \in Threads |-> [pc |-> IF t = "reader" THEN "exit" ELSE "idle"]]
    /\ asked = 0
    /\ answered = 0
    /\ raced = {f \in Items : db[f].time = 1 /\ Stale(db[f].tags, 1) # {}}
    /\ mistimed = {}
    /\ together = FALSE
    /\ failed = FALSE
    /\ found = Cardinality(Items)

NewCall(pc, file, sel) ==
    [pc |-> pc, file |-> file, sel |-> sel, tags |-> Unfilled, time |-> 0, n |-> 0]

Rests(t) == [pc |-> IF t = "reader" THEN "top" ELSE "idle"]

-----------------------------------------------------------------------------
(* The record is not outdated. *)
UpToDate(f) == db[f] # NoRecord /\ db[f].time = version[f]

(* What the call has found out no longer matters: only its answer is left. *)
Finished(c) == NewCall("answer", c.file, {})

(* Whether the database gives a record that is not outdated: it may fail. *)
Gives(f) == {FALSE, enabled /\ UpToDate(f)}

(* locked_read_add: what the database has. *)
Look(t) ==
    /\ call[t].pc = "look"
    /\ LET c == call[t]
       IN  \E given \in Gives(c.file) :
             LET done == given /\ c.sel \subseteq Filled(db[c.file].tags) /\ t = "interface"
             IN  call' = [call EXCEPT ![t] =
                            IF done THEN Finished(c)
                            ELSE [c EXCEPT !.pc   = IF "time" \in c.sel THEN "length" ELSE "read",
                                           !.tags = IF given THEN db[c.file].tags ELSE Unfilled]]
    /\ UNCHANGED <<fileVars, dbVars, enabled, queue, stopReader, answerVars, pastVars>>

(* Mutation of ListedLength: the time the length was given is not looked at. *)
MutListedLengthAlways(f) == length[f].of

(* audio_get_ftime: the version whose length the playlist has for the      *)
(* present time of the file.                                               *)
ListedLength(f) == IF length[f].mtime = version[f] THEN length[f].of ELSE Unread

(* read_missing_tags: the playlist's length comes before that of the       *)
(* record and that of the file.  The content of the file is then looked    *)
(* at, which finds a misnamed one out.  What comes in between the look at  *)
(* the file's time and that at the playlist might as well come before or   *)
(* after both, as lengths may be gone at any time (SetLength).             *)
FindLength(t) ==
    /\ call[t].pc = "length"
    /\ LET c      == call[t]
           listed == ListedLength(c.file)
       IN  call' = [call EXCEPT ![t] =
                      IF listed = Unread THEN [c EXCEPT !.pc = "read"]
                      ELSE IF c.file \in Misnamed THEN Finished(c)
                      ELSE [c EXCEPT !.pc   = "read",
                                     !.sel  = @ \ {"time"},
                                     !.tags = [@ EXCEPT !["time"] = listed]]]
    /\ UNCHANGED <<fileVars, dbVars, enabled, queue, stopReader, answerVars, pastVars>>

(* A misnamed file is found out when its length is read. *)
Flagged(f, missing) == f \in Misnamed /\ "time" \in missing

(* read_file_tags: what is missing, of the version v of the file *)
ReadFrom(v, tags, missing) == [k \in Kinds |-> IF k \in missing THEN v ELSE tags[k]]

ReadTags(t) ==
    /\ call[t].pc = "read"
    /\ LET c       == call[t]
           missing == c.sel \ Filled(c.tags)
       IN  call' = [call EXCEPT ![t] =
                      IF ~enabled \/ Flagged(c.file, missing) THEN Finished(c)
                      ELSE [c EXCEPT !.pc   = "stamp",
                                     !.sel  = {},
                                     !.tags = ReadFrom(version[c.file], @, missing)]]
    /\ UNCHANGED <<fileVars, dbVars, enabled, queue, stopReader, answerVars, pastVars>>

(* tags_cache_add: the time of the file. *)
Stamp(t) ==
    /\ call[t].pc = "stamp"
    /\ call' = [call EXCEPT ![t].pc = "gc", ![t].time = version[call[t].file]]
    /\ UNCHANGED <<fileVars, dbVars, enabled, queue, stopReader, answerVars, pastVars>>

(* The count is known, and below the limit. *)
HasRoom == 0 <= nitems /\ nitems < MaxItems

(* Mutation of AtLimit: one item more is let in.                           *)
MutAtLimitAbove(n) == n > MaxItems

AtLimit(n) == n >= MaxItems

(* The items that were seen are counted, and none is removed: because      *)
(* there are few, or because none can be read or is old enough.            *)
CountsItems(seen) ==
    /\ nitems' = Cardinality(seen)
    /\ failed' = (failed \/ seen # Items \/ AtLimit(Cardinality(seen)))
    /\ UNCHANGED db

(* Mutation of RemovesItem: the count is not taken from the walk.          *)
MutRemovesUncounted(seen) ==
    /\ AtLimit(Cardinality(seen))
    /\ nitems' = nitems - 1
    /\ \/ /\ \E f \in seen : db' = [db EXCEPT ![f] = NoRecord]
          /\ failed' = (failed \/ seen # Items)
       \/ UNCHANGED db /\ failed' = TRUE

(* At the limit one item, the oldest, goes, unless the database refuses.   *)
(* Ages are left out: it may be any.  The count does not ask whether.      *)
RemovesItem(seen) ==
    /\ AtLimit(Cardinality(seen))
    /\ nitems' = Cardinality(seen) - 1
    /\ \/ /\ \E f \in seen : db' = [db EXCEPT ![f] = NoRecord]
          /\ failed' = (failed \/ seen # Items)
       \/ UNCHANGED db /\ failed' = TRUE

(* The walk sees all items, unless the cursor fails on the way. *)
Collects == \E seen \in SUBSET Items : CountsItems(seen) \/ RemovesItem(seen)

(* tags_cache_gc *)
Gc(t) ==
    /\ call[t].pc = "gc"
    /\ IF HasRoom THEN UNCHANGED <<dbVars, failed>> ELSE Collects
    /\ call' = [call EXCEPT ![t].pc = "put"]
    /\ together' = (together \/ \E u \in Threads \ {t} : call[u].pc \in {"put", "count"})
    /\ UNCHANGED <<fileVars, enabled, queue, stopReader, answerVars, raced, mistimed, found>>

(* The record is written, and a known count loaded; or the database        *)
(* refuses.                                                                *)
Put(t) ==
    /\ call[t].pc = "put"
    /\ LET c == call[t]
       IN  \/ /\ db' = [db EXCEPT ![c.file] = [time |-> c.time, tags |-> Kept(c.file, c.tags)]]
              /\ call' = [call EXCEPT ![t] =
                            IF nitems >= 0 THEN [NewCall("count", c.file, {}) EXCEPT !.n = nitems]
                            ELSE Finished(c)]
           \/ /\ call' = [call EXCEPT ![t] = Finished(c)]
              /\ UNCHANGED db
    /\ UNCHANGED <<fileVars, enabled, nitems, queue, stopReader, answerVars, pastVars>>

(* nitems++ is a load and a store, without a lock. *)
CountItem(t) ==
    /\ call[t].pc = "count"
    /\ nitems' = call[t].n + 1
    /\ call' = [call EXCEPT ![t] = Finished(@)]
    /\ UNCHANGED <<fileVars, db, enabled, queue, stopReader, answerVars, pastVars>>

(* tags_response, or the return to the caller. *)
Answer(t) ==
    /\ call[t].pc = "answer"
    /\ call' = [call EXCEPT ![t] = Rests(t)]
    /\ answered' = IF t = "reader" THEN answered + 1 ELSE answered
    /\ UNCHANGED <<fileVars, dbVars, enabled, queue, stopReader, asked, pastVars>>

ReadAdd(t) ==
    \/ Look(t) \/ FindLength(t) \/ ReadTags(t) \/ Stamp(t)
    \/ Gc(t) \/ Put(t) \/ CountItem(t) \/ Answer(t)

-----------------------------------------------------------------------------
(* reader_thread: the head of its loop. *)
TakeRequest ==
    /\ call["reader"].pc = "top"
    /\ ~stopReader
    /\ IF queue = <<>>
       THEN call' = [call EXCEPT !["reader"] = [pc |-> "wait"]] /\ UNCHANGED queue
       ELSE /\ call' = [call EXCEPT !["reader"] = NewCall("look", Head(queue).file, Head(queue).sel)]
            /\ queue' = Tail(queue)
    /\ UNCHANGED <<fileVars, dbVars, enabled, stopReader, answerVars, pastVars>>

ReaderExits ==
    /\ call["reader"].pc = "top"
    /\ stopReader
    /\ call' = [call EXCEPT !["reader"] = [pc |-> "exit"]]
    /\ UNCHANGED <<fileVars, dbVars, enabled, queue, stopReader, answerVars, pastVars>>

Reader == TakeRequest \/ ReaderExits \/ ReadAdd("reader")

(* notify_one() on request_cond *)
WakeReader(calls) ==
    IF calls["reader"].pc = "wait" THEN [calls EXCEPT !["reader"] = [pc |-> "top"]] ELSE calls

-----------------------------------------------------------------------------
(* tags_cache_add_request and tags_cache_get_immediate are called. *)
Ask(f, sel) ==
    /\ call["interface"].pc = "idle"
    /\ call' = [call EXCEPT !["interface"] = NewCall("ask", f, sel)]
    /\ asked' = asked + 1
    /\ UNCHANGED <<fileVars, dbVars, enabled, queue, stopReader, answered, pastVars>>

GetImmediate(f) ==
    /\ call["interface"].pc = "idle"
    /\ call' = [call EXCEPT !["interface"] = NewCall("look", f, {"time"})]
    /\ UNCHANGED <<fileVars, dbVars, enabled, queue, stopReader, answerVars, pastVars>>

(* locked_add_request: the database has everything that is asked for. *)
AskLook ==
    /\ call["interface"].pc = "ask"
    /\ LET c == call["interface"]
       IN  \E given \in Gives(c.file) :
             IF given /\ c.sel \subseteq Filled(db[c.file].tags)
             THEN /\ answered' = answered + 1
                  /\ call' = [call EXCEPT !["interface"] = Rests("interface")]
             ELSE call' = [call EXCEPT !["interface"].pc = "push"] /\ UNCHANGED answered
    /\ UNCHANGED <<fileVars, dbVars, enabled, queue, stopReader, asked, pastVars>>

(* Mutation of Awoken: the reader is not told.                             *)
MutAwokenNobody(calls) == calls

(* Whom a new request wakes up. *)
Awoken(calls) == WakeReader(calls)

AskPush ==
    /\ call["interface"].pc = "push"
    /\ queue' = Append(queue, [file |-> call["interface"].file, sel |-> call["interface"].sel])
    /\ call' = Awoken([call EXCEPT !["interface"] = Rests("interface")])
    /\ UNCHANGED <<fileVars, dbVars, enabled, stopReader, answerVars, pastVars>>

Called == AskLook \/ AskPush \/ ReadAdd("interface")

-----------------------------------------------------------------------------
(* A thread has read tags of the file, and not yet its time. *)
HalfRead(f) ==
    \E t \in Threads : /\ call[t].pc \in {"length", "read", "stamp"}
                       /\ call[t].file = f
                       /\ Filled(call[t].tags) # {}

FileChanges ==
    \E f \in Changing :
      /\ version[f] < MaxVersion
      /\ version' = [version EXCEPT ![f] = @ + 1]
      /\ raced' = IF HalfRead(f) THEN raced \cup {f} ELSE raced \ {f}
      /\ mistimed' = mistimed \ {f}
      /\ UNCHANGED <<length, dbVars, enabled, queue, stopReader, call, answerVars, together, failed, found>>

(* audio_plist_set_time: the length that a decoder has measured when it    *)
(* was opened, which may be a while ago, is given the file's present time. *)
SetsLength(f, v) ==
    /\ length' = [length EXCEPT ![f] = [of |-> v, mtime |-> version[f]]]
    /\ mistimed' = IF v = version[f] THEN mistimed ELSE mistimed \cup {f}

(* A file is played or precached, by one decoder after the other; a        *)
(* decoder may not know the length, and the file may leave the playlist.   *)
SetLength ==
    /\ \E f \in Played :
         \/ \E v \in 1..version[f] : v >= length[f].of /\ SetsLength(f, v)
         \/ length' = [length EXCEPT ![f] = NoLength] /\ UNCHANGED mistimed
    /\ UNCHANGED <<version, dbVars, enabled, queue, stopReader, call, answerVars, raced, together,
                   failed, found>>

-----------------------------------------------------------------------------
(* Properties. *)

(* A record that has the file's time has the file's tags, whoever read     *)
(* them and whatever was in the cache before, unless the file changed in   *)
(* between the reading of the two (locked_read_add).  Only its length may  *)
(* be of an earlier version, if a decoder that was opened before the last  *)
(* change has set it in the playlist after that (audio_plist_set_time).    *)
RecordsAreTrue ==
    \A f \in Items \ raced :
      db[f].time = version[f] =>
        Stale(db[f].tags, version[f]) \subseteq IF f \in mistimed THEN {"time"} ELSE {}

Larger(m, n) == IF m >= n THEN m ELSE n

(* The count, where it is known and no item is being counted, is at least  *)
(* the number of the items (the comment of nitems), and the cache never    *)
(* has more than its limit or than it was found with (TagsCacheSize: "the  *)
(* number will not decrease immediately (if at all)"), as long as the      *)
(* threads do not add at the same time and the database does not fail.     *)
LimitIsKept ==
    ~together /\ ~failed =>
      /\ Cardinality(Items) <= Larger(MaxItems, found)
      /\ nitems >= 0 /\ (\A t \in Threads : call[t].pc # "count") => nitems >= Cardinality(Items)
=============================================================================
