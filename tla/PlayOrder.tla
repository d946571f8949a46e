----------------------------- MODULE PlayOrder -----------------------------
(***************************************************************************)
(* Which file is played next, audio/audio.cpp: the playing thread goes     *)
(* from file to file over the playlist, its shuffled copy or the queue,    *)
(* while the interface thread starts, stops and skips, edits the lists and *)
(* toggles the options.                                                    *)
(*                                                                         *)
(* plist_mtx and curr_playing_mtx are held within a step.  player(), which *)
(* plays one file, may return at any time: because the file ends, because  *)
(* it cannot be played, or because player_stop() was called.               *)
(***************************************************************************)
EXTENDS Playlist, SequencesExt

CONSTANTS
    FirstItems,     \* the playlist that the interface has sent at first
    Toggles,        \* bound: options that the user changes
    FirstOptions,   \* bound: how the options may be set at first
    MaxItems,       \* bound: items, deleted ones included, of a list
    MaxCalls        \* bound: calls of the interface

Options == {"Shuffle", "Repeat", "AutoNext", "QueueNextSongReturn"}

(* audio_plist_add() adds no file that is there already. *)
ASSUME FirstAssumption  == FirstItems \in Seq(Files) /\ IsInjective(FirstItems)
ASSUME OptionAssumption == Toggles \subseteq Options /\ FirstOptions \subseteq [Options -> BOOLEAN]
ASSUME BoundAssumption  == MaxItems \in Nat /\ MaxCalls \in Nat

VARIABLES
    playlist, shuffled, queue,  \* the three lists
    currPlist,      \* curr_plist: the name of one of them
    currPlaying,    \* curr_playing: an index into it
    fname,          \* curr_playing_fname
    beforeQueue,    \* before_queue_fname
    inQueue,        \* started_playing_in_queue
    stopPlaying,    \* stop_playing
    playNext, playPrev, \* play_next and play_prev
    option,         \* the options that decide
    ppc, file,      \* the playing thread: where it is, and its file
    running,        \* play_thread_running
    upc, target,    \* the interface: its call, and the file it wants played
    calls,          \* calls so far
    played,         \* history: files of the lists played in a row, since
                    \*   the last call or file of the queue
    whole,          \* history: played starts with the start of playing,
                    \*   or of the shuffled order
    left            \* history: playing started, or stays in a list, with what
                    \*   the queue left behind

lists     == <<playlist, shuffled, queue>>
position  == <<currPlist, currPlaying, fname, beforeQueue, inQueue>>
skips     == <<playNext, playPrev>>
threadPc  == <<ppc, file>>
uiVars    == <<running, upc, target, calls>>
history   == <<played, whole, left>>
orderVars == <<lists, position, skips, stopPlaying, option, threadPc, uiVars, history>>

Names == {"playlist", "shuffled", "queue"}

List(name) ==
    CASE name = "playlist" -> playlist [] name = "shuffled" -> shuffled [] OTHER -> queue

NoCall == "none"

ThreadPcs == {"exit", "pick", "start", "playing", "ended", "choose"}
UiPcs     == {"idle", "stop", "play"}

(* The variables have their types, and the lists keep what their search    *)
(* trees are for: a file that is in a list is found there by its name,     *)
(* whatever was deleted, added again, swapped or shuffled before           *)
(* (plist_find_fname); hence it is there only once.                        *)
TypeOK ==
    /\ \A n \in Names : IsPlaylist(List(n))
    /\ currPlist \in Names
    /\ currPlaying \in Nat
    /\ {fname, beforeQueue, file} \subseteq Files \cup {NoFile}
    /\ {inQueue, stopPlaying, playNext, playPrev, running, whole, left} \subseteq BOOLEAN
    /\ option \in [Options -> BOOLEAN]
    /\ ppc \in ThreadPcs
    /\ upc \in UiPcs
    /\ target \in Files \cup {NoFile, NoCall}
    /\ calls \in 0..MaxCalls
    /\ played \in Seq(Files)

Init ==
    /\ playlist = LET items == [i \in DOMAIN FirstItems |-> [file |-> FirstItems[i], deleted |-> FALSE]]
                  IN  [items |-> items, tree |-> TreeOver(items)]
    /\ shuffled = EmptyList
    /\ queue = EmptyList
    /\ currPlist = "playlist"
    /\ currPlaying = None
    /\ fname = NoFile
    /\ beforeQueue = NoFile
    /\ inQueue = FALSE
    /\ stopPlaying = FALSE
    /\ playNext = FALSE
    /\ playPrev = FALSE
    /\ option \in FirstOptions
    /\ ppc = "exit"
    /\ file = NoFile
    /\ running = FALSE
    /\ upc = "idle"
    /\ target = NoCall
    /\ calls = 0
    /\ played = <<>>
    /\ whole = FALSE
    /\ left = FALSE

-----------------------------------------------------------------------------
(* play_thread_func. *)

(* The loop's head: the file is looked up, and skips so far are forgotten. *)
PickFile ==
    /\ ppc = "pick"
    /\ currPlaying # None
    /\ file' = FileAt(List(currPlist), currPlaying)
    /\ ppc' = IF file' = NoFile THEN "ended" ELSE "start"
    /\ playNext' = FALSE
    /\ playPrev' = FALSE
    /\ UNCHANGED <<lists, position, stopPlaying, option, uiVars, history>>

(* The files played in a row; not recorded while they may repeat for ever. *)
Recorded == IF option["Repeat"] THEN <<>> ELSE Append(played, file)

StartFile ==
    /\ ppc = "start"
    /\ fname' = file
    /\ ppc' = "playing"
    /\ IF currPlist = "queue"
       THEN played' = <<>> /\ whole' = FALSE
       ELSE played' = Recorded /\ UNCHANGED whole
    /\ UNCHANGED <<lists, currPlist, currPlaying, beforeQueue, inQueue, skips, stopPlaying,
                   option, file, uiVars, left>>

PlayerReturns ==
    /\ ppc = "playing"
    /\ ppc' = "ended"
    /\ UNCHANGED <<lists, position, skips, stopPlaying, option, file, uiVars, history>>

(* stop_playing is looked at without a lock. *)
FileEnded ==
    /\ ppc = "ended"
    /\ IF stopPlaying
       THEN currPlaying' = None /\ ppc' = "pick"
       ELSE ppc' = "choose" /\ UNCHANGED currPlaying
    /\ UNCHANGED <<lists, currPlist, fname, beforeQueue, inQueue, skips, stopPlaying, option,
                   file, uiVars, history>>

GoNext == playNext \/ option["AutoNext"]

(* Mutation of Popped: the song stays in the queue.                        *)
MutPoppedNot == queue

(* The queue without the song that is played from it. *)
Popped == PlistDelete(queue, PlistNext(queue, None))

(* go_to_another_file: the queue comes first. *)
GoToQueue ==
    /\ ppc = "choose"
    /\ Count(queue) > 0
    /\ GoNext
    /\ beforeQueue' = IF beforeQueue = NoFile THEN fname ELSE beforeQueue
    /\ currPlist' = "queue"
    /\ currPlaying' = PlistNext(queue, None)
    /\ queue' = Popped
    /\ ppc' = "pick"
    /\ UNCHANGED <<playlist, shuffled, fname, inQueue, skips, stopPlaying, option, file,
                   uiVars, history>>

(* The song of before the queue, if we return to it, else the last one.    *)
Returned ==
    IF beforeQueue # NoFile /\ option["QueueNextSongReturn"] THEN beforeQueue ELSE fname

(* Where in the list we are: at that song, or, if it is not there, at the  *)
(* song of before the queue.                                               *)
Place(p) ==
    IF FindFname(p, Returned) # None THEN FindFname(p, Returned)
    ELSE IF Returned = fname THEN FindFname(p, beforeQueue) ELSE None

AtStart(p) == Place(p) = None \/ inQueue

(* The orders of n items. *)
Orders(n) == {pi \in [1..n -> 1..n] : \A i \in 2..n : \A j \in 1..(i - 1) : pi[i] # pi[j]}

(* The list p with the playlist added to it, in any order. *)
Fresh(p) ==
    LET all == PlistCat(p, playlist)
    IN  {Shuffled(all, order) : order \in Orders(Len(all.items))}

(* Mutation of Drawn: what is played is not put in front of the rest.      *)
MutDrawnUnswapped == IF Count(shuffled) = 0 THEN Fresh(shuffled) ELSE {shuffled}

(* Mutation of Drawn: a new order is drawn before every song.              *)
MutDrawnAlways == {SwapFirst(s, Returned) : s \in Fresh(shuffled)}

NothingDrawn == Count(playlist) > 0 /\ Count(shuffled) = 0

(* The shuffled list, drawn anew if it has nothing left. *)
Drawn ==
    IF NothingDrawn
    THEN {SwapFirst(s, Returned) : s \in Fresh(shuffled)}
    ELSE {shuffled}

Ordered == IF option["Shuffle"] THEN "shuffled" ELSE "playlist"

(* History: a new order is a new start, with the song that stands first in *)
(* it as played, unless we go on in the middle of the order.               *)
NewOrder == option["Shuffle"] /\ NothingDrawn

Begun ==
    /\ played' = IF playPrev THEN <<>>
                 ELSE IF ~NewOrder THEN played
                 ELSE IF inQueue \/ Returned \notin LiveFiles(playlist) THEN <<>>
                 ELSE <<Returned>>
    /\ whole'  = IF NewOrder
                 THEN ~playPrev /\ {Returned, beforeQueue} \cap LiveFiles(playlist) \subseteq {Returned}
                 ELSE whole

(* What going on in a list, not in the queue, does whatever comes next.     *)
InList ==
    /\ ppc = "choose"
    /\ ~(Count(queue) > 0 /\ GoNext)
    /\ currPlist' = Ordered
    /\ fname' = Returned
    /\ beforeQueue' = NoFile
    /\ ppc' = "pick"
    /\ Begun
    /\ UNCHANGED <<playlist, queue, skips, stopPlaying, option, file, uiVars>>

Candidates ==
    IF ppc # "choose" THEN {} ELSE IF option["Shuffle"] THEN Drawn ELSE {playlist}

Kept(p) == shuffled' = IF option["Shuffle"] THEN p ELSE shuffled

GoPrev ==
    \E p \in Candidates :
      LET prev == PlistPrev(p, IF AtStart(p) THEN None ELSE Place(p))
      IN  /\ InList
          /\ playPrev
          /\ Count(p) > 0
          /\ currPlaying' = IF prev = None /\ option["Repeat"] THEN PlistLast(p) ELSE prev
          /\ inQueue' = FALSE
          /\ Kept(p)
          /\ UNCHANGED left

(* Forward; at the end, from the beginning again, in a new order.          *)
GoForward ==
    \E p \in Candidates :
      LET next == PlistNext(p, IF AtStart(p) THEN None ELSE Place(p))
          over == next = None /\ option["Repeat"]
      IN  /\ InList
          /\ ~playPrev
          /\ GoNext
          /\ Count(p) > 0
          /\ \E again \in IF over /\ option["Shuffle"] THEN Fresh(EmptyList) ELSE {p} :
               /\ currPlaying' = IF over THEN PlistNext(again, None) ELSE next
               /\ Kept(again)
          /\ inQueue' = FALSE
          /\ UNCHANGED left

(* The same index again, or the end.  That playing started in the queue is *)
(* not forgotten then.                                                     *)
Stay ==
    \E p \in Candidates :
      /\ InList
      /\ Count(p) = 0 \/ (~playPrev /\ ~GoNext)
      /\ currPlaying' = IF option["Repeat"] THEN currPlaying ELSE None
      /\ Kept(p)
      /\ left' = (left \/ (inQueue /\ option["Repeat"]))
      /\ UNCHANGED inQueue

GoToAnotherFile == GoToQueue \/ GoPrev \/ GoForward \/ Stay

ThreadEnds ==
    /\ ppc = "pick"
    /\ currPlaying = None
    /\ fname' = NoFile
    /\ ppc' = "exit"
    /\ UNCHANGED <<lists, currPlist, currPlaying, beforeQueue, inQueue, skips, stopPlaying,
                   option, file, uiVars, history>>

PlayingThread ==
    PickFile \/ StartFile \/ PlayerReturns \/ FileEnded \/ GoToAnotherFile \/ ThreadEnds

-----------------------------------------------------------------------------
(* The interface. *)

(* A call: the order of what follows is the user's.                        *)
Call ==
    /\ upc = "idle"
    /\ calls < MaxCalls
    /\ calls' = calls + 1
    /\ played' = <<>>
    /\ whole' = FALSE

(* audio_stop() and audio_play(), which begins with it: the thread is      *)
(* joined if there is one.                                                 *)
StopOrPlay(f) ==
    /\ Call
    /\ target' = f
    /\ stopPlaying' = running
    /\ upc' = IF running THEN "stop" ELSE IF f = NoCall THEN "idle" ELSE "play"
    /\ UNCHANGED <<lists, position, skips, option, threadPc, running, left>>

Joined ==
    /\ upc = "stop"
    /\ ppc = "exit"
    /\ running' = FALSE
    /\ stopPlaying' = FALSE
    /\ upc' = IF target = NoCall THEN "idle" ELSE "play"
    /\ UNCHANGED <<lists, position, skips, option, threadPc, target, calls, history>>

(* The index that audio_play() starts with in the list p. *)
FirstIn(p) == IF target # NoFile THEN FindFname(p, target) ELSE PlistNext(p, None)

FromQueue == Count(queue) > 0 /\ target = NoFile

PlayFromQueue ==
    /\ FromQueue
    /\ currPlist' = "queue"
    /\ currPlaying' = PlistNext(queue, None)
    /\ queue' = Popped
    /\ inQueue' = TRUE
    /\ left' = (beforeQueue # NoFile)
    /\ UNCHANGED <<playlist, shuffled>>

PlayFromList ==
    /\ ~FromQueue
    /\ currPlist' = Ordered
    /\ shuffled' \in IF option["Shuffle"]
                     THEN {SwapFirst(s, target) : s \in Fresh(EmptyList)} ELSE {shuffled}
    /\ currPlaying' = FirstIn(IF option["Shuffle"] THEN shuffled' ELSE playlist)
    /\ left' = (inQueue \/ beforeQueue # NoFile)
    /\ UNCHANGED <<playlist, queue, inQueue>>

PlayStarts ==
    /\ upc = "play"
    /\ PlayFromQueue \/ PlayFromList
    /\ running' = TRUE
    /\ ppc' = "pick"
    /\ upc' = "idle"
    /\ target' = NoCall
    /\ played' = <<>>
    /\ whole' = ~FromQueue
    /\ UNCHANGED <<fname, beforeQueue, skips, stopPlaying, option, file, calls>>

(* audio_next() and audio_prev() also call player_stop(). *)
Skip ==
    /\ Call
    /\ running
    /\ \/ playNext' = TRUE /\ UNCHANGED playPrev
       \/ playPrev' = TRUE /\ UNCHANGED playNext
    /\ UNCHANGED <<lists, position, stopPlaying, option, threadPc, running, upc, target, left>>

EditFrame ==
    UNCHANGED <<position, skips, stopPlaying, option, threadPc, running, upc, target, left>>

Fits(p) == Len(p.items) < MaxItems

Added(p, f) == IF FindFname(p, f) = None THEN PlistAdd(p, f) ELSE p

(* Mutation of Reordered: the shuffled list is kept when a file is added.  *)
MutReorderedNot == shuffled

(* What an addition to the playlist makes of its shuffled copy. *)
Reordered == EmptyList

(* audio_plist_add, _delete, _move, _clear *)
EditPlaylist ==
    /\ Call
    /\ \/ \E f \in Files : /\ Fits(playlist)
                          /\ playlist' = Added(playlist, f)
                          /\ shuffled' = Reordered
       \/ \E f \in Files : /\ playlist' = DeleteFname(playlist, f)
                          /\ shuffled' = DeleteFname(shuffled, f)
       \/ \E f, g \in LiveFiles(playlist) : /\ f # g
                                           /\ playlist' = SwapFiles(playlist, f, g)
                                           /\ UNCHANGED shuffled
       \/ playlist' = EmptyList /\ shuffled' = EmptyList
    /\ UNCHANGED queue
    /\ EditFrame

(* audio_queue_add, _delete, _clear *)
EditQueue ==
    /\ Call
    /\ \/ \E f \in Files : Fits(queue) /\ queue' = Added(queue, f)
       \/ \E f \in LiveFiles(queue) : queue' = DeleteFname(queue, f)
       \/ queue' = EmptyList
    /\ UNCHANGED <<playlist, shuffled>>
    /\ EditFrame

(* engine_set_option *)
Toggle ==
    /\ Call
    /\ \E o \in Toggles : option' = [option EXCEPT ![o] = ~@]
    /\ UNCHANGED <<lists, position, skips, stopPlaying, threadPc, running, upc, target, left>>

Interface ==
    \/ \E f \in Files \cup {NoFile, NoCall} : StopOrPlay(f)
    \/ Skip \/ EditPlaylist \/ EditQueue \/ Toggle

UiGoesOn == Joined \/ PlayStarts

Next == PlayingThread \/ Interface \/ UiGoesOn

(* The playing thread goes on, and every file ends at last; the interface  *)
(* finishes the call it is in.  The user need not do anything.  Each step  *)
(* of the two changes a program counter, and one can always be taken.      *)
ThreadMoves == ppc # "exit" /\ ppc' \in ThreadPcs \ {ppc}

UiMoves == upc # "idle" /\ (upc = "stop" => ppc = "exit") /\ upc' \in UiPcs \ {upc}

SafetySpec == Init /\ [][Next]_orderVars

Spec == SafetySpec /\ WF_ppc(ThreadMoves) /\ WF_upc(UiMoves)

-----------------------------------------------------------------------------
(* Properties. *)

(* A shuffled list that has anything in it has what the playlist has: no   *)
(* edit of the playlist leaves the shuffled copy behind (audio_plist_add,  *)
(* audio_plist_delete, go_to_another_file).                                *)
ShuffledIsPlaylist ==
    shuffled.items # <<>> => LiveFiles(shuffled) = LiveFiles(playlist)

NoneTwice == IsInjective(played)

(* While the user leaves them alone, the lists are played through without  *)
(* a file being played twice, unless Repeat is set (go_to_another_file)... *)
EachOnce == ~option["Repeat"] => NoneTwice

(* ...and what is left of an earlier visit to the queue does not matter.   *)
EachOnceIfNothingLeft == ~left => EachOnce

Chosen == ppc = "choose" /\ ppc' = "pick" /\ currPlist' # "queue"

ListEnds == Chosen /\ option["AutoNext"] /\ currPlaying' = None

(* A shuffled list that is played from its start to its end is played as a *)
(* whole: the song it started with, and then every other.                  *)
ShuffleLeavesNoneOut ==
    [][ListEnds /\ option["Shuffle"] /\ whole /\ ~left
         => ToSet(played) = LiveFiles(playlist)]_orderVars

(* Whoever goes forward or back arrives at an item that exists and is not  *)
(* deleted, or at the end, whatever happened to the lists while the last   *)
(* file was played (go_to_another_file).                                   *)
ArrivesAtAnItem ==
    [][Chosen /\ (GoNext \/ playPrev) /\ Count(List(currPlist)') > 0
         => currPlaying' \in {None} \cup Live(List(currPlist)')]_orderVars

(* audio_stop() joins a thread that ends, and without Repeat playing ends  *)
(* by itself when the user leaves it alone: the lists and the queue run    *)
(* out, even if they were emptied or changed in the middle.                *)
PlayingEnds ==
    /\ upc = "stop" ~> upc # "stop"
    /\ calls = MaxCalls /\ upc = "idle" /\ ~option["Repeat"] ~> ppc = "exit"
=============================================================================
