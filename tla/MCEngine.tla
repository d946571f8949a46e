------------------------------ MODULE MCEngine ------------------------------
(***************************************************************************)
(* A small instance of Engine for TLC: a song that changes while it is     *)
(* played, and a stream with another name than its format.                 *)
(***************************************************************************)
EXTENDS Engine

CONSTANTS song, stream

MCFiles      == {song, stream}
MCNone       == {}
MCSong       == {song}
MCStream     == {stream}
MCSelections == {{"comments"}}

(* An earlier session has read the comments. *)
MCOldRecords == {[time |-> 1, tags |-> [Unfilled EXCEPT !["comments"] = 1]]}

Quits == wantQuit \/ signals > 0 \/ mpc \notin {"waitReady", "init", "loop"}

(* Bound: a session that finds no records may end, but only the stream is  *)
(* played in it, no file changes and the database works; in the others,    *)
(* which go on, the song changes.  One that finds a record plays the song, *)
(* and the database of one that finds more than the limit may fail.        *)
Sessions ==
    CASE found = 0 -> UNCHANGED <<version, length[song], failed>>
      [] found = 1 -> UNCHANGED <<length[stream], failed>> /\ ~Quits'
      [] found = 2 -> UNCHANGED length /\ ~Quits'
=============================================================================
