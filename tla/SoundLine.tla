----------------------------- MODULE SoundLine -----------------------------
(***************************************************************************)
(* What the playing thread relies on when it hands sound to the output     *)
(* buffer of mocf: a line of sound.  Sound is offered, taken in and spoken *)
(* in one order, without a gap.  Only after the line was cut may sound be  *)
(* refused or thrown away, and a line that fell silent speaks again only   *)
(* after sound was offered.  OutBuf implements this specification.         *)
(***************************************************************************)
EXTENDS Naturals, Sequences

VARIABLES offered,   \* sound offered and not yet taken in, oldest first
          line,      \* sound taken in and not yet spoken, oldest first
          spoken,    \* how much was spoken, on top of the last rewind
          silent,    \* nothing is spoken until sound is offered
          cut        \* the line was cut: what is left in it is not wanted

lineVars == <<offered, line, spoken, silent, cut>>

Init ==
    /\ offered = <<>>
    /\ line = <<>>
    /\ spoken = 0
    /\ silent = TRUE
    /\ cut = FALSE

Offer ==
    /\ offered = <<>>
    /\ offered' # <<>>
    /\ silent' = FALSE
    /\ UNCHANGED <<line, spoken, cut>>

(* The oldest of what is offered is taken in, behind what is there. *)
Accept ==
    /\ ~silent
    /\ ~cut
    /\ \E n \in 1..Len(offered) :
         /\ line' = line \o SubSeq(offered, 1, n)
         /\ offered' = SubSeq(offered, n + 1, Len(offered))
    /\ UNCHANGED <<spoken, silent, cut>>

Refuse == cut /\ offered' = <<>> /\ UNCHANGED <<line, spoken, silent, cut>>

(* The oldest sound goes to the device. *)
Speak ==
    /\ ~silent
    /\ \E n \in 1..Len(line) :
         /\ line' = SubSeq(line, n + 1, Len(line))
         /\ spoken' = spoken + n
    /\ UNCHANGED <<offered, silent, cut>>

Cut == cut' = TRUE /\ UNCHANGED <<offered, line, spoken, silent>>

Drop == cut /\ line' = <<>> /\ UNCHANGED <<offered, spoken, silent, cut>>

(* The line falls silent, once it is empty or cut and nothing is offered.  *)
Hush ==
    /\ cut \/ line = <<>>
    /\ offered = <<>>
    /\ silent' = TRUE
    /\ UNCHANGED <<offered, line, spoken, cut>>

(* A silent line may be emptied and used again, and counted anew. *)
Restart ==
    /\ silent
    /\ line' = <<>>
    /\ cut' = FALSE
    /\ UNCHANGED <<offered, spoken, silent>>

Rewind == silent /\ spoken' \in Nat /\ UNCHANGED <<offered, line, silent, cut>>

Next ==
    \/ Offer \/ Accept \/ Refuse \/ Speak \/ Cut \/ Drop \/ Hush \/ Restart
    \/ Rewind

Spec == Init /\ [][Next]_lineVars
=============================================================================
