------------------------------ MODULE Mailbox ------------------------------
(***************************************************************************)
(* What the threads of mocf rely on when they tell the interface that     *)
(* something happened: a mailbox.  Whatever is sent is received exactly    *)
(* once, in the order in which it was sent, and nothing sent is left       *)
(* behind for ever.  EventQueue implements this specification.             *)
(***************************************************************************)
EXTENDS Naturals, Sequences

CONSTANT Letters        \* what can be sent

VARIABLES sent,         \* every letter sent so far, oldest first
          received      \* the letters received so far, oldest first

mailboxVars == <<sent, received>>

Init == sent = <<>> /\ received = <<>>

Send == \E e \in Letters : sent' = Append(sent, e) /\ UNCHANGED received

Receive ==
    /\ Len(received) < Len(sent)
    /\ received' = Append(received, sent[Len(received) + 1])
    /\ UNCHANGED sent

Next == Send \/ Receive

Safety == Init /\ [][Next]_mailboxVars

Spec == Safety /\ WF_mailboxVars(Receive)
=============================================================================
