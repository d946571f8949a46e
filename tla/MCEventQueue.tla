---------------------------- MODULE MCEventQueue ----------------------------
(***************************************************************************)
(* A small instance of EventQueue for TLC: one thread that reports, the    *)
(* tag reader, and a pipe so small that it fills up.                       *)
(***************************************************************************)
EXTENDS EventQueue

=============================================================================
