---------------------------- MODULE MCIoStream ----------------------------
(***************************************************************************)
(* Small instances of IoStream for TLC.                                    *)
(***************************************************************************)
EXTENDS IoStream

MCCounts == {1, 3}
MCModes  == BOOLEAN
=============================================================================
