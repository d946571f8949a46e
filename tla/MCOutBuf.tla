------------------------------ MODULE MCOutBuf ------------------------------
(***************************************************************************)
(* Small instances of OutBuf for TLC.                                      *)
(***************************************************************************)
EXTENDS OutBuf

CONSTANTS a, b

MCUnit   == {a, b}
MCChunks == {<<a>>, <<a, b>>}
=============================================================================
