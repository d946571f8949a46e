------------------------------ MODULE MCPlayer ------------------------------
(***************************************************************************)
(* Small instances of Player for TLC.                                      *)
(***************************************************************************)
EXTENDS Player

CONSTANTS f, g

MCUnit   == {"pcm", "raw"}
MCSongs  == {f}
MCTwo    == {f, g}
MCChunks == {<<"pcm">>, <<"pcm", "pcm">>, <<"raw">>, <<"raw", "raw">>}
=============================================================================
