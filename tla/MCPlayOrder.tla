---------------------------- MODULE MCPlayOrder ----------------------------
(***************************************************************************)
(* Small instances of PlayOrder for TLC.                                   *)
(***************************************************************************)
EXTENDS PlayOrder

CONSTANTS a, b, c

MCFiles      == {a, b, c}
MCFirst      == <<a, b, c>>
MCToggles    == {"Shuffle"}
MCNone       == {}
MCOptions    == {o \in [Options -> BOOLEAN] : o["Repeat"] => o["AutoNext"]}
MCPlain      == {o \in MCOptions : ~o["Shuffle"] /\ ~o["Repeat"] /\ o["AutoNext"]}
=============================================================================
