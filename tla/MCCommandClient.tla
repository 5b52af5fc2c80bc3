--------------------------- MODULE MCCommandClient --------------------------
(* Instance of CommandClient for TLC: two requests of each kind, so that order *)
(* within a kind, and a kind overtaking the other, both occur.                 *)
EXTENDS CommandClient

CONSTANTS f1, f2, g1, g2

MCFileReqs == {f1, f2}
MCGeneralReqs == {g1, g2}
=============================================================================
