---------------------------- MODULE MCFileTables ----------------------------
(* Instance of FileTables for TLC: objects and names are interchangeable. *)
EXTENDS FileTables, TLC

Symmetry == Permutations(Files) \cup Permutations(Names)
=============================================================================
