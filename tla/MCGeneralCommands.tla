------------------------- MODULE MCGeneralCommands -------------------------
(* Instance of GeneralCommands for TLC. *)
EXTENDS GeneralCommands, TLC

\* Answers, menus and paths are interchangeable.
Symmetry == Permutations(Tables) \cup Permutations(Menus) \cup Permutations(Paths)
=============================================================================
