---------------------------- MODULE MCHookClient ----------------------------
(* Instance of HookClient for TLC.  The limit on argument lines is 3 instead *)
(* of 20, so that frames below, at and above it fit into few lines.          *)
EXTENDS HookFrames

MCHooks == {"shell_touch"}
MCArgs == {"path", "other"}
=============================================================================
