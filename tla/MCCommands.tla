----------------------------- MODULE MCCommands -----------------------------
(* Instance of Commands for TLC.  Liveness is checked, so no symmetry. *)
EXTENDS Commands

LimitSet == {-4, 0, 1}
=============================================================================
