----------------------------- MODULE MCRegistry -----------------------------
(* Instance of Registry for TLC.  Liveness is checked, so no symmetry. *)
EXTENDS Registry
=============================================================================
