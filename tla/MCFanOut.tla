------------------------------ MODULE MCFanOut ------------------------------
(* Instance of FanOut for TLC: the values of its constants are in the cfg.  *)
EXTENDS FanOut
=============================================================================
