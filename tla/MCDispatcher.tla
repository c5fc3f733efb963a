---------------------------- MODULE MCDispatcher ----------------------------
(* Instance of Dispatcher for TLC: the connections are interchangeable, the *)
(* workers are not (round robin and the health check go by index).          *)
EXTENDS Dispatcher, TLC

Symmetry == Permutations(Conns)
=============================================================================
