---------------------------- MODULE PoolService ----------------------------
(***************************************************************************)
(* What a command pool of the worker server promises, without channels:    *)
(* a request is taken by one free worker, worked on, and answered once.    *)
(* README.md:79 of project1 describes the pool in these terms.             *)
(***************************************************************************)
CONSTANTS Workers, Conns, NoReq

VARIABLES phase,    \* phase[c]: how far the request of connection c is
          slot      \* slot[w]: the request worker w holds, or NoReq

vars == <<phase, slot>>

Init == /\ phase = [c \in Conns |-> "idle"]
        /\ slot = [w \in Workers |-> NoReq]

\* A request reaches the pool.
Request(c) == /\ phase[c] = "idle"
              /\ phase' = [phase EXCEPT ![c] = "pending"]
              /\ UNCHANGED slot

\* A free worker takes a pending request.
Take(c, w) == /\ phase[c] = "pending"
              /\ slot[w] = NoReq
              /\ phase' = [phase EXCEPT ![c] = "running"]
              /\ slot' = [slot EXCEPT ![w] = c]

\* The worker that runs the request answers it, once.
Answer(w) == /\ slot[w] # NoReq
             /\ phase[slot[w]] = "running"
             /\ phase' = [phase EXCEPT ![slot[w]] = "done"]
             /\ UNCHANGED slot

\* Only a worker whose request is answered becomes free again.
Release(w) == /\ slot[w] # NoReq
              /\ phase[slot[w]] = "done"
              /\ slot' = [slot EXCEPT ![w] = NoReq]
              /\ UNCHANGED phase

Next == \/ \E c \in Conns : Request(c) \/ \E w \in Workers : Take(c, w)
        \/ \E w \in Workers : Answer(w) \/ Release(w)

Spec == Init /\ [][Next]_vars
=============================================================================
