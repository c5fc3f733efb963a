----------------------------- MODULE Membership -----------------------------
(***************************************************************************)
(* What registration promises: a worker server that has been told it is    *)
(* registered is a member, until the dispatcher forgets all of its members  *)
(* at once.  Nobody leaves: the program has no way to unsubscribe.          *)
(***************************************************************************)
CONSTANT Workers

VARIABLES members,  \* the worker servers the dispatcher knows
          told      \* those that have been told so and are still running

vars == <<members, told>>

Init == members = {} /\ told = {}

Join(w) == /\ w \notin members
           /\ members' = members \union {w}
           /\ UNCHANGED told

Tell(w) == /\ w \in members
           /\ told' = told \union {w}
           /\ UNCHANGED members

\* A worker server that starts again has been told nothing.
Relaunch(w) == /\ told' = told \ {w}
               /\ UNCHANGED members

Forget == members' = {} /\ told' = {}

Next == \/ \E w \in Workers : Join(w) \/ Tell(w) \/ Relaunch(w)
        \/ Forget

Spec == Init /\ [][Next]_vars
=============================================================================
