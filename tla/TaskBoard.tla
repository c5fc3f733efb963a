----------------------------- MODULE TaskBoard -----------------------------
(***************************************************************************)
(* What the dispatcher promises of tasks and clients, without selection,   *)
(* checks, program counters or the order of a queue.  A task is put in the *)
(* queue of one worker, once.  From there it goes only through the hands   *)
(* of the goroutine that holds that worker's mutex: to the queue of a      *)
(* worker, or out of the dispatcher for good.  What the client of a task   *)
(* is told fits how far the task has come.                                 *)
(***************************************************************************)
CONSTANTS
    Workers,  \* the workers
    Conns,    \* the clients, whose names their tasks bear
    Health,   \* the health check
    None      \* nobody

VARIABLES
    posted,   \* the tasks that have been put in a queue, ever
    queued,   \* queued[w]: the tasks in the queue of w
    hand,     \* hand[p]: the tasks that p is moving
    owner,    \* owner[w]: who holds the mutex of w
    told      \* told[c]: what client c has been told

vars == <<posted, queued, hand, owner, told>>

Movers == Conns \cup {Health}

Init == /\ posted = {}
        /\ queued = [w \in Workers |-> {}]
        /\ hand = [p \in Movers |-> {}]
        /\ owner = [w \in Workers |-> None]
        /\ told = [c \in Conns |-> "nothing"]

\* A task that never was in a queue, of a client that waits.
Post(c, w) == /\ c \notin posted /\ told[c] = "nothing"
              /\ posted' = posted \cup {c}
              /\ queued' = [queued EXCEPT ![w] = @ \cup {c}]
              /\ UNCHANGED <<hand, owner, told>>

\* Nobody holds two mutexes.
Grab(p, w) == /\ owner[w] = None
              /\ \A v \in Workers : owner[v] # p
              /\ owner' = [owner EXCEPT ![w] = p]
              /\ UNCHANGED <<posted, queued, hand, told>>

Lift(c, p, w) == /\ owner[w] = p /\ c \in queued[w]
                 /\ queued' = [queued EXCEPT ![w] = @ \ {c}]
                 /\ hand' = [hand EXCEPT ![p] = @ \cup {c}]
                 /\ UNCHANGED <<posted, owner, told>>

LetGo(p) == owner' = [w \in Workers |-> IF owner[w] = p THEN None ELSE owner[w]]

\* c leaves the hand of p, who keeps the mutex until the hand is empty.
Leave(c, p) == /\ c \in hand[p] /\ \E w \in Workers : owner[w] = p
               /\ hand' = [hand EXCEPT ![p] = @ \ {c}]
               /\ IF hand[p] = {c} THEN LetGo(p) ELSE UNCHANGED owner
               /\ UNCHANGED <<posted, told>>

Put(c, p, w)  == Leave(c, p) /\ queued' = [queued EXCEPT ![w] = @ \cup {c}]
Discard(c, p) == Leave(c, p) /\ UNCHANGED queued

\* There was nothing to move, or nothing is left to clear.
Release(p) == /\ hand[p] = {} /\ \E w \in Workers : owner[w] = p
              /\ LetGo(p)
              /\ UNCHANGED <<posted, queued, hand, told>>

\* Only who has served its client clears a queue.
Clear(c, d, w) == /\ owner[w] = d /\ told[d] = "served" /\ c \in queued[w]
                  /\ queued' = [queued EXCEPT ![w] = @ \ {c}]
                  /\ UNCHANGED <<posted, hand, owner, told>>

\* 4xx and 503 are for clients without a task, the rest for those with one.
Answers == {<<"nothing", "relayed">>, <<"relayed", "served">>,
            <<"nothing", "cut">>, <<"cut", "failed">>, <<"nothing", "failed">>}

Refuse(c)  == c \notin posted /\ told[c] = "nothing" /\ told' = [told EXCEPT ![c] = "refused"]
Tell(c, a) == c \in posted /\ <<told[c], a>> \in Answers /\ told' = [told EXCEPT ![c] = a]

Next == \/ \E c \in Conns, w \in Workers :
              \/ Post(c, w)
              \/ \E d \in Conns : Clear(c, d, w)
              \/ \E p \in Movers : Lift(c, p, w) \/ Put(c, p, w)
        \/ \E p \in Movers : \/ Release(p)
                             \/ \E w \in Workers : Grab(p, w)
                             \/ \E c \in Conns : Discard(c, p)
        \/ \E c \in Conns : /\ Refuse(c) \/ \E a \in {t[2] : t \in Answers} : Tell(c, a)
                            /\ UNCHANGED <<posted, queued, hand, owner>>

Spec == Init /\ [][Next]_vars
=============================================================================
