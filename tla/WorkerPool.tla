----------------------------- MODULE WorkerPool -----------------------------
(***************************************************************************)
(* One command pool of the worker server (project1/server): connection     *)
(* handlers (main.go), the pool's dispatch goroutine (workerPool.go) and    *)
(* its workers (worker.go), which meet on two unbuffered channels.          *)
(*                                                                          *)
(* RequestChan carries requests from the handlers to dispatch AND from      *)
(* dispatch to the workers: every worker is built with the pool's own       *)
(* RequestChan and announces that same channel on WorkerChan.  A worker     *)
(* that listens may therefore meet a handler instead of dispatch.           *)
(*                                                                          *)
(* A send and the receive it meets are one action.  ShutDownChan is never   *)
(* sent to nor closed in the program, so its select branches cannot fire.   *)
(***************************************************************************)
EXTENDS Integers, FiniteSets

CONSTANTS
    Workers,    \* the workers of the pool (cantidadW of them)
    Conns,      \* the connections accepted during a behaviour
    NoReq       \* a nil *Request

ASSUME NoReqAssumption == NoReq \notin Conns

VARIABLES
    overlap,    \* do clients connect while another one is being served?
    conn,       \* conn[c]: where handleConnection of c stands
    answered,   \* answered[c]: responses written to connection c
    total,      \* Metrics.TotalRequests
    id,         \* id[c]: Request.ID of the request of c (0: none built)
    dispatch,   \* where the dispatch goroutine stands
    inHand,     \* the request dispatch has received and not passed on
    worker,     \* worker[w]: where Worker.Start of w stands
    req         \* req[w]: ReqActual of w

vars == <<overlap, conn, answered, total, id, dispatch, inHand, worker, req>>
connVars == <<conn, answered, total, id>>
poolVars == <<dispatch, inHand, worker, req>>

ConnStates == {"idle", "reading", "counted", "submitting", "waiting", "closed"}

Init == /\ overlap \in BOOLEAN
        /\ conn = [c \in Conns |-> "idle"]
        /\ answered = [c \in Conns |-> 0]
        /\ total = 0
        /\ id = [c \in Conns |-> 0]
        /\ dispatch = "select"
        /\ inHand = NoReq
        /\ worker = [w \in Workers |-> "announce"]
        /\ req = [w \in Workers |-> NoReq]

-----------------------------------------------------------------------------
(* Slips: what a small mistake in the code would make of an action.  The    *)
(* properties below are worth checking because they tell these apart from   *)
(* the program; no specification uses them.                                 *)

\* TotalRequests-- for TotalRequests++; and an increment that only some of the
\* requests reach.
CountDown(c) == /\ conn[c] = "reading"
                /\ total' = total - 1
                /\ conn' = [conn EXCEPT ![c] = "counted"]
                /\ UNCHANGED <<overlap, answered, id, poolVars>>

CountSome(c) == /\ conn[c] = "reading"
                /\ total' \in {total, total + 1}
                /\ conn' = [conn EXCEPT ![c] = "counted"]
                /\ UNCHANGED <<overlap, answered, id, poolVars>>

\* dispatch reads RequestChan while it still holds a request.
HandToBusyDispatch(c) == /\ conn[c] = "submitting"
                         /\ conn' = [conn EXCEPT ![c] = "waiting"]
                         /\ inHand' = c
                         /\ dispatch' = "claim"
                         /\ UNCHANGED <<overlap, answered, total, id, worker,
                                        req>>

\* A worker that announces itself and does not go on to listen.
ClaimDeaf(w) == /\ dispatch = "claim"
                /\ worker[w] = "announce"
                /\ dispatch' = "deliver"
                /\ UNCHANGED <<overlap, connVars, inHand, worker, req>>

\* dispatch sends the request it holds to one more worker.
DeliverAgain(w) == /\ dispatch = "deliver"
                   /\ worker[w] = "listen"
                   /\ dispatch' = "claim"
                   /\ worker' = [worker EXCEPT ![w] = "serve"]
                   /\ req' = [req EXCEPT ![w] = inHand]
                   /\ UNCHANGED <<overlap, connVars, inHand>>

\* ReqActual is cleared before HandleRequest has run; and a worker that leaves
\* its loop after one request.
TidyEarly(w) == /\ worker[w] \in {"serve", "tidy"}
                /\ req' = [req EXCEPT ![w] = NoReq]
                /\ worker' = [worker EXCEPT ![w] = "announce"]
                /\ UNCHANGED <<overlap, connVars, dispatch, inHand>>

TidyAndStop(w) == /\ worker[w] = "tidy"
                  /\ req' = [req EXCEPT ![w] = NoReq]
                  /\ UNCHANGED <<overlap, connVars, dispatch, inHand, worker>>

-----------------------------------------------------------------------------
(* handleConnection                                                         *)

\* A client is still waiting for the answer to c.
Outstanding(c) == \/ conn[c] \in {"reading", "counted", "submitting"}
                  \/ conn[c] = "waiting" /\ answered[c] = 0

\* main: Accept returns a connection and starts its handler.
Accept(c) == /\ conn[c] = "idle"
             /\ overlap \/ \A d \in Conns : ~Outstanding(d)
             /\ conn' = [conn EXCEPT ![c] = "reading"]
             /\ UNCHANGED <<overlap, answered, total, id, poolVars>>

\* The request line or a header cannot be read: 400, or nothing at EOF.
ReadError(c) == /\ conn[c] = "reading"
                /\ conn' = [conn EXCEPT ![c] = "closed"]
                /\ \E n \in {0, 1} : answered' = [answered EXCEPT ![c] = @ + n]
                /\ UNCHANGED <<overlap, total, id, poolVars>>

\* TotalRequests++ under Metrics.Mu; the lock is released before the ID is read.
Count(c) == /\ conn[c] = "reading"
            /\ total' = total + 1
            /\ conn' = [conn EXCEPT ![c] = "counted"]
            /\ UNCHANGED <<overlap, answered, id, poolVars>>

\* Routes answered by the handler itself: /countchunk, /calculatepi, /status,
\* /ping, an unknown route and a method that is not GET.
Inline(c) == /\ conn[c] = "counted"
             /\ answered' = [answered EXCEPT ![c] = @ + 1]
             /\ conn' = [conn EXCEPT ![c] = "closed"]
             /\ UNCHANGED <<overlap, total, id, poolVars>>

\* newRequest is built with the counter's current value and the handler
\* reaches pool.RequestChan <- newRequest.
Submit(c) == /\ conn[c] = "counted"
             /\ id' = [id EXCEPT ![c] = total]
             /\ conn' = [conn EXCEPT ![c] = "submitting"]
             /\ UNCHANGED <<overlap, answered, total, poolVars>>

-----------------------------------------------------------------------------
(* The channels.  After its send a handler blocks on <-newRequest.Listo,    *)
(* which nothing in the program signals: "waiting" has no way out.          *)

\* pool.RequestChan <- newRequest meets dispatch's req := <-wp.RequestChan.
HandToDispatch(c) == /\ conn[c] = "submitting"
                     /\ dispatch = "select"
                     /\ conn' = [conn EXCEPT ![c] = "waiting"]
                     /\ inHand' = c
                     /\ dispatch' = "claim"
                     /\ UNCHANGED <<overlap, answered, total, id, worker, req>>

\* wp.WorkerChan <- w.RequestChan meets workerChan := <-wp.WorkerChan.
Claim(w) == /\ dispatch = "claim"
            /\ worker[w] = "announce"
            /\ dispatch' = "deliver"
            /\ worker' = [worker EXCEPT ![w] = "listen"]
            /\ UNCHANGED <<overlap, connVars, inHand, req>>

\* workerChan <- req meets the worker's req := <-w.RequestChan.
Deliver(w) == /\ dispatch = "deliver"
              /\ worker[w] = "listen"
              /\ dispatch' = "select"
              /\ inHand' = NoReq
              /\ worker' = [worker EXCEPT ![w] = "serve"]
              /\ req' = [req EXCEPT ![w] = inHand]
              /\ UNCHANGED <<overlap, connVars>>

\* pool.RequestChan <- newRequest meets the worker's req := <-w.RequestChan:
\* it is the same channel, so a listening worker takes whichever sender.
Steal(c, w) == /\ conn[c] = "submitting"
               /\ worker[w] = "listen"
               /\ conn' = [conn EXCEPT ![c] = "waiting"]
               /\ worker' = [worker EXCEPT ![w] = "serve"]
               /\ req' = [req EXCEPT ![w] = c]
               /\ UNCHANGED <<overlap, answered, total, id, dispatch, inHand>>

-----------------------------------------------------------------------------
(* Worker.Start                                                             *)

\* HandleRequest: the command's handler writes the response.
Respond(w) == /\ worker[w] = "serve"
              /\ answered' = [answered EXCEPT ![req[w]] = @ + 1]
              /\ worker' = [worker EXCEPT ![w] = "tidy"]
              /\ UNCHANGED <<overlap, conn, total, id, dispatch, inHand, req>>

\* ReqActual = nil, Status = "disponible", back to the top of the loop.
Tidy(w) == /\ worker[w] = "tidy"
           /\ req' = [req EXCEPT ![w] = NoReq]
           /\ worker' = [worker EXCEPT ![w] = "announce"]
           /\ UNCHANGED <<overlap, connVars, dispatch, inHand>>

-----------------------------------------------------------------------------
Handler(c) == ReadError(c) \/ Count(c) \/ Inline(c) \/ Submit(c)
Receive(c) == HandToDispatch(c) \/ \E w \in Workers : Steal(c, w)
Work(w) == Claim(w) \/ Deliver(w) \/ Respond(w) \/ Tidy(w)

Next == \/ \E c \in Conns : Accept(c) \/ Handler(c) \/ Receive(c)
        \/ \E w \in Workers : Work(w)

Spec == Init /\ [][Next]_vars

\* A goroutine that can run does run.  The runtime queues the senders blocked
\* on a channel first come, first served, so a sender that is enabled again
\* and again is received from in the end: strong fairness for Receive.
Fairness == /\ \A c \in Conns : WF_vars(Handler(c)) /\ SF_vars(Receive(c))
            /\ \A w \in Workers : WF_vars(Work(w))

FairSpec == Spec /\ Fairness

-----------------------------------------------------------------------------
(* Properties                                                               *)

TypeOK == /\ overlap \in BOOLEAN
          /\ conn \in [Conns -> ConnStates]
          /\ answered \in [Conns -> Nat]
          /\ total \in Nat
          /\ id \in [Conns -> Nat]
          /\ dispatch \in {"select", "claim", "deliver"}
          /\ inHand \in Conns \cup {NoReq}
          /\ worker \in [Workers -> {"announce", "listen", "serve", "tidy"}]
          /\ req \in [Workers -> Conns \cup {NoReq}]

Serves(w, c) == worker[w] = "serve" /\ req[w] = c

\* No request is lost or run twice between the two channels: a request that
\* left its handler and is not answered is either in dispatch's hand or with
\* exactly one worker, never both, and an answered one is with neither.
OneHolder ==
    \A c \in Conns :
        LET servers == {w \in Workers : Serves(w, c)}
        IN  /\ \A v, w \in servers : v = w
            /\ inHand = c => servers = {}
            /\ (inHand = c \/ servers # {})
                   <=> (conn[c] = "waiting" /\ answered[c] = 0)

\* At most one response is ever written to a connection.
OneAnswer == \A c \in Conns : answered[c] <= 1

\* A worker listens on RequestChan only after dispatch has received its
\* announcement and while dispatch still holds a request for it, so at most
\* one worker listens at a time.
Handoff == /\ \A w \in Workers : worker[w] = "listen" => dispatch = "deliver"
           /\ \A v, w \in Workers :
                 worker[v] = "listen" /\ worker[w] = "listen" => v = w

\* dispatch is sending to a worker and no worker is receiving.
Wedged == dispatch = "deliver" /\ \A w \in Workers : worker[w] # "listen"

\* A pool that is wedged stays wedged: dispatch never reads WorkerChan again,
\* so no further request is ever given to a worker of this pool.
WedgeIsForever ==
    [][Wedged => /\ Wedged'
                 /\ \A w \in Workers : req'[w] \in {req[w], NoReq}]_vars

\* The pool does not wedge when clients come one after the other.
NeverWedged == ~overlap => ~Wedged

\* Every request number is that of one connection only, which TotalRequests
\* is there for, as long as clients come one after the other.
UniqueIds ==
    ~overlap => \A c, d \in Conns : c # d /\ id[c] # 0 => id[c] # id[d]

\* No worker is idle with its request unfinished, and a worker is free for a
\* new request only once it has answered the one it had (worker.go 33-40).
AnswerBeforeFree ==
    [][\A w \in Workers : req[w] # NoReq /\ req'[w] # req[w]
          => answered[req[w]] = 1 /\ req'[w] = NoReq]_vars

\* Clients that come one after the other are all answered.
SequentialIsServed ==
    \A c \in Conns : ~overlap /\ conn[c] = "submitting" ~> answered[c] > 0

\* Every request handed in is answered.
EveryRequestAnswered ==
    \A c \in Conns : conn[c] = "submitting" ~> answered[c] > 0

\* The pool as its clients see it.
Phase(c) == IF conn[c] = "submitting" \/ inHand = c THEN "pending"
            ELSE IF \E w \in Workers : Serves(w, c) THEN "running"
            ELSE IF conn[c] = "waiting" THEN "done" ELSE "idle"

Service == INSTANCE PoolService
               WITH phase <- [c \in Conns |-> Phase(c)], slot <- req

\* The two channels implement the pool's promise: a request is taken by one
\* free worker and answered once before the worker is free again.
ImplementsService == Service!Spec
=============================================================================
