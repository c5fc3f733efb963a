----------------------------- MODULE Dispatcher -----------------------------
(***************************************************************************)
(* How the dispatcher (project1/dispatcher) routes single requests: the    *)
(* connection handlers (HandleConnection, sendToWorker), the periodic      *)
(* health check (checkWorkerStatus, HealthCheck), the redistribution of a  *)
(* failed worker's queue (redistributeTasks) and the round robin selection *)
(* (seleccionarWorker), with the worker servers as an environment that     *)
(* crashes, restarts and hangs.                                            *)
(*                                                                         *)
(* A task is named after its connection.  Nothing consumes a taskQueue to  *)
(* execute it: cleanCompletedTasks and redistributeTasks are its only      *)
(* receivers, and a request travels to its worker over HTTP, by its own    *)
(* handler.  The registry is fixed: Registry models subscription.          *)
(***************************************************************************)
EXTENDS Integers, Sequences, FiniteSets, Functions

CONSTANTS
    N,          \* registered workers, d.Workers[0..N-1]
    Conns,      \* client connections, each handled by a goroutine
    Health,     \* the health check goroutine
    None,       \* no worker, no goroutine
    QCap,       \* capacity of a worker's taskQueue (1000 in the program)
    MaxFaults,  \* bound: crashes of workers
    MaxHangs,   \* bound: workers that stop replying without closing
    CanLose     \* may a worker cut a reply short, or a client leave?

ASSUME CountAssumption == N \in Nat /\ QCap \in Nat \ {0}
ASSUME FaultAssumption == MaxFaults \in Nat /\ MaxHangs \in Nat
                          /\ CanLose \in BOOLEAN
ASSUME NameAssumption == Health \notin Conns /\ None \notin Conns \cup {Health}
                         /\ None \notin Int

Worker == 0 .. (N - 1)
Proc == Conns \cup {Health}

VARIABLES
    mode,       \* mode[w]: the worker server itself: "up", "down" or "hung"
    crashes,    \* crashes so far
    status,     \* status[w]: Worker.Status, what the dispatcher believes
    queue,      \* queue[w]: Worker.taskQueue
    mu,         \* mu[w]: the goroutine that holds Worker.mu across steps
    active,     \* active[w]: Worker.activeTasks
    loaded,     \* loaded[w]: Worker.CompletedTasks
    last,       \* Dispatcher.lastWorkerIndex
    failed,     \* Metrics.RequestsFailed
    pc,         \* pc[p]: where the goroutine stands
    at,         \* at[p]: the worker it handles, checks or redistributes
    look,       \* look[p]: i, then idx, of seleccionarWorker
    pend,       \* pend[p]: pendingTasks of redistributeTasks
    todo,       \* todo[p]: redistributions it still has to run
    back,       \* back[p]: the error it answers if the check fails
    resp        \* resp[c]: what has been written to connection c

envVars == <<mode, crashes>>
procVars == <<at, look, pend, todo, back>>
vars == <<mode, crashes, status, queue, mu, active, loaded, last, failed,
          pc, at, look, pend, todo, back, resp>>

HandlerPC == {"start", "enqueue", "account", "send", "sent", "sendfail",
              "reply", "ok", "clean", "cleaning", "answer", "done"}
CheckPC == {"dial", "ping", "lost", "refused", "pong"}
MovePC == {"rlock", "drain", "scan", "commit", "push"}

PC == HandlerPC \cup CheckPC \cup MovePC \cup {"idle", "next"}
Response == {"4xx", "502", "503", "relay", "gone", "200"}

Init == /\ mode = [w \in Worker |-> "up"]
        /\ crashes = 0
        /\ status = [w \in Worker |-> TRUE]
        /\ queue = [w \in Worker |-> <<>>]
        /\ mu = [w \in Worker |-> None]
        /\ active = [w \in Worker |-> 0]
        /\ loaded = [w \in Worker |-> 0]
        /\ last = 0
        /\ failed = 0
        /\ pc = [p \in Proc |-> IF p = Health THEN "idle" ELSE "start"]
        /\ at = [p \in Proc |-> None]
        /\ look = [p \in Proc |-> 0]
        /\ pend = [p \in Proc |-> <<>>]
        /\ todo = [p \in Proc |-> 0]
        /\ back = [p \in Proc |-> "503"]
        /\ resp = [c \in Conns |-> <<>>]

At(p, l) == pc[p] = l
Goto(p, l) == pc' = [pc EXCEPT ![p] = l]
Free(w) == mu[w] = None
Write(c, r) == resp' = [resp EXCEPT ![c] = Append(@, r)]

\* checkWorkerStatus and redistributeTasks have returned to their caller, with
\* the worker found dead: the health check moves on, a handler answers.
Return(p) == IF p = Health THEN "next" ELSE "answer"

\* A slip (see below): redistributeTasks returns without its Unlock.
MovingLocked(p, rest) ==
    /\ pend' = [pend EXCEPT ![p] = rest]
    /\ look' = [look EXCEPT ![p] = 0]
    /\ UNCHANGED mu
    /\ Goto(p, IF rest # <<>> THEN "scan"
               ELSE IF todo[p] > 0 THEN "rlock" ELSE Return(p))

\* The loop over pendingTasks, with rest still to move: seleccionarWorker for
\* the first of them, or Unlock and return.
Moving(p, rest) ==
    /\ pend' = [pend EXCEPT ![p] = rest]
    /\ look' = [look EXCEPT ![p] = 0]
    /\ IF rest # <<>>
       THEN Goto(p, "scan") /\ UNCHANGED mu
       ELSE /\ mu' = [mu EXCEPT ![at[p]] = None]
            /\ Goto(p, IF todo[p] > 0 THEN "rlock" ELSE Return(p))

-----------------------------------------------------------------------------
(* Slips: what a small mistake in the code would make of an action.  The    *)
(* properties below are worth checking because they tell these apart from   *)
(* the program; no specification uses them.                                 *)

\* d.lastWorkerIndex = idx - 1
CommitBehind(p) == /\ At(p, "commit")
                   /\ last' = look[p] - 1
                   /\ IF at[p] = None
                      THEN /\ at' = [at EXCEPT ![p] = look[p]]
                           /\ look' = [look EXCEPT ![p] = 0]
                           /\ Goto(p, "dial")
                      ELSE /\ Goto(p, "push")
                           /\ UNCHANGED <<at, look>>
                   /\ UNCHANGED <<envVars, status, queue, mu, active, loaded,
                                  failed, pend, todo, back, resp>>

\* checkWorkerStatus finds the worker alive and does not say so.
MarkNothing(p) == /\ At(p, "pong") /\ Free(at[p])
                  /\ Goto(p, IF p = Health THEN "next"
                             ELSE IF back[p] = "503" THEN "enqueue" ELSE "answer")
                  /\ UNCHANGED <<envVars, status, queue, mu, active, loaded,
                                 last, failed, procVars, resp>>

\* The task is sent to its new worker and stays among the pending ones.
PushTwice(p) == /\ At(p, "push") /\ Len(queue[look[p]]) < QCap
                /\ queue' = [queue EXCEPT ![look[p]] = Append(@, Head(pend[p]))]
                /\ Moving(p, pend[p])
                /\ UNCHANGED <<envVars, status, active, loaded, last, failed,
                               at, todo, back, resp>>

\* activeTasks-- when the response is saved, and again in HandleConnection:
\* the line is there in sendToWorker, commented out.
RelayAndCount(c) == /\ At(c, "reply") /\ Free(at[c])
                    /\ active' = [active EXCEPT ![at[c]] = @ - 1]
                    /\ Write(c, "relay")
                    /\ Goto(c, "ok")
                    /\ UNCHANGED <<envVars, status, queue, mu, loaded, last,
                                   failed, procVars>>

\* cleanCompletedTasks returns without its Unlock.
CleanedLocked(c) == /\ At(c, "cleaning") /\ queue[at[c]] = <<>>
                    /\ Goto(c, "done")
                    /\ UNCHANGED <<envVars, status, queue, mu, active, loaded,
                                   last, failed, procVars, resp>>

\* An error path that returns without a response.
AnswerNothing(c) == /\ At(c, "answer")
                    /\ Goto(c, "done")
                    /\ UNCHANGED <<envVars, status, queue, mu, active, loaded,
                                   last, failed, procVars, resp>>

\* The health check does not move on to the next worker.
NextWorkerSame == /\ At(Health, "next")
                  /\ Goto(Health, "dial")
                  /\ UNCHANGED <<envVars, status, queue, mu, active, loaded,
                                 last, failed, procVars, resp>>

-----------------------------------------------------------------------------
(* The worker servers.  A crash resets the connections to the worker.       *)

Crash(w) == /\ mode[w] = "up" /\ crashes < MaxFaults
            /\ mode' = [mode EXCEPT ![w] = "down"]
            /\ crashes' = crashes + 1
            /\ pc' = [p \in Proc |->
                         IF at[p] = w /\ pc[p] = "ping" THEN "lost"
                         ELSE IF at[p] = w /\ pc[p] = "sent" THEN "sendfail"
                         ELSE pc[p]]
            /\ UNCHANGED <<status, queue, mu, active, loaded, last, failed,
                           procVars, resp>>

Restart(w) == /\ mode[w] = "down"
              /\ mode' = [mode EXCEPT ![w] = "up"]
              /\ UNCHANGED <<crashes, status, queue, mu, active, loaded, last,
                             failed, pc, procVars, resp>>

\* The worker keeps its connections and accepts new ones, but never replies.
Hang(w) == /\ mode[w] = "up"
           /\ Cardinality({v \in Worker : mode[v] = "hung"}) < MaxHangs
           /\ mode' = [mode EXCEPT ![w] = "hung"]
           /\ UNCHANGED <<crashes, status, queue, mu, active, loaded, last,
                          failed, pc, procVars, resp>>

-----------------------------------------------------------------------------
(* HandleConnection, up to the selection of a worker                        *)

\* An unreadable request line or header (400), a method other than GET (405).
Reject(c) == /\ At(c, "start")
             /\ Write(c, "4xx")
             /\ Goto(c, "done")
             /\ UNCHANGED <<envVars, status, queue, mu, active, loaded, last,
                            failed, procVars>>

\* The task is built and seleccionarWorker is called.
Begin(c) == /\ At(c, "start")
            /\ Goto(c, "scan")
            /\ UNCHANGED <<envVars, status, queue, mu, active, loaded, last,
                           failed, procVars, resp>>

-----------------------------------------------------------------------------
(* seleccionarWorker, called by a handler that has no worker yet and by     *)
(* redistributeTasks.  It takes no lock: lastWorkerIndex and Status are     *)
(* read anew at each turn of the loop and lastWorkerIndex is written later. *)

Candidate(p) == (last + look[p] + 1) % N

\* This candidate is up: keep its index.
ScanHit(p) == /\ At(p, "scan") /\ look[p] < N
              /\ status[Candidate(p)]
              /\ look' = [look EXCEPT ![p] = Candidate(p)]
              /\ Goto(p, "commit")
              /\ UNCHANGED <<envVars, status, queue, mu, active, loaded, last,
                             failed, at, pend, todo, back, resp>>

ScanMiss(p) == /\ At(p, "scan") /\ look[p] < N
               /\ ~status[Candidate(p)]
               /\ look' = [look EXCEPT ![p] = @ + 1]
               /\ UNCHANGED <<envVars, status, queue, mu, active, loaded, last,
                              failed, pc, at, pend, todo, back, resp>>

\* d.lastWorkerIndex = idx; a handler then checks the worker it was given, a
\* redistribution sends a task to its queue.
Commit(p) == /\ At(p, "commit")
             /\ last' = look[p]
             /\ IF at[p] = None
                THEN /\ at' = [at EXCEPT ![p] = look[p]]
                     /\ look' = [look EXCEPT ![p] = 0]
                     /\ Goto(p, "dial")
                ELSE /\ Goto(p, "push")
                     /\ UNCHANGED <<at, look>>
             /\ UNCHANGED <<envVars, status, queue, mu, active, loaded, failed,
                            pend, todo, back, resp>>

\* No worker: the request is refused, counted as failed.
NoWorker(c) == /\ At(c, "scan") /\ look[c] = N
               /\ at[c] = None
               /\ Write(c, "503")
               /\ failed' = failed + 1
               /\ look' = [look EXCEPT ![c] = 0]
               /\ Goto(c, "done")
               /\ UNCHANGED <<envVars, status, queue, mu, active, loaded, last,
                              at, pend, todo, back>>

\* No worker for a pending task: it is only logged, and dropped.
DropTask(p) == /\ At(p, "scan") /\ look[p] = N
               /\ at[p] # None
               /\ Moving(p, Tail(pend[p]))
               /\ UNCHANGED <<envVars, status, queue, active, loaded, last,
                              failed, at, todo, back, resp>>

-----------------------------------------------------------------------------
(* checkWorkerStatus(at[p])                                                 *)

Dial(p) == /\ At(p, "dial")
           /\ Goto(p, IF mode[at[p]] = "down" THEN "refused" ELSE "ping")
           /\ UNCHANGED <<envVars, status, queue, mu, active, loaded, last,
                          failed, procVars, resp>>

\* scanner.Scan has no deadline: a worker that hangs holds the goroutine here.
Pong(p) == /\ At(p, "ping") /\ mode[at[p]] = "up"
           /\ Goto(p, "pong")
           /\ UNCHANGED <<envVars, status, queue, mu, active, loaded, last,
                          failed, procVars, resp>>

\* Alive: a handler goes on, or answers the error that made it check again.
MarkUp(p) == /\ At(p, "pong") /\ Free(at[p])
             /\ status' = [status EXCEPT ![at[p]] = TRUE]
             /\ Goto(p, IF p = Health THEN "next"
                        ELSE IF back[p] = "503" THEN "enqueue" ELSE "answer")
             /\ UNCHANGED <<envVars, queue, mu, active, loaded, last, failed,
                            procVars, resp>>

\* Dead.  A refused dial redistributes the queue inside the check, a lost
\* reply does not; a handler redistributes after the check in either case.
MarkDown(p) ==
    LET n == (IF At(p, "refused") THEN 1 ELSE 0) + (IF p = Health THEN 0 ELSE 1)
    IN  /\ pc[p] \in {"refused", "lost"} /\ Free(at[p])
        /\ status' = [status EXCEPT ![at[p]] = FALSE]
        /\ todo' = [todo EXCEPT ![p] = n]
        /\ Goto(p, IF n > 0 THEN "rlock" ELSE Return(p))
        /\ UNCHANGED <<envVars, queue, mu, active, loaded, last, failed,
                       at, look, pend, back, resp>>

-----------------------------------------------------------------------------
(* redistributeTasks(at[p])                                                 *)

Lock(p) == /\ At(p, "rlock") /\ Free(at[p])
           /\ mu' = [mu EXCEPT ![at[p]] = p]
           /\ todo' = [todo EXCEPT ![p] = @ - 1]
           /\ Goto(p, "drain")
           /\ UNCHANGED <<envVars, status, queue, active, loaded, last, failed,
                          at, look, pend, back, resp>>

DrainOne(p) == /\ At(p, "drain") /\ queue[at[p]] # <<>>
               /\ pend' = [pend EXCEPT ![p] = Append(@, Head(queue[at[p]]))]
               /\ queue' = [queue EXCEPT ![at[p]] = Tail(@)]
               /\ UNCHANGED <<envVars, status, mu, active, loaded, last, failed,
                              pc, at, look, todo, back, resp>>

Drained(p) == /\ At(p, "drain") /\ queue[at[p]] = <<>>
              /\ Moving(p, pend[p])
              /\ UNCHANGED <<envVars, status, queue, active, loaded, last,
                             failed, at, todo, back, resp>>

\* newWorker.taskQueue <- task blocks while the queue is full, mu still held.
Push(p) == /\ At(p, "push") /\ Len(queue[look[p]]) < QCap
           /\ queue' = [queue EXCEPT ![look[p]] = Append(@, Head(pend[p]))]
           /\ Moving(p, Tail(pend[p]))
           /\ UNCHANGED <<envVars, status, active, loaded, last, failed, at,
                          todo, back, resp>>

-----------------------------------------------------------------------------
(* HandleConnection and sendToWorker, with a worker found alive             *)

\* worker.taskQueue <- &newTask blocks while the queue is full.
Enqueue(c) == /\ At(c, "enqueue") /\ Len(queue[at[c]]) < QCap
              /\ queue' = [queue EXCEPT ![at[c]] = Append(@, c)]
              /\ Goto(c, "account")
              /\ UNCHANGED <<envVars, status, mu, active, loaded, last, failed,
                             procVars, resp>>

\* CompletedTasks++ and activeTasks++ under mu.
Account(c) == /\ At(c, "account") /\ Free(at[c])
              /\ loaded' = [loaded EXCEPT ![at[c]] = @ + 1]
              /\ active' = [active EXCEPT ![at[c]] = @ + 1]
              /\ Goto(c, "send")
              /\ UNCHANGED <<envVars, status, queue, mu, last, failed, procVars,
                             resp>>

\* client.Do connects, or fails at once; from now on a failed check means 502.
Send(c) == /\ At(c, "send") /\ Free(at[c])
           /\ Goto(c, IF mode[at[c]] = "down" THEN "sendfail" ELSE "sent")
           /\ back' = [back EXCEPT ![c] = "502"]
           /\ UNCHANGED <<envVars, status, queue, mu, active, loaded, last,
                          failed, at, look, pend, todo, resp>>

\* http.NewRequest refuses the client's path, which nobody has validated: an
\* error before anything is sent, and no decrement.
NoRequest(c) == /\ At(c, "send")
                /\ Goto(c, "dial")
                /\ back' = [back EXCEPT ![c] = "502"]
                /\ UNCHANGED <<envVars, status, queue, mu, active, loaded, last,
                               failed, at, look, pend, todo, resp>>

\* The worker replies; its commands may take longer than the client's timeout.
Reply(c) == /\ At(c, "sent") /\ mode[at[c]] = "up"
            /\ Goto(c, "reply")
            /\ UNCHANGED <<envVars, status, queue, mu, active, loaded, last,
                           failed, procVars, resp>>

\* Five seconds have passed without a response.
Timeout(c) == /\ At(c, "sent")
              /\ Goto(c, "sendfail")
              /\ UNCHANGED <<envVars, status, queue, mu, active, loaded, last,
                             failed, procVars, resp>>

\* client.Do returned an error: activeTasks-- and back to HandleConnection,
\* which checks the worker again.
SendFail(c) == /\ At(c, "sendfail") /\ Free(at[c])
               /\ active' = [active EXCEPT ![at[c]] = @ - 1]
               /\ Goto(c, "dial")
               /\ UNCHANGED <<envVars, status, queue, mu, loaded, last, failed,
                              procVars, resp>>

\* io.ReadAll fails in the middle of the body: an error, and no decrement.
BodyError(c) == /\ CanLose
                /\ At(c, "reply")
                /\ Goto(c, "dial")
                /\ UNCHANGED <<envVars, status, queue, mu, active, loaded, last,
                               failed, procVars, resp>>

\* The response is saved under mu and the worker's text copied to the client.
Relay(c) == /\ At(c, "reply") /\ Free(at[c])
            /\ Write(c, "relay")
            /\ Goto(c, "ok")
            /\ UNCHANGED <<envVars, status, queue, mu, active, loaded, last,
                           failed, procVars>>

\* The client has gone: an error of the worker, for the handler.
RelayFail(c) == /\ CanLose
                /\ At(c, "reply") /\ Free(at[c])
                /\ Write(c, "gone")
                /\ Goto(c, "dial")
                /\ UNCHANGED <<envVars, status, queue, mu, active, loaded, last,
                               failed, procVars>>

\* activeTasks-- under mu, then a second response with the same body.
Finish(c) == /\ At(c, "ok") /\ Free(at[c])
             /\ active' = [active EXCEPT ![at[c]] = @ - 1]
             /\ Write(c, "200")
             /\ Goto(c, "clean")
             /\ UNCHANGED <<envVars, status, queue, mu, loaded, last, failed,
                            procVars>>

\* cleanCompletedTasks empties the whole queue under mu.
CleanLock(c) == /\ At(c, "clean") /\ Free(at[c])
                /\ mu' = [mu EXCEPT ![at[c]] = c]
                /\ Goto(c, "cleaning")
                /\ UNCHANGED <<envVars, status, queue, active, loaded, last,
                               failed, procVars, resp>>

CleanOne(c) == /\ At(c, "cleaning") /\ queue[at[c]] # <<>>
               /\ queue' = [queue EXCEPT ![at[c]] = Tail(@)]
               /\ UNCHANGED <<envVars, status, mu, active, loaded, last, failed,
                              pc, procVars, resp>>

Cleaned(c) == /\ At(c, "cleaning") /\ queue[at[c]] = <<>>
              /\ mu' = [mu EXCEPT ![at[c]] = None]
              /\ Goto(c, "done")
              /\ UNCHANGED <<envVars, status, queue, active, loaded, last,
                             failed, procVars, resp>>

\* The 502 or 503 for a request whose worker failed.
Answer(c) == /\ At(c, "answer")
             /\ Write(c, back[c])
             /\ Goto(c, "done")
             /\ UNCHANGED <<envVars, status, queue, mu, active, loaded, last,
                            failed, procVars>>

-----------------------------------------------------------------------------
(* HealthCheck, at each tick: the workers one after the other.              *)

Tick == /\ At(Health, "idle")
        /\ IF N > 0 THEN /\ at' = [at EXCEPT ![Health] = 0]
                         /\ Goto(Health, "dial")
                    ELSE UNCHANGED <<at, pc>>
        /\ UNCHANGED <<envVars, status, queue, mu, active, loaded, last, failed,
                       look, pend, todo, back, resp>>

NextWorker == /\ At(Health, "next")
              /\ IF at[Health] + 1 < N
                 THEN /\ at' = [at EXCEPT ![Health] = @ + 1]
                      /\ Goto(Health, "dial")
                 ELSE /\ at' = [at EXCEPT ![Health] = None]
                      /\ Goto(Health, "idle")
              /\ UNCHANGED <<envVars, status, queue, mu, active, loaded, last,
                             failed, look, pend, todo, back, resp>>

-----------------------------------------------------------------------------
Fault == \E w \in Worker : Crash(w) \/ Restart(w) \/ Hang(w)

Select(p) == ScanHit(p) \/ ScanMiss(p) \/ Commit(p) \/ DropTask(p)
Check(p) == Dial(p) \/ Pong(p) \/ MarkUp(p) \/ MarkDown(p)
Redistribute(p) == Lock(p) \/ DrainOne(p) \/ Drained(p) \/ Push(p)
Call(c) == \/ Enqueue(c) \/ Account(c)
           \/ NoRequest(c) \/ Send(c) \/ Reply(c) \/ Timeout(c) \/ SendFail(c)
           \/ BodyError(c) \/ Relay(c) \/ RelayFail(c)
           \/ Finish(c) \/ CleanLock(c) \/ CleanOne(c) \/ Cleaned(c)

Handle(c) == \/ Begin(c) \/ NoWorker(c) \/ Answer(c) \/ Call(c)
             \/ Select(c) \/ Check(c) \/ Redistribute(c)
Monitor == \/ Tick \/ NextWorker
           \/ Select(Health) \/ Check(Health) \/ Redistribute(Health)

Next == \/ Fault
        \/ \E c \in Conns : Reject(c) \/ Handle(c)
        \/ Monitor

Spec == Init /\ [][Next]_vars

\* Every goroutine runs when it can.  sync.Mutex hands itself to a waiter that
\* starves and a channel serves its blocked senders in order, so a goroutine
\* whose next step is enabled again and again takes it: strong fairness.
Fairness == /\ \A c \in Conns : SF_vars(Handle(c))
            /\ SF_vars(Monitor)

FairSpec == Spec /\ Fairness

-----------------------------------------------------------------------------
(* Properties                                                               *)

TypeOK == /\ mode \in [Worker -> {"up", "down", "hung"}]
          /\ crashes \in Nat
          /\ status \in [Worker -> BOOLEAN]
          /\ queue \in [Worker -> Seq(Conns)]
          /\ mu \in [Worker -> Proc \cup {None}]
          /\ active \in [Worker -> Int]
          /\ loaded \in [Worker -> Nat]
          /\ last \in Nat
          /\ failed \in Nat
          /\ pc \in [Proc -> PC]
          /\ at \in [Proc -> Worker \cup {None}]
          /\ look \in [Proc -> Nat]
          /\ pend \in [Proc -> Seq(Conns)]
          /\ todo \in [Proc -> 0 .. 2]
          /\ back \in [Proc -> {"502", "503"}]
          /\ resp \in [Conns -> Seq(Response)]

\* The steps of p between a Lock and the matching Unlock of at[p]'s mutex.
Holds(p) == \/ pc[p] \in {"drain", "push", "cleaning"}
            \/ pc[p] \in {"scan", "commit"} /\ at[p] # None

\* Worker.mu is held by the goroutine that is draining or emptying the queue
\* of that worker, and by nobody once it has returned.
LockOwner == \A w \in Worker, p \in Proc :
                mu[w] = p <=> Holds(p) /\ at[p] = w

\* Where the task of c is, over all queues and all redistributions under way.
Places(c) ==
    (UNION { {<<w, i>> : i \in {j \in 1 .. Len(queue[w]) : queue[w][j] = c}}
             : w \in Worker })
    \cup
    (UNION { {<<p, i>> : i \in {j \in 1 .. Len(pend[p]) : pend[p][j] = c}}
             : p \in Proc })

\* Draining, redistributing and cleaning at the same time never duplicate a
\* task, and a task is queued only once its handler has chosen a worker.
TaskInOnePlace ==
    \A c \in Conns : /\ Cardinality(Places(c)) <= 1
                     /\ Places(c) # {} => at[c] # None

\* Between activeTasks++ and the matching activeTasks--.
InFlight(w) == {c \in Conns : at[c] = w /\ pc[c] \in {"send", "sent", "sendfail",
                                                     "reply", "ok"}}

\* activeTasks never counts fewer requests than the worker has in flight: the
\* two places that decrement it never do so for the same request.
ActiveCovers == \A w \in Worker : active[w] >= Cardinality(InFlight(w))

\* What a client has been sent when its handler returns: one error, or the
\* worker's response and a 200, and never an error after a response.
Outcomes ==
    \A c \in Conns : At(c, "done") =>
        resp[c] \in {<<"4xx">>, <<"503">>, <<"502">>,
                    <<"relay", "200">>, <<"gone", "502">>}

\* The handler of c has put its task in a queue.
Enqueued(c) == pc[c] \in {"account", "send"} \/ back[c] = "502"

\* What a client has been told, to whom s has been written.
Told(s) == CASE s = <<>> -> "nothing"
             [] s = <<"relay">> -> "relayed"
             [] s = <<"relay", "200">> -> "served"
             [] s = <<"gone">> -> "cut"
             [] s \in {<<"502">>, <<"gone", "502">>} -> "failed"
             [] OTHER -> "refused"

Board == INSTANCE TaskBoard WITH
            Workers <- Worker,
            posted <- {c \in Conns : Enqueued(c)},
            queued <- [w \in Worker |-> Range(queue[w])],
            hand <- [p \in Proc |-> Range(pend[p])],
            owner <- mu,
            told <- [c \in Conns |-> Told(resp[c])]

\* Whatever handlers, failed checks and redistributions do side by side, a task
\* enters the queues once, is moved by one goroutine at a time, which holds the
\* mutex of the worker it takes it from until everything it took is placed or
\* dropped, and never comes back; nobody holds two mutexes; and a client is told
\* 4xx or 503 only if its task never was in a queue, the rest only if it was.
ImplementsBoard == Board!Spec

\* A task whose response was obtained is in no queue any more.
AnsweredTaskIsGone ==
    \A c \in Conns : At(c, "done") /\ resp[c] = <<"relay", "200">>
                       => Places(c) = {}

\* No worker hangs, ever.
NoHang == [](\A w \in Worker : mode[w] # "hung")

\* As long as no worker hangs, the dispatcher ends up with the status that each
\* worker really has, whatever the checks of the handlers and of the health
\* check that were under way when it changed.
StatusConverges ==
    NoHang => \A w \in Worker : <>[](status[w] <=> mode[w] = "up")

\* Every handler returns, whatever the order of crashes, checks and
\* redistributions; a worker that hangs holds up the handlers that were given
\* that worker and no other: nobody waits for it with a mutex that others need.
HangIsContained ==
    \A c \in Conns : At(c, "scan") ~> \/ At(c, "done")
                                      \/ \E w \in Worker : at[c] = w /\ mode[w] = "hung"

\* The health check comes round again and again as long as no worker hangs.
ChecksComeRound == NoHang => []<>At(Health, "idle")

\* The health check comes round again and again.
HealthCheckIsPeriodic == []<>At(Health, "idle")
=============================================================================
