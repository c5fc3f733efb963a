------------------------------ MODULE Registry ------------------------------
(***************************************************************************)
(* Registration of worker servers: registerWithDispatcher in               *)
(* project1/server/main.go, suscribirHandler and the loop of HealthCheck in *)
(* project1/dispatcher/HealthCheck.go.                                      *)
(*                                                                          *)
(* A worker server tries at most MaxRetries times, each time on a new       *)
(* connection; an attempt it has given up may still be handled.  Handlers   *)
(* append to d.Workers under d.Mu; the health check walks d.Workers without *)
(* it.  The compiled append stores the new length before the new element,   *)
(* so a reader may meet a slot that holds a nil *Worker (Nil) and panic,    *)
(* which ends the dispatcher; docker-compose starts it again, empty.        *)
(***************************************************************************)
EXTENDS Integers, Sequences, FiniteSets

CONSTANTS
    Workers,     \* the worker servers, named by their URLs
    Conns,       \* numbers of the connections that may be open together
    None,        \* no connection, no worker server
    Nil,         \* a slot of d.Workers whose element is not stored yet
    MaxRetries,  \* maxRetries: 3
    MaxCrashes,  \* bound: how often the dispatcher ends
    MaxLosses,   \* bound: failed attempts and relaunches of worker servers
    MaxHangs     \* bound: worker servers that do nothing at the same time

ASSUME RegistryAssumption == /\ Conns \subseteq Nat
                             /\ None \notin Conns /\ None \notin Workers
                             /\ MaxRetries \in Nat \ {0}
                             /\ MaxCrashes \in Nat
                             /\ MaxLosses \in Nat /\ MaxHangs \in Nat
                             /\ Nil \notin [id : Nat, url : Workers]

VARIABLES
    up,          \* is the dispatcher running?
    crashes,     \* how often it has ended
    losses,      \* failed attempts and relaunches so far
    registry,    \* d.Workers
    mu,          \* the connection whose handler holds d.Mu
    conn,        \* conn[c]: where suscribirHandler of c stands
    from,        \* from[c]: the worker server that opened c
    worker,      \* worker[w]: where registerWithDispatcher of w stands
    tries,       \* tries[w]: i, its attempts so far
    wait,        \* wait[w]: the connection it waits on
    hung,        \* the worker servers that keep their connections and do nothing
    told,        \* who was told "200 OK" by the dispatcher that runs now
    visit,       \* index of HealthCheck in d.Workers (0: between rounds)
    snap         \* the length of d.Workers when the round began

dispVars == <<up, crashes, registry, mu>>
connVars == <<conn, from>>
workVars == <<worker, tries, wait, hung, told>>
roundVars == <<visit, snap>>
vars == <<dispVars, losses, connVars, workVars, roundVars>>

Init == /\ up = TRUE /\ crashes = 0 /\ losses = 0
        /\ registry = <<>>
        /\ mu = None
        /\ conn = [c \in Conns |-> "free"]
        /\ from = [c \in Conns |-> None]
        /\ worker = [w \in Workers |-> "try"]
        /\ tries = [w \in Workers |-> 0]
        /\ wait = [w \in Workers |-> None]
        /\ hung = {} /\ told = {}
        /\ visit = 0 /\ snap = 0

\* The worker servers in the registry.
Known == {w \in Workers : \E i \in 1..Len(registry) :
                             registry[i] # Nil /\ registry[i].url = w}

-----------------------------------------------------------------------------
(* Slips *)

\* The check before the lock instead of under it.
AppendUnchecked(c) == /\ conn[c] = "sent" /\ mu = None
                      /\ registry' = Append(registry, Nil)
                      /\ conn' = [conn EXCEPT ![c] = "grown"]
                      /\ mu' = c
                      /\ UNCHANGED <<up, crashes, losses, from, workVars, roundVars>>

\* The answer before the element is stored.
AnswerFirst(c) == /\ conn[c] \in {"grown", "known"} /\ wait[from[c]] = c
                  /\ conn' = [conn EXCEPT ![c] = "answered"]
                  /\ mu' = None
                  /\ UNCHANGED <<up, crashes, registry, losses, from, workVars,
                                 roundVars>>

\* A worker server that asks again after it has been registered.
GiveUpOrRepeat(w) ==
    /\ w \notin hung
    /\ \/ worker[w] = "try" /\ tries[w] = MaxRetries
       \/ worker[w] = "registered" /\ tries[w] < MaxRetries
    /\ worker' = [worker EXCEPT ![w] = IF @ = "try" THEN "gaveup" ELSE "try"]
    /\ UNCHANGED <<dispVars, losses, connVars, tries, wait, hung, told,
                   roundVars>>

\* for i := 1 instead of 0.
GiveUpEarly(w) == /\ w \notin hung
                  /\ worker[w] = "try" /\ tries[w] >= MaxRetries - 1
                  /\ worker' = [worker EXCEPT ![w] = "gaveup"]
                  /\ UNCHANGED <<dispVars, losses, connVars, tries, wait, hung,
                                 told, roundVars>>

\* No end to the attempts while the connection is refused.
RefusedAgain(w) == /\ w \notin hung /\ worker[w] = "try" /\ ~up
                   /\ tries' = [tries EXCEPT ![w] = @ + 1]
                   /\ UNCHANGED <<dispVars, losses, connVars, worker, wait, hung,
                                  told, roundVars>>

\* The round ends one worker short.
RoundShort == /\ visit >= snap /\ visit # 0
              /\ visit' = 0 /\ snap' = 0
              /\ UNCHANGED <<dispVars, losses, connVars, workVars>>

-----------------------------------------------------------------------------
(* The worker server: registerWithDispatcher *)

\* An attempt that reaches the dispatcher, on the first free connection.
Send(w, c) == /\ w \notin hung /\ worker[w] = "try" /\ tries[w] < MaxRetries
              /\ up /\ conn[c] = "free"
              /\ \A d \in Conns : conn[d] = "free" => c <= d
              /\ worker' = [worker EXCEPT ![w] = "waiting"]
              /\ wait' = [wait EXCEPT ![w] = c]
              /\ conn' = [conn EXCEPT ![c] = "sent"]
              /\ from' = [from EXCEPT ![c] = w]
              /\ UNCHANGED <<dispVars, losses, tries, hung, told, roundVars>>

\* An attempt that finds nobody listening.
Refused(w) == /\ w \notin hung /\ worker[w] = "try" /\ tries[w] < MaxRetries
              /\ ~up
              /\ tries' = [tries EXCEPT ![w] = @ + 1]
              /\ UNCHANGED <<dispVars, losses, connVars, worker, wait, hung, told,
                             roundVars>>

\* The worker server closes its side of c.  The handler, if there is one at
\* work, goes on.
Close(c) == IF c = None \/ conn[c] \in {"sent", "grown", "known"}
            THEN UNCHANGED connVars
            ELSE /\ conn' = [conn EXCEPT ![c] = "free"]
                 /\ from' = [from EXCEPT ![c] = None]

\* "200 OK" arrives, whatever the body says.  A "late" answer is one of a
\* dispatcher that has ended since.
Receive(w) == /\ w \notin hung
              /\ worker[w] = "waiting" /\ conn[wait[w]] \in {"answered", "late"}
              /\ worker' = [worker EXCEPT ![w] = "registered"]
              /\ told' = IF conn[wait[w]] = "late" THEN told ELSE told \union {w}
              /\ Close(wait[w])
              /\ wait' = [wait EXCEPT ![w] = None]
              /\ UNCHANGED <<dispVars, losses, tries, hung, roundVars>>

\* The ten seconds are over, or the answer breaks off.
Lose(w) == /\ w \notin hung
           /\ worker[w] = "waiting" /\ conn[wait[w]] # "reset"
           /\ losses < MaxLosses
           /\ losses' = losses + 1
           /\ worker' = [worker EXCEPT ![w] = "try"]
           /\ tries' = [tries EXCEPT ![w] = @ + 1]
           /\ Close(wait[w])
           /\ wait' = [wait EXCEPT ![w] = None]
           /\ UNCHANGED <<dispVars, hung, told, roundVars>>

\* The dispatcher has ended with the request.
Reset(w) == /\ w \notin hung
            /\ worker[w] = "waiting" /\ conn[wait[w]] = "reset"
            /\ worker' = [worker EXCEPT ![w] = "try"]
            /\ tries' = [tries EXCEPT ![w] = @ + 1]
            /\ Close(wait[w])
            /\ wait' = [wait EXCEPT ![w] = None]
            /\ UNCHANGED <<dispVars, losses, hung, told, roundVars>>

\* "No se pudo registrar con el dispatcher": the server runs on, unregistered.
GiveUp(w) == /\ w \notin hung
             /\ worker[w] = "try" /\ tries[w] = MaxRetries
             /\ worker' = [worker EXCEPT ![w] = "gaveup"]
             /\ UNCHANGED <<dispVars, losses, connVars, tries, wait, hung, told,
                            roundVars>>

\* The worker server stops: its process, or its network.  Who waits for an answer
\* of its waits on.
Hang(w) == /\ w \notin hung
           /\ Cardinality(hung) < MaxHangs
           /\ hung' = hung \union {w}
           /\ UNCHANGED <<dispVars, losses, connVars, worker, tries, wait, told,
                          roundVars>>

\* The container is started again by hand and registers from the beginning.
Relaunch(w) == /\ losses < MaxLosses
               /\ losses' = losses + 1
               /\ worker' = [worker EXCEPT ![w] = "try"]
               /\ tries' = [tries EXCEPT ![w] = 0]
               /\ Close(wait[w])
               /\ wait' = [wait EXCEPT ![w] = None]
               /\ hung' = hung \ {w} /\ told' = told \ {w}
               /\ UNCHANGED <<dispVars, roundVars>>

-----------------------------------------------------------------------------
(* The dispatcher: suscribirHandler *)

\* Lock d.Mu, look for the URL; if it is new, append: the length goes first.
Subscribe(c) == /\ conn[c] = "sent" /\ mu = None
                /\ mu' = c
                /\ IF from[c] \in Known
                   THEN /\ conn' = [conn EXCEPT ![c] = "known"]
                        /\ UNCHANGED registry
                   ELSE /\ conn' = [conn EXCEPT ![c] = "grown"]
                        /\ registry' = Append(registry, Nil)
                /\ UNCHANGED <<up, crashes, losses, from, workVars, roundVars>>

\* The rest of the append: the element.
Store(c) == /\ conn[c] = "grown"
            /\ registry' = [registry EXCEPT ![Len(registry)] =
                               [id |-> Len(registry), url |-> from[c]]]
            /\ conn' = [conn EXCEPT ![c] = "known"]
            /\ UNCHANGED <<up, crashes, mu, losses, from, workVars, roundVars>>

\* Answer with the lock held, return and unlock.
Answer(c) == /\ conn[c] = "known"
             /\ IF wait[from[c]] = c
                THEN /\ conn' = [conn EXCEPT ![c] = "answered"]
                     /\ UNCHANGED from
                ELSE /\ conn' = [conn EXCEPT ![c] = "free"]
                     /\ from' = [from EXCEPT ![c] = None]
             /\ mu' = None
             /\ UNCHANGED <<up, crashes, registry, losses, workVars, roundVars>>

-----------------------------------------------------------------------------
(* The dispatcher: the rounds of HealthCheck *)

RoundBegin == /\ up /\ visit = 0 /\ Len(registry) > 0
              /\ visit' = 1 /\ snap' = Len(registry)
              /\ UNCHANGED <<dispVars, losses, connVars, workVars>>

\* The worker in the slot is checked.  The ping's answer has no deadline: a
\* worker server that hangs keeps the round here until it is relaunched.
Visit == /\ visit \in 1..snap /\ registry[visit] # Nil
         /\ registry[visit].url \notin hung
         /\ visit' = visit + 1
         /\ UNCHANGED <<dispVars, losses, connVars, workVars, snap>>

RoundEnd == /\ visit > snap
            /\ visit' = 0 /\ snap' = 0
            /\ UNCHANGED <<dispVars, losses, connVars, workVars>>

\* The dispatcher ends: its memory is gone, its connections are reset.  An
\* answer that has been written may still arrive.
Orphan(c) == conn[c] = "free" \/ wait[from[c]] # c

End == /\ crashes < MaxCrashes
       /\ crashes' = crashes + 1
       /\ up' = FALSE
       /\ registry' = <<>>
       /\ mu' = None
       /\ conn' = [c \in Conns |-> CASE Orphan(c) -> "free"
                                     [] conn[c] \in {"answered", "late"} -> "late"
                                     [] OTHER -> "reset"]
       /\ from' = [c \in Conns |-> IF Orphan(c) THEN None ELSE from[c]]
       /\ told' = {}
       /\ visit' = 0 /\ snap' = 0
       /\ UNCHANGED <<losses, worker, tries, wait, hung>>

Crash == up /\ End

\* checkWorkerStatus of a nil *Worker.
ReadNil == visit \in 1..snap /\ registry[visit] = Nil /\ End

\* restart: always
Restart == /\ ~up
           /\ up' = TRUE
           /\ UNCHANGED <<crashes, registry, mu, losses, connVars, workVars, roundVars>>

-----------------------------------------------------------------------------
Attempt(w) == \/ \E c \in Conns : Send(w, c)
              \/ Refused(w) \/ Receive(w) \/ Reset(w) \/ GiveUp(w)

Handle(c) == Subscribe(c) \/ Store(c) \/ Answer(c)

Round == RoundBegin \/ Visit \/ RoundEnd

Next == \/ \E w \in Workers : Attempt(w) \/ Lose(w) \/ Hang(w) \/ Relaunch(w)
        \/ \E c \in Conns : Handle(c)
        \/ Round
        \/ Crash \/ ReadNil \/ Restart

Spec == Init /\ [][Next]_vars

(* Goroutines and processes that can go on do; d.Mu is handed to a waiter   *)
(* that starves.  Nobody is obliged to fail, and "restart: always" restarts. *)
Fairness == /\ \A w \in Workers : WF_vars(Attempt(w))
            /\ \A c \in Conns : SF_vars(Handle(c))
            /\ WF_vars(Round)
            /\ WF_vars(Restart)

FairSpec == Spec /\ Fairness

-----------------------------------------------------------------------------
(* Properties *)

Entries == [id : Nat \ {0}, url : Workers] \union {Nil}

\* Every variable has the values the code gives it.
TypeOK == /\ up \in BOOLEAN
          /\ crashes \in 0..MaxCrashes /\ losses \in 0..MaxLosses
          /\ registry \in Seq(Entries)
          /\ mu \in Conns \union {None}
          /\ conn \in [Conns -> {"free", "sent", "grown", "known", "answered",
                                 "late", "reset"}]
          /\ from \in [Conns -> Workers \union {None}]
          /\ worker \in [Workers -> {"try", "waiting", "registered", "gaveup"}]
          /\ tries \in [Workers -> 0..MaxRetries]
          /\ wait \in [Workers -> Conns \union {None}]
          /\ hung \subseteq Workers /\ told \subseteq Workers
          /\ visit \in Nat /\ snap \in Nat

\* Retries, late handlers and relaunches notwithstanding, a worker server has
\* one entry, and the ID it was given is its place (suscribirHandler).
OneEntryEach ==
    \A i, j \in 1..Len(registry) :
       registry[i] # Nil =>
          /\ registry[i].id = i
          /\ registry[j] # Nil /\ registry[i].url = registry[j].url => i = j

\* A worker server that was registered by a dispatcher that has since ended.
Forgotten(w) == /\ worker[w] = "registered"
                /\ w \notin told
                /\ w \notin Known

\* Whoever logged "Registrado exitosamente" before the dispatcher ended is
\* never used again unless its container is relaunched by hand: nothing in
\* registerWithDispatcher looks at the dispatcher again.
ForgottenForGood ==
    [][\A w \in Workers : Forgotten(w) =>
          \/ w \notin Known' /\ worker'[w] = "registered"
          \/ losses' = losses + 1 /\ tries'[w] = 0]_vars

Members == INSTANCE Membership WITH
              members <- Known

\* What a worker server is told is so: registration is a set that grows until
\* the dispatcher forgets it, and only members are told they are in it.
ImplementsMembership == Members!Spec

\* As long as the dispatcher stays up and the worker server goes on, fewer failed
\* attempts than maxRetries do not keep it out, whatever the others do.
RetriesSuffice ==
    \A w \in Workers :
       []up /\ [](w \notin hung) /\ MaxLosses < MaxRetries =>
          <>(worker[w] = "registered")

\* The health check waits for a worker server that hangs.
RoundStuck == /\ visit \in 1..snap /\ registry[visit] # Nil
              /\ registry[visit].url \in hung

\* The health check meets every worker server that joins, even one that joins
\* in the middle of a round, unless the dispatcher ends first or a worker server
\* hangs: that keeps the one goroutine for all of them (HealthCheck.go:36).
NewWorkerIsChecked ==
    \A w \in Workers :
       w \in Known ~> \/ ~up \/ RoundStuck
                      \/ \E i \in 1..snap : /\ i < visit
                                            /\ registry[i].url = w
=============================================================================
