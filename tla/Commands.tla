------------------------------ MODULE Commands ------------------------------
(***************************************************************************)
(* The commands of a worker server (project1/server/handlers) as the        *)
(* workers of the pools run them side by side: createfile and deletefile    *)
(* around FilesMutex, loadtest with its goroutines, random, and the others, *)
(* which answer without touching anything shared.                           *)
(*                                                                          *)
(* No handler recovers from a panic, so one command can end the server with *)
(* all others in it.  What is in files/ then stays as it is.                *)
(***************************************************************************)
EXTENDS Integers

CONSTANTS
    Calls,      \* the workers of the pools
    Names,      \* file names
    Empty,      \* the empty name: files/ itself
    Texts,      \* what a createfile writes
    Absent,     \* no such file
    Torn,       \* a file that was truncated and not completely written
    Unsure,     \* nothing is known of a file
    None,       \* nobody
    MaxTasks,   \* bound: tasks of a loadtest
    IntMax,     \* the largest int
    Limits,     \* bound: what a random may have as min and max
    MaxStarts   \* bound: how often the server is started again

ASSUME CommandsAssumption ==
    /\ None \notin Calls /\ Empty \notin Names
    /\ Absent \notin Texts /\ Torn \notin Texts /\ Absent # Torn
    /\ Unsure \notin Texts \union {Absent}
    /\ MaxTasks \in Nat \ {0} /\ IntMax \in Nat /\ MaxStarts \in Nat
    /\ Limits \subseteq (-IntMax - 1)..IntMax

VARIABLES
    alive,     \* does the server run?
    starts,    \* how often it has been started again
    at,        \* at[c]: where the handler of c stands
    job,       \* job[c]: its command and parameters
    mutex,     \* who holds utils.FilesMutex
    there,     \* is there a folder files/?
    folder,    \* folder[n]: what files/n holds
    told,      \* told[n]: what an answer 200 has said of files/n, until the
               \* next command touches it
    started, finished, wg   \* per loadtest: goroutines begun, ended; WaitGroup

fileVars == <<there, folder, told>>
taskVars == <<started, finished, wg>>
vars == <<alive, starts, at, job, mutex, fileVars, taskVars>>

NoJob == [op |-> "none"]

\* The image of the Dockerfile has no folder files/, a checkout has one.
Init == /\ alive = TRUE /\ starts = 0
        /\ at = [c \in Calls |-> "idle"]
        /\ job = [c \in Calls |-> NoJob]
        /\ mutex = None
        /\ there \in BOOLEAN
        /\ folder = [n \in Names |-> Absent]
        /\ told = [n \in Names |-> Unsure]
        /\ started = [c \in Calls |-> 0]
        /\ finished = [c \in Calls |-> 0]
        /\ wg = [c \in Calls |-> 0]

Goto(c, label) == at' = [at EXCEPT ![c] = label]

\* A panic ends the process: every call is gone and nothing is locked.
Die == /\ alive' = FALSE
       /\ at' = [c \in Calls |-> "idle"] /\ job' = [c \in Calls |-> NoJob]
       /\ mutex' = None
       /\ started' = [c \in Calls |-> 0]
       /\ finished' = [c \in Calls |-> 0]
       /\ wg' = [c \in Calls |-> 0]
       /\ UNCHANGED <<starts, fileVars>>

\* int arithmetic
Wrap(i) == ((i + IntMax + 1) % (2 * IntMax + 2)) - IntMax - 1

-----------------------------------------------------------------------------
(* Slips *)

\* Two mutexes: one for createfile, one for deletefile.
LockOther(c) == /\ at[c] = "lock"
                /\ IF mutex = None THEN TRUE ELSE job[mutex].op # job[c].op
                /\ mutex' = c
                /\ Goto(c, IF job[c].op = "createfile" THEN "open" ELSE "remove")
                /\ UNCHANGED <<alive, starts, job, fileVars, taskVars>>

\* An Unlock at the end instead of the defer: not on the way of an error.
UnlockOnSuccess(c) == /\ at[c] \in {"unlock", "unlockFailed"}
                      /\ mutex' = IF at[c] = "unlock" THEN None ELSE mutex
                      /\ Goto(c, "idle")
                      /\ job' = [job EXCEPT ![c] = NoJob]
                      /\ UNCHANGED <<alive, starts, fileVars, taskVars>>

\* wg.Add(1) once, before the loop.
LaunchAddOnce(c) == /\ at[c] = "launch" /\ started[c] < job[c].tasks
                    /\ started' = [started EXCEPT ![c] = @ + 1]
                    /\ wg' = [wg EXCEPT ![c] = IF started[c] = 0 THEN 1 ELSE @]
                    /\ UNCHANGED <<alive, starts, at, job, mutex, fileVars, finished>>

-----------------------------------------------------------------------------
(* A call *)

\* HandleRequest calls the handler; its parameters may be wrong, or lacking.
Begin(c, j) == /\ alive /\ at[c] = "idle"
               /\ job' = [job EXCEPT ![c] = j]
               /\ \E label \in {"begin", "bad"} : Goto(c, label)
               /\ UNCHANGED <<alive, starts, mutex, fileVars, taskVars>>

\* The parameters are right.  The process ends when strings.Repeat is to build
\* too long a text, make to hold too many numbers, when max-min+1 overflows in
\* rand.Intn, and when fibonacci, one of the others, recurses too deep.
Enter(c) ==
    /\ at[c] = "begin"
    /\ \/ /\ \/ job[c].op \in {"createfile", "deletefile"} /\ Goto(c, "lock")
             \/ job[c].op = "loadtest" /\ Goto(c, "launch")
             \/ job[c].op = "other" /\ Goto(c, "ok")
             \/ job[c].op = "random" /\ Wrap(job[c].max - job[c].min + 1) > 0
                                     /\ Goto(c, "ok")
          /\ UNCHANGED <<alive, starts, job, mutex, fileVars, taskVars>>
       \/ job[c].op \in {"createfile", "random", "other"} /\ Die

\* utils.FilesMutex.Lock()
Lock(c) == /\ at[c] = "lock"
           /\ mutex = None
           /\ mutex' = c
           /\ Goto(c, IF job[c].op = "createfile" THEN "open" ELSE "remove")
           /\ UNCHANGED <<alive, starts, job, fileVars, taskVars>>

\* os.WriteFile: the file is opened, and thereby emptied, ...
Open(c) == LET n == job[c].name
           IN  /\ at[c] = "open" /\ there /\ n # Empty
               /\ folder' = [folder EXCEPT ![n] = Torn]
               /\ told' = [told EXCEPT ![n] = Unsure]
               /\ Goto(c, "write")
               /\ UNCHANGED <<alive, starts, job, mutex, there, taskVars>>

\* ... or it is not: no folder, a name the system refuses, no descriptor left.
OpenFails(c) == /\ at[c] = "open"
                /\ Goto(c, "failed")
                /\ UNCHANGED <<alive, starts, job, mutex, fileVars, taskVars>>

\* ... and then written, or not all of it.
Put(c) == /\ at[c] = "write"
          /\ \/ /\ folder' = [folder EXCEPT ![job[c].name] = job[c].text]
                /\ Goto(c, "ok")
             \/ Goto(c, "failed") /\ UNCHANGED folder
          /\ UNCHANGED <<alive, starts, job, mutex, there, told, taskVars>>

\* os.Remove, which takes an empty name for the folder, and removes it if
\* there is nothing in it.
Remove(c) == LET n == job[c].name
             IN  /\ at[c] = "remove"
                 /\ IF /\ there
                       /\ IF n = Empty THEN \A m \in Names : folder[m] = Absent
                                       ELSE folder[n] # Absent
                    THEN /\ there' = (n # Empty)
                         /\ folder' = [m \in Names |-> IF m = n THEN Absent ELSE folder[m]]
                         /\ told' = [m \in Names |-> IF m = n THEN Unsure ELSE told[m]]
                         /\ Goto(c, "ok")
                    ELSE Goto(c, "failed") /\ UNCHANGED fileVars
                 /\ UNCHANGED <<alive, starts, job, mutex, taskVars>>

OnFiles(c) == job[c].op \in {"createfile", "deletefile"}

\* sendResponse; the file commands still hold the mutex.
Answer(c) ==
    /\ at[c] \in {"ok", "failed", "bad"}
    /\ told' = [n \in Names |->
                  IF at[c] # "ok" \/ ~OnFiles(c) THEN told[n]
                  ELSE IF job[c].name # n THEN told[n]
                  ELSE IF job[c].op = "createfile" THEN job[c].text ELSE Absent]
    /\ IF OnFiles(c) /\ at[c] # "bad"
       THEN /\ Goto(c, IF at[c] = "ok" THEN "unlock" ELSE "unlockFailed")
            /\ UNCHANGED job
       ELSE Goto(c, "idle") /\ job' = [job EXCEPT ![c] = NoJob]
    /\ started' = [started EXCEPT ![c] = 0]
    /\ finished' = [finished EXCEPT ![c] = 0]
    /\ UNCHANGED <<alive, starts, mutex, there, folder, wg>>

\* defer utils.FilesMutex.Unlock()
Unlock(c) == /\ at[c] \in {"unlock", "unlockFailed"}
             /\ mutex' = None
             /\ Goto(c, "idle")
             /\ job' = [job EXCEPT ![c] = NoJob]
             /\ UNCHANGED <<alive, starts, fileVars, taskVars>>

\* The loop of Loadtest: wg.Add(1) and go.
Launch(c) == /\ at[c] = "launch" /\ started[c] < job[c].tasks
             /\ started' = [started EXCEPT ![c] = @ + 1]
             /\ wg' = [wg EXCEPT ![c] = @ + 1]
             /\ UNCHANGED <<alive, starts, at, job, mutex, fileVars, finished>>

Looped(c) == /\ at[c] = "launch" /\ started[c] = job[c].tasks
             /\ Goto(c, "join")
             /\ UNCHANGED <<alive, starts, job, mutex, fileVars, taskVars>>

\* A goroutine has slept and calls wg.Done().
TaskEnds(c) == /\ finished[c] < started[c]
               /\ finished' = [finished EXCEPT ![c] = @ + 1]
               /\ wg' = [wg EXCEPT ![c] = @ - 1]
               /\ UNCHANGED <<alive, starts, at, job, mutex, fileVars, started>>

\* wg.Wait()
Join(c) == /\ at[c] = "join" /\ wg[c] = 0
           /\ Goto(c, "ok")
           /\ UNCHANGED <<alive, starts, job, mutex, fileVars, taskVars>>

\* The server is started again, by hand.
Restart == /\ ~alive /\ starts < MaxStarts
           /\ alive' = TRUE /\ starts' = starts + 1
           /\ UNCHANGED <<at, job, mutex, fileVars, taskVars>>

-----------------------------------------------------------------------------
Jobs == [op : {"createfile"}, name : Names \union {Empty}, text : Texts]
   \union [op : {"deletefile"}, name : Names \union {Empty}]
   \union [op : {"loadtest"}, tasks : 1..MaxTasks]
   \union {j \in [op : {"random"}, min : Limits, max : Limits] : j.min < j.max}
   \union {[op |-> "other"]}

Step(c) == \/ Enter(c) \/ Open(c) \/ OpenFails(c) \/ Put(c) \/ Remove(c)
           \/ Answer(c) \/ Unlock(c) \/ Launch(c) \/ Looped(c) \/ Join(c)

Next == \/ \E c \in Calls : \/ \E j \in Jobs : Begin(c, j)
                            \/ Lock(c) \/ Step(c) \/ TaskEnds(c)
        \/ Restart

Spec == Init /\ [][Next]_vars

(* Goroutines that can go on do, and a mutex is handed to a waiter that       *)
(* starves.  Nobody is obliged to ask, and nothing restarts a worker server.  *)
Fairness == \A c \in Calls : /\ WF_vars(Step(c))
                             /\ WF_vars(TaskEnds(c))
                             /\ SF_vars(Lock(c))

FairSpec == Spec /\ Fairness

-----------------------------------------------------------------------------
(* Properties *)

\* Who is answered 200 by createfile finds the whole text in the file, and who
\* is answered 200 by deletefile finds none, until another command gets to the
\* file: other calls in between, panics and restarts included.
AcknowledgedIsThere == \A n \in Names : told[n] # Unsure => folder[n] = told[n]

\* When loadtest answers 200 it has begun every task that was asked for, and
\* every one of them has ended.
LoadtestJoins ==
    \A c \in Calls :
       at[c] = "ok" /\ job[c].op = "loadtest" =>
          started[c] = job[c].tasks /\ finished[c] = job[c].tasks

\* A command that is begun is answered and gives the mutex back, unless another
\* one ends the server.
CommandsReturn == \A c \in Calls : at[c] # "idle" ~> at[c] = "idle"
=============================================================================
