-------------------------------- MODULE FanOut --------------------------------
(***************************************************************************)
(* One distributed job of the dispatcher (project1/dispatcher):            *)
(* handleWordCount and handleCalculatePi split a request over the workers, *)
(* launch a goroutine for each chunk, and add up what the goroutines leave *)
(* in resultsChan.  A unit is a line of the text or an iteration of Pi and *)
(* counts 1.                                                               *)
(*                                                                         *)
(* The workers crash, restart and hang, the health check and the           *)
(* redistribution of a queue are single steps (Dispatcher has them step by *)
(* step), and seleccionarWorker gives any worker believed alive.  The task *)
(* of a chunk goes to a queue and the chunk itself, apart, over HTTP;      *)
(* nobody executes the tasks in the queues.                                *)
(***************************************************************************)
EXTENDS ChunkPlan, Sequences, FiniteSets

CONSTANTS
    N,          \* len(d.Workers) when the request arrives
    MaxUnits,   \* bound: lines or iterations of the request
    Kinds,      \* the jobs asked for, among "words" and "pi"
    Blanks,     \* may the text have empty lines?
    QCap,       \* capacity of a worker's taskQueue (1000 in the program)
    MaxFaults   \* bound: crashes and hangs of workers

ASSUME NAssumption == N \in Nat /\ MaxUnits \in Nat /\ QCap \in Nat \ {0}
ASSUME JobAssumption == Kinds \subseteq {"words", "pi"}
                        /\ Blanks \in BOOLEAN /\ MaxFaults \in Nat

Worker == 0 .. (N - 1)
Chunk == 0 .. (N - 1)
None == -1

VARIABLES
    mode,       \* mode[w]: the worker server: "up", "down" or "hung"
    faults,     \* crashes and hangs so far
    status,     \* status[w]: Worker.Status
    queue,      \* queue[w]: the chunks whose task is in Worker.taskQueue
    active,     \* active[w]: Worker.activeTasks
    kind,       \* "words" or "pi"
    units,      \* len(lines), totalIterations
    blank,      \* the lines that are empty
    pc,         \* where the handler stands
    i,          \* its loop index
    at,         \* the worker selected for chunk i
    sent,       \* units of the chunks launched, totalPointsGenerated
    part,       \* part[k]: where the goroutine of chunk k stands
    via,        \* via[k]: the worker it talks to
    wg,         \* the WaitGroup's counter
    results,    \* the buffered channel resultsChan
    closed,     \* close(resultsChan) has been called
    sum,        \* totalWordCount, pointsInCircleTotal
    errors,     \* len(errors)
    resp,       \* the responses written to the client, in order
    handled,    \* Metrics.RequestsHandled
    failed      \* Metrics.RequestsFailed

envVars == <<mode, faults>>
jobVars == <<kind, units, blank>>
loopVars == <<pc, i, at, sent>>
partVars == <<part, via, wg, results>>
endVars == <<closed, sum, errors, resp, handled, failed>>
vars == <<envVars, status, queue, active, jobVars, loopVars, partVars, endVars>>

PartStates == {"none", "dial", "sent", "ok", "error", "garbled", "move",
               "return", "over"}

Init == /\ mode = [w \in Worker |-> "up"]
        /\ faults = 0
        /\ status = [w \in Worker |-> TRUE]
        /\ queue = [w \in Worker |-> {}]
        /\ active = [w \in Worker |-> 0]
        /\ kind \in Kinds
        /\ units = 0 /\ blank = {}
        /\ pc = "start" /\ i = 0 /\ at = None /\ sent = 0
        /\ part = [k \in Chunk |-> "none"]
        /\ via = [k \in Chunk |-> None]
        /\ wg = 0 /\ results = <<>> /\ closed = FALSE
        /\ sum = 0 /\ errors = 0
        /\ resp = <<>> /\ handled = 0 /\ failed = 0

\* A chunk of one empty line is sent as a body of no bytes.
NoBody(k) == /\ kind = "words"
             /\ Size(units, N, k) = 1 /\ Units(units, N, k) \subseteq blank

Room(q) == \A w \in Worker : Cardinality(q[w]) <= QCap

\* redistributeTasks(w), when st is what the dispatcher believes: each task of
\* w goes to the queue of a worker believed alive, and all are dropped if there
\* is none.  Blocks while a queue is full.
Redistribute(w, st) ==
    LET alive == {v \in Worker : st[v]}
        left == [queue EXCEPT ![w] = {}]
    IN  IF alive = {} THEN queue' = left
        ELSE \E to \in [queue[w] -> alive] :
                /\ queue' = [v \in Worker |->
                                left[v] \cup {k \in queue[w] : to[k] = v}]
                /\ Room(queue')

\* checkWorkerStatus(w), and the redistribution that follows a failed one.
\* There is no deadline on the ping's answer: a worker that hangs keeps whoever
\* checks it (HealthCheck.go:36).
CheckWorker(w) ==
    /\ mode[w] # "hung"
    /\ IF mode[w] = "up"
       THEN status' = [status EXCEPT ![w] = TRUE] /\ UNCHANGED queue
       ELSE /\ status' = [status EXCEPT ![w] = FALSE]
            /\ Redistribute(w, status')

Write(r) == resp' = Append(resp, r)
Succeed == handled' = handled + 1 /\ UNCHANGED failed
Fail == failed' = failed + 1 /\ UNCHANGED handled

Step(k, l) == part' = [part EXCEPT ![k] = l]

-----------------------------------------------------------------------------
(* Slips: what a small mistake in the code would make of an action.  The    *)
(* properties below are worth checking because they tell these apart from   *)
(* the program; no specification uses them.                                 *)

\* The error of a chunk is deposited without a return: the goroutine goes on
\* to parse what it has not got.
DepositTwice(k) == /\ part[k] \in {"ok", "error", "garbled"}
                   /\ Len(results) < N
                   /\ results' = Append(results, [chunk |-> k,
                                                  ok |-> part[k] = "ok"])
                   /\ Step(k, IF part[k] = "error" THEN "garbled" ELSE "return")
                   /\ UNCHANGED <<envVars, status, queue, active, jobVars,
                                  loopVars, via, wg, endVars>>

\* A goroutine that returns without wg.Done().
ReturnUndone(k) == /\ part[k] = "return"
                   /\ Step(k, "over")
                   /\ UNCHANGED <<envVars, status, queue, active, jobVars,
                                  loopVars, via, wg, results, endVars>>

\* close(resultsChan) without wg.Wait().
CloseAtOnce == /\ pc = "collect" /\ ~closed
               /\ closed' = TRUE
               /\ UNCHANGED <<envVars, status, queue, active, jobVars, loopVars,
                              partVars, sum, errors, resp, handled, failed>>

\* The errors are logged and not kept.
CollectQuietly == /\ pc = "collect" /\ results # <<>>
                  /\ sum' = IF Head(results).ok
                            THEN sum + Size(units, N, Head(results).chunk)
                            ELSE sum
                  /\ results' = Tail(results)
                  /\ UNCHANGED <<envVars, status, queue, active, jobVars,
                                 loopVars, part, via, wg, closed, errors, resp,
                                 handled, failed>>

\* Nobody is selected for a chunk, and no failure is counted.
SkipUncounted == /\ pc = "loop" /\ i < N /\ Size(units, N, i) > 0
                 /\ \A w \in Worker : ~status[w]
                 /\ i' = i + 1
                 /\ UNCHANGED <<envVars, status, queue, active, jobVars, pc, at,
                                sent, partVars, endVars>>

-----------------------------------------------------------------------------
(* The workers and the health check                                         *)

\* The goroutines that wait for w get an error, or a body cut short.
Crash(w) ==
    LET waiting == {k \in Chunk : part[k] = "sent" /\ via[k] = w}
    IN  /\ mode[w] = "up" /\ faults < MaxFaults
        /\ mode' = [mode EXCEPT ![w] = "down"]
        /\ faults' = faults + 1
        /\ \E end \in [waiting -> {"error", "garbled"}] :
              part' = [k \in Chunk |-> IF k \in waiting THEN end[k] ELSE part[k]]
        /\ UNCHANGED <<status, queue, active, jobVars, loopVars, via, wg,
                       results, endVars>>

Restart(w) == /\ mode[w] = "down"
              /\ mode' = [mode EXCEPT ![w] = "up"]
              /\ UNCHANGED <<faults, status, queue, active, jobVars, loopVars,
                             partVars, endVars>>

\* The worker keeps its connections and accepts new ones, but never replies.
Hang(w) == /\ mode[w] = "up"
           /\ faults < MaxFaults
           /\ mode' = [mode EXCEPT ![w] = "hung"]
           /\ faults' = faults + 1
           /\ UNCHANGED <<status, queue, active, jobVars, loopVars,
                          partVars, endVars>>

Observe(w) == /\ CheckWorker(w)
              /\ UNCHANGED <<envVars, active, jobVars, loopVars, partVars,
                             endVars>>

-----------------------------------------------------------------------------
(* The handler                                                              *)

\* A bad Content-Length or number of iterations (400), a body that cannot be
\* read (500), no worker registered (503).
Refuse == /\ pc = "start"
          /\ \E r \in {"400", "500"} \cup (IF N = 0 THEN {"503"} ELSE {}) :
                Write(r)
          /\ Fail
          /\ pc' = "done"
          /\ UNCHANGED <<envVars, status, queue, active, jobVars, i, at, sent,
                         partVars, closed, sum, errors>>

\* A text with no line left: 0 words.
EmptyText == /\ pc = "start" /\ kind = "words"
             /\ Write("200")
             /\ Succeed
             /\ pc' = "done"
             /\ UNCHANGED <<envVars, status, queue, active, jobVars, i, at,
                            sent, partVars, closed, sum, errors>>

Receive == /\ pc = "start" /\ N > 0
           /\ units' \in 1 .. MaxUnits
           /\ blank' \in IF Blanks /\ kind = "words" THEN SUBSET (1 .. units')
                                                   ELSE {{}}
           /\ pc' = "loop"
           /\ UNCHANGED <<envVars, status, queue, active, kind, i, at, sent,
                          partVars, endVars>>

\* Nothing for this chunk.  ("Protección extra" never skips one: ChunkInRange.)
SkipEmpty == /\ pc = "loop" /\ i < N
             /\ Size(units, N, i) = 0
             /\ i' = i + 1
             /\ UNCHANGED <<envVars, status, queue, active, jobVars, pc, at,
                            sent, partVars, endVars>>

\* seleccionarWorker finds nobody: the chunk is left out, a failure is counted.
SkipUnselected == /\ pc = "loop" /\ i < N /\ Size(units, N, i) > 0
                  /\ \A w \in Worker : ~status[w]
                  /\ Fail
                  /\ i' = i + 1
                  /\ UNCHANGED <<envVars, status, queue, active, jobVars, pc,
                                 at, sent, partVars, closed, sum, errors, resp>>

Select == /\ pc = "loop" /\ i < N /\ Size(units, N, i) > 0
          /\ \E w \in Worker : status[w] /\ at' = w
          /\ pc' = "check"
          /\ UNCHANGED <<envVars, status, queue, active, jobVars, i, sent,
                         partVars, endVars>>

\* A dead worker: the client is sent a 503 and the loop goes on.
Checked == /\ pc = "check"
           /\ CheckWorker(at)
           /\ IF mode[at] = "up"
              THEN pc' = "put" /\ UNCHANGED <<i, resp>>
              ELSE pc' = "loop" /\ i' = i + 1 /\ Write("503")
           /\ UNCHANGED <<envVars, active, jobVars, at, sent, partVars, closed,
                          sum, errors, handled, failed>>

\* worker.taskQueue <- &newTask
Put == /\ pc = "put" /\ Cardinality(queue[at]) < QCap
       /\ queue' = [queue EXCEPT ![at] = @ \cup {i}]
       /\ pc' = "launch"
       /\ UNCHANGED <<envVars, status, active, jobVars, i, at, sent, partVars,
                      endVars>>

Launch == /\ pc = "launch"
          /\ active' = [active EXCEPT ![at] = @ + 1]
          /\ sent' = sent + Size(units, N, i)
          /\ wg' = wg + 1
          /\ part' = [part EXCEPT ![i] = "dial"]
          /\ via' = [via EXCEPT ![i] = at]
          /\ i' = i + 1
          /\ pc' = "loop"
          /\ UNCHANGED <<envVars, status, queue, jobVars, at, results, endVars>>

\* After the loop the results are awaited; only handleWordCount looks first
\* whether there is anything to wait for.
Launched == /\ pc = "loop" /\ i = N
            /\ IF kind = "words" /\ sent = 0
               THEN pc' = "done" /\ Write("200") /\ Succeed
               ELSE pc' = "collect" /\ UNCHANGED <<resp, handled, failed>>
            /\ UNCHANGED <<envVars, status, queue, active, jobVars, i, at,
                           sent, partVars, closed, sum, errors>>

-----------------------------------------------------------------------------
(* The goroutine of chunk k: sendPostToWorker or sendGetToWorker            *)

Dial(k) == /\ part[k] = "dial"
           /\ Step(k, IF mode[via[k]] = "down" THEN "error" ELSE "sent")
           /\ UNCHANGED <<envVars, status, queue, active, jobVars, loopVars,
                          via, wg, results, endVars>>

\* The worker answers the number of words or points; nothing limits the wait for
\* it (dispatcher.go:391-396, sendGetToWorker likewise).  It reads a body of no
\* bytes until the dispatcher closes the connection, which waits for the answer.
Answered(k) == /\ part[k] = "sent" /\ mode[via[k]] = "up"
               /\ ~NoBody(k)
               /\ Step(k, "ok")
               /\ UNCHANGED <<envVars, status, queue, active, jobVars,
                              loopVars, via, wg, results, endVars>>

\* resultsChan <- WorkerResult{...}
Deposit(k) == /\ part[k] \in {"ok", "error", "garbled"}
              /\ Len(results) < N
              /\ results' = Append(results, [chunk |-> k, ok |-> part[k] = "ok"])
              /\ Step(k, IF part[k] = "error" /\ kind = "words" THEN "move"
                                                                ELSE "return")
              /\ UNCHANGED <<envVars, status, queue, active, jobVars,
                             loopVars, via, wg, endVars>>

\* d.redistributeTasks(w), with the status of w as it was.
Move(k) == /\ part[k] = "move"
           /\ Redistribute(via[k], status)
           /\ Step(k, "return")
           /\ UNCHANGED <<envVars, status, active, jobVars, loopVars, via, wg,
                          results, endVars>>

\* defer wg.Done()
Return(k) == /\ part[k] = "return"
             /\ wg' = wg - 1
             /\ Step(k, "over")
             /\ UNCHANGED <<envVars, status, queue, active, jobVars, loopVars,
                            via, results, endVars>>

-----------------------------------------------------------------------------
(* The end of the job                                                       *)

\* The goroutine that waits for the others: wg.Wait(), close(resultsChan).
Close == /\ pc = "collect" /\ ~closed /\ wg = 0
         /\ closed' = TRUE
         /\ UNCHANGED <<envVars, status, queue, active, jobVars, loopVars,
                        partVars, sum, errors, resp, handled, failed>>

\* for res := range resultsChan
Collect == /\ pc = "collect" /\ results # <<>>
           /\ IF Head(results).ok
              THEN /\ sum' = sum + Size(units, N, Head(results).chunk)
                   /\ UNCHANGED errors
              ELSE errors' = errors + 1 /\ UNCHANGED sum
           /\ results' = Tail(results)
           /\ UNCHANGED <<envVars, status, queue, active, jobVars, loopVars,
                          part, via, wg, closed, resp, handled, failed>>

Conclude == /\ pc = "collect" /\ closed /\ results = <<>>
            /\ IF errors > 0 THEN Write("500") /\ Fail
                             ELSE Write("200") /\ Succeed
            /\ pc' = "done"
            /\ UNCHANGED <<envVars, status, queue, active, jobVars, i, at,
                           sent, partVars, closed, sum, errors>>

-----------------------------------------------------------------------------
Handler == \/ Refuse \/ EmptyText \/ Receive \/ SkipEmpty \/ SkipUnselected
           \/ Select \/ Checked \/ Put \/ Launch \/ Launched
           \/ Collect \/ Conclude
Part(k) == Dial(k) \/ Answered(k) \/ Deposit(k) \/ Move(k) \/ Return(k)

Environment(w) == Crash(w) \/ Restart(w) \/ Hang(w) \/ Observe(w)

Next == \/ \E w \in Worker : Environment(w)
        \/ Handler
        \/ Close
        \/ \E k \in Chunk : Part(k)

Spec == Init /\ [][Next]_vars

\* Goroutines that can run do run, and a worker that neither ends nor hangs
\* answers for its chunk.
Fairness == /\ WF_vars(Handler) /\ WF_vars(Close)
            /\ \A k \in Chunk : WF_vars(Part(k))

FairSpec == Spec /\ Fairness

-----------------------------------------------------------------------------
(* Properties                                                               *)

TypeOK == /\ mode \in [Worker -> {"up", "down", "hung"}]
          /\ faults \in Nat
          /\ status \in [Worker -> BOOLEAN]
          /\ queue \in [Worker -> SUBSET Chunk]
          /\ active \in [Worker -> Nat]
          /\ kind \in {"words", "pi"}
          /\ units \in 0 .. MaxUnits /\ blank \subseteq 1 .. units
          /\ pc \in {"start", "loop", "check", "put", "launch", "collect", "done"}
          /\ i \in 0 .. N /\ at \in Worker \cup {None}
          /\ sent \in Nat
          /\ part \in [Chunk -> PartStates]
          /\ via \in [Chunk -> Worker \cup {None}]
          /\ wg \in Int
          /\ results \in Seq([chunk : Chunk, ok : BOOLEAN])
          /\ closed \in BOOLEAN
          /\ sum \in Nat /\ errors \in Nat
          /\ resp \in Seq({"200", "400", "500", "503"})
          /\ handled \in {0, 1} /\ failed \in Nat

Running(k) == part[k] \notin {"none", "over"}
\* The chunks whose goroutine has yet to leave its result.
ToCome == {k \in Chunk : part[k] \in {"dial", "sent", "ok", "error", "garbled"}}
Answer == resp[Len(resp)]
\* The job was split and the results of its chunks were awaited.
Collected == pc = "done" /\ closed

\* wg.Wait() returns only when every goroutine has left its result: nobody
\* sends on the closed channel, which would panic.
ClosedAfterAll == closed => \A k \in Chunk : ~Running(k)

\* The buffer has room for every result still to come, so a goroutine never
\* blocks on resultsChan (WordCount.go:92-93).
DepositsNeverBlock == Len(results) + Cardinality(ToCome) <= N

\* A 200 is the exact total of the chunks that were launched: no result is
\* lost between a goroutine and the handler, none is counted twice, and an
\* error of any of them turns the answer into a 500.
TotalOfLaunched == Collected => (Answer = "200" <=> sum = sent)

\* A 200 for which every chunk found a live worker is the total of the request:
\* the chunks overlap nowhere and leave nothing out.
CompleteIfNotSkipped ==
    Collected /\ Answer = "200" /\ failed = 0 /\ Len(resp) = 1
        => sum = units

\* The chunks of the request under way are disjoint and cover its units, and
\* each starts where handleWordCount's sum of the previous chunks says.
PlanIsPartition ==
    /\ \A k \in Chunk : StartBySum(units, N, k) = Start(units, N, k)
    /\ \A u \in 1 .. units : \E k \in Chunk :
          {j \in Chunk : u \in Units(units, N, j)} = {k}

\* The chunks the loop has not passed yet; those that were launched and have not
\* been taken from resultsChan.
Ahead == {k \in Chunk : k >= i /\ Size(units, N, k) > 0}
Out == ToCome \cup {results[j].chunk : j \in 1 .. Len(results)}

\* A response or a failure beyond those of the answer itself.
Noted == IF pc = "done" THEN \/ Len(resp) > 1
                             \/ failed > (IF Answer = "200" THEN 0 ELSE 1)
                        ELSE resp # <<>> \/ failed > 0

Job == INSTANCE SplitJob WITH
          Chunks <- Chunk,
          share <- [k \in Chunk |-> Units(units, N, k)],
          ahead <- Ahead,
          out <- Out,
          lost <- errors,
          noted <- Noted,
          told <- IF pc = "done" THEN Answer ELSE "nothing"

\* However goroutines, crashes and hangs interleave, a job deals each unit to one
\* chunk and each chunk goes one way, once: it is left out, which leaves a trace, or
\* launched, and then counted or lost; the client is answered after the last of
\* them, 200 if and only if none was lost.
ImplementsJob == Job!Spec

\* The job waits for a worker that hangs: to check it, or for its result.
HeldUp == \E w \in Worker : /\ mode[w] = "hung"
                            /\ \/ pc = "check" /\ at = w
                               \/ \E k \in Chunk : part[k] = "sent" /\ via[k] = w

\* A request that was split is answered, whatever workers crash or come back and
\* whoever checks and moves tasks meanwhile, unless a worker hangs that it was
\* given: one that was given to nobody holds nothing up.
JobIsAnswered == pc = "loop" ~> pc = "done" \/ HeldUp

\* The total that is returned is the total of the request.
TotalIsComplete == Collected /\ Answer = "200" => sum = units
=============================================================================
