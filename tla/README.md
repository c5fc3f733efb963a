# Verification of wsl-so-work

TLA+ models, TLC runs and TLAPS proofs for the programs of this repository:
the distributed HTTP server of `project1` (Go) and the two simulators of
`tarea-3` and `tarea-4` (C).

Contents

1. The system: its parts, their state, how they meet, what is hard
2. The modules, and how they correspond to the code
3. The runs: what each checks, its bounds, what it shows
4. Fairness
5. The proofs
6. What disagrees with the code's own documentation
7. What is not modelled, and why
8. The plan

Paths below are under `src/`.  To repeat the results, in this directory:

    tlc -config MCWorkerPool.cfg MCWorkerPool.tla      # one run
    tlapm WorkerPoolProofs.tla                         # one proof module

---

## 1. The system

    client --HTTP--> dispatcher --HTTP--> worker server 0 .. n-1
                       |  ^                  |
                       |  +---- POST /suscribir, once, at start
                       +--- GET /ping every 10 s (health check)

The **dispatcher** (`project1/dispatcher`) accepts connections and gives each
to a goroutine.  `/count_words` and `/calculate_pi` are split over all workers;
every other command goes to one worker.  A **worker server**
(`project1/server`) keeps, for each command, a pool of worker goroutines behind
two channels.  All state is in memory.

| Component | State | Operations | Meets |
|---|---|---|---|
| Worker pools (`server/main.go` 90-132, 228-336, `workerPool.go`, `worker.go`) | `TotalRequests`, per pool `RequestChan`, `WorkerChan`; per worker `ReqActual`, `Status`; per request `Listo` | accept, count, answer inline or submit; `dispatch`: receive, claim a worker, deliver; worker: announce, receive, run, tidy | goroutines over unbuffered channels; the dispatcher over HTTP |
| Dispatcher, single requests (`dispatcher.go`) | per worker `Status`, `taskQueue` (1000 places), `activeTasks`, `CompletedTasks`, `mu`; `lastWorkerIndex`; metrics | `HandleConnection`, `sendToWorker`, `cleanCompletedTasks` | handlers share the workers' records with the health check and with each other |
| Health check and redistribution (`HealthCheck.go`) | the same records | `checkWorkerStatus`, `HealthCheck`, `redistributeTasks`, `seleccionarWorker` | as above |
| Distributed jobs (`WordCount.go`, `CalculatePi.go`) | chunk plan, `WaitGroup`, `resultsChan`, sums and errors | split, select, check, queue, launch, send, deposit, close, collect, answer | one goroutine per chunk; worker servers over HTTP; the queues |
| Worker registration (`HealthCheck.go` 158-216, `server/main.go` 469-540) | `d.Workers`, `d.Mu` | subscribe with retries, append to the registry | worker servers at start; everyone who reads `d.Workers` |
| File system simulator (`tarea-4/main.c`) | block map, file table, disk contents | CREATE, WRITE, READ, DELETE, LIST | none: sequential |
| Memory allocator simulator (`tarea-3/main.c`) | table of at most 100 blocks | ALLOC, REALLOC, FREE, PRINT under three fits | none: sequential |
| Status pages (`serverStatus`, `workerStatus`) | none of their own | read | unsynchronised reads of the workers' records |
| Command handlers (`server/handlers`) | the folder `files/`, `FilesMutex`; a `WaitGroup` per loadtest | one per command | run inside one pool worker each, side by side; a panic of one ends them all |
| Parsing and responses (`utils/parser.go`, both programs) | none | split, format | everyone |

What makes each hard, and what makes it correct:

* **Worker pools.**  Four kinds of goroutines meet on two channels, one of
  which (`RequestChan`) has two kinds of senders *and* two kinds of receivers,
  because every worker announces the pool's own channel (`workerPool.go:29`).
  Correct means: a request is never lost nor run twice, is answered at most
  once, before its worker is free again; the pool keeps serving.
* **Single requests.**  Handlers, each with up to two checks and three
  redistributions, and the health check interleave on `mu`, the queues and
  `Status`, while workers crash, come back, cut replies short, or hang.
  Correct means: the mutex is always given back by whoever holds it, tasks are
  neither duplicated nor left behind, `activeTasks` covers what is in flight,
  a client gets a defined answer, `Status` ends up true, everyone returns.
* **Distributed jobs.**  Correct means: the chunks partition the request, no
  goroutine blocks on or sends to a closed `resultsChan`, an error of one chunk
  is not lost, the total is that of the request, the client is answered.
* **Registration.**  Answers lost between append and reply, attempts handled
  after they were given up, a restart of the dispatcher (`restart: always`),
  appends under `d.Mu` while others read without it.  Correct means: a worker
  server is in the registry once, is told so only if it is so, and is visited
  by the health check.
* **Command handlers.**  Three workers per file command, on the same files; a
  write that fails half way or a process that ends in the middle of it.
  Correct means: what a 200 says of a file is so, loadtest waits for all of its
  tasks, the mutex is given back.
* **File system, allocator.**  Long command sequences, limits (files, 1 MB,
  100 blocks), rounding, merging.  Correct means: blocks of two owners never
  overlap, nothing leaks, what is read is what was written.

Every line where one of these hazards bites is in `PROJECT.json` under
`hazards`, with the properties that watch it.

---

## 2. The modules

| Module | What it is |
|---|---|
| `PoolService` | abstract: requests wait, are taken by a free worker, answered once |
| `WorkerPool` | one command pool of a worker server, goroutine by goroutine; implements `PoolService` |
| `WorkerPoolProofs` | theorems about `WorkerPool` |
| `TaskBoard` | abstract: the tasks in queues and in hands, who holds a mutex, what each client has been told |
| `Dispatcher` | single requests, health check, redistribution, selection; the worker servers as environment; implements `TaskBoard` |
| `DispatcherProofs` | theorems about `Dispatcher` |
| `ChunkPlan` | the arithmetic that splits a job (operators only) |
| `ChunkPlanProofs` | theorems about `ChunkPlan` |
| `SplitJob` | abstract: the units of a request dealt out to chunks, each counted, lost or left out once |
| `FanOut` | one distributed job, on `ChunkPlan`; implements `SplitJob` |
| `FanOutProofs` | theorems about `FanOut` |
| `Membership` | abstract: a set of members, some of whom have been told so |
| `Registry` | worker servers that register, the registry, the rounds of the health check, the end of the dispatcher; implements `Membership` |
| `RegistryProofs` | theorems about `Registry` |
| `Commands` | the commands that touch something shared, as the workers run them side by side |
| `CommandsProofs` | theorems about `Commands` |
| `FileStore` | abstract: texts under names, what each command answers |
| `FileSystem` | `tarea-4`: table, block map, disk; implements `FileStore` |
| `FileSystemProofs` | theorems about `FileSystem` |
| `Heap` | abstract: pieces of a memory with an owner, and the runs of bytes between them |
| `Allocator` | `tarea-3`: the table of blocks and the bytes of the memory; implements `Heap` |
| `AllocatorProofs` | theorems about `Allocator` |
| `MCWorkerPool`, `MCDispatcher`, `MCFanOut`, `MCRegistry`, `MCCommands`, `MCSimulators` | instances for TLC |

The modules of the server meet where one needs of another only a result:
`Dispatcher` and `FanOut` take a registry that does not change, which is what
`Registry` gives between two subscriptions (nobody ever leaves it); a command is
one step, `Respond`, in `WorkerPool`, and `Commands` opens that step.

`PROJECT.json` maps every definition to the lines it stands for.

### WorkerPool

| Code | Module |
|---|---|
| `ln.Accept`, `go handleConnection` | `Accept(c)`; it also records in `overlap` whether another client was still being served |
| errors before a request exists | `ReadError(c)` |
| `TotalRequests++` under the mutex (`main.go` 283-285) | `Count(c)` |
| commands answered by the handler itself | `Inline(c)` |
| `newRequest`, whose ID reads `TotalRequests` without the mutex | `Submit(c)` |
| `pool.RequestChan <- newRequest` | `HandToDispatch(c)` if `dispatch` receives, `Steal(c, w)` if a worker does |
| `dispatch`: `<-RequestChan`, `<-WorkerChan`, `workerChan <- req` | `HandToDispatch`, `Claim(w)`, `Deliver(w)` |
| `Worker.Start`: announce, receive, `HandleRequest`, tidy | `Claim`, `Deliver`/`Steal`, `Respond(w)`, `Tidy(w)` |
| `<-newRequest.Listo` | `conn[c] = "waiting"`, which no action leaves: nothing sends on or closes `Listo` |

A rendezvous on an unbuffered channel is one action of its two parties.  A
command of `server/handlers` is the one step `Respond`.  What the response
says is abstracted: it is the event of writing one.

### Dispatcher

A goroutine is a program counter `pc[p]`; `p` is a connection or `Health`.  A
step is what happens between two operations other goroutines can observe: a
section under `mu` that blocks inside (draining, pushing to another queue,
cleaning) is several steps with `mu[w] = p`; one that does not is one step
guarded by `Free(w)`.  `seleccionarWorker` takes no lock, so reading a
candidate (`ScanHit`, `ScanMiss`) and writing `lastWorkerIndex` (`Commit`) are
apart.  `checkWorkerStatus` is `Dial`, `Pong`, `MarkUp`/`MarkDown`;
`redistributeTasks` is `Lock`, `DrainOne`, `Drained`, and for each task a
selection and `Push` (or `DropTask` when nobody is alive).  `todo[p]` holds how
many redistributions the goroutine has to run after a failed check: a refused
dial runs one inside `checkWorkerStatus`, and `HandleConnection` runs one of
its own after the check, hence up to two.  `NoRequest` is the error of
`http.NewRequest`, which a path with a bad escape brings about: `isValidRoute` is
never called.  Environment: `Crash`, `Restart`, `Hang` of a worker server;
`BodyError` and `RelayFail` for a reply cut short and a client that leaves;
`Timeout` for the HTTP client's five seconds.

`Board` is the mapping to `TaskBoard`: a queue becomes the set of its tasks, the
list of a redistribution the hand of the goroutine that runs it, and what has
been written to a client one of six words (`Told`).  Selection, checks, counters
and program counters disappear.  `TaskBoard` does not say that an answered task
is gone, because it may not be (section 6).

### FanOut

The handler is a program counter `pc` with its loop index `i`; the goroutine of
chunk `k` is `part[k]`.  `handleWordCount` and `handleCalculatePi` differ in
four points, all kept: only the first tests `sent = 0` after the loop
(`Launched`), answers an empty text at once (`EmptyText`), redistributes the
queue after a failed call (`Deposit` to `"move"`), and may send a body of no
bytes (`NoBody`).  Selection, check and redistribution are single steps here:
`Dispatcher` has them in detail, and a job uses nothing of them but their
result.  The worker side of a chunk (`handleCountChunkInWorker`,
`handleCalculatePiInWorker`, which no pool is involved in) is `Answered`.  A
worker server may `Hang`: it keeps its connections, accepts new ones and never
replies.  Nothing limits how long its chunk (`dispatcher.go:391`) or whoever checks
it (`HealthCheck.go:36`) waits: `HeldUp` says that the job does.

`Job` is the mapping to `SplitJob`.  A chunk is ahead until the loop passes it
(`Ahead`), out from its launch until the handler takes its result from the
channel (`Out`: nobody outside sees whether a result is still with a goroutine or
waits in the buffer), and `Noted` says whether a response or a failure beyond
those of the answer shows that one was left out.

### ChunkPlan

`Size` and `StartBySum` are the code's own; `Start` is the closed form the
proofs use.  `PlanIsPartition` (run `fanout`) checks that the two starts agree.

### Registry

A worker server is `worker[w]` with its attempts `tries[w]` and the connection
it waits on, a handler of `suscribirHandler` is `conn[c]`.  An attempt the
worker server gives up (`Lose`: ten seconds, or an answer that breaks off) leaves
its handler at work, so that two attempts of one server may be in the dispatcher
at once.  `append` to a shared slice is two stores, the length and then the
element: `Subscribe` does the first under `d.Mu`, `Store` the second, and a
round of `HealthCheck`, which takes no lock, may come in between and read a slot
that holds no worker yet (`ReadNil`: the nil dereference ends the dispatcher).
`RoundBegin` copies the length, as `range` does.  `Visit` is the check of one
worker server and does not end while that server hangs (`Hang`, `RoundStuck`).  `End` is the end of the
dispatcher's process for whatever reason; an answer it had already written may
still arrive (`"late"`).  `Restart` is `restart: always`; worker servers have no
such policy, so that `Relaunch` is somebody's decision and gets no fairness.

### Commands

One handler per worker of the pools.  `os.WriteFile` is `Open`, which empties
the file, and `Put`, which may fail half way, or `OpenFails`, which leaves it
alone; the answer is written with the
mutex held, `Unlock` is the deferred one.  `there` is the folder `files/`: the
image of the `Dockerfile` has none, and `deletefile` of an empty name removes it
when it is empty.  `Die` ends the process: `random` with bounds whose difference
overflows (`Wrap`) or too many numbers, a text too long for `strings.Repeat`, a
`fibonacci` that recurses until the stack is full.

### FileSystem and FileStore

A command is one step and the next prompt another; between them `line` and
`said` show the command and its answer.  The loops of `write_file` and
`read_file` copy piece by piece inside blocks; `At` says where each byte goes.
`ReadWild` is a READ whose `offset + size` overflows: it may be answered as any
READ, be refused by `malloc`, or run off the disk.  `FileStore` knows only texts
under names: it says what each command answers and that no command touches
another name's text.  A CREATE may be refused while other files are there, but
not on an empty disk.  A new file holds what its blocks held before: the code
does not clear them.

### Allocator

A line of the input file is one step.  `Holes`, `Preferred` and `Chosen` are
`search_free_block` under the three values of `SEARCH_ALGORITHM`, which is a
variable that never changes, so that one run covers all three.  The model ends
(`overrun`) where `alloc_block` writes behind the table: what that does depends
on the build.

`Memory` is the mapping to `Heap`, which has no table: the blocks that are taken
become pieces, and a hole is whatever lies between two of them.  `Heap` says
which runs a search may choose, not when it must find one: an ALLOC that is
refused is no step of it, a REALLOC that is refused the step of FREE.  That the
code refuses for lack of room only is said by `HolesAreRuns` and `ReallocKeeps`.
`Heap` is loose besides only where pieces of no bytes are
concerned, which may stand anywhere between two pieces and of which a set does
not count several at one place.

### Slips

The sections named *Slips* hold, for many actions, the action a plausible
mistake would make of it (`CountDown`, `PushTwice`, `CleanedLocked`,
`CloseAtOnce` ...).  No specification uses them.  Put in the place of the
action they vary, they must break the property `PROJECT.json` names under
`mutants`: each property of each passing run has one, so none of them holds by
the shape of the model.

---

## 3. The runs

Faults and loops of the environment are bounded, never those of the program:
`MaxFaults` bounds the crashes of worker servers (restarts are free; in `FanOut` it
bounds hangs too), `MaxHangs` the workers that hang at the same time (in
`Dispatcher` and `Registry`), `MaxCrashes` and `MaxLosses` the ends of the
dispatcher and the lost attempts of `Registry`, `MaxUnits` the size of a job, `QCap` is
the capacity of a task queue, 1000 in the program.

| Run | Expect | What it shows | Instance, and why it is enough |
|---|---|---|---|
| `pool` | pass | no request is lost or held twice (`OneHolder`); the channels implement `PoolService` (`ImplementsService`); a wedged pool never recovers (`WedgeIsForever`); clients that come one after the other never wedge it, get distinct IDs and are served (`NeverWedged`, `UniqueIds`, `SequentialIsServed`) | 3 clients, 2 workers: the wedge needs one request with `dispatch`, one that overtakes it and one that suffers; a third worker would only be a spare of the second |
| `pool_overlap` | violation of `EveryRequestAnswered` | clients that overlap wedge the pool | the same instance |
| `dispatcher` | pass | `LockOwner`, `TaskInOnePlace`, `ActiveCovers`, `Outcomes` for two handlers and the health check, and that together they implement `TaskBoard` (`ImplementsBoard`) | 2 workers, so that a redistribution has where to go and both checks of a handler may meet the other's; one crash with any number of restarts, replies cut short, clients that leave; queues hold both tasks |
| `dispatcher_live` | pass | `HangIsContained`, `StatusConverges`, `ChecksComeRound` | 2 workers, 2 crashes so that both may be dead at once or one may die twice, 1 hang; 1 handler against the health check; one task cannot overfill a queue of one place |
| `dispatcher_answered` | violation of `AnsweredTaskIsGone` | a moved task outlives its response | 2 workers, 1 client, 1 crash |
| `dispatcher_hung` | violation of `HealthCheckIsPeriodic` | a hung worker stops the health check | 2 workers, 1 hang |
| `fanout` | pass | `ClosedAfterAll`, `DepositsNeverBlock`, `TotalOfLaunched`, `CompleteIfNotSkipped`, `PlanIsPartition`, `JobIsAnswered`, and that a job implements `SplitJob` (`ImplementsJob`) | 2 workers, jobs of 1 to 3 units: fewer units than workers, as many, and a remainder; 2 faults, so that both workers may be dead, one chunk may fail after another was skipped, or one worker may hang and the other be dead |
| `fanout_partial` | violation of `TotalIsComplete` | a skipped chunk is left out of a total answered 200 | 1 crash |
| `fanout_blank` | violation of `JobIsAnswered` | a chunk of one empty line is never answered | 2 lines, no fault |
| `registry` | pass | a server has one entry, at its ID's place (`OneEntryEach`); `ImplementsMembership`; a server forgotten by a dispatcher that ended stays so until somebody relaunches it (`ForgottenForGood`); fewer losses than tries do not keep out a server that does not hang (`RetriesSuffice`); the health check visits whoever joins, even in the middle of a round, unless it waits for a server that hangs (`NewWorkerIsChecked`) | 2 servers with 3 tries, so that two attempts of one may meet one of the other; 2 connections; 1 end of the dispatcher; 1 server that hangs, so that the other shows what is held up with it; 2 losses, fewer than the tries, which is what `RetriesSuffice` is about |
| `simulators` | pass | `BlocksAccounted`, `ImplementsFileStore`; `Partition`, `OwnBytes`, `HolesAreRuns`, `ReallocKeeps`, `OverrunNeedsMany`, `ImplementsHeap` | file system: 3 names for 2 entries and 3 blocks of 2 bytes, sizes around every limit, ints that overflow at 8; allocator: 2 variables, 5 bytes and 5 places, under each of the three searches: a full table, a hole on either side and on both. Names and variables are symmetric |
| `commands` | pass | `AcknowledgedIsThere`, `LoadtestJoins`, `CommandsReturn` | 2 workers on one file and the empty name, 2 texts so that one write can hide the other, loadtests of up to 2 tasks, ints of 3 bits of which one pair of bounds overflows, one restart |

Two workers are the fewest for which round robin, redistribution to somebody
else and "no worker is alive" all happen, and `MaxFaults = 2` lets the last one
happen.  Capacities are shrunk, and the bound is reached where that is the
question: in `dispatcher_live` a queue of one place is full with one task.  In
the passing liveness runs the tasks of the clients fit; section 6 says what
happens when they do not.

`CHECK_DEADLOCK FALSE` stands in the configurations in which the program does
stop: every client served or the pool wedged (`MCWorkerPool*`), the job over
(`MCFanOut*`), every goroutine held by a hung worker (`MCDispatcherLive`,
`MCDispatcherHung`), every server registered or out of tries (`MCRegistry`), a
server that ended for the last time (`MCCommands`), EXIT or a table overrun
(`MCSimulators`).  `MCDispatcher` checks for deadlock.

The two simulators have nothing to do with each other; `MCSimulators` runs one
or the other, so that one run asks of both what any sequence of commands does.

---

## 4. Fairness

* `WorkerPool`: a goroutine that can run runs (weak fairness of the handlers
  and workers).  The senders blocked on a Go channel are queued first come,
  first served, so a sender whose rendezvous is possible again and again gets
  it (strong fairness of `Receive(c)`).  Clients are never obliged to come.
* `Dispatcher`: strong fairness of each handler and of the health check:
  `sync.Mutex` hands itself over to a waiter that starves, and a blocked send
  on a buffered channel is queued.  Crashes, restarts and hangs get none, so
  "ends up" never depends on a worker coming back; `StatusConverges` and
  `ChecksComeRound` say `NoHang =>` because a hang does break them, which
  `dispatcher_hung` shows.
* `FanOut`: weak fairness of the handler, of the closing goroutine and of each
  chunk's goroutine, which includes that a worker server that has its chunk and
  neither ends nor hangs answers.  Nothing limits the wait for one that hangs, so
  `JobIsAnswered` ends in "answered, or held up by a hung worker that the job was
  given to" (`HeldUp`); a worker that hangs with nothing of the job in its hands is
  no excuse.
* `Registry`: weak fairness of each worker server's attempts, of the health
  check's rounds (its ticker) and of `Restart` (`restart: always`); strong
  fairness of each handler, because `d.Mu` hands itself over to a waiter that
  starves.  Nothing obliges an attempt to be lost, the dispatcher to end, a
  server to hang or one that hangs to be relaunched.  A server that hangs does
  nothing, and the round of the health check that meets it stays there:
  `RetriesSuffice` speaks of servers that never hang, and `NewWorkerIsChecked`
  has the round that is stuck as its exception (`RoundStuck`), besides the end of
  the dispatcher.
* `Commands`: weak fairness of the handlers and of a loadtest's goroutines,
  strong fairness of `Lock` for the same reason as above.  No restart is fair:
  nothing starts a worker server again.
* The simulators are sequential, and nothing is said of when the next command
  comes: no fairness.

---

## 5. The proofs

TLAPS proves the following for every value of the constants: any number of
workers and clients, any queue capacity, any number of faults.  The assumptions
are the `ASSUME`s of the modules: counts are naturals, `QCap` is positive, the
names of goroutines and of "nobody" differ.

**`WorkerPoolProofs`**: `TypeCorrect`, `RequestHasOneHolder`, `AnsweredOnce`,
`OneListener`, `AnsweredBeforeFree`, `WedgePermanent`, `SequentialIsSafe`,
`SequentialIds`, `Refinement`.
`OneHolder` is not inductive: it does not say who may be listening, so a step of
`Deliver` could give a request to a worker that has one.  `IInv` adds where a
request can be (`HandInv`, `WorkerInv`, `ServeInv`), what has been answered
(`AnswerInv`), and `Handoff`: a worker listens only while `dispatch` is
delivering, so at most one does.  `Refinement` maps each step to a step of
`PoolService` or a stutter, using that invariant.  `OneAnswer`, `Handoff` and
`AnswerBeforeFree`, which `AnsweredOnce`, `OneListener` and `AnsweredBeforeFree`
state, are left to the proofs: `ImplementsService` catches in the run what would
break them.  `SequentialIsSafe` and
`SequentialIds` need one more (`SeqInv`, under `~overlap`: one client outstanding at a time, and the
listener and the sender go together), and that `overlap` never goes back to
FALSE.

**`DispatcherProofs`**: `TypeCorrect`, `MutexIsOwned`, `EveryReturnAnswers`,
`ActiveNeverShort`, `NoTaskTwice`, `BoardImplemented`, `GoneForGood`,
`TakenUnderLock`.
What each program counter implies has to be carried along: that a goroutine
past its selection has a worker and one that moves tasks has some left
(`PcInv`), and what has been written to the client at each point (`RespInv`).
There is one lemma for each action.  `FlightInv` adds that the requests in
flight of a worker are finitely many and at most as many as its counter: only
the step that increments it adds one, and the two that decrement it remove one
each.  `PlaceInv` is about tasks: one that waits has been enqueued by its
handler, once, and the places in queues and in the lists of those who move tasks
are apart; five steps move a task, the others leave all of them where they are.
`BoardImplemented` maps each step to a step of `TaskBoard` or a stutter.  A queue
can be a set only because of `PlaceInv`: with a task twice in a queue, taking one
out would leave it there.  `HandInv` adds that only a goroutine between Lock and
Unlock has tasks in its hand, which is why an Unlock never leaves one behind;
that the set of posted tasks grows at `Enqueue` and nowhere else follows from
`PcInv` and `RespInv`, since a handler's way back (`back`) is "502" from then on.
Two action properties are read off the steps of the board (`BoardMoves`): a task
that is in no queue and in nobody's hand never comes back, and none leaves a
queue whose mutex nobody holds.

**`ChunkPlanProofs`**: `ChunksDisjoint`, `ChunksCover`, `ChunkInRange`,
`ChunksBalanced`, `SumIsStart`: the chunks partition the job, differ by one unit at most, and
never reach past the end, so the guard "Protección extra" (`WordCount.go`) is
never taken.  The keys are `Adjacent` (a chunk ends where the next one starts)
and `Monotone`, both facts about division with remainder.  `SumIsStart`: the start
that `handleWordCount` sums up in its inner loop is the closed form, the one
induction the development needs.  It needs no induction rule: the closed form is a
solution of the recursive function's equation, so the function is a solution too,
and a least chunk at which the two differed would have a right predecessor.

**`FanOutProofs`**: `TypeCorrect`, `ChannelClosedOnce`, `RoomForEveryResult`,
`ExactOrRefused`, `WholeIfNothingSkipped`, `ChunksPartitionJob`,
`JobImplemented`.
The run of `FanOut` leaves its `TypeOK` to `TypeCorrect`.
`ClosedAfterAll` is not inductive: it says nothing of the moment before
`wg.Wait()` returns.  `GroupInv` adds that `wg` is the number of goroutines
under way, that only chunks behind the loop have one, that nothing is launched
after the close, and that the results left and to come are at most as many as
the chunks behind the loop.  The totals are sums over sets of chunks; no
induction is needed for them, because a sum of sizes is the number of units the
chunks cover (`Weight`), and one chunk more adds its size because
`ChunksDisjoint` says they share no unit.  `Ledger` says where every result is:
added to the total, kept as an error, or once in the channel.  When the job is
answered the channel is empty and every goroutine is over, so the total and the
errors together are what was launched; a chunk that failed is not empty, so a
500 never has the full sum.  `SkipInv` adds that as long as nothing has been
noted as a failure every chunk behind the loop was launched, and `ChunksCover`
makes the total of those the total of the request.  `ChunksPartitionJob` is
`PlanIsPartition`, from the theorems about chunks and from the fact that there
are no units before a request has been split, which takes a worker
(`NoUnitsWithoutWorkers`).  `JobImplemented` needs no further
invariant but `StartInv` (nothing is known before the request has been split):
`Deposit` is invisible because a chunk only changes places inside `Out`, and
`Collect` takes a chunk out of it because, by the `Ledger`, it was in the channel
once and with no goroutine.  The facts about cardinalities are those of
`FiniteSetTheorems`.

**`RegistryProofs`**: `TypeCorrect`, `NobodyTwice`, `LostForGood`,
`MembershipImplemented`.  That a server has one entry depends on who is in the
middle of `suscribirHandler`: `LockInv` ties a handler's place to `d.Mu`,
`SlotInv` says that the only empty slot is the last one and belongs to the
handler that grew the slice for a server without an entry.  `SureInv` (whoever
is told is listed) is what a refinement to `Membership` needs, `GoneInv` (a
registered server has no connection open) what keeps a forgotten one forgotten.

**`CommandsProofs`**: `Acknowledged`, `Joined`, `MutexGivenBack`.  `AcknowledgedIsThere` needs who
has the mutex at each point (`MutexInv`), that the file is already as the answer
will say before the answer is sent (`DoneInv`), and that nothing is claimed of a
file while it is written (`WriteInv`).  A panic ends every call at once, so
these survive it.  `TaskInv` gives `Joined`: the counter of the `WaitGroup` is
started minus ended, and `Wait` returns at zero with every task started.
`MutexGivenBack` is the safety half of `CommandsReturn`: the mutex is held exactly
by the command between its Lock and its deferred Unlock, on the ways of errors
too.

**`AllocatorProofs`**: `AlwaysPartition`, `AlwaysOwnBytes`, `ReallocNeverLoses`,
`OverrunWhenFull`, `HolesAlwaysRuns`, `HeapImplemented`, for any sizes of memory
and table and each of the three searches.  The invariant has the blocks end to
end (`Chain`), no hole beside a hole (`Apart`) and the bytes as their blocks say.
`Chain` says of any two blocks that the earlier ends before the later begins:
this would follow from what it says of neighbours by an induction on the table,
so it is carried along.  Freeing is split into the mark, the merge with the next
block and the merge with the one before; each is a lemma about a table, and
REALLOC cites the lemmas of FREE and of ALLOC.  `HolesAlwaysRuns` needs both
parts: by `Chain` every byte is in a block, so a run that nobody owns is made of
holes, and by `Apart` of one.  `HeapImplemented` then turns what the code prefers
among places of the table into what `Heap` prefers among runs, and what it does
to the table into a piece more or a piece less.

**`FileSystemProofs`**: `BlocksAgree`, `StoreImplemented`.  `BlocksAccounted`
includes that `num_files` is the number of entries in use, without which
`create_file` could find no entry where one was promised.  `FsInv` is the
same in the form a step keeps, with bounds instead of sets of blocks (the blocks of
an entry are its size rounded up and end on the disk) and with the types of the
entries and of the disk.  The refinement maps a file to the bytes of its
blocks (`TextOf`); its lemma `WrittenByte` is that a WRITE changes exactly the
bytes it was given, of one file only.

Two searches of the C programs pick the first or the smallest of a set.  That a
set of naturals has a least element is taken from `NatLessThanWellFounded` and
`WFMin` of the library, which have no operator parameter; other inductions over
data are out of reach.

Model-checked only: liveness (`SequentialIsServed`, `HangIsContained`,
`StatusConverges`, `ChecksComeRound`, `JobIsAnswered`, `RetriesSuffice`,
`NewWorkerIsChecked`, `CommandsReturn`), which TLAPS does not do.  Every invariant,
every action property and every refinement that a passing run checks is a theorem.

---

## 6. What disagrees with the code's own documentation

Each has a run that ends in a counterexample; the quotes are in `PROJECT.json`
under `findings`.

1. `workerPool.go:46`: `dispatch` sends to a claimed worker on the channel the
   handlers use too.  A handler's request may be received by that worker
   instead; `dispatch` is left sending, never claims a worker again, and the
   pool stops for good.  (`pool_overlap`; `WedgePermanent` proves the "for
   good", `SequentialIsSafe` that it takes overlapping clients.)
2. `dispatcher.go:246`: cleaning empties the queue of the worker that answered,
   whosever the tasks are, and misses a task that has moved.
   (`dispatcher_answered`)
3. `HealthCheck.go:36`: no deadline on the ping's answer. (`dispatcher_hung`)
4. `WordCount.go:163`: a skipped chunk is not an error. (`fanout_partial`)
5. `server/main.go:412`: a body of no bytes is read until the peer closes.
   (`fanout_blank`)

Behaviours met while modelling that have no run of their own:

* The handler of every pooled request waits on `Listo` (`server/main.go:329`),
  which nothing signals: it answers and never returns.  `WorkerPool` keeps such
  handlers in "waiting", a state no action leaves.
* A success is answered twice, by `sendToWorker` (`dispatcher.go:326`) and by
  `HandleConnection` (`dispatcher.go:244`): one of the five `Outcomes`.
* Chunks leave their tasks in `taskQueue` and nothing removes them but a later
  single request's cleaning.  After a thousand on one worker, the send at
  `WordCount.go:166` blocks, and so does a redistribution to that worker,
  holding the failed worker's mutex (`HealthCheck.go:101`).
* The distributed jobs increment `activeTasks` and never decrement it
  (`WordCount.go:170`, `CalculatePi.go:99`); `sendToWorker` does not decrement
  it when the body cannot be read (`dispatcher.go:310`).  That is why
  `ActiveCovers` states a bound and not equality.
* A skipped chunk writes a 503 to the client, and the job's response follows
  it; `CompleteIfNotSkipped` speaks of jobs with one response for that reason.
* `/calculate_pi` with every chunk skipped computes 4 * 0 / 0 and answers NaN
  with a 200.
* Tasks that a redistribution moves are never executed from the queue they are
  moved to: no goroutine of the dispatcher takes a task from a queue to run it.
* A dispatcher that ends forgets its worker servers, and a registered server
  does not register again: only relaunching it brings it back
  (`ForgottenForGood`).
* `append` publishes the grown slice before the element is stored, and the
  health check does not take `d.Mu`: it may read an empty slot and end the
  dispatcher (`HealthCheck.go:194`).
* `maxI-minI+1` that overflows (`random.go:42`), a count too large for `make`
  (`random.go:40`) or for `strings.Repeat` (`createfile.go:29`; zero and negative
  ones are refused before) panic and no goroutine of the server recovers, and
  `fibonacci` of a large number overflows the stack (`fibonacci.go:28`): one
  request ends every other.
* A path that `http.NewRequest` does not take is answered 502 and leaves
  `activeTasks` one too high (`dispatcher.go:266`), as an unread body does.
* `os.WriteFile` empties the file first: a `createfile` that is answered 500, or
  is cut off by a panic, may have lost the old content.
* `deletefile` with an empty name removes the folder `files/` when it is empty,
  and the Docker image starts without one: `createfile` answers 500 then.
* `alloc_block` writes past the table when it is full (`tarea-3/main.c:108`);
  `OverrunNeedsMany` says that variables must fill half of it first.
  `realloc_block` loses a variable that no hole takes (`tarea-3/main.c:192`).
* In `tarea-4`, READ's clamp overflows for sizes near the largest int
  (`main.c:301`), a new file shows what its blocks held before, and a text is
  printed up to its first NUL.

---

## 7. What is not modelled, and why

* Status pages (`serverStatus`, `workerStatus`): they only read, and nothing
  reads what they report.  `serverStatus` reads `ReqActual` twice
  (`server/main.go:353`) and may find nil the second time; the two reads are all
  there is to it, and the compiler may make them one.
* Parsing of requests, response texts, and the commands that compute an answer
  and change nothing: one step of `Commands` answers for them.
* `ShutDownChan` of the workers: the program never sends on it.
* Least-loaded selection (`EstrategiaRed == 2`): unreachable, the constant is
  set to round robin.
* `handleConnectionOld`: never called.
* Panics of handlers elsewhere than in `Commands`, timeouts of clients, task
  IDs, logs, metrics that nothing reads but the status page.
* Data races on `Status`, `activeTasks`, `lastWorkerIndex` and `d.Workers` are
  modelled as interleavings of the single reads and writes, each of one machine
  word.
* Docker, shell scripts: a container that stops is `Crash`, one that is started
  again `Restart` or `Relaunch`.
* `Dispatcher` and `FanOut` over the growing registry of `Registry`, and several
  distributed jobs at once: each of the three is already as large as TLC can
  explore with what the others add left out.
* In `tarea-4`, names that are too long, commands that do not parse (`parse_command`
  checks both) and HELP: they change nothing.  Numbers go through `atoi`, which
  makes 0 of what is none.
* In `tarea-3`, PRINT changes nothing.  Results of `sscanf` are not checked
  (`main.c:281`, `289`): a line without a legible size takes what the variable
  happens to hold, which `Alloc` and `Realloc` have among the sizes they try; one
  without a name takes what that buffer held.  A name of more than 19 characters is
  written past its buffer, and a number after FREE's name through a pointer nobody
  passed (`main.c:296`): what follows is undefined and not modelled.

---

## 8. The plan

What is left, in order of importance:

1. **Proofs about the specifications**: what `TaskBoard`, `SplitJob`, `Heap` and
   `PoolService` promise beyond their steps (a task in one place, the units
   counted never more than those dealt out, pieces apart), proved of the abstract
   modules themselves, so that the refinements carry it over.
2. **Several jobs** in `FanOut` until the queues are full, with the cleaning of
   single requests, on an instance of one worker and queues of two places.
3. **Dispatcher with Registry**: the registry grows while handlers select; then,
   that `TaskInOnePlace`, `Outcomes` and `ImplementsBoard` survive it.
4. **Least loaded**: `dispatcher.go:20` offers `EstrategiaRed = 2`; a constant of
   `Dispatcher` would choose the strategy, and the same runs would apply.
5. **Status page**: a reader of `WorkerPool` with the two reads of `ReqActual`.
