---------------------------- MODULE FanOutProofs ----------------------------
(***************************************************************************)
(* Theorems about FanOut, for any number of workers, any size of the job   *)
(* and any capacity of the queues.                                         *)
(***************************************************************************)
EXTENDS FanOut, ChunkPlanProofs, FiniteSetTheorems, SequenceTheorems,
        TLAPS

\* The goroutines under way.
Live == {k \in Chunk : Running(k)}

\* What the loop of the handler knows: the worker it has selected, and that the
\* response of success is written once.
LoopInv == /\ pc # "done" => handled = 0
           /\ pc \in {"check", "put", "launch"} => at \in Worker /\ i < N
           /\ \A k \in Chunk : part[k] # "none" => via[k] \in Worker

\* wg counts the goroutines, only chunks behind the loop have one, and every
\* chunk behind the loop leaves at most one result.
GroupInv == /\ wg = Cardinality(Live)
            /\ \A k \in Chunk : part[k] # "none" => k < i
            /\ closed => pc \in {"collect", "done"}
            /\ Len(results) + Cardinality(ToCome) <= i

\* The inductive invariant.  ClosedAfterAll alone is not inductive: it does not
\* say that wg has counted every goroutine when wg.Wait() returns, nor that the
\* loop launches none afterwards.
IInv == TypeOK /\ LoopInv /\ GroupInv /\ ClosedAfterAll

LEMMA ChunkSet ==
    ASSUME NEW S \in SUBSET Chunk
    PROVE  IsFiniteSet(S) /\ Cardinality(S) \in Nat
<1>1. N \in Nat /\ N - 1 \in Int
  BY NAssumption
<1>2. IsFiniteSet(Chunk)
  BY <1>1, FS_Interval DEF Chunk
<1> QED BY <1>2, FS_Subset, FS_CardinalityType

LEMMA InitIInv == Init => IInv
<1> SUFFICES ASSUME Init PROVE IInv
  OBVIOUS
<1>1. TypeOK
  <2>1. /\ units \in 0 .. MaxUnits /\ blank \subseteq 1 .. units
        /\ i \in 0 .. N /\ kind \in {"words", "pi"}
    BY NAssumption, JobAssumption DEF Init
  <2>2. /\ mode \in [Worker -> {"up", "down"}] /\ status \in [Worker -> BOOLEAN]
        /\ queue \in [Worker -> SUBSET Chunk] /\ active \in [Worker -> Nat]
        /\ part \in [Chunk -> PartStates]
        /\ via \in [Chunk -> Worker \cup {None}]
    BY DEF Init, PartStates
  <2>3. /\ results \in Seq([chunk : Chunk, ok : BOOLEAN])
        /\ resp \in Seq({"200", "400", "500", "503"})
    BY EmptySeq DEF Init
  <2>4. /\ faults \in Nat /\ sent \in Nat /\ wg \in Int
        /\ sum \in Nat /\ errors \in Nat /\ handled \in {0, 1} /\ failed \in Nat
        /\ at \in Worker \cup {None}
        /\ pc \in {"start", "loop", "check", "put", "launch", "collect", "done"}
    BY DEF Init
  <2>5. closed \in BOOLEAN
    BY DEF Init
  <2> QED BY <2>1, <2>2, <2>3, <2>4, <2>5 DEF TypeOK
<1>2. LoopInv /\ ClosedAfterAll
  BY DEF Init, LoopInv, ClosedAfterAll
<1>3. Live = {} /\ ToCome = {}
  BY DEF Init, Live, Running, ToCome
<1>4. GroupInv
  BY <1>3, FS_EmptySet, NAssumption DEF Init, GroupInv
<1> QED BY <1>1, <1>2, <1>4 DEF IInv

\* A redistribution puts tasks in queues of workers.
LEMMA RedistributeType ==
    ASSUME TypeOK, NEW w \in Worker, NEW st, Redistribute(w, st)
    PROVE  queue' \in [Worker -> SUBSET Chunk]
<1> DEFINE alive == {v \in Worker : st[v]}
           left == [queue EXCEPT ![w] = {}]
<1>1. left \in [Worker -> SUBSET Chunk]
  BY DEF TypeOK
<1>2. CASE alive = {}
  BY <1>1, <1>2 DEF Redistribute
<1>3. CASE alive # {}
  <2>1. PICK to \in [queue[w] -> alive] :
           queue' = [v \in Worker |-> left[v] \cup {k \in queue[w] : to[k] = v}]
    BY <1>3 DEF Redistribute
  <2>2. queue[w] \subseteq Chunk
    BY DEF TypeOK
  <2> QED BY <1>1, <2>1, <2>2
<1> QED BY <1>2, <1>3

LEMMA CheckWorkerType ==
    ASSUME TypeOK, NEW w \in Worker, CheckWorker(w)
    PROVE  /\ status' \in [Worker -> BOOLEAN]
           /\ queue' \in [Worker -> SUBSET Chunk]
<1>1. CASE mode[w] = "up"
  BY <1>1 DEF CheckWorker, TypeOK
<1>2. CASE mode[w] # "up"
  BY <1>2, RedistributeType DEF CheckWorker, TypeOK
<1> QED BY <1>1, <1>2

-----------------------------------------------------------------------------
(* Type correctness                                                         *)

LEMMA EnvironmentType ==
    ASSUME IInv, NEW w \in Worker, Environment(w)
    PROVE  TypeOK' /\ LoopInv'
<1> USE DEF IInv, TypeOK, LoopInv
<1>1. CASE Crash(w)
  <2> DEFINE waiting == {k \in Chunk : part[k] = "sent" /\ via[k] = w}
  <2>1. PICK end \in [waiting -> {"error", "garbled"}] :
           part' = [k \in Chunk |-> IF k \in waiting THEN end[k] ELSE part[k]]
    BY <1>1 DEF Crash
  <2>2. part' \in [Chunk -> PartStates]
    BY <2>1 DEF PartStates
  <2>3. \A k \in Chunk : part'[k] # "none" => part[k] # "none"
    BY <2>1
  <2> QED BY <1>1, <2>2, <2>3
          DEF Crash, jobVars, loopVars, endVars
<1>2. CASE Restart(w)
  BY <1>2 DEF Restart, jobVars, loopVars, partVars, endVars
<1>3. CASE Hang(w)
  BY <1>3 DEF Hang, jobVars, loopVars, partVars, endVars
<1>4. CASE Observe(w)
  BY <1>4, CheckWorkerType DEF Observe, envVars, jobVars, loopVars, partVars,
                               endVars
<1> QED BY <1>1, <1>2, <1>3, <1>4 DEF Environment

LEMMA OneMoreResponse ==
    ASSUME TypeOK, NEW r \in {"200", "400", "500", "503"}
    PROVE  Append(resp, r) \in Seq({"200", "400", "500", "503"})
<1>1. resp \in Seq({"200", "400", "500", "503"})
  BY DEF TypeOK
<1> QED BY <1>1, AppendProperties

LEMMA HandlerType ==
    ASSUME IInv, Handler
    PROVE  TypeOK' /\ LoopInv'
<1> USE NAssumption DEF IInv, TypeOK, LoopInv
<1>1. CASE Refuse
  BY <1>1 DEF Refuse, Write, Fail, envVars, jobVars, partVars
<1>2. CASE EmptyText
  BY <1>2 DEF EmptyText, Write, Succeed, envVars, jobVars, partVars
<1>3. CASE Receive
  <2>1. units' \in 0 .. MaxUnits
    BY <1>3 DEF Receive
  <2>2. blank' \subseteq 1 .. units'
    BY <1>3 DEF Receive
  <2> QED BY <1>3, <2>1, <2>2 DEF Receive, envVars, partVars, endVars
<1>4. CASE SkipEmpty
  BY <1>4 DEF SkipEmpty, envVars, jobVars, partVars, endVars
<1>5. CASE SkipUnselected
  BY <1>5 DEF SkipUnselected, Fail, envVars, jobVars, partVars
<1>6. CASE Select
  BY <1>6 DEF Select, envVars, jobVars, partVars, endVars
<1>7. CASE Checked
  <2>1. /\ status' \in [Worker -> BOOLEAN]
        /\ queue' \in [Worker -> SUBSET Chunk]
    BY <1>7, CheckWorkerType DEF Checked
  <2>2. i \in Nat /\ i + 1 \in 0 .. N
    BY <1>7 DEF Checked
  <2>3. resp' \in Seq({"200", "400", "500", "503"})
    <3>1. resp' = resp \/ resp' = Append(resp, "503")
      BY <1>7 DEF Checked, Write
    <3> QED BY <3>1, OneMoreResponse
  <2>4. /\ pc' \in {"put", "loop"} /\ i' \in 0 .. N
        /\ pc' = "put" => i' = i
    BY <1>7, <2>2 DEF Checked
  <2> QED BY <1>7, <2>1, <2>3, <2>4 DEF Checked, envVars, jobVars, partVars
<1>8. CASE Put
  BY <1>8, SMTT(30) DEF Put, envVars, jobVars, partVars, endVars, Worker, Chunk
<1>9. CASE Launch
  <2>1. /\ i + 1 \in 0 .. N /\ at \in Worker /\ i \in Chunk
        /\ N \in Nat \ {0} /\ units \in Nat
    BY <1>9 DEF Launch, Worker, Chunk
  <2>2. Size(units, N, i) \in Nat
    <3>1. i \in Int
      BY <2>1
    <3> QED BY <2>1, <3>1, SizeIsNat
  <2>3. sent' \in Nat
    BY <1>9, <2>2 DEF Launch
  <2> QED BY <1>9, <2>1, <2>3, SMTT(30)
          DEF Launch, envVars, jobVars, endVars, PartStates
<1>10. CASE Launched
  <2>1. resp' \in Seq({"200", "400", "500", "503"})
    <3>1. resp' = resp \/ resp' = Append(resp, "200")
      BY <1>10 DEF Launched, Write
    <3> QED BY <3>1, OneMoreResponse
  <2>2. /\ pc' \in {"collect", "done"} /\ handled' \in {0, 1} /\ failed' \in Nat
        /\ pc' # "done" => handled' = 0
    BY <1>10 DEF Launched, Succeed
  <2> QED BY <1>10, <2>1, <2>2 DEF Launched, envVars, jobVars, partVars
<1>11. CASE Collect
  <2>1. Head(results) \in [chunk : Chunk, ok : BOOLEAN]
        /\ Tail(results) \in Seq([chunk : Chunk, ok : BOOLEAN])
    <3>1. results \in Seq([chunk : Chunk, ok : BOOLEAN]) /\ results # <<>>
      BY <1>11 DEF Collect
    <3> QED BY <3>1, HeadTailProperties
  <2>2. /\ Head(results).chunk \in Int
        /\ units \in Nat /\ N \in Nat \ {0}
    <3>1. Head(results).chunk \in 0 .. (N - 1)
      BY <2>1 DEF Chunk
    <3> QED BY <3>1
  <2>3. Size(units, N, Head(results).chunk) \in Nat
    BY <2>2, SizeIsNat
  <2>4. sum' \in Nat /\ errors' \in Nat
    BY <1>11, <2>3 DEF Collect
  <2> QED BY <1>11, <2>1, <2>4 DEF Collect, envVars, jobVars, loopVars
<1>12. CASE Conclude
  <2>1. resp' \in Seq({"200", "400", "500", "503"})
    <3>1. resp' = Append(resp, "500") \/ resp' = Append(resp, "200")
      BY <1>12 DEF Conclude, Write
    <3> QED BY <3>1, OneMoreResponse
  <2>2. handled' \in {0, 1} /\ failed' \in Nat
    BY <1>12 DEF Conclude, Succeed, Fail
  <2> QED BY <1>12, <2>1, <2>2 DEF Conclude, envVars, jobVars, partVars
<1> QED BY <1>1, <1>2, <1>3, <1>4, <1>5, <1>6, <1>7, <1>8, <1>9, <1>10, <1>11,
           <1>12 DEF Handler
-----------------------------------------------------------------------------
(* The goroutines                                                           *)

LEMMA PartType ==
    ASSUME IInv, NEW k \in Chunk, Part(k)
    PROVE  TypeOK' /\ LoopInv'
<1> USE NAssumption DEF IInv, TypeOK, LoopInv, PartStates, Step
<1>1. CASE Dial(k)
  BY <1>1 DEF Dial, envVars, jobVars, loopVars, endVars
<1>2. CASE Answered(k)
  BY <1>2 DEF Answered, envVars, jobVars, loopVars, endVars
<1>3. CASE Deposit(k)
  <2>1. results' \in Seq([chunk : Chunk, ok : BOOLEAN])
    <3>1. [chunk |-> k, ok |-> part[k] = "ok"] \in [chunk : Chunk, ok : BOOLEAN]
      OBVIOUS
    <3> QED BY <1>3, <3>1 DEF Deposit
  <2> QED BY <1>3, <2>1 DEF Deposit, envVars, jobVars, loopVars, endVars
<1>4. CASE Move(k)
  <2>1. queue' \in [Worker -> SUBSET Chunk]
    BY <1>4, RedistributeType DEF Move
  <2> QED BY <1>4, <2>1 DEF Move, envVars, jobVars, loopVars, endVars
<1>5. CASE Return(k)
  BY <1>5 DEF Return, envVars, jobVars, loopVars, endVars
<1> QED BY <1>1, <1>2, <1>3, <1>4, <1>5 DEF Part

LEMMA NextTypeOK == IInv /\ [Next]_vars => TypeOK' /\ LoopInv'
<1> SUFFICES ASSUME IInv, [Next]_vars PROVE TypeOK' /\ LoopInv'
  OBVIOUS
<1>1. CASE Close
  BY <1>1 DEF Close, IInv, TypeOK, LoopInv, envVars, jobVars, loopVars, partVars
<1>2. CASE UNCHANGED vars
  BY <1>2 DEF vars, IInv, TypeOK, LoopInv, envVars, jobVars, loopVars, partVars,
              endVars
<1> QED BY <1>1, <1>2, EnvironmentType, HandlerType, PartType DEF Next

-----------------------------------------------------------------------------
(* The WaitGroup and the channel of the results                             *)

\* A step that leaves every goroutine where it is, or changes only how it ends.
LEMMA SameGroup ==
    ASSUME IInv, TypeOK', i <= i', i' \in 0 .. N, wg' = wg, Live' = Live, ToCome' = ToCome,
           \A k \in Chunk : part'[k] # "none" => part[k] # "none",
           Len(results') <= Len(results),
           closed' => pc' \in {"collect", "done"},
           closed' => closed \/ Live = {}
    PROVE  GroupInv' /\ ClosedAfterAll'
<1>1. Cardinality(ToCome) \in Nat
  BY ChunkSet DEF ToCome
<1>2. Len(results) \in Nat /\ Len(results') \in Nat /\ i \in Nat /\ i' \in Nat
  <2>1. /\ results \in Seq([chunk : Chunk, ok : BOOLEAN])
        /\ results' \in Seq([chunk : Chunk, ok : BOOLEAN])
    BY DEF IInv, TypeOK
  <2>2. Len(results) \in Nat /\ Len(results') \in Nat
    BY <2>1, LenProperties
  <2>3. i \in Nat /\ i' \in Nat
    BY NAssumption DEF IInv, TypeOK
  <2> QED BY <2>2, <2>3
<1>3. Len(results') + Cardinality(ToCome') <= i'
  BY <1>1, <1>2 DEF IInv, GroupInv
<1>4. \A k \in Chunk : part'[k] # "none" => k < i'
  BY <1>2, NAssumption DEF IInv, GroupInv, Chunk
<1>5. ClosedAfterAll'
  BY DEF IInv, ClosedAfterAll, Live
<1> QED BY <1>3, <1>4, <1>5 DEF IInv, GroupInv

LEMMA EnvironmentGroup ==
    ASSUME IInv, TypeOK', NEW w \in Worker, Environment(w)
    PROVE  GroupInv' /\ ClosedAfterAll'
<1>1. /\ UNCHANGED <<i, wg, results, closed, pc>>
  BY DEF Environment, Crash, Restart, Hang, Observe, loopVars, partVars, endVars
<1>2. /\ Live' = Live /\ ToCome' = ToCome
      /\ \A k \in Chunk : part'[k] # "none" => part[k] # "none"
  <2>1. CASE part' = part
    BY <2>1 DEF Live, Running, ToCome
  <2>2. CASE Crash(w)
    <3> DEFINE waiting == {k \in Chunk : part[k] = "sent" /\ via[k] = w}
    <3>1. PICK end \in [waiting -> {"error", "garbled"}] :
             part' = [k \in Chunk |-> IF k \in waiting THEN end[k] ELSE part[k]]
      BY <2>2 DEF Crash
    <3>2. \A k \in Chunk : \/ part'[k] = part[k]
                           \/ part[k] = "sent" /\ part'[k] \in {"error", "garbled"}
      BY <3>1
    <3> QED BY <3>2 DEF Live, Running, ToCome
  <2> QED BY <2>1, <2>2 DEF Environment, Restart, Hang, Observe, partVars
<1>3. i <= i' /\ Len(results') <= Len(results) /\ i' \in 0 .. N
  BY <1>1 DEF IInv, TypeOK
<1> QED BY <1>1, <1>2, <1>3, SameGroup DEF IInv, GroupInv

\* The loop moves forward; only Launch starts a goroutine, and not after
\* close(resultsChan).
LEMMA HandlerGroup ==
    ASSUME IInv, TypeOK', Handler
    PROVE  GroupInv' /\ ClosedAfterAll'
<1>1. CASE Launch
  <2>1. /\ i \in Chunk /\ i < N /\ N \in Nat /\ i \in Nat /\ ~closed
    BY <1>1, NAssumption
       DEF Launch, Chunk, IInv, TypeOK, LoopInv, GroupInv
  <2>2. part[i] = "none"
    BY <2>1 DEF IInv, GroupInv
  <2>3. /\ part' = [part EXCEPT ![i] = "dial"] /\ wg' = wg + 1 /\ i' = i + 1
        /\ UNCHANGED <<results, closed>>
    BY <1>1 DEF Launch, endVars
  <2>4. Live' = Live \cup {i} /\ ToCome' = ToCome \cup {i}
    BY <2>1, <2>2, <2>3 DEF IInv, TypeOK, Live, Running, ToCome
  <2>5. i \notin Live /\ i \notin ToCome
    BY <2>2 DEF Live, Running, ToCome
  <2>6. /\ Cardinality(Live') = Cardinality(Live) + 1
        /\ Cardinality(ToCome') = Cardinality(ToCome) + 1
        /\ Cardinality(ToCome) \in Nat
    <3>1. /\ IsFiniteSet(Live) /\ IsFiniteSet(ToCome)
          /\ Cardinality(ToCome) \in Nat
      BY ChunkSet DEF Live, ToCome
    <3> QED BY <3>1, <2>4, <2>5, FS_AddElement
  <2>7. Len(results) \in Nat
    BY DEF IInv, TypeOK
  <2>8. \A k \in Chunk : part'[k] # "none" => k < i'
    <3>1. \A k \in Chunk : k \in Int /\ (k = i \/ part'[k] = part[k])
      BY <2>1, <2>3 DEF Chunk, IInv, TypeOK
    <3>2. \A k \in Chunk : part[k] # "none" => k < i
      BY DEF IInv, GroupInv
    <3> QED BY <2>1, <2>3, <3>1, <3>2
  <2> QED BY <2>1, <2>3, <2>6, <2>7, <2>8
          DEF IInv, GroupInv, ClosedAfterAll
<1>2. CASE Handler /\ ~Launch
  <2>1. UNCHANGED <<part, wg, closed>>
    BY <1>2 DEF Handler, Refuse, EmptyText, Receive, SkipEmpty, SkipUnselected,
                Select, Checked, Put, Launched, Collect, Conclude, partVars,
                endVars
  <2>2. Len(results') <= Len(results)
    <3>1. results' = results \/ (results # <<>> /\ results' = Tail(results))
      BY <1>2 DEF Handler, Refuse, EmptyText, Receive, SkipEmpty,
                  SkipUnselected, Select, Checked, Put, Launched, Collect,
                  Conclude, partVars
    <3>2. results \in Seq([chunk : Chunk, ok : BOOLEAN])
      BY DEF IInv, TypeOK
    <3> QED BY <3>1, <3>2
  <2>3. i' = i \/ i' = i + 1
    BY <1>2 DEF Handler, Refuse, EmptyText, Receive, SkipEmpty, SkipUnselected,
                Select, Checked, Put, Launched, Collect, Conclude, loopVars
  <2>4. i <= i' /\ i' \in 0 .. N
    BY <2>3 DEF IInv, TypeOK
  <2>5. Live' = Live /\ ToCome' = ToCome
    BY <2>1 DEF Live, Running, ToCome
  <2>6. closed => pc' \in {"collect", "done"}
    BY <1>2 DEF Handler, Refuse, EmptyText, Receive, SkipEmpty, SkipUnselected,
                Select, Checked, Put, Launched, Collect, Conclude, loopVars,
                IInv, GroupInv
  <2> QED BY <2>1, <2>2, <2>4, <2>5, <2>6, SameGroup
<1> QED BY <1>1, <1>2

LEMMA PartGroup ==
    ASSUME IInv, TypeOK', NEW k \in Chunk, Part(k)
    PROVE  GroupInv' /\ ClosedAfterAll'
<1>1. Running(k) /\ ~closed /\ UNCHANGED <<i, pc, closed>>
  BY DEF Part, Dial, Answered, Deposit, Move, Return, Running, IInv,
         ClosedAfterAll, loopVars, endVars
<1>2. \A j \in Chunk : part'[j] # "none" => part[j] # "none"
  BY <1>1 DEF Part, Dial, Answered, Deposit, Move, Return, Step, Running, IInv,
              TypeOK
<1>3. /\ IsFiniteSet(Live) /\ IsFiniteSet(ToCome)
      /\ Cardinality(ToCome) \in Nat /\ Cardinality(Live) \in Nat
  BY ChunkSet DEF Live, ToCome
<1>4. i <= i' /\ i' \in 0 .. N /\ i \in Nat
  BY <1>1 DEF IInv, TypeOK
<1>5. CASE Dial(k) \/ Answered(k) \/ Move(k)
  <2>1. Live' = Live /\ ToCome' = ToCome
    BY <1>5 DEF Dial, Answered, Move, Step, Live, Running, ToCome, IInv, TypeOK
  <2>2. UNCHANGED <<wg, results>>
    BY <1>5 DEF Dial, Answered, Move
  <2>3. Len(results') <= Len(results)
    BY <2>2 DEF IInv, TypeOK
  <2> QED BY <1>1, <1>2, <1>4, <2>1, <2>2, <2>3, SameGroup
<1>6. CASE Deposit(k)
  <2>1. Live' = Live /\ ToCome' = ToCome \ {k} /\ k \in ToCome
    BY <1>6 DEF Deposit, Step, Live, Running, ToCome, IInv, TypeOK
  <2>2. Cardinality(ToCome') = Cardinality(ToCome) - 1
    BY <1>3, <2>1, FS_RemoveElement
  <2>3. Len(results') = Len(results) + 1 /\ Len(results) \in Nat
    BY <1>6 DEF Deposit, IInv, TypeOK
  <2>4. wg' = wg
    BY <1>6 DEF Deposit
  <2> QED BY <1>1, <1>2, <1>3, <1>4, <2>1, <2>2, <2>3, <2>4
          DEF IInv, GroupInv, ClosedAfterAll
<1>7. CASE Return(k)
  <2>1. Live' = Live \ {k} /\ ToCome' = ToCome /\ k \in Live
    BY <1>7 DEF Return, Step, Live, Running, ToCome, IInv, TypeOK
  <2>2. Cardinality(Live') = Cardinality(Live) - 1
    BY <1>3, <2>1, FS_RemoveElement
  <2>3. wg' = wg - 1 /\ results' = results
    BY <1>7 DEF Return
  <2> QED BY <1>1, <1>2, <1>4, <2>1, <2>2, <2>3
          DEF IInv, GroupInv, ClosedAfterAll
<1> QED BY <1>5, <1>6, <1>7 DEF Part

\* wg.Wait() has returned: by the count there is no goroutine left.
LEMMA CloseGroup ==
    ASSUME IInv, TypeOK', Close
    PROVE  GroupInv' /\ ClosedAfterAll'
<1>1. /\ Cardinality(Live) = 0 /\ UNCHANGED <<i, pc, part, wg, results>>
      /\ pc = "collect"
  BY DEF Close, IInv, GroupInv, loopVars, partVars
<1>2. IsFiniteSet(Live)
  BY ChunkSet DEF Live
<1>3. Live = {}
  BY <1>1, <1>2, FS_EmptySet
<1>4. Live' = Live /\ ToCome' = ToCome
  BY <1>1 DEF Live, Running, ToCome
<1>5. i <= i' /\ i' \in 0 .. N /\ Len(results') <= Len(results)
  BY <1>1 DEF IInv, TypeOK
<1> QED BY <1>1, <1>3, <1>4, <1>5, SameGroup

LEMMA NextIInv == IInv /\ [Next]_vars => IInv'
<1> SUFFICES ASSUME IInv, [Next]_vars PROVE IInv'
  OBVIOUS
<1>1. TypeOK' /\ LoopInv'
  BY NextTypeOK
<1>2. GroupInv' /\ ClosedAfterAll'
  <2>1. CASE UNCHANGED vars
    <3>1. /\ UNCHANGED <<i, pc, part, wg, results, closed>>
      BY <2>1 DEF vars, loopVars, partVars, endVars
    <3> QED BY <3>1 DEF IInv, GroupInv, ClosedAfterAll, Live, Running, ToCome
  <2> QED BY <1>1, <2>1, EnvironmentGroup, HandlerGroup, PartGroup, CloseGroup
          DEF Next
<1> QED BY <1>1, <1>2 DEF IInv

LEMMA SpecIInv == Spec => []IInv
  BY InitIInv, NextIInv, PTL DEF Spec

-----------------------------------------------------------------------------
(* What is counted                                                          *)

\* The units of the chunks of S, and their number.
Covered(u, S) == UNION {Units(u, N, k) : k \in S}
Weight(u, S) == Cardinality(Covered(u, S))

LEMMA WeightOfNone == \A u : Weight(u, {}) = 0
<1> SUFFICES ASSUME NEW u PROVE Weight(u, {}) = 0
  OBVIOUS
<1>1. Covered(u, {}) = {}
  BY DEF Covered
<1> QED BY <1>1, FS_EmptySet DEF Weight

LEMMA CoveredInJob ==
    ASSUME NEW u \in Nat, NEW S \in SUBSET Chunk
    PROVE  Covered(u, S) \subseteq 1 .. u
<1>1. ASSUME NEW k \in S PROVE Units(u, N, k) \subseteq 1 .. u
  <2>1. N \in Nat \ {0} /\ k \in 0 .. (N - 1) /\ k \in Int
    BY NAssumption DEF Chunk
  <2>2. 0 <= Start(u, N, k) /\ End(u, N, k) <= u
    BY <2>1, ChunkInRange
  <2>3. Start(u, N, k) \in Nat /\ Size(u, N, k) \in Nat
    <3>1. k \in Nat /\ k <= k
      BY <2>1
    <3> QED BY <2>1, <3>1, Monotone, SizeIsNat
  <2> QED BY <2>2, <2>3 DEF Units, End
<1> QED BY <1>1 DEF Covered

LEMMA WeightIsNat ==
    ASSUME NEW u \in Nat, NEW S \in SUBSET Chunk
    PROVE  IsFiniteSet(Covered(u, S)) /\ Weight(u, S) \in Nat
<1>1. Covered(u, S) \subseteq 1 .. u
  BY CoveredInJob
<1>2. IsFiniteSet(1 .. u)
  BY FS_Interval
<1>3. IsFiniteSet(Covered(u, S))
  BY <1>1, <1>2, FS_Subset
<1> QED BY <1>3, FS_CardinalityType DEF Weight

LEMMA WeightOfOne ==
    ASSUME NEW u \in Nat, NEW k \in Chunk
    PROVE  /\ Size(u, N, k) \in Nat
           /\ IsFiniteSet(Units(u, N, k))
           /\ Cardinality(Units(u, N, k)) = Size(u, N, k)
<1>1. N \in Nat \ {0} /\ k \in Int /\ k \in Nat /\ k <= k
  BY NAssumption DEF Chunk
<1>2. Start(u, N, k) \in Nat /\ Size(u, N, k) \in Nat
  BY <1>1, Monotone, SizeIsNat
<1>3. PICK a \in Nat : a = Start(u, N, k)
  BY <1>2
<1>4. PICK s \in Nat : s = Size(u, N, k)
  BY <1>2
<1>5. Units(u, N, k) = (a + 1) .. (a + s)
  BY <1>3, <1>4 DEF Units, End
<1>6. /\ IsFiniteSet((a + 1) .. (a + s))
      /\ Cardinality((a + 1) .. (a + s)) = s
  <2>1. a + 1 \in Int /\ a + s \in Int
    OBVIOUS
  <2>2. /\ IsFiniteSet((a + 1) .. (a + s))
        /\ Cardinality((a + 1) .. (a + s)) =
              IF a + 1 > a + s THEN 0 ELSE (a + s) - (a + 1) + 1
    BY <2>1, FS_Interval
  <2> QED BY <2>2
<1> QED BY <1>4, <1>5, <1>6

\* The chunks overlap nowhere: one more adds its size.
LEMMA WeightOfOneMore ==
    ASSUME NEW u \in Nat, NEW S \in SUBSET Chunk, NEW k \in Chunk, k \notin S
    PROVE  Weight(u, S \cup {k}) = Weight(u, S) + Size(u, N, k)
<1>1. Covered(u, S \cup {k}) = Covered(u, S) \cup Units(u, N, k)
  BY DEF Covered
<1>2. Covered(u, S) \cap Units(u, N, k) = {}
  <2>1. ASSUME NEW j \in S PROVE Units(u, N, j) \cap Units(u, N, k) = {}
    <3>1. N \in Nat \ {0} /\ j # k /\ j \in 0 .. (N - 1) /\ k \in 0 .. (N - 1)
      BY NAssumption DEF Chunk
    <3> QED BY <3>1, ChunksDisjoint
  <2> QED BY <2>1 DEF Covered
<1>3. /\ IsFiniteSet(Covered(u, S)) /\ Weight(u, S) \in Nat
      /\ IsFiniteSet(Units(u, N, k)) /\ Size(u, N, k) \in Nat
      /\ Cardinality(Units(u, N, k)) = Size(u, N, k)
  BY WeightIsNat, WeightOfOne
<1>4. Cardinality(Covered(u, S) \cup Units(u, N, k))
          = Weight(u, S) + Size(u, N, k) - Cardinality({})
  BY <1>2, <1>3, FS_Union DEF Weight
<1> QED BY <1>1, <1>3, <1>4, FS_EmptySet DEF Weight

\* Fewer chunks count less, if the one left out is not empty.
LEMMA WeightOfFewer ==
    ASSUME NEW u \in Nat, NEW S \in SUBSET Chunk, NEW T \in SUBSET S,
           NEW k \in S \ T, Size(u, N, k) # 0
    PROVE  Weight(u, T) # Weight(u, S)
<1>1. T \in SUBSET Chunk /\ T \cup {k} \in SUBSET Chunk /\ k \in Chunk
  OBVIOUS
<1>2. /\ Weight(u, T \cup {k}) = Weight(u, T) + Size(u, N, k)
      /\ Weight(u, T) \in Nat /\ Weight(u, S) \in Nat /\ Size(u, N, k) \in Nat
  <2>1. Weight(u, T \cup {k}) = Weight(u, T) + Size(u, N, k)
    BY <1>1, WeightOfOneMore
  <2> QED BY <1>1, <2>1, WeightIsNat, WeightOfOne
<1>3. Weight(u, T \cup {k}) <= Weight(u, S)
  <2>1. Covered(u, T \cup {k}) \subseteq Covered(u, S)
    BY DEF Covered
  <2>2. IsFiniteSet(Covered(u, S))
    BY WeightIsNat
  <2> QED BY <2>1, <2>2, FS_Subset DEF Weight
<1> QED BY <1>2, <1>3

\* All the chunks that are not empty count the whole request.
LEMMA WeightOfAll ==
    ASSUME NEW u \in Nat, N # 0, NEW S \in SUBSET Chunk,
           \A k \in Chunk \ S : Size(u, N, k) = 0
    PROVE  Weight(u, S) = u
<1>1. N \in Nat \ {0}
  BY NAssumption
<1>2. Covered(u, S) = 1 .. u
  <2>1. ASSUME NEW x \in 1 .. u PROVE x \in Covered(u, S)
    <3>1. PICK k \in Chunk : x \in Units(u, N, k)
      BY <1>1, ChunksCover DEF Chunk
    <3>2. Units(u, N, k) # {} /\ IsFiniteSet(Units(u, N, k))
      BY <3>1, WeightOfOne
    <3>3. Size(u, N, k) # 0
      BY <3>2, WeightOfOne, FS_EmptySet
    <3> QED BY <3>1, <3>3 DEF Covered
  <2> QED BY <2>1, CoveredInJob
<1>3. Cardinality(1 .. u) = u
  <2>1. Cardinality(1 .. u) = IF 1 > u THEN 0 ELSE u - 1 + 1
    BY FS_Interval
  <2> QED BY <2>1
<1> QED BY <1>2, <1>3 DEF Weight
-----------------------------------------------------------------------------
(* The ledger of a job                                                      *)

Begun == {k \in Chunk : part[k] # "none"}
\* The chunks whose result has been left in resultsChan.
Left == {k \in Chunk : part[k] \in {"move", "return", "over"}}

\* G are the chunks added to the total, B those kept as errors: each result
\* that was left is in one of them or, once, in the channel.
Ledger(G, B) ==
    /\ G \subseteq Left /\ B \subseteq Left /\ G \cap B = {}
    /\ sum = Weight(units, G)
    /\ errors = Cardinality(B)
    /\ \A j \in 1 .. Len(results) : results[j].chunk \in Left \ (G \cup B)
    /\ \A k \in Left \ (G \cup B) :
          \E j \in 1 .. Len(results) : results[j].chunk = k
    /\ \A j, l \in 1 .. Len(results) :
          results[j].chunk = results[l].chunk => j = l

AmountInv == /\ sent = Weight(units, Begun)
             /\ \A k \in Begun : Size(units, N, k) # 0
             /\ \E G, B \in SUBSET Chunk : Ledger(G, B)

\* The chunk under way is not empty, nothing is launched before the request
\* has been read, and the answer of a job that was awaited is 200 or 500.
StageInv ==
    /\ pc \in {"check", "put", "launch"} => Size(units, N, i) # 0
    /\ pc = "start" => Begun = {} /\ i = 0
    /\ pc = "collect" => i = N
    /\ pc \notin {"start", "done"} \/ Collected => N # 0
    /\ Collected => results = <<>> /\ i = N /\ (Answer = "200" <=> errors = 0)

\* As long as no failure and no response has been noted, no chunk that has
\* something to count has been passed over.
NothingSkipped == \A k \in Chunk : k < i /\ Size(units, N, k) # 0 => k \in Begun
SkipInv ==
    /\ pc # "done" /\ failed = 0 /\ resp = <<>> => NothingSkipped
    /\ Collected /\ Answer = "200" /\ failed = 0 /\ Len(resp) = 1
          => NothingSkipped

JobInv == AmountInv /\ StageInv /\ SkipInv

LEMMA InitJob == Init => JobInv
<1> SUFFICES ASSUME Init PROVE JobInv
  OBVIOUS
<1>1. Begun = {} /\ Left = {} /\ Len(results) = 0
  BY DEF Init, Begun, Left
<1>2. Ledger({}, {})
  BY <1>1, WeightOfNone, FS_EmptySet DEF Init, Ledger
<1>3. AmountInv
  BY <1>1, <1>2, WeightOfNone DEF Init, AmountInv
<1>4. StageInv
  BY <1>1 DEF Init, StageInv, Collected
<1>5. SkipInv
  <2>1. \A k \in Chunk : ~(k < i)
    BY NAssumption DEF Init, Chunk
  <2> QED BY <2>1 DEF Init, SkipInv, NothingSkipped, Collected
<1> QED BY <1>3, <1>4, <1>5 DEF JobInv

\* A step that leaves the amounts alone.
LEMMA SameAmounts ==
    ASSUME AmountInv, UNCHANGED <<units, sent, sum, errors, results>>,
           Begun' = Begun, Left' = Left
    PROVE  AmountInv'
<1>1. \A G, B \in SUBSET Chunk : Ledger(G, B) => Ledger(G, B)'
  BY DEF Ledger, Weight, Covered
<1>2. PICK G \in SUBSET Chunk, B \in SUBSET Chunk : Ledger(G, B)
  BY DEF AmountInv
<1>3. sent' = Weight(units, Begun)'
  BY DEF AmountInv, Weight, Covered
<1> QED BY <1>1, <1>2, <1>3 DEF AmountInv

LEMMA EnvironmentAmounts ==
    ASSUME IInv, AmountInv, NEW w \in Worker, Environment(w)
    PROVE  AmountInv' /\ Begun' = Begun /\ Left' = Left
<1>1. UNCHANGED <<units, sent, sum, errors, results>>
  BY DEF Environment, Crash, Restart, Hang, Observe, jobVars, loopVars, partVars, endVars
<1>2. Begun' = Begun /\ Left' = Left
  <2>1. CASE part' = part
    BY <2>1 DEF Begun, Left
  <2>2. CASE Crash(w)
    <3> DEFINE waiting == {k \in Chunk : part[k] = "sent" /\ via[k] = w}
    <3>1. PICK end \in [waiting -> {"error", "garbled"}] :
             part' = [k \in Chunk |-> IF k \in waiting THEN end[k] ELSE part[k]]
      BY <2>2 DEF Crash
    <3>2. \A k \in Chunk : \/ part'[k] = part[k]
                           \/ part[k] = "sent" /\ part'[k] \in {"error", "garbled"}
      BY <3>1
    <3> QED BY <3>2 DEF Begun, Left
  <2> QED BY <2>1, <2>2 DEF Environment, Restart, Hang, Observe, partVars
<1> QED BY <1>1, <1>2, SameAmounts

\* Only three steps of the handler touch the amounts: the request is read when
\* nothing has been launched, a chunk is launched, a result is taken.
LEMMA HandlerAmounts ==
    ASSUME IInv, IInv', JobInv, Handler
    PROVE  AmountInv'
<1>0. /\ units \in Nat /\ units' \in Nat /\ Begun \subseteq Chunk /\ Left \subseteq Chunk
      /\ Left \subseteq Begun
  <2>1. units \in Nat /\ units' \in Nat
    BY NAssumption DEF IInv, TypeOK
  <2>2. Begun \subseteq Chunk /\ Left \subseteq Chunk /\ Left \subseteq Begun
    BY DEF Begun, Left
  <2> QED BY <2>1, <2>2
<1>1. PICK G \in SUBSET Chunk, B \in SUBSET Chunk : Ledger(G, B)
  BY DEF JobInv, AmountInv
<1>2. CASE Receive
  <2>1. Begun = {} /\ Begun' = {} /\ Left' = Left /\ Left = {}
    BY <1>2 DEF Receive, JobInv, StageInv, partVars, Begun, Left
  <2>2. UNCHANGED <<sent, sum, errors, results>>
    BY <1>2 DEF Receive, partVars, endVars
  <2>3. G = {} /\ B = {} /\ sum = 0 /\ sent = 0 /\ Weight(units', {}) = 0
    BY <1>1, <2>1, WeightOfNone DEF Ledger, JobInv, AmountInv
  <2>4. Ledger(G, B)'
    BY <1>1, <2>1, <2>2, <2>3 DEF Ledger, Weight, Covered
  <2> QED BY <2>1, <2>2, <2>3, <2>4 DEF AmountInv, Weight, Covered
<1>3. CASE Launch
  <2>1. /\ i \in Chunk /\ Size(units, N, i) # 0
    BY <1>3, NAssumption
       DEF Launch, Chunk, IInv, TypeOK, LoopInv, JobInv, StageInv
  <2>2. part[i] = "none"
    BY <2>1, NAssumption DEF IInv, GroupInv, Chunk
  <2>3. /\ part' = [part EXCEPT ![i] = "dial"]
        /\ sent' = sent + Size(units, N, i)
        /\ UNCHANGED <<units, sum, errors, results>>
    BY <1>3 DEF Launch, endVars, jobVars
  <2>4. Begun' = Begun \cup {i} /\ i \notin Begun /\ Left' = Left
    BY <2>1, <2>2, <2>3 DEF IInv, TypeOK, Begun, Left
  <2>5. Weight(units, Begun \cup {i}) = Weight(units, Begun) + Size(units, N, i)
    BY <1>0, <2>1, <2>4, WeightOfOneMore
  <2>6. Ledger(G, B)'
    BY <1>1, <2>3, <2>4 DEF Ledger, Weight, Covered
  <2>7. sent' = Weight(units, Begun)'
    BY <2>3, <2>4, <2>5 DEF JobInv, AmountInv, Weight, Covered
  <2>8. \A k \in Begun' : Size(units', N, k) # 0
    BY <2>1, <2>3, <2>4 DEF JobInv, AmountInv
  <2> QED BY <2>6, <2>7, <2>8 DEF AmountInv
<1>4. CASE Collect
  <2> DEFINE h == Head(results)
  <2>1. /\ results \in Seq([chunk : Chunk, ok : BOOLEAN]) /\ results # <<>>
        /\ results' = Tail(results)
    BY <1>4 DEF Collect, IInv, TypeOK
  <2>2. /\ h = results[1] /\ h.chunk \in Chunk /\ h.ok \in BOOLEAN
        /\ Len(results) \in Nat /\ Len(results) >= 1
        /\ Len(results') = Len(results) - 1
        /\ \A j \in 1 .. Len(results') : results'[j] = results[j + 1]
    <3>1. /\ Len(results) \in Nat /\ Len(results) # 0
      BY <2>1
    <3>2. /\ Len(Tail(results)) = Len(results) - 1
          /\ \A j \in 1 .. Len(Tail(results)) : Tail(results)[j] = results[j + 1]
          /\ h \in [chunk : Chunk, ok : BOOLEAN]
      BY <2>1, HeadTailProperties
    <3> QED BY <2>1, <3>1, <3>2
  <2>3. /\ Begun' = Begun /\ Left' = Left /\ UNCHANGED <<units, sent>>
    BY <1>4 DEF Collect, Begun, Left, jobVars, loopVars
  <2>4. h.chunk \in Left \ (G \cup B)
    BY <1>1, <2>2 DEF Ledger
  <2> HIDE DEF h
  <2>5. ASSUME NEW P \in SUBSET Chunk, P = G \cup B \cup {h.chunk}
        PROVE  /\ \A j \in 1 .. Len(results') : results'[j].chunk \in Left' \ P
               /\ \A k \in Left' \ P :
                     \E j \in 1 .. Len(results') : results'[j].chunk = k
               /\ \A j, l \in 1 .. Len(results') :
                     results'[j].chunk = results'[l].chunk => j = l
    <3>1. \A j \in 1 .. Len(results') :
             /\ j + 1 \in 1 .. Len(results) /\ j + 1 # 1
             /\ results'[j] = results[j + 1]
      BY <2>2
    <3>2. \A j \in 1 .. Len(results') : results'[j].chunk # h.chunk
      BY <1>1, <2>2, <3>1 DEF Ledger
    <3>3. \A j \in 1 .. Len(results') : results'[j].chunk \in Left' \ P
      BY <1>1, <2>3, <2>5, <3>1, <3>2 DEF Ledger
    <3>4. ASSUME NEW k \in Left' \ P
          PROVE  \E j \in 1 .. Len(results') : results'[j].chunk = k
      <4>1. PICK j \in 1 .. Len(results) : results[j].chunk = k
        BY <1>1, <2>3, <2>5 DEF Ledger
      <4>2. j # 1
        BY <2>2, <2>5, <4>1
      <4>3. j - 1 \in 1 .. Len(results') /\ (j - 1) + 1 = j
        BY <2>2, <4>1, <4>2
      <4> QED BY <2>2, <4>1, <4>3
    <3>5. \A j, l \in 1 .. Len(results') :
             results'[j].chunk = results'[l].chunk => j = l
      <4> SUFFICES ASSUME NEW j \in 1 .. Len(results'), NEW l \in 1 .. Len(results'),
                          results'[j].chunk = results'[l].chunk
                   PROVE  j = l
        OBVIOUS
      <4>1. j + 1 = l + 1
        BY <1>1, <3>1 DEF Ledger
      <4> QED BY <4>1, <2>2
    <3> QED BY <3>3, <3>4, <3>5
  <2>6. CASE h.ok
    <3>1. sum' = sum + Size(units, N, h.chunk) /\ errors' = errors
      BY <1>4, <2>6 DEF Collect, h
    <3>2. PICK H \in SUBSET Chunk : H = G \cup {h.chunk}
      BY <2>2
    <3>3. sum' = Weight(units, H)
      <4>1. h.chunk \notin G /\ h.chunk \in Chunk /\ sum = Weight(units, G)
        BY <1>1, <2>2, <2>4 DEF Ledger
      <4>2. Weight(units, G \cup {h.chunk}) = Weight(units, G) + Size(units, N, h.chunk)
        BY <1>0, <4>1, WeightOfOneMore
      <4> QED BY <3>1, <3>2, <4>1, <4>2
    <3>4. /\ H \subseteq Left' /\ B \subseteq Left' /\ H \cap B = {}
          /\ errors' = Cardinality(B) /\ H \cup B = G \cup B \cup {h.chunk}
      BY <1>1, <2>3, <2>4, <3>1, <3>2 DEF Ledger
    <3>5. /\ \A j \in 1 .. Len(results') : results'[j].chunk \in Left' \ (H \cup B)
          /\ \A k \in Left' \ (H \cup B) :
                   \E j \in 1 .. Len(results') : results'[j].chunk = k
          /\ \A j, l \in 1 .. Len(results') :
                   results'[j].chunk = results'[l].chunk => j = l
      BY <2>5, <3>4
    <3>6. Ledger(H, B)'
      BY <2>3, <3>3, <3>4, <3>5 DEF Ledger, Weight, Covered
    <3> QED BY <2>3, <3>6 DEF JobInv, AmountInv, Weight, Covered
  <2>7. CASE ~h.ok
    <3>1. sum' = sum /\ errors' = errors + 1
      BY <1>4, <2>7 DEF Collect, h
    <3>2. errors' = Cardinality(B \cup {h.chunk})
      <4>1. IsFiniteSet(B) /\ h.chunk \notin B
        BY <2>4, ChunkSet
      <4> QED BY <1>1, <3>1, <4>1, FS_AddElement DEF Ledger
    <3>3. PICK C \in SUBSET Chunk : C = B \cup {h.chunk}
      BY <2>2
    <3>4. C \subseteq Left' /\ G \subseteq Left' /\ G \cap C = {}
          /\ sum' = Weight(units, G) /\ G \cup C = G \cup B \cup {h.chunk}
      BY <1>1, <2>3, <2>4, <3>1, <3>3 DEF Ledger
    <3>5. /\ \A j \in 1 .. Len(results') : results'[j].chunk \in Left' \ (G \cup C)
          /\ \A k \in Left' \ (G \cup C) :
                   \E j \in 1 .. Len(results') : results'[j].chunk = k
          /\ \A j, l \in 1 .. Len(results') :
                   results'[j].chunk = results'[l].chunk => j = l
      BY <2>5, <3>4
    <3>6. Ledger(G, C)'
      BY <2>3, <3>2, <3>3, <3>4, <3>5 DEF Ledger, Weight, Covered
    <3> QED BY <2>3, <3>6 DEF JobInv, AmountInv, Weight, Covered
  <2> QED BY <2>2, <2>6, <2>7
<1>5. CASE ~Receive /\ ~Launch /\ ~Collect
  <2>1. UNCHANGED <<units, sent, sum, errors, results, part>>
    BY <1>5 DEF Handler, Refuse, EmptyText, SkipEmpty, SkipUnselected, Select,
                Checked, Put, Launched, Conclude, jobVars, loopVars, partVars,
                endVars
  <2>2. Begun' = Begun /\ Left' = Left
    BY <2>1 DEF Begun, Left
  <2> QED BY <2>1, <2>2, SameAmounts DEF JobInv
<1> QED BY <1>2, <1>3, <1>4, <1>5

\* resultsChan <- WorkerResult{...} adds the chunk to those that are left and,
\* once, to the channel.
LEMMA PartAmounts ==
    ASSUME IInv, JobInv, NEW k \in Chunk, Part(k)
    PROVE  AmountInv' /\ Begun' = Begun
<1>1. CASE Deposit(k)
  <2>1. /\ part[k] \in {"ok", "error", "garbled"} /\ k \notin Left
        /\ results' = Append(results, [chunk |-> k, ok |-> part[k] = "ok"])
        /\ UNCHANGED <<units, sent, sum, errors>>
    BY <1>1 DEF Deposit, Left, jobVars, loopVars, endVars
  <2>2. Begun' = Begun /\ Left' = Left \cup {k}
    BY <1>1 DEF Deposit, Step, IInv, TypeOK, Begun, Left
  <2>3. /\ Len(results) \in Nat /\ Len(results') = Len(results) + 1
        /\ \A j \in 1 .. Len(results) : results'[j] = results[j]
        /\ results'[Len(results')].chunk = k
    <3>1. /\ results \in Seq([chunk : Chunk, ok : BOOLEAN])
          /\ [chunk |-> k, ok |-> part[k] = "ok"] \in [chunk : Chunk, ok : BOOLEAN]
      BY DEF IInv, TypeOK
    <3>2. /\ Len(results') = Len(results) + 1
          /\ \A j \in 1 .. Len(results) : results'[j] = results[j]
          /\ results'[Len(results) + 1] = [chunk |-> k, ok |-> part[k] = "ok"]
      BY <2>1, <3>1, AppendProperties
    <3> QED BY <3>1, <3>2
  <2>4. PICK G \in SUBSET Chunk, B \in SUBSET Chunk : Ledger(G, B)
    BY DEF JobInv, AmountInv
  <2>5. \A j \in 1 .. Len(results') :
           \/ j \in 1 .. Len(results) /\ results'[j] = results[j]
           \/ j = Len(results') /\ results'[j].chunk = k
    BY <2>3
  <2>6. \A j \in 1 .. Len(results) : results[j].chunk # k
    BY <2>1, <2>4 DEF Ledger
  <2>7. \A j \in 1 .. Len(results') : results'[j].chunk \in Left' \ (G \cup B)
    BY <2>1, <2>2, <2>4, <2>5 DEF Ledger
  <2>8. ASSUME NEW c \in Left' \ (G \cup B)
        PROVE  \E j \in 1 .. Len(results') : results'[j].chunk = c
    <3>1. CASE c = k
      <4>1. Len(results') \in 1 .. Len(results')
        BY <2>3
      <4> QED BY <2>3, <3>1, <4>1
    <3>2. CASE c # k
      <4>1. PICK j \in 1 .. Len(results) : results[j].chunk = c
        BY <2>2, <2>4, <3>2 DEF Ledger
      <4>2. j \in 1 .. Len(results')
        BY <2>3, <4>1
      <4> QED BY <2>3, <4>1, <4>2
    <3> QED BY <3>1, <3>2
  <2>9. \A j, l \in 1 .. Len(results') :
           results'[j].chunk = results'[l].chunk => j = l
    BY <2>4, <2>5, <2>6 DEF Ledger
  <2>10. /\ G \subseteq Left' /\ B \subseteq Left' /\ G \cap B = {}
         /\ sum' = Weight(units, G) /\ errors' = Cardinality(B)
    BY <2>1, <2>2, <2>4 DEF Ledger
  <2>11. Ledger(G, B)'
    BY <2>1, <2>7, <2>8, <2>9, <2>10 DEF Ledger, Weight, Covered
  <2> QED BY <2>1, <2>2, <2>11 DEF JobInv, AmountInv, Weight, Covered
<1>2. CASE ~Deposit(k)
  <2>1. UNCHANGED <<units, sent, sum, errors, results>>
    BY <1>2 DEF Part, Dial, Answered, Move, Return, jobVars, loopVars, endVars
  <2>2. Begun' = Begun /\ Left' = Left
    BY <1>2 DEF Part, Dial, Answered, Move, Return, Step, IInv, TypeOK, Begun,
                Left
  <2> QED BY <2>1, <2>2, SameAmounts DEF JobInv
<1> QED BY <1>1, <1>2

\* The rest of the invariant, for a step that leaves the handler where it is.
LEMMA SameStage ==
    ASSUME StageInv, SkipInv, Begun' = Begun,
           UNCHANGED <<pc, i, units, closed, results, resp, errors, failed>>
    PROVE  StageInv' /\ SkipInv'
<1>1. StageInv'
  BY DEF StageInv, Collected, Answer
<1>2. NothingSkipped' = NothingSkipped
  BY DEF NothingSkipped
<1> QED BY <1>1, <1>2 DEF SkipInv, Collected, Answer

LEMMA FirstResponse ==
    ASSUME NEW S, NEW s \in Seq(S), NEW e \in S, Len(Append(s, e)) = 1
    PROVE  s = <<>>
<1>1. Len(Append(s, e)) = Len(s) + 1 /\ Len(s) \in Nat
  BY AppendProperties
<1>2. Len(s) = 0
  BY <1>1
<1> QED BY <1>2

LEMMA HandlerStage ==
    ASSUME IInv, IInv', JobInv, Handler
    PROVE  StageInv' /\ SkipInv'
<1>0. /\ i \in Nat /\ failed \in Nat /\ errors \in Nat
      /\ resp \in Seq({"200", "400", "500", "503"})
      /\ \A k \in Chunk : k \in Int
      /\ closed => pc \in {"collect", "done"}
  BY NAssumption DEF IInv, TypeOK, GroupInv, Chunk
<1>1. CASE Refuse \/ EmptyText
  <2>1. ~closed' /\ pc' = "done"
    BY <1>0, <1>1 DEF Refuse, EmptyText
  <2> QED BY <2>1 DEF StageInv, SkipInv, Collected
<1>2. CASE Receive
  <2>1. Begun' = Begun /\ Begun = {} /\ i' = 0 /\ pc' = "loop" /\ N # 0
    BY <1>2 DEF Receive, JobInv, StageInv, partVars, Begun
  <2>2. NothingSkipped'
    BY <2>1, NAssumption DEF NothingSkipped, Chunk
  <2> QED BY <2>1, <2>2 DEF StageInv, SkipInv, Collected
<1>3. CASE SkipEmpty
  <2>1. /\ pc' = "loop" /\ i' = i + 1 /\ Size(units, N, i) = 0 /\ Begun' = Begun
        /\ pc = "loop" /\ UNCHANGED <<units, failed, resp>>
    BY <1>3 DEF SkipEmpty, partVars, endVars, jobVars, Begun
  <2>2. NothingSkipped => NothingSkipped'
    BY <1>0, <2>1 DEF NothingSkipped
  <2> QED BY <2>1, <2>2 DEF StageInv, SkipInv, Collected, JobInv
<1>4. CASE SkipUnselected
  <2>1. pc' = "loop" /\ failed' # 0 /\ N # 0
    BY <1>0, <1>4 DEF SkipUnselected, Fail, JobInv, StageInv
  <2> QED BY <2>1 DEF StageInv, SkipInv, Collected
<1>5. CASE Select \/ Put
  <2>1. /\ pc' \in {"check", "launch"} /\ pc \in {"loop", "put"}
        /\ Size(units, N, i) # 0 /\ Begun' = Begun
        /\ UNCHANGED <<i, units, failed, resp>>
    BY <1>5 DEF Select, Put, jobVars, partVars, endVars, Begun, JobInv, StageInv
  <2>2. NothingSkipped' = NothingSkipped
    BY <2>1 DEF NothingSkipped
  <2> QED BY <2>1, <2>2 DEF StageInv, SkipInv, Collected, JobInv
<1>6. CASE Checked
  <2>1. Begun' = Begun /\ UNCHANGED <<units, failed>> /\ pc = "check"
        /\ Size(units, N, i) # 0
    BY <1>6 DEF Checked, jobVars, partVars, Begun, JobInv, StageInv
  <2>2. CASE pc' = "put" /\ UNCHANGED <<i, resp>>
    <3>1. NothingSkipped' = NothingSkipped
      BY <2>1, <2>2 DEF NothingSkipped
    <3> QED BY <2>1, <2>2, <3>1 DEF StageInv, SkipInv, Collected, JobInv
  <2>3. CASE pc' = "loop" /\ Write("503")
    <3>1. resp' # <<>>
      BY <1>0, <2>3 DEF Write
    <3> QED BY <2>1, <2>3, <3>1 DEF StageInv, SkipInv, Collected, JobInv
  <2> QED BY <1>6, <2>2, <2>3 DEF Checked
<1>7. CASE Launch
  <2>1. /\ i \in Chunk /\ pc' = "loop" /\ i' = i + 1 /\ pc = "launch"
        /\ part' = [part EXCEPT ![i] = "dial"]
        /\ UNCHANGED <<units, failed, resp>>
    BY <1>7, NAssumption
       DEF Launch, Chunk, IInv, TypeOK, LoopInv, jobVars, endVars
  <2>2. Begun' = Begun \cup {i}
    BY <2>1 DEF IInv, TypeOK, Begun
  <2>3. NothingSkipped => NothingSkipped'
    BY <1>0, <2>1, <2>2 DEF NothingSkipped
  <2> QED BY <2>1, <2>3 DEF StageInv, SkipInv, Collected, JobInv
<1>8. CASE Launched
  <2>1. /\ pc = "loop" /\ i = N /\ ~closed' /\ Begun' = Begun
        /\ UNCHANGED <<i, units>>
    BY <1>0, <1>8 DEF Launched, jobVars, partVars, Begun
  <2>2. CASE pc' = "done"
    BY <2>1, <2>2 DEF StageInv, SkipInv, Collected
  <2>3. CASE pc' = "collect" /\ UNCHANGED <<resp, failed>>
    <3>1. NothingSkipped' = NothingSkipped
      BY <2>1 DEF NothingSkipped
    <3> QED BY <2>1, <2>3, <3>1 DEF StageInv, SkipInv, Collected, JobInv
  <2> QED BY <1>8, <2>2, <2>3 DEF Launched
<1>9. CASE Collect
  <2>1. /\ pc = "collect" /\ pc' = "collect" /\ Begun' = Begun
        /\ UNCHANGED <<i, units, resp, failed>>
    BY <1>9 DEF Collect, jobVars, loopVars, Begun
  <2>2. NothingSkipped' = NothingSkipped
    BY <2>1 DEF NothingSkipped
  <2> QED BY <2>1, <2>2 DEF StageInv, SkipInv, Collected, JobInv
<1>10. CASE Conclude
  <2>1. /\ pc = "collect" /\ pc' = "done" /\ Begun' = Begun /\ results' = <<>>
        /\ i = N /\ N # 0 /\ UNCHANGED <<i, units, errors>>
    BY <1>10 DEF Conclude, jobVars, partVars, Begun, JobInv, StageInv
  <2>2. /\ Len(resp') = Len(resp) + 1
        /\ Answer' = IF errors > 0 THEN "500" ELSE "200"
    <3>1. PICK r \in {"200", "500"} :
             Write(r) /\ r = IF errors > 0 THEN "500" ELSE "200"
      BY <1>10 DEF Conclude
    <3>2. /\ Len(resp') = Len(resp) + 1 /\ resp'[Len(resp) + 1] = r
      BY <1>0, <3>1, AppendProperties DEF Write
    <3> QED BY <3>1, <3>2 DEF Answer
  <2>3. NothingSkipped' = NothingSkipped
    BY <2>1 DEF NothingSkipped
  <2>4. (Answer = "200")' <=> errors' = 0
    BY <1>0, <2>1, <2>2
  <2>5. StageInv'
    BY <2>1, <2>4 DEF StageInv, Collected
  <2>6. failed' = 0 /\ Len(resp') = 1 /\ (Answer = "200")' => failed = 0 /\ resp = <<>>
    <3>1. failed' = 0 => failed = 0
      BY <1>0, <1>10 DEF Conclude, Fail, Succeed
    <3>2. PICK r \in {"200", "400", "500", "503"} : resp' = Append(resp, r)
      BY <1>10 DEF Conclude, Write
    <3>3. Len(resp') = 1 => resp = <<>>
      BY <1>0, <3>2, FirstResponse
    <3> QED BY <3>1, <3>3
  <2> QED BY <2>1, <2>3, <2>5, <2>6 DEF SkipInv, JobInv
<1> QED BY <1>1, <1>2, <1>3, <1>4, <1>5, <1>6, <1>7, <1>8, <1>9, <1>10 DEF Handler

LEMMA NextJob ==
    ASSUME IInv, IInv', JobInv, [Next]_vars
    PROVE  JobInv'
<1>1. ASSUME NEW w \in Worker, Environment(w)
      PROVE  JobInv'
  <2>1. AmountInv' /\ Begun' = Begun
    BY <1>1, EnvironmentAmounts DEF JobInv
  <2>2. UNCHANGED <<pc, i, units, closed, results, resp, errors, failed>>
    BY <1>1 DEF Environment, Crash, Restart, Hang, Observe, jobVars, loopVars, partVars, endVars
  <2> QED BY <2>1, <2>2, SameStage DEF JobInv
<1>2. CASE Handler
  BY <1>2, HandlerAmounts, HandlerStage DEF JobInv
<1>3. CASE Close
  <2>1. /\ pc = "collect" /\ part' = part
        /\ UNCHANGED <<pc, i, units, results, resp, errors, failed, sent, sum>>
    BY <1>3 DEF Close, jobVars, loopVars, partVars
  <2>2. Begun' = Begun /\ Left' = Left
    BY <2>1 DEF Begun, Left
  <2>3. AmountInv'
    BY <2>1, <2>2, SameAmounts DEF JobInv
  <2>4. StageInv'
    BY <2>1, <2>2 DEF JobInv, StageInv, Collected
  <2>5. NothingSkipped' = NothingSkipped
    BY <2>1, <2>2 DEF NothingSkipped
  <2>6. SkipInv'
    BY <2>1, <2>5 DEF JobInv, SkipInv, Collected
  <2> QED BY <2>3, <2>4, <2>6 DEF JobInv
<1>4. ASSUME NEW k \in Chunk, Part(k)
      PROVE  JobInv'
  <2>1. AmountInv' /\ Begun' = Begun
    BY <1>4, PartAmounts
  <2>2. UNCHANGED <<pc, i, units, closed, resp, errors, failed>> /\ ~closed
    BY <1>4 DEF Part, Dial, Answered, Deposit, Move, Return, jobVars, loopVars,
                endVars, IInv, ClosedAfterAll, Running
  <2>3. StageInv'
    BY <2>1, <2>2 DEF JobInv, StageInv, Collected
  <2>4. NothingSkipped' = NothingSkipped
    BY <2>1, <2>2 DEF NothingSkipped
  <2>5. SkipInv'
    BY <2>2, <2>4 DEF JobInv, SkipInv, Collected
  <2> QED BY <2>1, <2>3, <2>5 DEF JobInv
<1>5. CASE UNCHANGED vars
  <2>1. /\ UNCHANGED <<pc, i, units, closed, results, resp, errors, failed, sent,
                       sum, part>>
    BY <1>5 DEF vars, jobVars, loopVars, partVars, endVars
  <2>2. Begun' = Begun /\ Left' = Left
    BY <2>1 DEF Begun, Left
  <2> QED BY <2>1, <2>2, SameAmounts, SameStage DEF JobInv
<1> QED BY <1>1, <1>2, <1>3, <1>4, <1>5 DEF Next

LEMMA SpecJob == Spec => [](IInv /\ JobInv)
<1>1. IInv /\ JobInv /\ [Next]_vars => IInv' /\ JobInv'
  BY NextIInv, NextJob
<1> QED BY <1>1, InitIInv, InitJob, PTL DEF Spec

\* The results of a job that has been answered are all in the ledger.
LEMMA AllCounted ==
    ASSUME IInv, JobInv, Collected
    PROVE  \E G, B \in SUBSET Chunk :
              /\ G \cup B = Begun /\ G \cap B = {}
              /\ sum = Weight(units, G) /\ errors = Cardinality(B)
<1>1. PICK G \in SUBSET Chunk, B \in SUBSET Chunk : Ledger(G, B)
  BY DEF JobInv, AmountInv
<1>2. results = <<>> /\ Len(results) = 0
  BY DEF JobInv, StageInv
<1>3. Left = Begun
  BY DEF IInv, ClosedAfterAll, Collected, Running, Left, Begun, TypeOK, PartStates
<1>4. Left = G \cup B
  BY <1>1, <1>2 DEF Ledger
<1> QED BY <1>1, <1>3, <1>4 DEF Ledger

-----------------------------------------------------------------------------
(* Theorems                                                                 *)

\* The variables of a job, its goroutines and its workers keep their types.
THEOREM TypeCorrect == Spec => []TypeOK
<1>1. IInv => TypeOK
  BY DEF IInv
<1> QED BY <1>1, SpecIInv, PTL

\* close(resultsChan) comes after the last result: no goroutine of a job ever
\* sends on a closed channel, whatever crashes and however many workers.
THEOREM ChannelClosedOnce == Spec => []ClosedAfterAll
<1>1. IInv => ClosedAfterAll
  BY DEF IInv
<1> QED BY <1>1, SpecIInv, PTL

\* len(d.Workers) places are enough for the results of a job: no goroutine
\* waits to leave its result, so wg.Wait() cannot wait for the handler.
THEOREM RoomForEveryResult == Spec => []DepositsNeverBlock
<1>1. IInv => DepositsNeverBlock
  <2> SUFFICES ASSUME IInv PROVE DepositsNeverBlock
    OBVIOUS
  <2>1. Cardinality(ToCome) \in Nat
    BY ChunkSet DEF ToCome
  <2>2. i \in Nat /\ i <= N /\ Len(results) \in Nat /\ N \in Nat
    BY NAssumption DEF IInv, TypeOK
  <2> QED BY <2>1, <2>2 DEF IInv, GroupInv, DepositsNeverBlock
<1> QED BY <1>1, SpecIInv, PTL

\* A 200 is the exact total of what was launched, a 500 never is, for any
\* number of workers, any size of the request and any crashes.
THEOREM ExactOrRefused == Spec => []TotalOfLaunched
<1>1. IInv /\ JobInv => TotalOfLaunched
  <2> SUFFICES ASSUME IInv, JobInv, Collected
               PROVE  Answer = "200" <=> sum = sent
    BY DEF TotalOfLaunched
  <2>1. PICK G \in SUBSET Chunk, B \in SUBSET Chunk :
           /\ G \cup B = Begun /\ G \cap B = {}
           /\ sum = Weight(units, G) /\ errors = Cardinality(B)
    BY AllCounted
  <2>2. sent = Weight(units, Begun) /\ (Answer = "200" <=> errors = 0)
    BY DEF JobInv, AmountInv, StageInv
  <2>3. errors = 0 <=> B = {}
    BY <2>1, ChunkSet, FS_EmptySet
  <2>4. CASE B = {}
    BY <2>1, <2>2, <2>3, <2>4
  <2>5. CASE B # {}
    <3>1. PICK k \in B : k \in Begun \ G /\ Size(units, N, k) # 0
      BY <2>1, <2>5 DEF JobInv, AmountInv
    <3>2. units \in Nat /\ Begun \in SUBSET Chunk /\ G \in SUBSET Begun
      BY <2>1, NAssumption DEF IInv, TypeOK, Begun
    <3>3. Weight(units, G) # Weight(units, Begun)
      BY <3>1, <3>2, WeightOfFewer
    <3> QED BY <2>1, <2>2, <2>3, <2>5, <3>3
  <2> QED BY <2>4, <2>5
<1> QED BY <1>1, SpecJob, PTL

\* If no chunk was skipped, a 200 is the total of the request.
THEOREM WholeIfNothingSkipped == Spec => []CompleteIfNotSkipped
<1>1. IInv /\ JobInv => CompleteIfNotSkipped
  <2> SUFFICES ASSUME IInv, JobInv, Collected, Answer = "200", failed = 0,
                      Len(resp) = 1
               PROVE  sum = units
    BY DEF CompleteIfNotSkipped
  <2>1. PICK G \in SUBSET Chunk, B \in SUBSET Chunk :
           /\ G \cup B = Begun /\ G \cap B = {}
           /\ sum = Weight(units, G) /\ errors = Cardinality(B)
    BY AllCounted
  <2>2. errors = 0 /\ i = N /\ N # 0 /\ NothingSkipped
    BY DEF JobInv, StageInv, SkipInv
  <2>3. G = Begun
    BY <2>1, <2>2, ChunkSet, FS_EmptySet
  <2>4. units \in Nat /\ Begun \in SUBSET Chunk
    BY NAssumption DEF IInv, TypeOK, Begun
  <2>5. \A k \in Chunk \ Begun : Size(units, N, k) = 0
    <3>1. \A k \in Chunk : k < N
      BY NAssumption DEF Chunk
    <3> QED BY <2>2, <3>1 DEF NothingSkipped
  <2> QED BY <2>1, <2>2, <2>3, <2>4, <2>5, WeightOfAll
<1> QED BY <1>1, SpecJob, PTL
\* Units are there only once a request has been split, which takes a worker.
LEMMA NoUnitsWithoutWorkers == Spec => [](N = 0 => units = 0)
<1> DEFINE Inv == N = 0 => units = 0
<1>1. Init => Inv
  BY DEF Init
<1>2. Inv /\ [Next]_vars => Inv'
  <2> SUFFICES ASSUME Inv, [Next]_vars, N = 0 PROVE units' = units
    OBVIOUS
  <2>1. ~Receive
    BY NAssumption DEF Receive
  <2>2. CASE UNCHANGED vars
    BY <2>2 DEF vars, jobVars
  <2>3. ASSUME NEW w \in Worker, Environment(w)
        PROVE  units' = units
    BY <2>3 DEF Environment, Crash, Restart, Hang, Observe, jobVars
  <2>4. CASE Handler
    BY <2>1, <2>4 DEF Handler, Refuse, EmptyText, SkipEmpty, SkipUnselected,
                      Select, Checked, Put, Launch, Launched, Collect, Conclude,
                      jobVars
  <2>5. CASE Close
    BY <2>5 DEF Close, jobVars
  <2>6. ASSUME NEW k \in Chunk, Part(k) PROVE units' = units
    BY <2>6 DEF Part, Dial, Answered, Deposit, Move, Return, jobVars
  <2> QED BY <2>2, <2>3, <2>4, <2>5, <2>6 DEF Next
<1> QED BY <1>1, <1>2, PTL DEF Spec

\* However many workers and units: the chunks are a partition of the job, each
\* where the loop over the chunks before it puts it.
THEOREM ChunksPartitionJob == Spec => []PlanIsPartition
<1>1. TypeOK /\ (N = 0 => units = 0) => PlanIsPartition
  <2> SUFFICES ASSUME TypeOK, N = 0 => units = 0 PROVE PlanIsPartition
    OBVIOUS
  <2>1. units \in Nat
    BY NAssumption DEF TypeOK
  <2>2. CASE N = 0
    <3>1. Chunk = {} /\ 1 .. units = {}
      BY <2>2 DEF Chunk
    <3> QED BY <3>1 DEF PlanIsPartition
  <2>3. CASE N # 0
    <3>1. N \in Nat \ {0} /\ Chunk = 0 .. (N - 1)
      BY <2>3, NAssumption DEF Chunk
    <3>2. \A k \in Chunk : StartBySum(units, N, k) = Start(units, N, k)
      BY <2>1, <3>1, SumIsStart
    <3>3. ASSUME NEW u \in 1 .. units
          PROVE  \E k \in Chunk : {j \in Chunk : u \in Units(units, N, j)} = {k}
      <4>1. PICK k \in Chunk : u \in Units(units, N, k)
        BY <2>1, <3>1, ChunksCover
      <4>2. \A j \in Chunk : j # k => u \notin Units(units, N, j)
        BY <2>1, <3>1, <4>1, ChunksDisjoint
      <4> QED BY <4>1, <4>2
    <3> QED BY <3>2, <3>3 DEF PlanIsPartition
  <2> QED BY <2>2, <2>3
<1> QED BY <1>1, TypeCorrect, NoUnitsWithoutWorkers, PTL
-----------------------------------------------------------------------------
(* Implementing SplitJob                                                    *)

\* Before a request has been split nothing is known of it or written.
StartInv == pc = "start" => units = 0 /\ resp = <<>> /\ failed = 0

LEMMA SpecStart == Spec => []StartInv
<1>1. Init => StartInv
  BY DEF Init, StartInv
<1>2. StartInv /\ [Next]_vars => StartInv'
  <2> SUFFICES ASSUME StartInv, [Next]_vars, pc' = "start"
               PROVE  pc = "start" /\ UNCHANGED <<units, resp, failed>>
    BY DEF StartInv
  <2>1. CASE UNCHANGED vars
    BY <2>1 DEF vars, jobVars, loopVars, endVars
  <2>2. ASSUME NEW w \in Worker, Environment(w)
        PROVE  pc = "start" /\ UNCHANGED <<units, resp, failed>>
    BY <2>2 DEF Environment, Crash, Restart, Hang, Observe, jobVars, loopVars, endVars
  <2>3. CASE Handler
    BY <2>3 DEF Handler, Refuse, EmptyText, Receive, SkipEmpty, SkipUnselected,
                Select, Checked, Put, Launch, Launched, Collect, Conclude,
                loopVars
  <2>4. CASE Close
    BY <2>4 DEF Close, jobVars, loopVars
  <2>5. ASSUME NEW k \in Chunk, Part(k)
        PROVE  pc = "start" /\ UNCHANGED <<units, resp, failed>>
    BY <2>5 DEF Part, Dial, Answered, Deposit, Move, Return, jobVars, loopVars,
                endVars
  <2> QED BY <2>1, <2>2, <2>3, <2>4, <2>5 DEF Next
<1> QED BY <1>1, <1>2, PTL DEF Spec

LEMMA ShareIsEmpty ==
    ASSUME NEW u \in Nat, NEW k \in Chunk
    PROVE  /\ Units(u, N, k) = {} <=> ~(Size(u, N, k) > 0)
           /\ u = 0 => Units(u, N, k) = {}
<1>1. /\ Size(u, N, k) \in Nat /\ IsFiniteSet(Units(u, N, k))
      /\ Cardinality(Units(u, N, k)) = Size(u, N, k)
  BY WeightOfOne
<1>2. Units(u, N, k) = {} <=> Cardinality(Units(u, N, k)) = 0
  BY <1>1, FS_EmptySet
<1>3. Units(u, N, k) \subseteq 1 .. u
  <2>1. Covered(u, {k}) = Units(u, N, k)
    BY DEF Covered
  <2> QED BY <2>1, CoveredInJob
<1> QED BY <1>1, <1>2, <1>3

\* The cardinality that SplitJob speaks of is the one of FiniteSets.
LEMMA SameCardinality == \A S : Job!Cardinality(S) = Cardinality(S)
  BY DEF Job!Cardinality, Cardinality

\* The chunks are dealt out as SplitJob asks.
LEMMA SharesAreFair ==
    ASSUME N # 0, NEW u \in Nat, NEW s, s = [k \in Chunk |-> Units(u, N, k)]
    PROVE  Job!Fair(s, u)
<1>1. N \in Nat \ {0} /\ Chunk = 0 .. (N - 1)
  BY NAssumption DEF Chunk
<1>2. UNION {s[k] : k \in Chunk} = 1 .. u
  <2>1. UNION {s[k] : k \in Chunk} = Covered(u, Chunk)
    BY DEF Covered
  <2>2. \A x \in 1 .. u : \E k \in Chunk : x \in Units(u, N, k)
    BY <1>1, ChunksCover
  <2> QED BY <2>1, <2>2, CoveredInJob DEF Covered
<1>3. ASSUME NEW j \in Chunk, NEW k \in Chunk
      PROVE  /\ j # k => s[j] \cap s[k] = {}
             /\ Cardinality(s[j]) <= Cardinality(s[k]) + 1
  <2>1. s[j] = Units(u, N, j) /\ s[k] = Units(u, N, k)
    OBVIOUS
  <2>2. j # k => Units(u, N, j) \cap Units(u, N, k) = {}
    BY <1>1, ChunksDisjoint
  <2>3. Size(u, N, j) <= Size(u, N, k) + 1
    BY <1>1, ChunksBalanced
  <2> QED BY <2>1, <2>2, <2>3, WeightOfOne
<1> QED BY <1>2, <1>3, SameCardinality DEF Job!Fair

\* What SplitJob does not see.
LEMMA SameForJob ==
    ASSUME UNCHANGED <<units, i, sum, errors, resp, failed>>, Out' = Out,
           pc' = "done" <=> pc = "done"
    PROVE  UNCHANGED Job!vars
<1>1. Ahead' = Ahead /\ Noted' = Noted /\ Answer' = Answer
  BY DEF Ahead, Noted, Answer
<1> QED BY <1>1 DEF Job!vars

\* A chunk leaves its place in a goroutine for one in the channel.
LEMMA OutOnDeposit ==
    ASSUME IInv, NEW k \in Chunk, Deposit(k)
    PROVE  Out' = Out
<1>1. ToCome' = ToCome \ {k} /\ k \in ToCome
  BY DEF Deposit, Step, ToCome, IInv, TypeOK
<1>2. PICK r \in [chunk : Chunk, ok : BOOLEAN] :
         r.chunk = k /\ results' = Append(results, r)
  <2>1. [chunk |-> k, ok |-> part[k] = "ok"] \in [chunk : Chunk, ok : BOOLEAN]
    OBVIOUS
  <2> QED BY <2>1 DEF Deposit
<1>3. PICK n \in Nat : n = Len(results)
  BY DEF IInv, TypeOK
<1>4. /\ Len(results') = n + 1 /\ results'[n + 1] = r
      /\ \A j \in 1 .. n : results'[j] = results[j]
  <2>1. results \in Seq([chunk : Chunk, ok : BOOLEAN])
    BY DEF IInv, TypeOK
  <2> QED BY <1>2, <1>3, <2>1, AppendProperties
<1>5. 1 .. (n + 1) = 1 .. n \cup {n + 1}
  OBVIOUS
<1>6. {results'[j].chunk : j \in 1 .. (n + 1)}
         = {results[j].chunk : j \in 1 .. n} \cup {k}
  BY <1>2, <1>4, <1>5
<1> QED BY <1>1, <1>3, <1>4, <1>6 DEF Out

\* The handler takes one chunk out of the channel, and it was there once.
LEMMA OutOnCollect ==
    ASSUME IInv, JobInv, Collect
    PROVE  /\ Head(results).chunk \in Out /\ Head(results).chunk \in Chunk
           /\ Out' = Out \ {Head(results).chunk}
<1>1. PICK G \in SUBSET Chunk, B \in SUBSET Chunk : Ledger(G, B)
  BY DEF JobInv, AmountInv
<1>2. PICK n \in Nat : n = Len(results)
  BY DEF IInv, TypeOK
<1>3. /\ Head(results) = results[1] /\ n >= 1 /\ Len(results') = n - 1
      /\ \A j \in 1 .. (n - 1) : results'[j] = results[j + 1]
  <2>1. /\ results \in Seq([chunk : Chunk, ok : BOOLEAN]) /\ results # <<>>
        /\ results' = Tail(results)
    BY DEF Collect, IInv, TypeOK
  <2>2. n # 0 /\ Head(results) = results[1]
    BY <1>2, <2>1
  <2>3. /\ Len(Tail(results)) = n - 1
        /\ \A j \in 1 .. Len(Tail(results)) : Tail(results)[j] = results[j + 1]
    BY <1>2, <2>1, HeadTailProperties
  <2> QED BY <2>1, <2>2, <2>3
<1>4. PICK c \in Chunk : c = results[1].chunk
  <2>1. results \in Seq([chunk : Chunk, ok : BOOLEAN]) /\ 1 \in 1 .. Len(results)
    BY <1>2, <1>3 DEF IInv, TypeOK
  <2>2. results[1] \in [chunk : Chunk, ok : BOOLEAN]
    BY <2>1, ElementOfSeq
  <2> QED BY <2>2
<1>5. ToCome' = ToCome /\ c \notin ToCome
  <2>1. part' = part
    BY DEF Collect
  <2>2. c \in Left
    BY <1>1, <1>2, <1>3, <1>4 DEF Ledger
  <2> QED BY <2>1, <2>2 DEF ToCome, Left
<1>6. \A j \in 1 .. (n - 1) : results[j + 1].chunk # c
  <2> SUFFICES ASSUME NEW j \in 1 .. (n - 1), results[j + 1].chunk = c PROVE FALSE
    OBVIOUS
  <2>1. j + 1 \in 1 .. n /\ 1 \in 1 .. n /\ j + 1 # 1
    OBVIOUS
  <2> QED BY <1>1, <1>2, <1>4, <2>1 DEF Ledger
<1>7. {results'[j].chunk : j \in 1 .. (n - 1)}
         = {results[j].chunk : j \in 1 .. n} \ {c}
  <2>1. ASSUME NEW j \in 1 .. (n - 1)
        PROVE  results'[j].chunk \in {results[l].chunk : l \in 1 .. n} \ {c}
    <3>1. j + 1 \in 1 .. n
      OBVIOUS
    <3> QED BY <1>3, <1>6, <3>1
  <2>2. ASSUME NEW l \in 1 .. n, results[l].chunk # c
        PROVE  results[l].chunk \in {results'[j].chunk : j \in 1 .. (n - 1)}
    <3>1. l # 1
      BY <1>4, <2>2
    <3>2. l - 1 \in 1 .. (n - 1) /\ (l - 1) + 1 = l
      BY <3>1
    <3> QED BY <1>3, <3>2
  <2> QED BY <2>1, <2>2
<1>8. 1 \in 1 .. n /\ c = Head(results).chunk
  BY <1>3, <1>4
<1>9. Out = ToCome \cup {results[j].chunk : j \in 1 .. n}
  BY <1>2 DEF Out
<1>10. Out' = ToCome' \cup {results'[j].chunk : j \in 1 .. (n - 1)}
  BY <1>3 DEF Out
<1>11. c \in Out
  BY <1>4, <1>8, <1>9
<1>12. Out' = Out \ {c}
  BY <1>5, <1>7, <1>9, <1>10
<1> QED BY <1>8, <1>11, <1>12

LEMMA EnvironmentForJob ==
    ASSUME IInv, NEW w \in Worker, Environment(w)
    PROVE  UNCHANGED Job!vars
<1>1. UNCHANGED <<units, i, sum, errors, pc, resp, failed, results>>
  BY DEF Environment, Crash, Restart, Hang, Observe, jobVars, loopVars, partVars, endVars
<1>2. ToCome' = ToCome
  <2>1. CASE part' = part
    BY <2>1 DEF ToCome
  <2>2. CASE Crash(w)
    <3> DEFINE waiting == {k \in Chunk : part[k] = "sent" /\ via[k] = w}
    <3>1. PICK end \in [waiting -> {"error", "garbled"}] :
             part' = [k \in Chunk |-> IF k \in waiting THEN end[k] ELSE part[k]]
      BY <2>2 DEF Crash
    <3>2. \A k \in Chunk : \/ part'[k] = part[k]
                           \/ part[k] = "sent" /\ part'[k] \in {"error", "garbled"}
      BY <3>1
    <3> QED BY <3>2 DEF ToCome
  <2> QED BY <2>1, <2>2 DEF Environment, Restart, Hang, Observe, partVars
<1> QED BY <1>1, <1>2, SameForJob DEF Out

LEMMA PartForJob ==
    ASSUME IInv, NEW k \in Chunk, Part(k)
    PROVE  UNCHANGED Job!vars
<1>1. UNCHANGED <<units, i, sum, errors, pc, resp, failed>>
  BY DEF Part, Dial, Answered, Deposit, Move, Return, jobVars, loopVars, endVars
<1>2. Out' = Out
  <2>1. CASE Deposit(k)
    BY <2>1, OutOnDeposit
  <2>2. CASE ~Deposit(k)
    <3>1. ToCome' = ToCome /\ results' = results
      BY <2>2 DEF Part, Dial, Answered, Move, Return, Step, ToCome, IInv, TypeOK
    <3> QED BY <3>1 DEF Out
  <2> QED BY <2>1, <2>2
<1> QED BY <1>1, <1>2, SameForJob

\* Nothing has been launched: there is nothing to wait for and nothing is lost.
LEMMA NothingOut ==
    ASSUME IInv, JobInv, Begun = {}
    PROVE  Out = {} /\ errors = 0
<1>1. PICK G \in SUBSET Chunk, B \in SUBSET Chunk : Ledger(G, B)
  BY DEF JobInv, AmountInv
<1>2. Left = {} /\ ToCome = {}
  BY DEF Left, Begun, ToCome
<1>3. B = {} /\ errors = 0
  BY <1>1, <1>2, FS_EmptySet DEF Ledger
<1>4. 1 .. Len(results) = {}
  BY <1>1, <1>2 DEF Ledger
<1> QED BY <1>2, <1>3, <1>4 DEF Out

\* The loop passes chunk i.
LEMMA OnePassed ==
    ASSUME IInv, i < N, i' = i + 1, units' = units
    PROVE  /\ i \in Chunk
           /\ Ahead' = Ahead \ {i}
           /\ i \in Ahead <=> Size(units, N, i) > 0
<1>1. /\ i \in Nat /\ N \in Nat /\ i \in Chunk
      /\ \A k \in Chunk : k \in Int
  BY NAssumption DEF IInv, TypeOK, Chunk
<1>2. \A k \in Chunk : k >= i + 1 <=> k >= i /\ k # i
  BY <1>1
<1>3. Ahead' = {k \in Chunk : k >= i + 1 /\ Size(units, N, k) > 0}
  BY DEF Ahead
<1>4. Ahead' = Ahead \ {i}
  BY <1>2, <1>3 DEF Ahead
<1>5. i \in Ahead <=> Size(units, N, i) > 0
  BY <1>1 DEF Ahead
<1> QED BY <1>1, <1>4, <1>5

LEMMA NoneAhead ==
    ASSUME IInv, i = N \/ units = 0
    PROVE  Ahead = {}
<1>1. ASSUME NEW k \in Ahead PROVE FALSE
  <2>1. k \in Chunk /\ k < N /\ Size(units, N, k) > 0 /\ k >= i
    BY <1>1, NAssumption DEF Ahead, Chunk
  <2>2. units = 0 /\ units \in Nat
    BY <2>1, NAssumption DEF IInv, TypeOK, Chunk
  <2> QED BY <2>1, <2>2, ShareIsEmpty
<1> QED BY <1>1

\* The answer, when it is written last.
LEMMA LastWritten ==
    ASSUME TypeOK, NEW r \in {"200", "400", "500", "503"}, resp' = Append(resp, r)
    PROVE  /\ Answer' = r
           /\ Len(resp') > 1 <=> resp # <<>>
           /\ resp' # <<>>
<1>1. resp \in Seq({"200", "400", "500", "503"})
  BY DEF TypeOK
<1>2. /\ Len(resp') = Len(resp) + 1 /\ resp'[Len(resp) + 1] = r
      /\ Len(resp) \in Nat
  BY <1>1, AppendProperties
<1>3. Len(resp) = 0 <=> resp = <<>>
  BY <1>1
<1> QED BY <1>2, <1>3 DEF Answer

\* The four ways a job is answered.
LEMMA AnswersForJob ==
    ASSUME IInv, IInv', JobInv, StartInv, Refuse \/ EmptyText \/ Launched \/ Conclude
    PROVE  Job!Next \/ UNCHANGED Job!vars
<1>0. /\ TypeOK /\ N \in Nat /\ failed \in Nat /\ errors \in Nat /\ sent \in Nat
      /\ \A S : S \in SUBSET Chunk => IsFiniteSet(S)
  BY NAssumption, ChunkSet DEF IInv, TypeOK
<1>1. CASE Refuse
  <2>1. PICK r \in {"400", "500", "503"} : resp' = Append(resp, r)
    BY <1>1 DEF Refuse, Write
  <2>2. /\ pc = "start" /\ pc' = "done" /\ failed' = failed + 1
        /\ UNCHANGED <<units, i, part, results, sum, errors>>
    BY <1>1 DEF Refuse, Fail, jobVars, partVars
  <2>3. units = 0 /\ resp = <<>> /\ failed = 0
    BY <2>2 DEF StartInv
  <2>4. Answer' = r /\ ~(Len(resp') > 1)
    BY <1>0, <2>1, <2>3, LastWritten
  <2>5. Noted' = Noted /\ Ahead' = Ahead /\ Out' = Out
    <3>1. failed' = 1 /\ Answer' # "200"
      BY <2>2, <2>3, <2>4
    <3>2. ~Noted' /\ ~Noted
      BY <2>2, <2>3, <2>4, <3>1 DEF Noted
    <3>3. Noted' = FALSE /\ Noted = FALSE
      BY <3>2 DEF Noted
    <3> QED BY <2>2, <3>3 DEF Ahead, Out, ToCome
  <2>6. \A k \in Chunk : Units(units, N, k) = {}
    BY <2>3, ShareIsEmpty
  <2> QED BY <2>2, <2>4, <2>5, <2>6 DEF Job!Next, Job!Refuse, Job!Unsplit
<1>2. CASE EmptyText
  <2>1. /\ pc = "start" /\ pc' = "done" /\ resp' = Append(resp, "200")
        /\ UNCHANGED <<units, i, part, results, sum, errors, failed>>
    BY <1>2 DEF EmptyText, Write, Succeed, jobVars, partVars
  <2>2. units = 0 /\ resp = <<>> /\ failed = 0 /\ Begun = {}
    BY <2>1 DEF StartInv, JobInv, StageInv
  <2>3. Answer' = "200" /\ ~(Len(resp') > 1)
    BY <1>0, <2>1, <2>2, LastWritten
  <2>4. Noted' = Noted /\ Ahead' = Ahead /\ Out' = Out
    BY <2>1, <2>2, <2>3 DEF Noted, Ahead, Out, ToCome
  <2>5. Ahead = {} /\ Out = {} /\ errors = 0
    BY <2>2, NoneAhead, NothingOut
  <2> QED BY <2>1, <2>3, <2>4, <2>5 DEF Job!Next, Job!Answer
<1>3. CASE Launched
  <2>1. /\ pc = "loop" /\ i = N
        /\ UNCHANGED <<units, i, part, results, sum, errors>>
    BY <1>3 DEF Launched, jobVars, partVars
  <2>2. Ahead' = Ahead /\ Out' = Out /\ Ahead = {}
    BY <2>1, NoneAhead DEF Ahead, Out, ToCome
  <2>3. CASE kind = "words" /\ sent = 0
    <3>1. pc' = "done" /\ resp' = Append(resp, "200") /\ failed' = failed
      BY <1>3, <2>3 DEF Launched, Write, Succeed
    <3>2. Answer' = "200" /\ (Len(resp') > 1 <=> resp # <<>>)
      BY <1>0, <3>1, LastWritten
    <3>3. Begun = {}
      <4> SUFFICES ASSUME NEW k \in Begun PROVE FALSE
        OBVIOUS
      <4>1. Begun \in SUBSET Chunk /\ {} \in SUBSET Begun /\ units \in Nat
        BY NAssumption DEF Begun, IInv, TypeOK
      <4>2. Size(units, N, k) # 0 /\ Weight(units, Begun) = 0
        BY <2>3 DEF JobInv, AmountInv
      <4> QED BY <4>1, <4>2, WeightOfFewer, WeightOfNone
    <3>4. Out = {} /\ errors = 0
      BY <3>3, NothingOut
    <3>5. Noted' = Noted
      BY <1>0, <2>1, <3>1, <3>2 DEF Noted
    <3> QED BY <2>1, <2>2, <3>1, <3>2, <3>4, <3>5 DEF Job!Next, Job!Answer
  <2>4. CASE ~(kind = "words" /\ sent = 0)
    <3>1. pc' = "collect" /\ UNCHANGED <<resp, failed>>
      BY <1>3, <2>4 DEF Launched
    <3> QED BY <2>1, <2>2, <3>1, SameForJob
  <2> QED BY <2>3, <2>4
<1>4. CASE Conclude
  <2>1. /\ pc = "collect" /\ pc' = "done" /\ closed /\ results = <<>> /\ i = N
        /\ UNCHANGED <<units, i, part, results, sum, errors>>
    BY <1>4 DEF Conclude, jobVars, partVars, JobInv, StageInv
  <2>2. PICK r \in {"200", "500"} :
           /\ r = IF errors > 0 THEN "500" ELSE "200"
           /\ resp' = Append(resp, r)
           /\ failed' = IF errors > 0 THEN failed + 1 ELSE failed
    <3>1. CASE errors > 0
      BY <1>4, <3>1 DEF Conclude, Write, Fail
    <3>2. CASE ~(errors > 0)
      BY <1>4, <3>2 DEF Conclude, Write, Succeed
    <3> QED BY <3>1, <3>2
  <2>3. Answer' = r /\ (Len(resp') > 1 <=> resp # <<>>)
    BY <1>0, <2>2, LastWritten
  <2>4. ToCome = {} /\ 1 .. Len(results) = {}
    BY <2>1 DEF IInv, ClosedAfterAll, Running, ToCome
  <2>5. Ahead' = Ahead /\ Out' = Out /\ Ahead = {} /\ Out = {}
    BY <2>1, <2>4, NoneAhead DEF Ahead, Out, ToCome
  <2>6. Noted' = Noted
    <3>1. failed' > (IF Answer' = "200" THEN 0 ELSE 1) <=> failed > 0
      BY <1>0, <2>2, <2>3
    <3> QED BY <2>1, <2>3, <3>1 DEF Noted
  <2> QED BY <2>1, <2>2, <2>3, <2>5, <2>6 DEF Job!Next, Job!Answer
<1> QED BY <1>1, <1>2, <1>3, <1>4

LEMMA LoopForJob ==
    ASSUME IInv, IInv', JobInv, StartInv,
           SkipEmpty \/ SkipUnselected \/ Select \/ Checked \/ Put \/ Launch
    PROVE  Job!Next \/ UNCHANGED Job!vars
<1>0. N \in Nat /\ failed \in Nat
  BY NAssumption DEF IInv, TypeOK
<1>1. CASE SkipEmpty
  <2>1. /\ i < N /\ Size(units, N, i) = 0 /\ i' = i + 1
        /\ UNCHANGED <<units, pc, part, results, sum, errors, resp, failed>>
    BY <1>1 DEF SkipEmpty, jobVars, partVars, endVars
  <2>2. Ahead' = Ahead
    BY <2>1, OnePassed
  <2>3. Out' = Out /\ Noted' = Noted /\ Answer' = Answer
    BY <2>1 DEF Out, ToCome, Noted, Answer
  <2> QED BY <2>1, <2>2, <2>3 DEF Job!vars
<1>2. CASE SkipUnselected
  <2>1. /\ i < N /\ Size(units, N, i) > 0 /\ i' = i + 1 /\ failed' = failed + 1
        /\ pc = "loop" /\ UNCHANGED <<units, pc, part, results, sum, errors, resp>>
    BY <1>2 DEF SkipUnselected, Fail, jobVars, partVars
  <2>2. i \in Chunk /\ i \in Ahead /\ Ahead' = Ahead \ {i}
    BY <2>1, OnePassed
  <2>3. Out' = Out /\ Noted' = TRUE
    BY <1>0, <2>1 DEF Out, ToCome, Noted
  <2> QED BY <2>1, <2>2, <2>3 DEF Job!Next, Job!LeaveOut
<1>3. CASE Select \/ Put
  <2>1. /\ pc # "done" /\ pc' # "done"
        /\ UNCHANGED <<units, i, part, results, sum, errors, resp, failed>>
    BY <1>3 DEF Select, Put, jobVars, partVars, endVars
  <2> QED BY <2>1, SameForJob DEF Out, ToCome
<1>4. CASE Checked
  <2>1. /\ i < N /\ Size(units, N, i) # 0 /\ pc = "check"
        /\ UNCHANGED <<units, part, results, sum, errors, failed>>
    BY <1>4 DEF Checked, jobVars, partVars, IInv, LoopInv, JobInv, StageInv
  <2>2. CASE pc' = "put" /\ UNCHANGED <<i, resp>>
    BY <2>1, <2>2, SameForJob DEF Out, ToCome
  <2>3. CASE pc' = "loop" /\ i' = i + 1 /\ Write("503")
    <3>1. i \in Chunk /\ i \in Ahead /\ Ahead' = Ahead \ {i}
      <4>1. i \in Chunk /\ units \in Nat
        BY <2>1, NAssumption DEF IInv, TypeOK, Chunk
      <4>2. Size(units, N, i) > 0
        BY <2>1, <4>1, WeightOfOne
      <4> QED BY <2>1, <2>3, <4>2, OnePassed
    <3>2. resp' # <<>>
      BY <2>3, LastWritten DEF Write, IInv
    <3>3. Out' = Out /\ Noted' = TRUE
      BY <2>1, <2>3, <3>2 DEF Out, ToCome, Noted
    <3> QED BY <2>1, <2>3, <3>1, <3>3 DEF Job!Next, Job!LeaveOut
  <2> QED BY <1>4, <2>2, <2>3 DEF Checked
<1>5. CASE Launch
  <2>1. /\ i < N /\ Size(units, N, i) # 0 /\ pc = "launch" /\ pc' = "loop"
        /\ i' = i + 1 /\ part' = [part EXCEPT ![i] = "dial"]
        /\ UNCHANGED <<units, results, sum, errors, resp, failed>>
    BY <1>5 DEF Launch, jobVars, endVars, IInv, LoopInv, JobInv, StageInv
  <2>2. i \in Chunk /\ i \in Ahead /\ Ahead' = Ahead \ {i}
    <3>1. i \in Chunk /\ units \in Nat
      BY <2>1, NAssumption DEF IInv, TypeOK, Chunk
    <3>2. Size(units, N, i) > 0
      BY <2>1, <3>1, WeightOfOne
    <3> QED BY <2>1, <3>2, OnePassed
  <2>3. ToCome' = ToCome \cup {i}
    BY <2>1, <2>2 DEF ToCome, IInv, TypeOK
  <2>4. Out' = Out \cup {i} /\ Noted' = Noted
    BY <2>1, <2>3 DEF Out, Noted
  <2> QED BY <2>1, <2>2, <2>4 DEF Job!Next, Job!Give
<1> QED BY <1>1, <1>2, <1>3, <1>4, <1>5

LEMMA ReceiveForJob ==
    ASSUME IInv, IInv', JobInv, StartInv, Receive
    PROVE  Job!Next
<1>1. /\ pc = "start" /\ pc' = "loop" /\ N # 0 /\ units' \in 1 .. MaxUnits
      /\ units = 0 /\ i = 0
      /\ UNCHANGED <<i, part, results, sum, errors, resp, failed>>
  BY NAssumption DEF Receive, partVars, endVars, StartInv, JobInv, StageInv
<1>2. PICK u \in Nat : u = units' /\ u \in 1 .. MaxUnits
  BY <1>1, NAssumption
<1>3. \A k \in Chunk : Units(units, N, k) = {}
  BY <1>1, ShareIsEmpty
<1>4. Job!Fair([k \in Chunk |-> Units(u, N, k)], u)
  BY <1>1, SharesAreFair
<1>5. Ahead' = {k \in Chunk : Units(u, N, k) # {}}
  <2>1. \A k \in Chunk : k >= 0 /\ (Units(u, N, k) # {} <=> Size(u, N, k) > 0)
    BY ShareIsEmpty DEF Chunk
  <2> QED BY <1>1, <1>2, <2>1 DEF Ahead
<1>6. Out' = Out /\ Noted' = Noted
  BY <1>1 DEF Out, ToCome, Noted
<1>7. Job!Split
  BY <1>1, <1>2, <1>3, <1>4, <1>5, <1>6 DEF Job!Split, Job!Unsplit
<1> QED BY <1>7 DEF Job!Next

LEMMA CollectForJob ==
    ASSUME IInv, JobInv, Collect
    PROVE  Job!Next
<1>1. PICK c \in Chunk : c = Head(results).chunk /\ c \in Out /\ Out' = Out \ {c}
  BY OutOnCollect
<1>2. UNCHANGED <<units, i, part, pc, resp, failed>> /\ pc = "collect"
  BY DEF Collect, jobVars, loopVars
<1>3. Ahead' = Ahead /\ Noted' = Noted
  BY <1>2 DEF Ahead, Noted
<1>4. Job!Back(c)
  BY <1>1, <1>2, <1>3 DEF Job!Back
<1>5. units \in Nat
  BY NAssumption DEF IInv, TypeOK
<1>6. \/ sum' = sum + Size(units, N, c) /\ UNCHANGED errors
      \/ errors' = errors + 1 /\ UNCHANGED sum
  BY <1>1 DEF Collect
<1>7. [k \in Chunk |-> Units(units, N, k)][c] = Units(units, N, c)
  OBVIOUS
<1>8. Job!Cardinality([k \in Chunk |-> Units(units, N, k)][c]) = Size(units, N, c)
  BY <1>5, <1>7, SameCardinality, WeightOfOne
<1>9. Job!Count(c) \/ Job!Lose(c)
  BY <1>4, <1>6, <1>8 DEF Job!Count, Job!Lose
<1> QED BY <1>9 DEF Job!Next

\* A distributed job implements SplitJob: for any number of workers, any size of
\* the request, any crashes and any order of the goroutines.
THEOREM JobImplemented == Spec => ImplementsJob
<1>1. Init => Job!Init
  <2> SUFFICES ASSUME Init PROVE Job!Init
    OBVIOUS
  <2>1. IInv /\ JobInv
    BY InitIInv, InitJob
  <2>2. units = 0 /\ Begun = {} /\ sum = 0 /\ pc = "start"
    BY DEF Init, Begun
  <2>3. \A k \in Chunk : Units(units, N, k) = {}
    BY <2>2, ShareIsEmpty
  <2>4. Ahead = {} /\ Out = {} /\ errors = 0
    BY <2>1, <2>2, NoneAhead, NothingOut
  <2>5. Noted = FALSE
    BY DEF Init, Noted
  <2> QED BY <2>2, <2>3, <2>4, <2>5 DEF Job!Init
<1>2. IInv /\ IInv' /\ JobInv /\ StartInv /\ [Next]_vars => [Job!Next]_(Job!vars)
  <2> SUFFICES ASSUME IInv, IInv', JobInv, StartInv, [Next]_vars
               PROVE  Job!Next \/ UNCHANGED Job!vars
    OBVIOUS
  <2>1. CASE UNCHANGED vars
    <3>1. UNCHANGED <<units, i, sum, errors, pc, resp, failed, part, results>>
      BY <2>1 DEF vars, jobVars, loopVars, partVars, endVars
    <3> QED BY <3>1, SameForJob DEF Out, ToCome
  <2>2. CASE Handler
    BY <2>2, AnswersForJob, LoopForJob, ReceiveForJob, CollectForJob DEF Handler
  <2>3. CASE Close
    <3>1. UNCHANGED <<units, i, sum, errors, pc, resp, failed, part, results>>
      BY <2>3 DEF Close, jobVars, loopVars, partVars
    <3> QED BY <3>1, SameForJob DEF Out, ToCome
  <2> QED BY <2>1, <2>2, <2>3, EnvironmentForJob, PartForJob DEF Next
<1> QED BY <1>1, <1>2, SpecIInv, SpecJob, SpecStart, PTL
        DEF Spec, ImplementsJob, Job!Spec

=============================================================================
