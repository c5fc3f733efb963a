-------------------------- MODULE DispatcherProofs --------------------------
(***************************************************************************)
(* Theorems about Dispatcher, for any number of workers, connections,      *)
(* crashes and any queue capacity.                                         *)
(***************************************************************************)
EXTENDS Dispatcher, SequenceTheorems, FiniteSetTheorems, TLAPS

\* What the program counter of a goroutine says of its locals.  A handler has
\* no worker only until it has selected one, and a goroutine that selects
\* while it redistributes has a task left to move.
PcInv ==
    \A p \in Proc :
       /\ pc[p] \in IF p = Health THEN CheckPC \cup MovePC \cup {"idle", "next"}
                    ELSE HandlerPC \cup CheckPC \cup MovePC
       /\ pc[p] \notin {"start", "scan", "commit", "done", "idle"}
             => at[p] \in Worker
       /\ pc[p] = "start" => at[p] = None
       /\ p = Health /\ pc[p] \in {"scan", "commit"} => at[p] \in Worker
       /\ pc[p] = "scan" => look[p] \in 0 .. N
       /\ pc[p] = "start" => look[p] = 0
       /\ pc[p] \in {"commit", "push"} => look[p] \in Worker
       /\ Holds(p) /\ pc[p] \in {"scan", "commit", "push"} => pend[p] # <<>>
       /\ pc[p] = "rlock" => todo[p] > 0

\* What has been written to a connection, by where its handler stands and by
\* whether its request has been sent to the worker (back = "502").
RespInv ==
    \A c \in Conns :
       /\ pc[c] \in {"start", "enqueue", "account", "send"} => back[c] = "503"
       /\ pc[c] \in {"sent", "sendfail", "reply", "ok", "clean", "cleaning"}
             => back[c] = "502"
       /\ at[c] = None => back[c] = "503"
       /\ pc[c] \in {"sent", "sendfail", "reply"} => resp[c] = <<>>
       /\ pc[c] = "ok" => resp[c] = <<"relay">>
       /\ pc[c] \in {"clean", "cleaning"} => resp[c] = <<"relay", "200">>
       /\ pc[c] \notin {"ok", "clean", "cleaning", "done"}
             => resp[c] = <<>> \/ (back[c] = "502" /\ resp[c] = <<"gone">>)

\* Outcomes and LockOwner are not inductive by themselves: they need to know
\* what each program counter implies.
IInv == TypeOK /\ PcInv /\ RespInv /\ Outcomes /\ LockOwner

LEMMA NoneIsNoWorker == None \notin Worker
  BY NameAssumption, CountAssumption DEF Worker

LEMMA CandidateIsWorker ==
    ASSUME TypeOK, NEW p \in Proc, look[p] \in 0 .. N, look[p] < N
    PROVE  Candidate(p) \in Worker
<1>1. last + look[p] + 1 \in Nat /\ N \in Nat \ {0}
  BY CountAssumption DEF TypeOK
<1>2. \A a \in Nat, n \in Nat \ {0} : a % n \in 0 .. (n - 1)
  OBVIOUS
<1> QED BY <1>1, <1>2 DEF Candidate, Worker

\* A second response, written after a first one.
LEMMA AppendSecond ==
    ASSUME NEW x, NEW y PROVE Append(<<x>>, y) = <<x, y>>
<1> DEFINE s == Append(<<x>>, y)
<1>1. <<x>> \in Seq({x, y}) /\ Len(<<x>>) = 1
  OBVIOUS
<1>2. s \in Seq({x, y}) /\ Len(s) = 2 /\ s[1] = x /\ s[2] = y
  BY <1>1
<1>3. /\ <<x, y>> \in Seq({x, y}) /\ Len(<<x, y>>) = 2
      /\ <<x, y>>[1] = x /\ <<x, y>>[2] = y
  OBVIOUS
<1>4. \A i \in 1 .. 2 : i = 1 \/ i = 2
  OBVIOUS
<1> HIDE DEF s
<1>5. s = <<x, y>>
  BY <1>2, <1>3, <1>4, SeqEqual
<1> QED BY <1>5 DEF s

LEMMA InitIInv == Init => IInv
<1> SUFFICES ASSUME Init PROVE IInv
  OBVIOUS
<1> USE NameAssumption, NoneIsNoWorker DEF Init
<1>1. TypeOK
  BY DEF TypeOK, Proc, PC, HandlerPC, Worker
<1>2. PcInv
  BY DEF PcInv, Proc, HandlerPC, Holds
<1>3. RespInv /\ Outcomes
  <2>1. \A c \in Conns : pc[c] = "start" /\ back[c] = "503" /\ resp[c] = <<>>
    BY DEF Proc
  <2> HIDE DEF Init
  <2>2. RespInv
    BY <2>1 DEF RespInv
  <2> QED BY <2>1, <2>2 DEF Outcomes, At
<1>4. LockOwner
  BY DEF LockOwner, Holds, Proc
<1> QED BY <1>1, <1>2, <1>3, <1>4 DEF IInv

\* The loop of redistributeTasks, at the top or after a task has been moved.
LEMMA MovingStep ==
    ASSUME IInv, NEW p \in Proc, NEW rest \in Seq(Conns),
           at[p] \in Worker, mu[at[p]] = p,
           pc[p] \in {"drain", "push", "scan"},
           Moving(p, rest),
           queue' \in [Worker -> Seq(Conns)],
           UNCHANGED <<envVars, status, active, loaded, last, failed,
                       at, todo, back, resp>>
    PROVE  IInv'
<1> USE NameAssumption, NoneIsNoWorker DEF IInv, Moving, Goto, Return, envVars
<1>1. CASE rest # <<>>
  <2>0. /\ pc' = [pc EXCEPT ![p] = "scan"] /\ mu' = mu /\ at' = at
        /\ look' = [look EXCEPT ![p] = 0] /\ pend' = [pend EXCEPT ![p] = rest]
        /\ UNCHANGED <<mode, crashes>>
    BY <1>1
  <2> HIDE DEF Moving
  <2>1. TypeOK'
    BY <2>0 DEF TypeOK, PC, MovePC
  <2>2. PcInv'
    BY <1>1, <2>0, CountAssumption, SMTT(30) DEF TypeOK, PcInv, Holds, MovePC
  <2>3. RespInv' /\ Outcomes'
    BY <2>0 DEF TypeOK, RespInv, Outcomes, At, Proc
  <2>4. LockOwner'
    BY <2>0 DEF TypeOK, LockOwner, Holds
  <2> QED BY <2>1, <2>2, <2>3, <2>4
<1>2. CASE rest = <<>>
  <2> DEFINE l == IF todo[p] > 0 THEN "rlock" ELSE Return(p)
  <2>0. /\ pc' = [pc EXCEPT ![p] = l] /\ mu' = [mu EXCEPT ![at[p]] = None]
        /\ look' = [look EXCEPT ![p] = 0] /\ pend' = [pend EXCEPT ![p] = rest]
        /\ UNCHANGED <<mode, crashes>> /\ at' = at
    BY <1>2
  <2>a. /\ l \in {"rlock", "next", "answer"} /\ (l = "rlock" => todo[p] > 0)
        /\ (p = Health => l # "answer") /\ (p # Health => l # "next")
    OBVIOUS
  <2> HIDE DEF Moving, l
  <2>1. TypeOK'
    BY <2>0, <2>a DEF TypeOK, PC, MovePC, HandlerPC
  <2>2. PcInv'
    BY <2>0, <2>a, SMTT(20), ZenonT(40) DEF TypeOK, PcInv, Holds, MovePC, HandlerPC
  <2>3. RespInv' /\ Outcomes'
    BY <2>0, <2>a DEF TypeOK, RespInv, Outcomes, At, Proc
  <2>4. LockOwner'
    <3>1. ~Holds(p)' /\ \A q \in Proc \ {p} : Holds(q)' <=> Holds(q)
      BY <2>0, <2>a DEF TypeOK, Holds
    <3>2. \A w \in Worker : mu'[w] = IF w = at[p] THEN None ELSE mu[w]
      BY <2>0 DEF TypeOK
    <3>3. \A q \in Proc : q # None
      BY DEF Proc
    <3> QED BY <2>0, <3>1, <3>2, <3>3 DEF LockOwner
  <2> QED BY <2>1, <2>2, <2>3, <2>4
<1> QED BY <1>1, <1>2

LEMMA ScanHitStep ==
    ASSUME IInv, NEW p \in Proc, ScanHit(p) PROVE IInv'
<1> USE NoneIsNoWorker, NameAssumption, CountAssumption
    DEF IInv, ScanHit, envVars, procVars, At, Goto, Free, Write, Return, Proc
<1>0. look[p] \in 0 .. N /\ Candidate(p) \in Worker /\ Candidate(p) \in Nat
  BY CandidateIsWorker DEF PcInv, Worker
<1>1. TypeOK'
  BY <1>0 DEF TypeOK, PC, HandlerPC, CheckPC, MovePC
<1>2. PcInv'
  BY <1>0, ZenonT(40) DEF TypeOK, PcInv, Holds, HandlerPC, CheckPC, MovePC
<1>3. RespInv' /\ Outcomes'
  BY <1>0 DEF TypeOK, PcInv, RespInv, Outcomes
<1>4. LockOwner'
  BY <1>0, SMTT(30) DEF TypeOK, PcInv, LockOwner, Holds
<1> QED BY <1>1, <1>2, <1>3, <1>4

LEMMA ScanMissStep ==
    ASSUME IInv, NEW p \in Proc, ScanMiss(p) PROVE IInv'
<1> USE NoneIsNoWorker, NameAssumption, CountAssumption
    DEF IInv, ScanMiss, envVars, procVars, At, Goto, Free, Write, Return, Proc
<1>0. look[p] \in 0 .. N /\ look[p] + 1 \in 0 .. N /\ look[p] + 1 \in Nat
  BY DEF PcInv
<1>1. TypeOK'
  BY <1>0 DEF TypeOK, PC, HandlerPC, CheckPC, MovePC
<1>2. PcInv'
  BY <1>0, ZenonT(40) DEF TypeOK, PcInv, Holds, HandlerPC, CheckPC, MovePC
<1>3. RespInv' /\ Outcomes'
  BY <1>0 DEF TypeOK, PcInv, RespInv, Outcomes
<1>4. LockOwner'
  BY <1>0, SMTT(30) DEF TypeOK, PcInv, LockOwner, Holds
<1> QED BY <1>1, <1>2, <1>3, <1>4

LEMMA CommitStep ==
    ASSUME IInv, NEW p \in Proc, Commit(p) PROVE IInv'
<1> USE NoneIsNoWorker, NameAssumption, CountAssumption
    DEF IInv, Commit, envVars, At, Goto, Proc
<1>0. look[p] \in Worker /\ look[p] \in Nat
  BY DEF PcInv, Worker
<1>1. CASE at[p] = None
  <2>0. p \in Conns /\ pc[p] = "commit" /\ at[p] = None /\ at' = [at EXCEPT ![p] = look[p]] /\ mu' = mu
        /\ ~Holds(p) /\ ~Holds(p)' /\ pc' = [pc EXCEPT ![p] = "dial"]
    BY <1>1 DEF PcInv, Holds, TypeOK
  <2>00. /\ look' = [look EXCEPT ![p] = 0] /\ last' = look[p]
         /\ UNCHANGED <<mode, crashes, status, queue, mu, active, loaded, failed,
                        pend, todo, back, resp>>
    BY <1>1
  <2> HIDE DEF Commit
  <2>1. TypeOK'
    BY <1>0, <2>0, <2>00 DEF TypeOK, PC, CheckPC
  <2>2. PcInv'
    BY <1>0, <2>0, <2>00 DEF TypeOK, PcInv, Holds, CheckPC
  <2>3. RespInv' /\ Outcomes'
    BY <1>0, <2>0, <2>00 DEF TypeOK, PcInv, RespInv, Outcomes
  <2>4. LockOwner'
    BY <1>0, <1>1, <2>0, <2>00 DEF TypeOK, LockOwner, Holds
  <2> QED BY <2>1, <2>2, <2>3, <2>4
<1>2. CASE at[p] # None
  <2>0. at' = at /\ mu' = mu /\ Holds(p) /\ Holds(p)'
    BY <1>2 DEF PcInv, Holds, TypeOK
  <2>00. /\ pc[p] = "commit" /\ pc' = [pc EXCEPT ![p] = "push"]
         /\ look' = look /\ last' = look[p]
         /\ UNCHANGED <<mode, crashes, status, queue, mu, active, loaded, failed,
                        pend, todo, back, resp>>
    BY <1>2
  <2> HIDE DEF Commit
  <2>1. TypeOK'
    BY <1>0, <2>0, <2>00 DEF TypeOK, PC, MovePC
  <2>2. PcInv'
    <3>1. ASSUME NEW q \in Proc, q # p
          PROVE  pc'[q] = pc[q]
      BY <2>00, <3>1 DEF TypeOK
    <3>2. pc'[p] = "push" /\ pend[p] # <<>> /\ at[p] \in Worker
      BY <1>2, <2>0, <2>00 DEF TypeOK, PcInv
    <3> QED
      BY <1>0, <2>0, <2>00, <3>1, <3>2 DEF PcInv, Holds, MovePC
  <2>3. RespInv' /\ Outcomes'
    BY <1>0, <1>2, <2>0, <2>00 DEF TypeOK, PcInv, RespInv, Outcomes
  <2>4. LockOwner'
    BY <1>0, <1>2, <2>0, <2>00, SMTT(30) DEF TypeOK, LockOwner, Holds
  <2> QED BY <2>1, <2>2, <2>3, <2>4
<1> QED BY <1>1, <1>2

LEMMA DropTaskStep ==
    ASSUME IInv, NEW p \in Proc, DropTask(p) PROVE IInv'
<1> USE NoneIsNoWorker DEF IInv, DropTask, At
<1>1. at[p] \in Worker /\ mu[at[p]] = p
  <2>1. at[p] \in Worker /\ Holds(p)
    BY DEF PcInv, Holds, TypeOK
  <2> QED BY <2>1 DEF LockOwner
<1>2. Tail(pend[p]) \in Seq(Conns)
  BY <1>1 DEF TypeOK, PcInv, Holds
<1>3. queue' \in [Worker -> Seq(Conns)]
  BY DEF TypeOK
<1> QED BY <1>1, <1>2, <1>3, MovingStep

LEMMA DialStep ==
    ASSUME IInv, NEW p \in Proc, Dial(p) PROVE IInv'
<1> USE NoneIsNoWorker, NameAssumption, CountAssumption
    DEF IInv, Dial, envVars, procVars, At, Goto, Free, Write, Return, Proc
<1>1. TypeOK'
  BY DEF TypeOK, PC, HandlerPC, CheckPC, MovePC
<1>2. PcInv'
  BY ZenonT(40) DEF TypeOK, PcInv, Holds, HandlerPC, CheckPC, MovePC
<1>3. RespInv' /\ Outcomes'
  BY DEF TypeOK, PcInv, RespInv, Outcomes
<1>4. LockOwner'
  BY SMTT(30) DEF TypeOK, PcInv, LockOwner, Holds
<1> QED BY <1>1, <1>2, <1>3, <1>4

LEMMA PongStep ==
    ASSUME IInv, NEW p \in Proc, Pong(p) PROVE IInv'
<1> USE NoneIsNoWorker, NameAssumption, CountAssumption
    DEF IInv, Pong, envVars, procVars, At, Goto, Free, Write, Return, Proc
<1>1. TypeOK'
  BY DEF TypeOK, PC, HandlerPC, CheckPC, MovePC
<1>2. PcInv'
  BY ZenonT(40) DEF TypeOK, PcInv, Holds, HandlerPC, CheckPC, MovePC
<1>3. RespInv' /\ Outcomes'
  BY DEF TypeOK, PcInv, RespInv, Outcomes
<1>4. LockOwner'
  BY SMTT(30) DEF TypeOK, PcInv, LockOwner, Holds
<1> QED BY <1>1, <1>2, <1>3, <1>4

LEMMA MarkUpStep ==
    ASSUME IInv, NEW p \in Proc, MarkUp(p) PROVE IInv'
<1> USE NoneIsNoWorker, NameAssumption, CountAssumption
    DEF IInv, MarkUp, envVars, procVars, At, Goto, Free, Write, Return, Proc
<1>0. at[p] \in Worker
  BY DEF PcInv
<1>1. TypeOK'
  BY <1>0 DEF TypeOK, PC, HandlerPC, CheckPC, MovePC
<1>2. PcInv'
  BY <1>0, ZenonT(40) DEF TypeOK, PcInv, Holds, HandlerPC, CheckPC, MovePC
<1>3. RespInv' /\ Outcomes'
  BY <1>0 DEF TypeOK, PcInv, RespInv, Outcomes
<1>4. LockOwner'
  BY <1>0, SMTT(30) DEF TypeOK, PcInv, LockOwner, Holds
<1> QED BY <1>1, <1>2, <1>3, <1>4

LEMMA MarkDownStep ==
    ASSUME IInv, NEW p \in Proc, MarkDown(p) PROVE IInv'
<1> USE NoneIsNoWorker, NameAssumption, CountAssumption
    DEF IInv, MarkDown, envVars, procVars, At, Goto, Free, Write, Return, Proc
<1>0. at[p] \in Worker
  BY DEF PcInv
<1>1. TypeOK'
  BY <1>0 DEF TypeOK, PC, HandlerPC, CheckPC, MovePC
<1>2. PcInv'
  BY <1>0, ZenonT(40) DEF TypeOK, PcInv, Holds, HandlerPC, CheckPC, MovePC
<1>3. RespInv' /\ Outcomes'
  BY <1>0 DEF TypeOK, PcInv, RespInv, Outcomes
<1>4. LockOwner'
  BY <1>0, SMTT(30) DEF TypeOK, PcInv, LockOwner, Holds
<1> QED BY <1>1, <1>2, <1>3, <1>4

LEMMA LockStep ==
    ASSUME IInv, NEW p \in Proc, Lock(p) PROVE IInv'
<1> USE NoneIsNoWorker, NameAssumption, CountAssumption
    DEF IInv, Lock, envVars, procVars, At, Goto, Free, Write, Return, Proc
<1>0. at[p] \in Worker
  BY DEF PcInv
<1>01. todo[p] - 1 \in 0 .. 2
  BY DEF PcInv, TypeOK
<1>1. TypeOK'
  BY <1>0, <1>01 DEF TypeOK, PC, HandlerPC, CheckPC, MovePC
<1>2. PcInv'
  BY <1>0, <1>01, ZenonT(40) DEF TypeOK, PcInv, Holds, HandlerPC, CheckPC, MovePC
<1>3. RespInv' /\ Outcomes'
  BY <1>0, <1>01 DEF TypeOK, PcInv, RespInv, Outcomes
<1>4. LockOwner'
  BY <1>0, <1>01, SMTT(30) DEF TypeOK, PcInv, LockOwner, Holds
<1> QED BY <1>1, <1>2, <1>3, <1>4

LEMMA DrainOneStep ==
    ASSUME IInv, NEW p \in Proc, DrainOne(p) PROVE IInv'
<1> USE NoneIsNoWorker, NameAssumption, CountAssumption
    DEF IInv, DrainOne, envVars, procVars, At, Goto, Free, Write, Return, Proc
<1>0. at[p] \in Worker
  BY DEF PcInv
<1>01. Head(queue[at[p]]) \in Conns /\ Tail(queue[at[p]]) \in Seq(Conns)
  BY <1>0 DEF TypeOK
<1>02. Append(pend[p], Head(queue[at[p]])) \in Seq(Conns)
  BY <1>01 DEF TypeOK
<1>1. TypeOK'
  BY <1>0, <1>01, <1>02 DEF TypeOK, PC, HandlerPC, CheckPC, MovePC
<1>2. PcInv'
  BY <1>0, <1>01, <1>02, ZenonT(40) DEF TypeOK, PcInv, Holds, HandlerPC, CheckPC, MovePC
<1>3. RespInv' /\ Outcomes'
  BY <1>0, <1>01, <1>02 DEF TypeOK, PcInv, RespInv, Outcomes
<1>4. LockOwner'
  BY SMTT(30) DEF LockOwner, Holds
<1> QED BY <1>1, <1>2, <1>3, <1>4

LEMMA DrainedStep ==
    ASSUME IInv, NEW p \in Proc, Drained(p) PROVE IInv'
<1> USE NoneIsNoWorker DEF IInv, Drained, At
<1>1. at[p] \in Worker /\ mu[at[p]] = p
  <2>1. at[p] \in Worker /\ Holds(p)
    BY DEF PcInv, Holds, TypeOK
  <2> QED BY <2>1 DEF LockOwner
<1>2. pend[p] \in Seq(Conns)
  BY <1>1 DEF TypeOK, PcInv, Holds
<1>3. queue' \in [Worker -> Seq(Conns)]
  BY DEF TypeOK
<1> QED BY <1>1, <1>2, <1>3, MovingStep

LEMMA PushStep ==
    ASSUME IInv, NEW p \in Proc, Push(p) PROVE IInv'
<1> USE NoneIsNoWorker DEF IInv, Push, At
<1>1. at[p] \in Worker /\ mu[at[p]] = p
  <2>1. at[p] \in Worker /\ Holds(p)
    BY DEF PcInv, Holds, TypeOK
  <2> QED BY <2>1 DEF LockOwner
<1>2. Tail(pend[p]) \in Seq(Conns)
  BY <1>1 DEF TypeOK, PcInv, Holds
<1>3. queue' \in [Worker -> Seq(Conns)]
  <2>1. look[p] \in Worker /\ pend[p] # <<>> /\ Head(pend[p]) \in Conns
    BY DEF PcInv, Holds, TypeOK
  <2> QED BY <2>1 DEF TypeOK
<1> QED BY <1>1, <1>2, <1>3, MovingStep

LEMMA TickStep ==
    ASSUME IInv, Tick PROVE IInv'
<1> USE NoneIsNoWorker, NameAssumption, CountAssumption
    DEF IInv, Tick, envVars, At, Goto, Proc
<1>0. N > 0 => 0 \in Worker
  BY DEF Worker
<1>1. TypeOK'
  BY <1>0 DEF TypeOK, PC, CheckPC
<1>2. PcInv'
  BY <1>0, SMTT(30) DEF TypeOK, PcInv, Holds, CheckPC
<1>3. RespInv' /\ Outcomes'
  BY SMTT(20), ZenonT(40) DEF TypeOK, RespInv, Outcomes
<1>4. LockOwner'
  <2>1. ~Holds(Health) /\ ~Holds(Health)'
    BY DEF Holds, TypeOK
  <2>2. \A q \in Conns : at'[q] = at[q] /\ (Holds(q)' <=> Holds(q))
    BY DEF Holds, TypeOK
  <2> QED BY <2>1, <2>2 DEF LockOwner
<1> QED BY <1>1, <1>2, <1>3, <1>4

LEMMA NextWorkerStep ==
    ASSUME IInv, NextWorker PROVE IInv'
<1> USE NoneIsNoWorker, NameAssumption, CountAssumption
    DEF IInv, NextWorker, envVars, At, Goto, Proc
<1>0. at[Health] + 1 < N => at[Health] + 1 \in Worker
  BY DEF Worker, PcInv
<1>1. TypeOK'
  BY <1>0 DEF TypeOK, PC, CheckPC
<1>2. PcInv'
  BY <1>0, SMTT(30) DEF TypeOK, PcInv, Holds, CheckPC
<1>3. RespInv' /\ Outcomes'
  BY DEF TypeOK, RespInv, Outcomes
<1>4. LockOwner'
  <2>1. ~Holds(Health) /\ ~Holds(Health)'
    BY DEF Holds, TypeOK
  <2>2. \A q \in Conns : at'[q] = at[q] /\ (Holds(q)' <=> Holds(q))
    BY DEF Holds, TypeOK
  <2> QED BY <2>1, <2>2 DEF LockOwner
<1> QED BY <1>1, <1>2, <1>3, <1>4

LEMMA RejectStep ==
    ASSUME IInv, NEW c \in Conns, Reject(c) PROVE IInv'
<1> USE NoneIsNoWorker, NameAssumption, CountAssumption
    DEF IInv, Reject, envVars, procVars, At, Goto, Free, Write, Return, Proc
<1>0. resp[c] = <<>> /\ Append(resp[c], "4xx") = <<"4xx">> /\ Append(resp[c], "4xx") \in Seq(Response)
  <2>1. resp[c] = <<>>
    BY DEF RespInv
  <2> QED BY <2>1 DEF Response
<1>1. TypeOK'
  BY <1>0 DEF TypeOK, PC, HandlerPC, CheckPC, MovePC
<1>2. PcInv'
  BY <1>0, ZenonT(40) DEF TypeOK, PcInv, Holds, HandlerPC, CheckPC, MovePC
<1>3. RespInv' /\ Outcomes'
  BY <1>0 DEF TypeOK, PcInv, RespInv, Outcomes
<1>4. LockOwner'
  BY <1>0, SMTT(30) DEF TypeOK, PcInv, LockOwner, Holds
<1> QED BY <1>1, <1>2, <1>3, <1>4

LEMMA BeginStep ==
    ASSUME IInv, NEW c \in Conns, Begin(c) PROVE IInv'
<1> USE NoneIsNoWorker, NameAssumption, CountAssumption
    DEF IInv, Begin, envVars, procVars, At, Goto, Free, Write, Return, Proc
<1>1. TypeOK'
  BY DEF TypeOK, PC, HandlerPC, CheckPC, MovePC
<1>2. PcInv'
  BY SMTT(30) DEF TypeOK, PcInv, Holds, HandlerPC, CheckPC, MovePC
<1>3. RespInv' /\ Outcomes'
  BY DEF TypeOK, PcInv, RespInv, Outcomes
<1>4. LockOwner'
  BY SMTT(30) DEF TypeOK, PcInv, LockOwner, Holds
<1> QED BY <1>1, <1>2, <1>3, <1>4

LEMMA NoWorkerStep ==
    ASSUME IInv, NEW c \in Conns, NoWorker(c) PROVE IInv'
<1> USE NoneIsNoWorker, NameAssumption, CountAssumption
    DEF IInv, NoWorker, envVars, procVars, At, Goto, Free, Write, Return, Proc
<1>0. resp[c] = <<>> /\ Append(resp[c], "503") = <<"503">> /\ Append(resp[c], "503") \in Seq(Response)
  <2>1. resp[c] = <<>>
    BY DEF RespInv
  <2> QED BY <2>1 DEF Response
<1>1. TypeOK'
  BY <1>0 DEF TypeOK, PC, HandlerPC, CheckPC, MovePC
<1>2. PcInv'
  BY <1>0, ZenonT(40) DEF TypeOK, PcInv, Holds, HandlerPC, CheckPC, MovePC
<1>3. RespInv' /\ Outcomes'
  BY <1>0 DEF TypeOK, PcInv, RespInv, Outcomes
<1>4. LockOwner'
  BY <1>0, SMTT(30) DEF TypeOK, PcInv, LockOwner, Holds
<1> QED BY <1>1, <1>2, <1>3, <1>4

LEMMA EnqueueStep ==
    ASSUME IInv, NEW c \in Conns, Enqueue(c) PROVE IInv'
<1> USE NoneIsNoWorker, NameAssumption, CountAssumption
    DEF IInv, Enqueue, envVars, procVars, At, Goto, Free, Write, Return, Proc
<1>0. at[c] \in Worker
  BY DEF PcInv
<1>01. Append(queue[at[c]], c) \in Seq(Conns)
  BY <1>0 DEF TypeOK
<1>1. TypeOK'
  BY <1>0, <1>01 DEF TypeOK, PC, HandlerPC, CheckPC, MovePC
<1>2. PcInv'
  BY <1>0, <1>01, ZenonT(40) DEF TypeOK, PcInv, Holds, HandlerPC, CheckPC, MovePC
<1>3. RespInv' /\ Outcomes'
  BY <1>0, <1>01 DEF TypeOK, PcInv, RespInv, Outcomes
<1>4. LockOwner'
  BY <1>0, <1>01, SMTT(30) DEF TypeOK, PcInv, LockOwner, Holds
<1> QED BY <1>1, <1>2, <1>3, <1>4

LEMMA AccountStep ==
    ASSUME IInv, NEW c \in Conns, Account(c) PROVE IInv'
<1> USE NoneIsNoWorker, NameAssumption, CountAssumption
    DEF IInv, Account, envVars, procVars, At, Goto, Free, Write, Return, Proc
<1>0. at[c] \in Worker
  BY DEF PcInv
<1>01. active[at[c]] + 1 \in Int /\ loaded[at[c]] + 1 \in Nat
  BY <1>0 DEF TypeOK
<1>1. TypeOK'
  BY <1>0, <1>01 DEF TypeOK, PC, HandlerPC, CheckPC, MovePC
<1>2. PcInv'
  BY <1>0, <1>01, ZenonT(40) DEF TypeOK, PcInv, Holds, HandlerPC, CheckPC, MovePC
<1>3. RespInv' /\ Outcomes'
  BY <1>0, <1>01 DEF TypeOK, PcInv, RespInv, Outcomes
<1>4. LockOwner'
  BY <1>0, <1>01, SMTT(30) DEF TypeOK, PcInv, LockOwner, Holds
<1> QED BY <1>1, <1>2, <1>3, <1>4

LEMMA NoRequestStep ==
    ASSUME IInv, NEW c \in Conns, NoRequest(c) PROVE IInv'
<1> USE NoneIsNoWorker, NameAssumption, CountAssumption
    DEF IInv, NoRequest, envVars, procVars, At, Goto, Free, Write, Return, Proc
<1>1. TypeOK'
  BY DEF TypeOK, PC, HandlerPC, CheckPC, MovePC
<1>2. PcInv'
  BY ZenonT(40) DEF TypeOK, PcInv, Holds, HandlerPC, CheckPC, MovePC
<1>3. RespInv' /\ Outcomes'
  BY ZenonT(40) DEF TypeOK, PcInv, RespInv, Outcomes
<1>4. LockOwner'
  BY SMTT(30) DEF TypeOK, PcInv, LockOwner, Holds
<1> QED BY <1>1, <1>2, <1>3, <1>4

LEMMA SendStep ==
    ASSUME IInv, NEW c \in Conns, Send(c) PROVE IInv'
<1> USE NoneIsNoWorker, NameAssumption, CountAssumption
    DEF IInv, Send, envVars, procVars, At, Goto, Free, Write, Return, Proc
<1>1. TypeOK'
  BY DEF TypeOK, PC, HandlerPC, CheckPC, MovePC
<1>2. PcInv'
  BY ZenonT(40) DEF TypeOK, PcInv, Holds, HandlerPC, CheckPC, MovePC
<1>3. RespInv' /\ Outcomes'
  BY DEF TypeOK, PcInv, RespInv, Outcomes
<1>4. LockOwner'
  BY SMTT(30) DEF TypeOK, PcInv, LockOwner, Holds
<1> QED BY <1>1, <1>2, <1>3, <1>4

LEMMA ReplyStep ==
    ASSUME IInv, NEW c \in Conns, Reply(c) PROVE IInv'
<1> USE NoneIsNoWorker, NameAssumption, CountAssumption
    DEF IInv, Reply, envVars, procVars, At, Goto, Free, Write, Return, Proc
<1>1. TypeOK'
  BY DEF TypeOK, PC, HandlerPC, CheckPC, MovePC
<1>2. PcInv'
  BY ZenonT(40) DEF TypeOK, PcInv, Holds, HandlerPC, CheckPC, MovePC
<1>3. RespInv' /\ Outcomes'
  BY DEF TypeOK, PcInv, RespInv, Outcomes
<1>4. LockOwner'
  BY SMTT(30) DEF TypeOK, PcInv, LockOwner, Holds
<1> QED BY <1>1, <1>2, <1>3, <1>4

LEMMA TimeoutStep ==
    ASSUME IInv, NEW c \in Conns, Timeout(c) PROVE IInv'
<1> USE NoneIsNoWorker, NameAssumption, CountAssumption
    DEF IInv, Timeout, envVars, procVars, At, Goto, Free, Write, Return, Proc
<1>1. TypeOK'
  BY DEF TypeOK, PC, HandlerPC, CheckPC, MovePC
<1>2. PcInv'
  BY ZenonT(40) DEF TypeOK, PcInv, Holds, HandlerPC, CheckPC, MovePC
<1>3. RespInv' /\ Outcomes'
  BY DEF TypeOK, PcInv, RespInv, Outcomes
<1>4. LockOwner'
  BY SMTT(30) DEF TypeOK, PcInv, LockOwner, Holds
<1> QED BY <1>1, <1>2, <1>3, <1>4

LEMMA SendFailStep ==
    ASSUME IInv, NEW c \in Conns, SendFail(c) PROVE IInv'
<1> USE NoneIsNoWorker, NameAssumption, CountAssumption
    DEF IInv, SendFail, envVars, procVars, At, Goto, Free, Write, Return, Proc
<1>0. at[c] \in Worker
  BY DEF PcInv
<1>01. active[at[c]] - 1 \in Int
  BY <1>0 DEF TypeOK
<1>1. TypeOK'
  BY <1>0, <1>01 DEF TypeOK, PC, HandlerPC, CheckPC, MovePC
<1>2. PcInv'
  BY <1>0, <1>01, ZenonT(40) DEF TypeOK, PcInv, Holds, HandlerPC, CheckPC, MovePC
<1>3. RespInv' /\ Outcomes'
  BY <1>0, <1>01 DEF TypeOK, PcInv, RespInv, Outcomes
<1>4. LockOwner'
  BY <1>0, <1>01, SMTT(30) DEF TypeOK, PcInv, LockOwner, Holds
<1> QED BY <1>1, <1>2, <1>3, <1>4

LEMMA BodyErrorStep ==
    ASSUME IInv, NEW c \in Conns, BodyError(c) PROVE IInv'
<1> USE NoneIsNoWorker, NameAssumption, CountAssumption
    DEF IInv, BodyError, envVars, procVars, At, Goto, Free, Write, Return, Proc
<1>1. TypeOK'
  BY DEF TypeOK, PC, HandlerPC, CheckPC, MovePC
<1>2. PcInv'
  BY ZenonT(40) DEF TypeOK, PcInv, Holds, HandlerPC, CheckPC, MovePC
<1>3. RespInv' /\ Outcomes'
  BY DEF TypeOK, PcInv, RespInv, Outcomes
<1>4. LockOwner'
  BY SMTT(30) DEF TypeOK, PcInv, LockOwner, Holds
<1> QED BY <1>1, <1>2, <1>3, <1>4

LEMMA RelayStep ==
    ASSUME IInv, NEW c \in Conns, Relay(c) PROVE IInv'
<1> USE NoneIsNoWorker, NameAssumption, CountAssumption
    DEF IInv, Relay, envVars, procVars, At, Goto, Free, Write, Return, Proc
<1>0. resp[c] = <<>> /\ Append(resp[c], "relay") = <<"relay">> /\ Append(resp[c], "relay") \in Seq(Response)
  <2>1. resp[c] = <<>>
    BY DEF RespInv
  <2> QED BY <2>1 DEF Response
<1>1. TypeOK'
  BY <1>0 DEF TypeOK, PC, HandlerPC, CheckPC, MovePC
<1>2. PcInv'
  BY <1>0, ZenonT(40) DEF TypeOK, PcInv, Holds, HandlerPC, CheckPC, MovePC
<1>3. RespInv' /\ Outcomes'
  BY <1>0 DEF TypeOK, PcInv, RespInv, Outcomes
<1>4. LockOwner'
  BY <1>0, SMTT(30) DEF TypeOK, PcInv, LockOwner, Holds
<1> QED BY <1>1, <1>2, <1>3, <1>4

LEMMA RelayFailStep ==
    ASSUME IInv, NEW c \in Conns, RelayFail(c) PROVE IInv'
<1> USE NoneIsNoWorker, NameAssumption, CountAssumption
    DEF IInv, RelayFail, envVars, procVars, At, Goto, Free, Write, Return, Proc
<1>0. resp[c] = <<>> /\ Append(resp[c], "gone") = <<"gone">> /\ Append(resp[c], "gone") \in Seq(Response)
  <2>1. resp[c] = <<>>
    BY DEF RespInv
  <2> QED BY <2>1 DEF Response
<1>1. TypeOK'
  BY <1>0 DEF TypeOK, PC, HandlerPC, CheckPC, MovePC
<1>2. PcInv'
  BY <1>0, ZenonT(40) DEF TypeOK, PcInv, Holds, HandlerPC, CheckPC, MovePC
<1>3. RespInv' /\ Outcomes'
  BY <1>0 DEF TypeOK, PcInv, RespInv, Outcomes
<1>4. LockOwner'
  BY <1>0, SMTT(30) DEF TypeOK, PcInv, LockOwner, Holds
<1> QED BY <1>1, <1>2, <1>3, <1>4

LEMMA FinishStep ==
    ASSUME IInv, NEW c \in Conns, Finish(c) PROVE IInv'
<1> USE NoneIsNoWorker, NameAssumption, CountAssumption
    DEF IInv, Finish, envVars, procVars, At, Goto, Free, Write, Return, Proc
<1>0. at[c] \in Worker
  BY DEF PcInv
<1>01. active[at[c]] - 1 \in Int
  BY <1>0 DEF TypeOK
<1>02. Append(resp[c], "200") \in Seq(Response) /\ Append(<<"relay">>, "200") = <<"relay", "200">>
  <2>1. resp[c] = <<"relay">>
    BY DEF RespInv
  <2>2. Append(resp[c], "200") = <<"relay", "200">>
    BY <2>1, AppendSecond
  <2>3. <<"relay", "200">> \in Seq(Response)
    BY DEF Response
  <2> QED BY <2>1, <2>2, <2>3, AppendSecond
<1>1. TypeOK'
  BY <1>0, <1>01, <1>02 DEF TypeOK, PC, HandlerPC, CheckPC, MovePC
<1>2. PcInv'
  BY <1>0, <1>01, <1>02, ZenonT(40) DEF TypeOK, PcInv, Holds, HandlerPC, CheckPC, MovePC
<1>3. RespInv' /\ Outcomes'
  BY <1>0, <1>01, <1>02, SMTT(20), ZenonT(40) DEF TypeOK, PcInv, RespInv, Outcomes
<1>4. LockOwner'
  BY <1>0, <1>01, <1>02, SMTT(30) DEF TypeOK, PcInv, LockOwner, Holds
<1> QED BY <1>1, <1>2, <1>3, <1>4

LEMMA CleanLockStep ==
    ASSUME IInv, NEW c \in Conns, CleanLock(c) PROVE IInv'
<1> USE NoneIsNoWorker, NameAssumption, CountAssumption
    DEF IInv, CleanLock, envVars, procVars, At, Goto, Free, Write, Return, Proc
<1>0. at[c] \in Worker
  BY DEF PcInv
<1>1. TypeOK'
  BY <1>0 DEF TypeOK, PC, HandlerPC, CheckPC, MovePC
<1>2. PcInv'
  BY <1>0, ZenonT(40) DEF TypeOK, PcInv, Holds, HandlerPC, CheckPC, MovePC
<1>3. RespInv' /\ Outcomes'
  BY <1>0 DEF TypeOK, PcInv, RespInv, Outcomes
<1>4. LockOwner'
  BY <1>0, SMTT(30) DEF TypeOK, PcInv, LockOwner, Holds
<1> QED BY <1>1, <1>2, <1>3, <1>4

LEMMA CleanOneStep ==
    ASSUME IInv, NEW c \in Conns, CleanOne(c) PROVE IInv'
<1> USE NoneIsNoWorker, NameAssumption, CountAssumption
    DEF IInv, CleanOne, envVars, procVars, At, Goto, Free, Write, Return, Proc
<1>0. at[c] \in Worker
  BY DEF PcInv
<1>01. Tail(queue[at[c]]) \in Seq(Conns)
  BY <1>0 DEF TypeOK
<1>1. TypeOK'
  BY <1>0, <1>01 DEF TypeOK, PC, HandlerPC, CheckPC, MovePC
<1>2. PcInv'
  BY <1>0, <1>01, ZenonT(40) DEF TypeOK, PcInv, Holds, HandlerPC, CheckPC, MovePC
<1>3. RespInv' /\ Outcomes'
  BY <1>0, <1>01 DEF TypeOK, PcInv, RespInv, Outcomes
<1>4. LockOwner'
  BY SMTT(30) DEF LockOwner, Holds
<1> QED BY <1>1, <1>2, <1>3, <1>4

LEMMA CleanedStep ==
    ASSUME IInv, NEW c \in Conns, Cleaned(c) PROVE IInv'
<1> USE NoneIsNoWorker, NameAssumption, CountAssumption
    DEF IInv, Cleaned, envVars, procVars, At, Goto, Free, Write, Return, Proc
<1>0. at[c] \in Worker
  BY DEF PcInv
<1>01. mu[at[c]] = c
  BY <1>0 DEF LockOwner, Holds
<1>1. TypeOK'
  BY <1>0, <1>01 DEF TypeOK, PC, HandlerPC, CheckPC, MovePC
<1>2. PcInv'
  BY <1>0, <1>01, ZenonT(40) DEF TypeOK, PcInv, Holds, HandlerPC, CheckPC, MovePC
<1>3. RespInv' /\ Outcomes'
  BY <1>0, <1>01 DEF TypeOK, PcInv, RespInv, Outcomes
<1>4. LockOwner'
  BY <1>0, <1>01, SMTT(30) DEF TypeOK, PcInv, LockOwner, Holds
<1> QED BY <1>1, <1>2, <1>3, <1>4

LEMMA AnswerStep ==
    ASSUME IInv, NEW c \in Conns, Answer(c) PROVE IInv'
<1> USE NoneIsNoWorker, NameAssumption, CountAssumption
    DEF IInv, Answer, envVars, procVars, At, Goto, Free, Write, Return, Proc
<1>0. back[c] \in {"502", "503"} /\ Append(resp[c], back[c]) \in Seq(Response)
  BY DEF TypeOK, Response
<1>01. resp[c] = <<>> \/ (back[c] = "502" /\ resp[c] = <<"gone">>)
  BY DEF RespInv
<1>02. Append(resp[c], back[c]) \in {<<"503">>, <<"502">>, <<"gone", "502">>}
  <2>1. CASE resp[c] = <<>>
    BY <2>1, <1>0
  <2>2. CASE back[c] = "502" /\ resp[c] = <<"gone">>
    BY <2>2, AppendSecond
  <2> QED BY <1>01, <2>1, <2>2
<1>1. TypeOK'
  BY <1>0, <1>02 DEF TypeOK, PC, HandlerPC, CheckPC, MovePC
<1>2. PcInv'
  BY <1>0, <1>02, ZenonT(40) DEF TypeOK, PcInv, Holds, HandlerPC, CheckPC, MovePC
<1>3. RespInv' /\ Outcomes'
  BY <1>0, <1>02 DEF TypeOK, PcInv, RespInv, Outcomes
<1>4. LockOwner'
  BY <1>0, <1>02, SMTT(30) DEF TypeOK, PcInv, LockOwner, Holds
<1> QED BY <1>1, <1>2, <1>3, <1>4

LEMMA CrashStep ==
    ASSUME IInv, NEW w \in Worker, Crash(w) PROVE IInv'
<1> USE NoneIsNoWorker, NameAssumption, CountAssumption
    DEF IInv, Crash, envVars, procVars, At, Goto, Free, Write, Return, Proc
<1>1. TypeOK'
  BY DEF TypeOK, PC, HandlerPC, CheckPC, MovePC
<1>2. PcInv'
  BY ZenonT(40) DEF TypeOK, PcInv, Holds, HandlerPC, CheckPC, MovePC
<1>3. RespInv' /\ Outcomes'
  BY DEF TypeOK, PcInv, RespInv, Outcomes
<1>4. LockOwner'
  BY SMTT(30) DEF TypeOK, PcInv, LockOwner, Holds
<1> QED BY <1>1, <1>2, <1>3, <1>4

LEMMA RestartStep ==
    ASSUME IInv, NEW w \in Worker, Restart(w) PROVE IInv'
<1> USE NoneIsNoWorker, NameAssumption, CountAssumption
    DEF IInv, Restart, envVars, procVars, At, Goto, Free, Write, Return, Proc
<1>1. TypeOK'
  BY DEF TypeOK, PC, HandlerPC, CheckPC, MovePC
<1>2. PcInv'
  BY ZenonT(40) DEF TypeOK, PcInv, Holds, HandlerPC, CheckPC, MovePC
<1>3. RespInv' /\ Outcomes'
  BY DEF TypeOK, PcInv, RespInv, Outcomes
<1>4. LockOwner'
  BY SMTT(30) DEF TypeOK, PcInv, LockOwner, Holds
<1> QED BY <1>1, <1>2, <1>3, <1>4

LEMMA HangStep ==
    ASSUME IInv, NEW w \in Worker, Hang(w) PROVE IInv'
<1> USE NoneIsNoWorker, NameAssumption, CountAssumption
    DEF IInv, Hang, envVars, procVars, At, Goto, Free, Write, Return, Proc
<1>1. TypeOK'
  BY DEF TypeOK, PC, HandlerPC, CheckPC, MovePC
<1>2. PcInv'
  BY ZenonT(40) DEF TypeOK, PcInv, Holds, HandlerPC, CheckPC, MovePC
<1>3. RespInv' /\ Outcomes'
  BY DEF TypeOK, PcInv, RespInv, Outcomes
<1>4. LockOwner'
  BY SMTT(30) DEF TypeOK, PcInv, LockOwner, Holds
<1> QED BY <1>1, <1>2, <1>3, <1>4

\* Every step of a handler, of the health check and of a worker server keeps
\* the inductive invariant.
LEMMA NextIInv == IInv /\ [Next]_vars => IInv'
<1> SUFFICES ASSUME IInv, [Next]_vars PROVE IInv'
  OBVIOUS
<1>1. CASE Fault
  BY <1>1, CrashStep, RestartStep, HangStep DEF Fault
<1>2. ASSUME NEW p \in Proc, Select(p) \/ Check(p) \/ Redistribute(p)
      PROVE  IInv'
  BY <1>2, ScanHitStep, ScanMissStep, CommitStep, DropTaskStep, DialStep,
     PongStep, MarkUpStep, MarkDownStep, LockStep, DrainOneStep, DrainedStep,
     PushStep
     DEF Select, Check, Redistribute
<1>3. ASSUME NEW c \in Conns, Reject(c) \/ Handle(c)
      PROVE  IInv'
  <2>1. CASE Call(c)
    BY <2>1, EnqueueStep, AccountStep, SendStep, ReplyStep, TimeoutStep,
       SendFailStep, NoRequestStep, BodyErrorStep, RelayStep, RelayFailStep, FinishStep,
       CleanLockStep, CleanOneStep, CleanedStep
       DEF Call
  <2>2. CASE Select(c) \/ Check(c) \/ Redistribute(c)
    BY <2>2, <1>2 DEF Proc
  <2> QED BY <1>3, <2>1, <2>2, RejectStep, BeginStep, NoWorkerStep, AnswerStep
          DEF Handle
<1>4. CASE Monitor
  BY <1>4, <1>2, TickStep, NextWorkerStep DEF Monitor, Proc
<1>5. CASE UNCHANGED vars
  BY <1>5 DEF vars, IInv, TypeOK, PcInv, RespInv, Outcomes, LockOwner, Holds, At
<1> QED BY <1>1, <1>3, <1>4, <1>5 DEF Next

\* The inductive invariant holds.
THEOREM Invariance == Spec => []IInv
  BY InitIInv, NextIInv, PTL DEF Spec

\* Every variable keeps its type.
THEOREM TypeCorrect == Spec => []TypeOK
  BY Invariance, PTL DEF IInv

\* A worker's mutex is held by the one goroutine that drains or empties its
\* queue, for as long as it does.
THEOREM MutexIsOwned == Spec => []LockOwner
  BY Invariance, PTL DEF IInv

\* When its handler returns, a client has been sent exactly one error, or the
\* worker's response and the 200 that follows it: whatever fails, no handler
\* returns without an answer and none sends an error after a response.
THEOREM EveryReturnAnswers == Spec => []Outcomes
  BY Invariance, PTL DEF IInv

-----------------------------------------------------------------------------
(* activeTasks and the requests in flight                                   *)

FlightPC == {"send", "sent", "sendfail", "reply", "ok"}

FlightInv == \A w \in Worker : /\ IsFiniteSet(InFlight(w))
                               /\ active[w] >= Cardinality(InFlight(w))

\* A step that starts no request of w and does not lower its counter.
LEMMA FewerInFlight ==
    ASSUME NEW w \in Worker, TypeOK, TypeOK', IsFiniteSet(InFlight(w)),
           active[w] >= Cardinality(InFlight(w)),
           InFlight(w)' \subseteq InFlight(w), active'[w] = active[w]
    PROVE  IsFiniteSet(InFlight(w)') /\ active'[w] >= Cardinality(InFlight(w)')
<1>1. /\ IsFiniteSet(InFlight(w)')
      /\ Cardinality(InFlight(w)') <= Cardinality(InFlight(w))
  BY FS_Subset
<1>2. Cardinality(InFlight(w)) \in Nat /\ Cardinality(InFlight(w)') \in Nat
  BY <1>1, FS_CardinalityType
<1> QED
  BY <1>1, <1>2 DEF TypeOK

\* Every step but the two decrements and Account.
LEMMA SteadyStep ==
    ASSUME TypeOK, TypeOK', FlightInv, active' = active,
           \A c \in Conns : pc'[c] \in FlightPC => pc[c] \in FlightPC /\ at'[c] = at[c]
    PROVE  FlightInv'
<1> SUFFICES ASSUME NEW w \in Worker
             PROVE  IsFiniteSet(InFlight(w)') /\ active'[w] >= Cardinality(InFlight(w)')
  BY DEF FlightInv
<1>1. InFlight(w)' \subseteq InFlight(w)
  BY DEF InFlight, FlightPC
<1> QED
  BY <1>1, FewerInFlight DEF FlightInv

LEMMA AccountFlight ==
    ASSUME IInv, IInv', FlightInv, NEW c \in Conns, Account(c) PROVE FlightInv'
<1> SUFFICES ASSUME NEW w \in Worker
             PROVE  IsFiniteSet(InFlight(w)') /\ active'[w] >= Cardinality(InFlight(w)')
  BY DEF FlightInv
<1>0. TypeOK /\ TypeOK' /\ at[c] \in Worker /\ pc[c] = "account"
  BY DEF IInv, PcInv, Account, At, Proc
<1>a. /\ at' = at /\ pc'[c] = "send" /\ active' = [active EXCEPT ![at[c]] = @ + 1]
      /\ \A d \in Conns \ {c} : pc'[d] = pc[d]
  BY <1>0 DEF Account, Goto, procVars, TypeOK, Proc
<1>1. CASE w # at[c]
  <2>1. InFlight(w)' \subseteq InFlight(w) /\ active'[w] = active[w]
    BY <1>0, <1>1, <1>a DEF InFlight, TypeOK
  <2> QED
    BY <1>0, <2>1, FewerInFlight DEF FlightInv
<1>2. CASE w = at[c]
  <2>1. InFlight(w)' = InFlight(w) \union {c} /\ c \notin InFlight(w)
    BY <1>0, <1>2, <1>a DEF InFlight
  <2>2. active'[w] = active[w] + 1 /\ active[w] \in Int
    BY <1>0, <1>2, <1>a DEF TypeOK
  <2>3. /\ IsFiniteSet(InFlight(w)) /\ active[w] >= Cardinality(InFlight(w))
        /\ Cardinality(InFlight(w)) \in Nat
    BY FS_CardinalityType DEF FlightInv
  <2>4. /\ IsFiniteSet(InFlight(w)')
        /\ Cardinality(InFlight(w)') = Cardinality(InFlight(w)) + 1
    BY <2>1, <2>3, FS_AddElement
  <2> QED
    BY <2>2, <2>3, <2>4
<1> QED
  BY <1>1, <1>2

\* The two places that decrement are those where a request leaves the set.
LEMMA ReleaseFlight ==
    ASSUME IInv, IInv', FlightInv, NEW c \in Conns, SendFail(c) \/ Finish(c)
    PROVE  FlightInv'
<1> SUFFICES ASSUME NEW w \in Worker
             PROVE  IsFiniteSet(InFlight(w)') /\ active'[w] >= Cardinality(InFlight(w)')
  BY DEF FlightInv
<1>0. /\ TypeOK /\ TypeOK' /\ at[c] \in Worker /\ pc[c] \in {"sendfail", "ok"}
      /\ at' = at /\ active' = [active EXCEPT ![at[c]] = @ - 1]
      /\ pc' = [pc EXCEPT ![c] = IF pc[c] = "ok" THEN "clean" ELSE "dial"]
  BY DEF IInv, PcInv, SendFail, Finish, At, Goto, Proc, procVars
<1>a. /\ pc'[c] \in {"clean", "dial"}
      /\ \A d \in Conns \ {c} : pc'[d] = pc[d]
  BY <1>0 DEF TypeOK, Proc
<1>1. CASE w # at[c]
  <2>1. InFlight(w)' \subseteq InFlight(w) /\ active'[w] = active[w]
    BY <1>0, <1>a, <1>1 DEF InFlight, TypeOK
  <2> QED
    BY <1>0, <2>1, FewerInFlight DEF FlightInv
<1>2. CASE w = at[c]
  <2>1. InFlight(w)' = InFlight(w) \ {c} /\ c \in InFlight(w)
    BY <1>0, <1>a, <1>2 DEF InFlight
  <2>2. active'[w] = active[w] - 1 /\ active[w] \in Int
    BY <1>0, <1>2 DEF TypeOK
  <2>3. /\ IsFiniteSet(InFlight(w)) /\ active[w] >= Cardinality(InFlight(w))
        /\ Cardinality(InFlight(w)) \in Nat
    BY FS_CardinalityType DEF FlightInv
  <2>4. /\ IsFiniteSet(InFlight(w)')
        /\ Cardinality(InFlight(w)') = Cardinality(InFlight(w)) - 1
    BY <2>1, <2>3, FS_RemoveElement
  <2> QED
    BY <2>2, <2>3, <2>4
<1> QED
  BY <1>1, <1>2

\* No other step touches activeTasks or puts a request in flight.
Steady == /\ active' = active
          /\ \A c \in Conns :
                pc'[c] \in FlightPC => pc[c] \in FlightPC /\ at'[c] = at[c]

LEMMA NextSteady ==
    ASSUME IInv, [Next]_vars
    PROVE  \/ \E c \in Conns : Account(c) \/ SendFail(c) \/ Finish(c)
           \/ Steady
<1> USE NameAssumption, NoneIsNoWorker
    DEF IInv, TypeOK, Steady, FlightPC, At, Goto, procVars, envVars, Proc
<1>1. ASSUME NEW w \in Worker, Crash(w) \/ Restart(w) \/ Hang(w) PROVE Steady
  BY <1>1 DEF Crash, Restart, Hang
<1>2. ASSUME NEW p \in Proc, Select(p) PROVE Steady
  BY <1>2, SMTT(30) DEF Select, ScanHit, ScanMiss, Commit, DropTask, Moving, Return
<1>3. ASSUME NEW p \in Proc, Check(p) PROVE Steady
  BY <1>3 DEF Check, Dial, Pong, MarkUp, MarkDown, Return
<1>4. ASSUME NEW p \in Proc, Redistribute(p) PROVE Steady
  <2>1. CASE Lock(p) \/ DrainOne(p)
    BY <2>1 DEF Lock, DrainOne
  <2>2. CASE Drained(p) \/ Push(p)
    BY <2>2, SMTT(30) DEF Drained, Push, Moving, Return
  <2> QED
    BY <1>4, <2>1, <2>2 DEF Redistribute
<1>5. ASSUME NEW c \in Conns, Reject(c) \/ Begin(c) \/ NoWorker(c) \/ Answer(c)
      PROVE  Steady
  BY <1>5 DEF Reject, Begin, NoWorker, Answer
<1>6. ASSUME NEW c \in Conns, Call(c), ~Account(c), ~SendFail(c), ~Finish(c)
      PROVE  Steady
  BY <1>6 DEF Call, Enqueue, NoRequest, Send, Reply, Timeout, BodyError, Relay, RelayFail,
              CleanLock, CleanOne, Cleaned
<1>7. CASE Tick \/ NextWorker
  BY <1>7 DEF Tick, NextWorker
<1>8. CASE UNCHANGED vars
  BY <1>8 DEF vars
<1> QED
  BY <1>1, <1>2, <1>3, <1>4, <1>5, <1>6, <1>7, <1>8
     DEF Next, Fault, Handle, Monitor

LEMMA AlwaysFlight == Spec => []FlightInv
<1>1. Init => FlightInv
  <2> SUFFICES ASSUME Init, NEW w \in Worker
               PROVE  IsFiniteSet(InFlight(w)) /\ active[w] >= Cardinality(InFlight(w))
    BY DEF FlightInv
  <2>1. InFlight(w) = {}
    BY NameAssumption DEF Init, InFlight, Proc
  <2> QED
    BY <2>1, FS_EmptySet DEF Init
<1>2. IInv /\ IInv' /\ FlightInv /\ [Next]_vars => FlightInv'
  <2> SUFFICES ASSUME IInv, IInv', FlightInv, [Next]_vars PROVE FlightInv'
    OBVIOUS
  <2>1. CASE Steady
    <3>1. TypeOK /\ TypeOK'
      BY DEF IInv
    <3> QED
      BY <2>1, <3>1, SteadyStep DEF Steady
  <2> QED
    BY <2>1, NextSteady, AccountFlight, ReleaseFlight
<1> QED
  BY <1>1, <1>2, Invariance, PTL DEF Spec

\* activeTasks never counts fewer requests than the worker has in flight.
THEOREM ActiveNeverShort == Spec => []ActiveCovers
<1>1. FlightInv => ActiveCovers
  BY DEF FlightInv, ActiveCovers
<1> QED
  BY <1>1, AlwaysFlight, PTL

-----------------------------------------------------------------------------
(* Where the tasks are                                                      *)

QueuedOnce ==
    \A v, w \in Worker : \A i \in 1 .. Len(queue[v]), j \in 1 .. Len(queue[w]) :
       queue[v][i] = queue[w][j] => v = w /\ i = j

MovedOnce ==
    \A p, q \in Proc : \A i \in 1 .. Len(pend[p]), j \in 1 .. Len(pend[q]) :
       pend[p][i] = pend[q][j] => p = q /\ i = j

NotBoth ==
    \A w \in Worker, p \in Proc :
       \A i \in 1 .. Len(queue[w]), j \in 1 .. Len(pend[p]) :
          queue[w][i] # pend[p][j]

WaitsEnqueued ==
    /\ \A w \in Worker : \A i \in 1 .. Len(queue[w]) : Enqueued(queue[w][i])
    /\ \A p \in Proc : \A i \in 1 .. Len(pend[p]) : Enqueued(pend[p][i])

\* TaskInOnePlace is not inductive: it does not say that a task about to be
\* queued is nowhere yet.
PlaceInv == WaitsEnqueued /\ QueuedOnce /\ MovedOnce /\ NotBoth

\* A handler that has queued its task has, from then on.
LEMMA EnqueuedStays ==
    ASSUME IInv, [Next]_vars, NEW c \in Conns, Enqueued(c) PROVE Enqueued(c)'
<1> USE NameAssumption, NoneIsNoWorker
    DEF IInv, TypeOK, Enqueued, At, Goto, procVars, envVars, Proc
<1>1. ASSUME NEW w \in Worker, Crash(w) \/ Restart(w) \/ Hang(w) PROVE Enqueued(c)'
  BY <1>1 DEF Crash, Restart, Hang
<1>2. ASSUME NEW p \in Proc, Select(p) PROVE Enqueued(c)'
  BY <1>2 DEF Select, ScanHit, ScanMiss, Commit, DropTask, Moving, Return
<1>3. ASSUME NEW p \in Proc, Check(p) PROVE Enqueued(c)'
  BY <1>3 DEF Check, Dial, Pong, MarkUp, MarkDown, Return
<1>4. ASSUME NEW p \in Proc, Redistribute(p) PROVE Enqueued(c)'
  BY <1>4 DEF Redistribute, Lock, DrainOne, Drained, Push, Moving, Return
<1>5. ASSUME NEW d \in Conns, Reject(d) \/ Begin(d) \/ NoWorker(d) \/ Answer(d)
      PROVE  Enqueued(c)'
  BY <1>5 DEF Reject, Begin, NoWorker, Answer
<1>6. ASSUME NEW d \in Conns, Call(d) PROVE Enqueued(c)'
  BY <1>6 DEF Call, Enqueue, Account, NoRequest, Send, Reply, Timeout, SendFail, BodyError,
              Relay, RelayFail, Finish, CleanLock, CleanOne, Cleaned
<1>7. CASE Tick \/ NextWorker
  BY <1>7 DEF Tick, NextWorker
<1>8. CASE UNCHANGED vars
  BY <1>8 DEF vars
<1> QED
  BY <1>1, <1>2, <1>3, <1>4, <1>5, <1>6, <1>7, <1>8
     DEF Next, Fault, Handle, Monitor

\* What the operators of a queue do to its places.
LEMMA TailPlaces ==
    ASSUME NEW s \in Seq(Conns), s # <<>>
    PROVE  /\ Len(s) \in Nat \ {0} /\ Head(s) = s[1] /\ Head(s) \in Conns
           /\ Tail(s) \in Seq(Conns) /\ Len(Tail(s)) = Len(s) - 1
           /\ \A i \in 1 .. Len(Tail(s)) : Tail(s)[i] = s[i + 1]
  OBVIOUS

LEMMA AppendPlaces ==
    ASSUME NEW s \in Seq(Conns), NEW c \in Conns
    PROVE  /\ Append(s, c) \in Seq(Conns) /\ Len(Append(s, c)) = Len(s) + 1
           /\ Len(s) \in Nat
           /\ Append(s, c)[Len(s) + 1] = c
           /\ \A i \in 1 .. Len(s) : Append(s, c)[i] = s[i]
  OBVIOUS

\* What waits is a task, in a queue or to be moved.
LEMMA TaskType ==
    ASSUME TypeOK
    PROVE  /\ \A w \in Worker : \A i \in 1 .. Len(queue[w]) : queue[w][i] \in Conns
           /\ \A p \in Proc : \A i \in 1 .. Len(pend[p]) : pend[p][i] \in Conns
<1>1. ASSUME NEW s \in Seq(Conns) PROVE \A i \in 1 .. Len(s) : s[i] \in Conns
  OBVIOUS
<1>2. /\ \A w \in Worker : queue[w] \in Seq(Conns)
      /\ \A p \in Proc : pend[p] \in Seq(Conns)
  BY DEF TypeOK
<1> QED
  BY <1>1, <1>2

\* No task moves.
LEMMA SamePlaces ==
    ASSUME TypeOK, PlaceInv, UNCHANGED <<queue, pend>>,
           \A c \in Conns : Enqueued(c) => Enqueued(c)'
    PROVE  PlaceInv'
<1>1. /\ \A w \in Worker : \A i \in 1 .. Len(queue[w]) : queue[w][i] \in Conns
      /\ \A p \in Proc : \A i \in 1 .. Len(pend[p]) : pend[p][i] \in Conns
  BY TaskType
<1>a. WaitsEnqueued'
  BY <1>1 DEF PlaceInv, WaitsEnqueued
<1>b. QueuedOnce'
  BY <1>1 DEF PlaceInv, WaitsEnqueued, QueuedOnce, NotBoth
<1>c. MovedOnce'
  BY <1>1 DEF PlaceInv, WaitsEnqueued, MovedOnce, NotBoth
<1>d. NotBoth'
  BY <1>1 DEF PlaceInv, WaitsEnqueued, QueuedOnce, MovedOnce, NotBoth
<1> QED
  BY <1>a, <1>b, <1>c, <1>d DEF PlaceInv

\* The head of a queue goes, or of what is to be moved.
LEMMA QueueTail ==
    ASSUME TypeOK, PlaceInv, NEW w \in Worker, queue[w] # <<>>,
           queue' = [queue EXCEPT ![w] = Tail(@)], pend' = pend,
           \A c \in Conns : Enqueued(c) => Enqueued(c)'
    PROVE  PlaceInv'
<1>1. /\ \A v \in Worker : \A i \in 1 .. Len(queue[v]) : queue[v][i] \in Conns
      /\ \A p \in Proc : \A i \in 1 .. Len(pend[p]) : pend[p][i] \in Conns
  BY TaskType
<1>2. /\ Len(queue[w]) \in Nat \ {0} /\ Len(queue'[w]) = Len(queue[w]) - 1
      /\ \A i \in 1 .. Len(queue'[w]) : queue'[w][i] = queue[w][i + 1]
      /\ \A v \in Worker \ {w} : queue'[v] = queue[v]
  BY TailPlaces DEF TypeOK
<1>3. \A v \in Worker : \A i \in 1 .. Len(queue'[v]) :
         \E k \in 1 .. Len(queue[v]) :
            queue'[v][i] = queue[v][k] /\ k = IF v = w THEN i + 1 ELSE i
  BY <1>2
<1>a. WaitsEnqueued'
  BY <1>1, <1>3 DEF PlaceInv, WaitsEnqueued
<1>b. QueuedOnce'
  BY <1>1, <1>3 DEF PlaceInv, WaitsEnqueued, QueuedOnce, NotBoth
<1>c. MovedOnce'
  BY <1>1, <1>3 DEF PlaceInv, WaitsEnqueued, MovedOnce, NotBoth
<1>d. NotBoth'
  BY <1>1, <1>3 DEF PlaceInv, WaitsEnqueued, QueuedOnce, MovedOnce, NotBoth
<1> QED
  BY <1>a, <1>b, <1>c, <1>d DEF PlaceInv

LEMMA PendTail ==
    ASSUME TypeOK, PlaceInv, NEW p \in Proc, pend[p] # <<>>,
           pend' = [pend EXCEPT ![p] = Tail(pend[p])], queue' = queue,
           \A c \in Conns : Enqueued(c) => Enqueued(c)'
    PROVE  PlaceInv'
<1>1. /\ \A v \in Worker : \A i \in 1 .. Len(queue[v]) : queue[v][i] \in Conns
      /\ \A q \in Proc : \A i \in 1 .. Len(pend[q]) : pend[q][i] \in Conns
  BY TaskType
<1>2. /\ Len(pend[p]) \in Nat \ {0} /\ Len(pend'[p]) = Len(pend[p]) - 1
      /\ \A i \in 1 .. Len(pend'[p]) : pend'[p][i] = pend[p][i + 1]
      /\ \A q \in Proc \ {p} : pend'[q] = pend[q]
  BY TailPlaces DEF TypeOK
<1>3. \A q \in Proc : \A i \in 1 .. Len(pend'[q]) :
         \E k \in 1 .. Len(pend[q]) :
            pend'[q][i] = pend[q][k] /\ k = IF q = p THEN i + 1 ELSE i
  BY <1>2
<1>a. WaitsEnqueued'
  BY <1>1, <1>3 DEF PlaceInv, WaitsEnqueued
<1>b. QueuedOnce'
  BY <1>1, <1>3 DEF PlaceInv, WaitsEnqueued, QueuedOnce, NotBoth
<1>c. MovedOnce'
  BY <1>1, <1>3 DEF PlaceInv, WaitsEnqueued, MovedOnce, NotBoth
<1>d. NotBoth'
  BY <1>1, <1>3 DEF PlaceInv, WaitsEnqueued, QueuedOnce, MovedOnce, NotBoth
<1> QED
  BY <1>a, <1>b, <1>c, <1>d DEF PlaceInv

\* A new task joins a queue.
LEMMA QueueAppend ==
    ASSUME TypeOK, PlaceInv, NEW w \in Worker, NEW c \in Conns, ~Enqueued(c), Enqueued(c)',
           queue' = [queue EXCEPT ![w] = Append(@, c)], pend' = pend,
           \A d \in Conns : Enqueued(d) => Enqueued(d)'
    PROVE  PlaceInv'
<1>1. /\ \A v \in Worker : \A i \in 1 .. Len(queue[v]) : queue[v][i] \in Conns
      /\ \A q \in Proc : \A i \in 1 .. Len(pend[q]) : pend[q][i] \in Conns
  BY TaskType
<1>2. /\ Len(queue[w]) \in Nat /\ Len(queue'[w]) = Len(queue[w]) + 1
      /\ \A i \in 1 .. Len(queue[w]) : queue'[w][i] = queue[w][i]
      /\ queue'[w][Len(queue[w]) + 1] = c
      /\ \A v \in Worker \ {w} : queue'[v] = queue[v]
  BY AppendPlaces DEF TypeOK
<1>3. \A v \in Worker : \A i \in 1 .. Len(queue'[v]) :
         \/ i \in 1 .. Len(queue[v]) /\ queue'[v][i] = queue[v][i]
         \/ v = w /\ i = Len(queue[w]) + 1 /\ queue'[v][i] = c
  BY <1>2
<1>a. WaitsEnqueued'
  BY <1>1, <1>3 DEF PlaceInv, WaitsEnqueued
<1>b. QueuedOnce'
  BY <1>1, <1>3 DEF PlaceInv, WaitsEnqueued, QueuedOnce, NotBoth
<1>c. MovedOnce'
  BY <1>1, <1>3 DEF PlaceInv, WaitsEnqueued, MovedOnce, NotBoth
<1>d. NotBoth'
  BY <1>1, <1>3 DEF PlaceInv, WaitsEnqueued, QueuedOnce, MovedOnce, NotBoth
<1> QED
  BY <1>a, <1>b, <1>c, <1>d DEF PlaceInv

\* A task goes from a queue to those that are to be moved, or back to a queue.
LEMMA TaskDrained ==
    ASSUME TypeOK, PlaceInv, NEW w \in Worker, NEW p \in Proc, queue[w] # <<>>,
           queue' = [queue EXCEPT ![w] = Tail(@)],
           pend' = [pend EXCEPT ![p] = Append(@, Head(queue[w]))],
           \A d \in Conns : Enqueued(d) => Enqueued(d)'
    PROVE  PlaceInv'
<1>1. /\ \A v \in Worker : \A i \in 1 .. Len(queue[v]) : queue[v][i] \in Conns
      /\ \A q \in Proc : \A i \in 1 .. Len(pend[q]) : pend[q][i] \in Conns
  BY TaskType
<1>2. /\ Len(queue[w]) \in Nat \ {0} /\ Len(queue'[w]) = Len(queue[w]) - 1
      /\ \A i \in 1 .. Len(queue'[w]) : queue'[w][i] = queue[w][i + 1]
      /\ \A v \in Worker \ {w} : queue'[v] = queue[v]
      /\ Head(queue[w]) = queue[w][1] /\ Head(queue[w]) \in Conns
  BY TailPlaces DEF TypeOK
<1>3. /\ Len(pend[p]) \in Nat /\ Len(pend'[p]) = Len(pend[p]) + 1
      /\ \A i \in 1 .. Len(pend[p]) : pend'[p][i] = pend[p][i]
      /\ pend'[p][Len(pend[p]) + 1] = queue[w][1]
      /\ \A q \in Proc \ {p} : pend'[q] = pend[q]
  BY <1>2, AppendPlaces DEF TypeOK
<1>4. \A v \in Worker : \A i \in 1 .. Len(queue'[v]) :
         \E k \in 1 .. Len(queue[v]) :
            queue'[v][i] = queue[v][k] /\ k = IF v = w THEN i + 1 ELSE i
  BY <1>2
<1>5. \A q \in Proc : \A i \in 1 .. Len(pend'[q]) :
         \/ i \in 1 .. Len(pend[q]) /\ pend'[q][i] = pend[q][i]
         \/ q = p /\ i = Len(pend[p]) + 1 /\ pend'[q][i] = queue[w][1]
  BY <1>3
<1>6. 1 \in 1 .. Len(queue[w]) /\ \A v \in Worker : Len(queue'[v]) \in Nat
  BY <1>2 DEF TypeOK
<1>a. WaitsEnqueued'
  BY <1>1, <1>4, <1>5, <1>6, SMTT(30) DEF PlaceInv, WaitsEnqueued
<1>b. QueuedOnce'
  BY <1>1, <1>4, <1>5, <1>6, SMTT(30) DEF PlaceInv, WaitsEnqueued, QueuedOnce, NotBoth
<1>c. MovedOnce'
  BY <1>1, <1>4, <1>5, <1>6, SMTT(30) DEF PlaceInv, WaitsEnqueued, MovedOnce, NotBoth
<1>d. NotBoth'
  BY <1>1, <1>4, <1>5, <1>6, SMTT(30) DEF PlaceInv, WaitsEnqueued, QueuedOnce, MovedOnce, NotBoth
<1> QED
  BY <1>a, <1>b, <1>c, <1>d DEF PlaceInv

LEMMA TaskPushed ==
    ASSUME TypeOK, PlaceInv, NEW w \in Worker, NEW p \in Proc, pend[p] # <<>>,
           pend' = [pend EXCEPT ![p] = Tail(pend[p])],
           queue' = [queue EXCEPT ![w] = Append(@, Head(pend[p]))],
           \A d \in Conns : Enqueued(d) => Enqueued(d)'
    PROVE  PlaceInv'
<1>1. /\ \A v \in Worker : \A i \in 1 .. Len(queue[v]) : queue[v][i] \in Conns
      /\ \A q \in Proc : \A i \in 1 .. Len(pend[q]) : pend[q][i] \in Conns
  BY TaskType
<1>2. /\ Len(pend[p]) \in Nat \ {0} /\ Len(pend'[p]) = Len(pend[p]) - 1
      /\ \A i \in 1 .. Len(pend'[p]) : pend'[p][i] = pend[p][i + 1]
      /\ \A q \in Proc \ {p} : pend'[q] = pend[q]
      /\ Head(pend[p]) = pend[p][1] /\ Head(pend[p]) \in Conns
  BY TailPlaces DEF TypeOK
<1>3. /\ Len(queue[w]) \in Nat /\ Len(queue'[w]) = Len(queue[w]) + 1
      /\ \A i \in 1 .. Len(queue[w]) : queue'[w][i] = queue[w][i]
      /\ queue'[w][Len(queue[w]) + 1] = pend[p][1]
      /\ \A v \in Worker \ {w} : queue'[v] = queue[v]
  BY <1>2, AppendPlaces DEF TypeOK
<1>4. \A q \in Proc : \A i \in 1 .. Len(pend'[q]) :
         \E k \in 1 .. Len(pend[q]) :
            pend'[q][i] = pend[q][k] /\ k = IF q = p THEN i + 1 ELSE i
  BY <1>2
<1>5. \A v \in Worker : \A i \in 1 .. Len(queue'[v]) :
         \/ i \in 1 .. Len(queue[v]) /\ queue'[v][i] = queue[v][i]
         \/ v = w /\ i = Len(queue[w]) + 1 /\ queue'[v][i] = pend[p][1]
  BY <1>3
<1>6. 1 \in 1 .. Len(pend[p])
  BY <1>2
<1>a. WaitsEnqueued'
  BY <1>1, <1>4, <1>5, <1>6, SMTT(30) DEF PlaceInv, WaitsEnqueued
<1>b. QueuedOnce'
  BY <1>1, <1>4, <1>5, <1>6, SMTT(30) DEF PlaceInv, WaitsEnqueued, QueuedOnce, NotBoth
<1>c. MovedOnce'
  BY <1>1, <1>4, <1>5, <1>6, SMTT(30) DEF PlaceInv, WaitsEnqueued, MovedOnce, NotBoth
<1>d. NotBoth'
  BY <1>1, <1>4, <1>5, <1>6, SMTT(30) DEF PlaceInv, WaitsEnqueued, QueuedOnce, MovedOnce, NotBoth
<1> QED
  BY <1>a, <1>b, <1>c, <1>d DEF PlaceInv

\* What every step does to the places: nothing, or one of five moves.
LEMMA NextMoves ==
    ASSUME IInv, [Next]_vars
    PROVE  \/ UNCHANGED <<queue, pend>>
           \/ \E c \in Conns : Enqueue(c) \/ CleanOne(c)
           \/ \E p \in Proc : DrainOne(p) \/ Push(p) \/ DropTask(p)
<1> USE DEF procVars, envVars
<1>1. ASSUME NEW w \in Worker, Crash(w) \/ Restart(w) \/ Hang(w)
      PROVE  UNCHANGED <<queue, pend>>
  BY <1>1 DEF Crash, Restart, Hang
<1>2. ASSUME NEW p \in Proc, Select(p), ~DropTask(p) PROVE UNCHANGED <<queue, pend>>
  BY <1>2 DEF Select, ScanHit, ScanMiss, Commit
<1>3. ASSUME NEW p \in Proc, Check(p) PROVE UNCHANGED <<queue, pend>>
  BY <1>3 DEF Check, Dial, Pong, MarkUp, MarkDown
<1>4. ASSUME NEW p \in Proc, Redistribute(p), ~DrainOne(p), ~Push(p)
      PROVE  UNCHANGED <<queue, pend>>
  BY <1>4 DEF Redistribute, Lock, Drained, Moving, IInv, TypeOK
<1>5. ASSUME NEW c \in Conns, Reject(c) \/ Begin(c) \/ NoWorker(c) \/ Answer(c)
      PROVE  UNCHANGED <<queue, pend>>
  BY <1>5 DEF Reject, Begin, NoWorker, Answer
<1>6. ASSUME NEW c \in Conns, Call(c), ~Enqueue(c), ~CleanOne(c)
      PROVE  UNCHANGED <<queue, pend>>
  BY <1>6 DEF Call, Account, NoRequest, Send, Reply, Timeout, SendFail, BodyError, Relay,
              RelayFail, Finish, CleanLock, Cleaned
<1>7. CASE Tick \/ NextWorker
  BY <1>7 DEF Tick, NextWorker
<1>8. CASE UNCHANGED vars
  BY <1>8 DEF vars
<1> QED
  BY <1>1, <1>2, <1>3, <1>4, <1>5, <1>6, <1>7, <1>8
     DEF Next, Fault, Handle, Monitor, Proc

LEMMA NextPlaceInv ==
    ASSUME IInv, PlaceInv, [Next]_vars PROVE PlaceInv'
<1>0. TypeOK /\ \A c \in Conns : Enqueued(c) => Enqueued(c)'
  BY EnqueuedStays DEF IInv
<1>1. CASE UNCHANGED <<queue, pend>>
  BY <1>0, <1>1, SamePlaces
<1>2. ASSUME NEW c \in Conns, Enqueue(c) PROVE PlaceInv'
  <2>1. at[c] \in Worker /\ ~Enqueued(c)
    BY <1>2 DEF Enqueue, At, IInv, PcInv, RespInv, Enqueued, Proc
  <2>2. Enqueued(c)'
    BY <1>0, <1>2 DEF Enqueue, Goto, Enqueued, TypeOK, Proc
  <2>3. queue' = [queue EXCEPT ![at[c]] = Append(@, c)] /\ pend' = pend
    BY <1>2 DEF Enqueue, procVars
  <2> QED
    BY <1>0, <2>1, <2>2, <2>3, QueueAppend
<1>3. ASSUME NEW c \in Conns, CleanOne(c) PROVE PlaceInv'
  <2>1. at[c] \in Worker
    BY <1>3 DEF CleanOne, At, IInv, PcInv, Proc
  <2>2. /\ queue[at[c]] # <<>> /\ pend' = pend
        /\ queue' = [queue EXCEPT ![at[c]] = Tail(@)]
    BY <1>3 DEF CleanOne, procVars
  <2> QED
    BY <1>0, <2>1, <2>2, QueueTail
<1>4. ASSUME NEW p \in Proc, DrainOne(p) PROVE PlaceInv'
  <2>1. at[p] \in Worker
    BY <1>4 DEF DrainOne, At, IInv, PcInv
  <2>2. /\ queue[at[p]] # <<>>
        /\ pend' = [pend EXCEPT ![p] = Append(@, Head(queue[at[p]]))]
        /\ queue' = [queue EXCEPT ![at[p]] = Tail(@)]
    BY <1>4 DEF DrainOne
  <2> QED
    BY <1>0, <2>1, <2>2, TaskDrained
<1>5. ASSUME NEW p \in Proc, Push(p) PROVE PlaceInv'
  <2>1. look[p] \in Worker /\ pend[p] # <<>>
    BY <1>5 DEF Push, At, IInv, PcInv, Holds
  <2>2. /\ pend' = [pend EXCEPT ![p] = Tail(pend[p])]
        /\ queue' = [queue EXCEPT ![look[p]] = Append(@, Head(pend[p]))]
    BY <1>5 DEF Push, Moving
  <2> QED
    BY <1>0, <2>1, <2>2, TaskPushed
<1>6. ASSUME NEW p \in Proc, DropTask(p) PROVE PlaceInv'
  <2>1. pend[p] # <<>>
    BY <1>6 DEF DropTask, At, IInv, PcInv, Holds
  <2>2. pend' = [pend EXCEPT ![p] = Tail(pend[p])] /\ queue' = queue
    BY <1>6 DEF DropTask, Moving
  <2> QED
    BY <1>0, <2>1, <2>2, PendTail
<1> QED
  BY <1>1, <1>2, <1>3, <1>4, <1>5, <1>6, NextMoves

LEMMA AtStays ==
    ASSUME IInv, NEW c \in Conns, Enqueued(c) PROVE at[c] # None
<1>1. CASE pc[c] \in {"account", "send"}
  BY <1>1, NoneIsNoWorker DEF IInv, PcInv, Proc
<1>2. CASE back[c] = "502"
  BY <1>2 DEF IInv, RespInv
<1> QED
  BY <1>1, <1>2 DEF Enqueued

LEMMA AtMostOne ==
    ASSUME NEW S, \A x, y \in S : x = y PROVE Cardinality(S) <= 1
<1>1. CASE S = {}
  BY <1>1, FS_EmptySet
<1>2. ASSUME NEW x \in S PROVE Cardinality(S) <= 1
  <2>1. S = {x}
    OBVIOUS
  <2> QED
    BY <2>1, FS_Singleton
<1> QED
  BY <1>1, <1>2

LEMMA AlwaysPlaced == Spec => []PlaceInv
<1>1. Init => PlaceInv
  <2> SUFFICES ASSUME Init PROVE PlaceInv
    OBVIOUS
  <2>1. /\ \A w \in Worker : Len(queue[w]) = 0
        /\ \A p \in Proc : Len(pend[p]) = 0
    BY DEF Init
  <2> QED
    BY <2>1 DEF PlaceInv, WaitsEnqueued, QueuedOnce, MovedOnce, NotBoth
<1> QED
  BY <1>1, NextPlaceInv, Invariance, PTL DEF Spec

\* Draining, redistributing and cleaning side by side never duplicate a task.
THEOREM NoTaskTwice == Spec => []TaskInOnePlace
<1>1. IInv /\ PlaceInv => TaskInOnePlace
  <2> SUFFICES ASSUME IInv, PlaceInv, NEW c \in Conns
               PROVE  /\ Cardinality(Places(c)) <= 1
                      /\ Places(c) # {} => at[c] # None
    BY DEF TaskInOnePlace
  <2>1. ASSUME NEW x \in Places(c)
        PROVE  \/ \E w \in Worker : \E i \in 1 .. Len(queue[w]) :
                     x = <<w, i>> /\ queue[w][i] = c
               \/ \E p \in Proc : \E i \in 1 .. Len(pend[p]) :
                     x = <<p, i>> /\ pend[p][i] = c
    <3> DEFINE Q(w) == {j \in 1 .. Len(queue[w]) : queue[w][j] = c}
               P(p) == {j \in 1 .. Len(pend[p]) : pend[p][j] = c}
    <3>1. \/ \E w \in Worker : x \in {<<w, i>> : i \in Q(w)}
          \/ \E p \in Proc : x \in {<<p, i>> : i \in P(p)}
      <4> DEFINE A == {{<<w, i>> : i \in Q(w)} : w \in Worker}
                 B == {{<<p, i>> : i \in P(p)} : p \in Proc}
      <4>1. x \in (UNION A) \union (UNION B)
        BY <2>1 DEF Places
      <4>2. CASE \E e \in A : x \in e
        BY <4>2
      <4>3. CASE \E e \in B : x \in e
        BY <4>3
      <4> HIDE DEF A, B
      <4> QED
        BY <4>1, <4>2, <4>3
    <3>2. CASE \E w \in Worker : x \in {<<w, i>> : i \in Q(w)}
      <4>1. PICK w \in Worker : \E i \in Q(w) : x = <<w, i>>
        BY <3>2
      <4> QED
        BY <4>1
    <3>3. CASE \E p \in Proc : x \in {<<p, i>> : i \in P(p)}
      <4>1. PICK p \in Proc : \E i \in P(p) : x = <<p, i>>
        BY <3>3
      <4> QED
        BY <4>1
    <3> QED
      BY <3>1, <3>2, <3>3
  <2>2. \A x, y \in Places(c) : x = y
    BY <2>1, SMTT(30) DEF PlaceInv, QueuedOnce, MovedOnce, NotBoth
  <2>3. Places(c) # {} => Enqueued(c)
    BY <2>1 DEF PlaceInv, WaitsEnqueued
  <2> QED
    BY <2>2, <2>3, AtMostOne, AtStays
<1> QED
  BY <1>1, AlwaysPlaced, Invariance, PTL

-----------------------------------------------------------------------------
(* Implementing TaskBoard *)

\* Only a goroutine that holds a mutex to redistribute has tasks in hand.
HandInv == \A p \in Proc : pend[p] # <<>> =>
              /\ pc[p] \in {"drain", "scan", "commit", "push"}
              /\ at[p] # None

LEMMA NextHandInv ==
    ASSUME IInv, HandInv, [Next]_vars PROVE HandInv'
<1> USE NameAssumption, NoneIsNoWorker
    DEF IInv, TypeOK, HandInv, At, Goto, procVars, envVars, Proc
<1>1. ASSUME NEW w \in Worker, Crash(w) \/ Restart(w) \/ Hang(w) PROVE HandInv'
  <2>1. /\ UNCHANGED <<at, pend>>
        /\ \A p \in Proc : pc[p] \notin {"ping", "sent"} => pc'[p] = pc[p]
    BY <1>1 DEF Crash, Restart, Hang
  <2> QED
    BY <2>1
<1>2. ASSUME NEW p \in Proc, Select(p) PROVE HandInv'
  <2>1. CASE ScanHit(p) \/ ScanMiss(p) \/ Commit(p)
    BY <2>1 DEF ScanHit, ScanMiss, Commit
  <2>2. CASE DropTask(p)
    BY <2>2 DEF DropTask, Moving, Return
  <2> QED
    BY <1>2, <2>1, <2>2 DEF Select
<1>3. ASSUME NEW p \in Proc, Check(p) PROVE HandInv'
  BY <1>3 DEF Check, Dial, Pong, MarkUp, MarkDown, Return
<1>4. ASSUME NEW p \in Proc, Redistribute(p) PROVE HandInv'
  <2>0. pc[p] \in {"rlock", "drain", "push"} /\ at[p] # None
    BY <1>4 DEF Redistribute, Lock, DrainOne, Drained, Push, PcInv
  <2>1. CASE Lock(p) \/ DrainOne(p)
    BY <2>0, <2>1 DEF Lock, DrainOne
  <2>2. ASSUME NEW rest, Moving(p, rest), UNCHANGED at PROVE HandInv'
    <3>1. pend' = [pend EXCEPT ![p] = rest]
      BY <2>2 DEF Moving
    <3>2. rest # <<>> => pc' = [pc EXCEPT ![p] = "scan"]
      BY <2>2 DEF Moving
    <3>3. \A q \in Proc \ {p} : pc'[q] = pc[q] /\ pend'[q] = pend[q]
      BY <2>2, <3>1 DEF Moving
    <3>4. pend'[p] = rest /\ (rest # <<>> => pc'[p] = "scan")
      BY <3>1, <3>2
    <3> QED
      BY <2>0, <2>2, <3>3, <3>4
  <2>3. CASE Drained(p) \/ Push(p)
    BY <2>2, <2>3 DEF Drained, Push
  <2> QED
    BY <1>4, <2>1, <2>3 DEF Redistribute
<1>5. ASSUME NEW c \in Conns, Reject(c) \/ Begin(c) \/ NoWorker(c) \/ Answer(c)
      PROVE  HandInv'
  BY <1>5 DEF Reject, Begin, NoWorker, Answer
<1>6. ASSUME NEW c \in Conns, Call(c) PROVE HandInv'
  BY <1>6 DEF Call, Enqueue, Account, NoRequest, Send, Reply, Timeout, SendFail, BodyError,
              Relay, RelayFail, Finish, CleanLock, CleanOne, Cleaned
<1>7. CASE Tick \/ NextWorker
  BY <1>7 DEF Tick, NextWorker
<1>8. CASE UNCHANGED vars
  BY <1>8 DEF vars
<1> QED
  BY <1>1, <1>2, <1>3, <1>4, <1>5, <1>6, <1>7, <1>8
     DEF Next, Fault, Handle, Monitor

\* What a task in hand means for the mutex.
LEMMA HandHolds ==
    ASSUME IInv, HandInv, NEW p \in Proc, pend[p] # <<>>
    PROVE  at[p] \in Worker /\ mu[at[p]] = p
<1>1. Holds(p) /\ at[p] \in Worker
  BY DEF HandInv, Holds, IInv, TypeOK
<1> QED
  BY <1>1 DEF IInv, LockOwner

\* Only Enqueue puts a task in a queue for the first time.
LEMMA EnqueuedOnce ==
    ASSUME IInv, [Next]_vars, NEW c \in Conns, ~Enqueued(c), Enqueued(c)'
    PROVE  Enqueue(c)
<1> USE NameAssumption, NoneIsNoWorker
    DEF IInv, TypeOK, Enqueued, At, Goto, procVars, envVars, Proc
<1>1. ASSUME NEW w \in Worker, Crash(w) \/ Restart(w) \/ Hang(w) PROVE FALSE
  BY <1>1 DEF Crash, Restart, Hang
<1>2. ASSUME NEW p \in Proc, Select(p) PROVE FALSE
  <2>1. back' = back /\ \A q \in Proc \ {p} : pc'[q] = pc[q]
    BY <1>2 DEF Select, ScanHit, ScanMiss, Commit, DropTask, Moving
  <2>2. pc'[p] \notin {"account", "send"}
    <3>1. CASE ScanHit(p) \/ ScanMiss(p)
      BY <3>1 DEF ScanHit, ScanMiss
    <3>2. CASE Commit(p)
      BY <3>2 DEF Commit
    <3>3. CASE DropTask(p)
      BY <3>3 DEF DropTask, Moving, Return
    <3> QED
      BY <1>2, <3>1, <3>2, <3>3 DEF Select
  <2> QED
    BY <2>1, <2>2
<1>3. ASSUME NEW p \in Proc, Check(p) PROVE FALSE
  BY <1>3 DEF Check, Dial, Pong, MarkUp, MarkDown, Return
<1>4. ASSUME NEW p \in Proc, Redistribute(p) PROVE FALSE
  BY <1>4 DEF Redistribute, Lock, DrainOne, Drained, Push, Moving, Return
<1>5. ASSUME NEW d \in Conns, Reject(d) \/ Begin(d) \/ NoWorker(d) \/ Answer(d)
      PROVE  FALSE
  BY <1>5 DEF Reject, Begin, NoWorker, Answer
<1>6. ASSUME NEW d \in Conns, Call(d) PROVE Enqueue(c)
  <2>1. CASE Enqueue(d)
    BY <2>1 DEF Enqueue
  <2>2. CASE ~Enqueue(d)
    BY <1>6, <2>2
       DEF Call, Account, NoRequest, Send, Reply, Timeout, SendFail, BodyError,
           Relay, RelayFail, Finish, CleanLock, CleanOne, Cleaned
  <2> QED
    BY <2>1, <2>2
<1>7. CASE Tick \/ NextWorker
  BY <1>7 DEF Tick, NextWorker
<1>8. CASE UNCHANGED vars
  BY <1>8 DEF vars
<1> QED
  BY <1>1, <1>2, <1>3, <1>4, <1>5, <1>6, <1>7, <1>8
     DEF Next, Fault, Handle, Monitor

\* The tasks of a queue, without their order.
LEMMA TasksOf ==
    ASSUME NEW s \in Seq(Conns)
    PROVE  /\ \A c : c \in Range(s) <=> \E i \in 1 .. Len(s) : s[i] = c
           /\ Range(s) \subseteq Conns
           /\ Range(s) = {} <=> s = <<>>
<1>1. DOMAIN s = 1 .. Len(s) /\ \A i \in 1 .. Len(s) : s[i] \in Conns
  OBVIOUS
<1>2. s = <<>> <=> Len(s) = 0
  OBVIOUS
<1>3. \A c : c \in Range(s) <=> \E i \in 1 .. Len(s) : s[i] = c
  BY <1>1 DEF Range
<1>4. Range(s) \subseteq Conns
  BY <1>1, <1>3
<1>5. Range(s) = {} <=> Len(s) = 0
  <2>1. Len(s) \in Nat
    OBVIOUS
  <2>2. CASE Len(s) = 0
    BY <1>3, <2>2
  <2>3. CASE Len(s) # 0
    <3>1. 1 \in 1 .. Len(s)
      BY <2>1, <2>3
    <3>2. s[1] \in Range(s)
      BY <1>3, <3>1
    <3> QED
      BY <2>3, <3>2
  <2> QED
    BY <2>2, <2>3
<1> QED
  BY <1>2, <1>3, <1>4, <1>5

LEMMA TasksTail ==
    ASSUME NEW s \in Seq(Conns), s # <<>>,
           \A i, j \in 1 .. Len(s) : s[i] = s[j] => i = j
    PROVE  /\ Head(s) \in Range(s)
           /\ Range(Tail(s)) = Range(s) \ {Head(s)}
<1>1. /\ Len(s) \in Nat \ {0} /\ Head(s) = s[1]
      /\ Tail(s) \in Seq(Conns) /\ Len(Tail(s)) = Len(s) - 1
      /\ \A i \in 1 .. Len(Tail(s)) : Tail(s)[i] = s[i + 1]
  BY TailPlaces
<1>2. Head(s) \in Range(s)
  BY <1>1, TasksOf
<1>3. ASSUME NEW c \in Range(Tail(s)) PROVE c \in Range(s) \ {Head(s)}
  <2>1. PICK i \in 1 .. Len(Tail(s)) : Tail(s)[i] = c
    BY <1>1, TasksOf
  <2>2. i + 1 \in 1 .. Len(s) /\ s[i + 1] = c /\ i + 1 # 1 /\ 1 \in 1 .. Len(s)
    BY <1>1, <2>1
  <2> QED
    BY <1>1, <2>2, TasksOf
<1>4. ASSUME NEW c \in Range(s) \ {Head(s)} PROVE c \in Range(Tail(s))
  <2>1. PICK i \in 1 .. Len(s) : s[i] = c
    BY TasksOf
  <2>2. i # 1
    BY <1>1, <1>4, <2>1
  <2>3. i - 1 \in 1 .. Len(Tail(s)) /\ Tail(s)[i - 1] = c
    <3>1. i - 1 \in 1 .. Len(Tail(s)) /\ (i - 1) + 1 = i
      BY <1>1, <2>2
    <3> QED
      BY <1>1, <2>1, <3>1
  <2>4. Tail(s) \in Seq(Conns) /\ \E j \in 1 .. Len(Tail(s)) : Tail(s)[j] = c
    BY <1>1, <2>3
  <2> QED
    BY <2>4, TasksOf
<1> QED
  BY <1>2, <1>3, <1>4

LEMMA TasksAppend ==
    ASSUME NEW s \in Seq(Conns), NEW c \in Conns
    PROVE  Range(Append(s, c)) = Range(s) \cup {c}
<1>1. /\ Append(s, c) \in Seq(Conns) /\ Len(Append(s, c)) = Len(s) + 1
      /\ Len(s) \in Nat
      /\ Append(s, c)[Len(s) + 1] = c
      /\ \A i \in 1 .. Len(s) : Append(s, c)[i] = s[i]
  BY AppendPlaces
<1>2. ASSUME NEW d \in Range(Append(s, c)) PROVE d \in Range(s) \cup {c}
  <2>1. PICK i \in 1 .. Len(Append(s, c)) : Append(s, c)[i] = d
    BY <1>1, TasksOf
  <2>2. CASE i = Len(s) + 1
    BY <1>1, <2>1, <2>2
  <2>3. CASE i # Len(s) + 1
    <3>1. i \in 1 .. Len(s)
      BY <1>1, <2>3
    <3> QED
      BY <1>1, <2>1, <3>1, TasksOf
  <2> QED
    BY <2>2, <2>3
<1>3. c \in Range(Append(s, c))
  <2>1. Len(s) + 1 \in 1 .. Len(Append(s, c))
    BY <1>1
  <2> QED
    BY <1>1, <2>1, TasksOf
<1>4. ASSUME NEW d \in Range(s) PROVE d \in Range(Append(s, c))
  <2>1. PICK i \in 1 .. Len(s) : s[i] = d
    BY TasksOf
  <2>2. i \in 1 .. Len(Append(s, c))
    BY <1>1
  <2> QED
    BY <1>1, <2>1, <2>2, TasksOf
<1> QED
  BY <1>2, <1>3, <1>4

\* What has been told, by what has been written.
LEMMA ToldIs ==
    /\ Told(<<>>) = "nothing"
    /\ Told(<<"relay">>) = "relayed"
    /\ Told(<<"relay", "200">>) = "served"
    /\ Told(<<"gone">>) = "cut"
    /\ \A s \in {<<"502">>, <<"gone", "502">>} : Told(s) = "failed"
    /\ \A s \in {<<"503">>, <<"4xx">>} : Told(s) = "refused"
<1>1. \A x, y : <<x>> # <<>> /\ <<x, y>> # <<>>
  OBVIOUS
<1>2. \A x, y, z : <<x>> # <<y, z>>
  OBVIOUS
<1>3. \A x, y : <<x>> = <<y>> => x = y
  OBVIOUS
<1>4. \A x, y, v, w : <<x, y>> = <<v, w>> => x = v
  OBVIOUS
<1>5. Told(<<>>) = "nothing"
  BY <1>1 DEF Told
<1>6. Told(<<"relay">>) = "relayed"
  BY <1>1, <1>2, <1>3 DEF Told
<1>7. Told(<<"relay", "200">>) = "served"
  BY <1>1, <1>2, <1>4 DEF Told
<1>8. Told(<<"gone">>) = "cut"
  BY <1>1, <1>2, <1>3 DEF Told
<1>9. Told(<<"502">>) = "failed"
  BY <1>1, <1>2, <1>3 DEF Told
<1>10. Told(<<"gone", "502">>) = "failed"
  BY <1>1, <1>2, <1>4 DEF Told
<1>11. \A s \in {<<"503">>, <<"4xx">>} : Told(s) = "refused"
  BY <1>1, <1>2, <1>3 DEF Told
<1> QED
  BY <1>5, <1>6, <1>7, <1>8, <1>9, <1>10, <1>11

\* Everything that TaskBoard knows of but the tasks posted.
boardVars == <<queue, pend, mu, resp>>

\* The tasks posted, when nobody posts one.
LEMMA PostedStays ==
    ASSUME IInv, [Next]_vars, \A c \in Conns : ~Enqueue(c)
    PROVE  {c \in Conns : Enqueued(c)}' = {c \in Conns : Enqueued(c)}
  BY EnqueuedStays, EnqueuedOnce

\* mu and what is written are functions that a step changes at one place.
LEMMA BoardTypes ==
    ASSUME IInv
    PROVE  /\ queue \in [Worker -> Seq(Conns)] /\ pend \in [Proc -> Seq(Conns)]
           /\ mu \in [Worker -> Proc \cup {None}]
           /\ resp \in [Conns -> Seq(Response)]
  BY DEF IInv, TypeOK

LEMMA ToldStays ==
    ASSUME UNCHANGED resp
    PROVE  UNCHANGED [c \in Conns |-> Told(resp[c])]
  OBVIOUS

\* One task leaves or enters a queue or a hand.
LEMMA QueuedChange ==
    ASSUME NEW w \in Worker, NEW S,
           queue \in [Worker -> Seq(Conns)],
           NEW s, queue' = [queue EXCEPT ![w] = s], Range(s) = S
    PROVE  [v \in Worker |-> Range(queue[v])]' =
              [[v \in Worker |-> Range(queue[v])] EXCEPT ![w] = S]
<1>1. \A v \in Worker : Range(queue'[v]) = IF v = w THEN S ELSE Range(queue[v])
  OBVIOUS
<1> QED
  BY <1>1

LEMMA HandChange ==
    ASSUME NEW p \in Proc, NEW S,
           pend \in [Proc -> Seq(Conns)],
           NEW s, pend' = [pend EXCEPT ![p] = s], Range(s) = S
    PROVE  [q \in Proc |-> Range(pend[q])]' =
              [[q \in Proc |-> Range(pend[q])] EXCEPT ![p] = S]
<1>1. \A q \in Proc : Range(pend'[q]) = IF q = p THEN S ELSE Range(pend[q])
  OBVIOUS
<1> QED
  BY <1>1

\* A goroutine that holds a mutex holds that of the worker it is at.
LEMMA LetGoes ==
    ASSUME IInv, NEW p \in Proc, at[p] \in Worker,
           mu' = [mu EXCEPT ![at[p]] = None], Holds(p)
    PROVE  mu' = [w \in Worker |-> IF mu[w] = p THEN None ELSE mu[w]]
<1>1. mu \in [Worker -> Proc \cup {None}]
  BY BoardTypes
<1>2. \A w \in Worker : mu[w] = p <=> w = at[p]
  BY DEF IInv, LockOwner
<1> QED
  BY <1>1, <1>2

\* The head of what p has in hand leaves it.
LEMMA LeaveStep ==
    ASSUME IInv, PlaceInv, HandInv, NEW p \in Proc, pend[p] # <<>>,
           Moving(p, Tail(pend[p])), UNCHANGED resp,
           {c \in Conns : Enqueued(c)}' = {c \in Conns : Enqueued(c)}
    PROVE  Board!Leave(Head(pend[p]), p)
<1> DEFINE c == Head(pend[p])
           t == Tail(pend[p])
<1>1. pend[p] \in Seq(Conns) /\ pend \in [Proc -> Seq(Conns)] /\ t \in Seq(Conns)
  BY BoardTypes
<1>2. c \in Range(pend[p]) /\ Range(t) = Range(pend[p]) \ {c}
  <2>1. \A i, j \in 1 .. Len(pend[p]) : pend[p][i] = pend[p][j] => i = j
    BY DEF PlaceInv, MovedOnce
  <2> QED
    BY <1>1, <2>1, TasksTail
<1>3. at[p] \in Worker /\ mu[at[p]] = p
  BY HandHolds
<1>4. pend' = [pend EXCEPT ![p] = t]
  BY DEF Moving
<1>5. [q \in Proc |-> Range(pend[q])]' =
         [[q \in Proc |-> Range(pend[q])] EXCEPT ![p] = Range(pend[p]) \ {c}]
  BY <1>1, <1>2, <1>4, HandChange
<1>6. Range(pend[p]) = {c} <=> t = <<>>
  <2>1. Range(t) = {} <=> t = <<>>
    BY <1>1, TasksOf
  <2> QED
    BY <1>2, <2>1
<1>7. CASE t = <<>>
  <2>1. mu' = [mu EXCEPT ![at[p]] = None]
    BY <1>7 DEF Moving
  <2>2. mu' = [w \in Worker |-> IF mu[w] = p THEN None ELSE mu[w]]
    BY <1>3, <2>1, LetGoes DEF IInv, LockOwner
  <2> HIDE DEF c, t
  <2> QED
    BY <1>2, <1>3, <1>5, <1>6, <1>7, <2>2, ToldStays DEF Board!Leave, Board!LetGo, c
<1>8. CASE t # <<>>
  <2>1. mu' = mu
    BY <1>8 DEF Moving
  <2> HIDE DEF c, t
  <2> QED
    BY <1>2, <1>3, <1>5, <1>6, <1>8, <2>1, ToldStays DEF Board!Leave, c
<1> QED
  BY <1>7, <1>8

\* What a step does to what TaskBoard knows: nothing, or one of these.
LEMMA NextBoardVars ==
    ASSUME IInv, [Next]_vars
    PROVE  \/ UNCHANGED boardVars
           \/ \E p \in Proc : Lock(p) \/ DrainOne(p) \/ Drained(p) \/ Push(p) \/ DropTask(p)
           \/ \E c \in Conns : \/ Enqueue(c) \/ CleanLock(c) \/ CleanOne(c) \/ Cleaned(c)
                               \/ Reject(c) \/ NoWorker(c) \/ Answer(c)
                               \/ Relay(c) \/ RelayFail(c) \/ Finish(c)
<1> USE DEF procVars, envVars, boardVars
<1>1. ASSUME NEW w \in Worker, Crash(w) \/ Restart(w) \/ Hang(w)
      PROVE  UNCHANGED boardVars
  BY <1>1 DEF Crash, Restart, Hang
<1>2. ASSUME NEW p \in Proc, Select(p), ~DropTask(p) PROVE UNCHANGED boardVars
  BY <1>2 DEF Select, ScanHit, ScanMiss, Commit
<1>3. ASSUME NEW p \in Proc, Check(p) PROVE UNCHANGED boardVars
  BY <1>3 DEF Check, Dial, Pong, MarkUp, MarkDown
<1>4. ASSUME NEW c \in Conns, Begin(c) PROVE UNCHANGED boardVars
  BY <1>4 DEF Begin
<1>5. ASSUME NEW c \in Conns, \/ Account(c) \/ NoRequest(c) \/ Send(c) \/ Reply(c)
                              \/ Timeout(c) \/ SendFail(c) \/ BodyError(c)
      PROVE  UNCHANGED boardVars
  BY <1>5 DEF Account, NoRequest, Send, Reply, Timeout, SendFail, BodyError
<1>6. CASE Tick \/ NextWorker
  BY <1>6 DEF Tick, NextWorker
<1>7. CASE UNCHANGED vars
  BY <1>7 DEF vars
<1> QED
  BY <1>1, <1>2, <1>3, <1>4, <1>5, <1>6, <1>7
     DEF Next, Fault, Handle, Monitor, Proc, Redistribute, Call

\* A task enters a queue.
LEMMA PostStep ==
    ASSUME IInv, [Next]_vars, NEW c \in Conns, Enqueue(c)
    PROVE  Board!Post(c, at[c])
<1>0. /\ at[c] \in Worker /\ pc[c] = "enqueue" /\ back[c] = "503" /\ resp[c] = <<>>
      /\ pc \in [Proc -> PC] /\ c \in Proc
  BY DEF Enqueue, At, IInv, PcInv, RespInv, TypeOK, Proc
<1>1. /\ queue' = [queue EXCEPT ![at[c]] = Append(queue[at[c]], c)]
      /\ pc' = [pc EXCEPT ![c] = "account"] /\ back' = back
      /\ UNCHANGED <<pend, mu, resp>>
  BY DEF Enqueue, Goto, procVars
<1>2. ~Enqueued(c) /\ Enqueued(c)'
  BY <1>0, <1>1 DEF Enqueued
<1>3. ASSUME NEW d \in Conns, d # c PROVE Enqueued(d)' <=> Enqueued(d)
  BY <1>0, <1>1, <1>3 DEF Enqueued, Proc
<1>4. {d \in Conns : Enqueued(d)}' = {d \in Conns : Enqueued(d)} \cup {c}
  BY <1>2, <1>3
<1>5. Range(Append(queue[at[c]], c)) = Range(queue[at[c]]) \cup {c}
  BY <1>0, BoardTypes, TasksAppend
<1>6. [v \in Worker |-> Range(queue[v])]' =
         [[v \in Worker |-> Range(queue[v])] EXCEPT ![at[c]] = Range(queue[at[c]]) \cup {c}]
  BY <1>0, <1>1, <1>5, BoardTypes, QueuedChange
<1>7. Told(resp[c]) = "nothing"
  BY <1>0, ToldIs
<1> QED
  BY <1>0, <1>1, <1>2, <1>4, <1>6, <1>7, ToldStays DEF Board!Post

\* A mutex is taken: redistributeTasks, cleanCompletedTasks.
LEMMA GrabStep ==
    ASSUME IInv, NEW p \in Proc, pc[p] \in {"rlock", "clean"}, Free(at[p]),
           mu' = [mu EXCEPT ![at[p]] = p], UNCHANGED <<queue, pend, resp>>,
           {c \in Conns : Enqueued(c)}' = {c \in Conns : Enqueued(c)}
    PROVE  at[p] \in Worker /\ Board!Grab(p, at[p])
<1>1. at[p] \in Worker /\ ~Holds(p)
  BY DEF IInv, PcInv, Holds
<1>2. \A v \in Worker : mu[v] # p
  BY <1>1 DEF IInv, LockOwner
<1> QED
  BY <1>1, <1>2, ToldStays DEF Board!Grab, Free

\* A task is taken from the queue of a worker whose mutex is held.
LEMMA TakenFrom ==
    ASSUME IInv, PlaceInv, NEW p \in Proc, pc[p] \in {"drain", "cleaning"},
           queue[at[p]] # <<>>,
           queue' = [queue EXCEPT ![at[p]] = Tail(queue[at[p]])]
    PROVE  /\ at[p] \in Worker /\ mu[at[p]] = p
           /\ Head(queue[at[p]]) \in Range(queue[at[p]])
           /\ Head(queue[at[p]]) \in Conns
           /\ [v \in Worker |-> Range(queue[v])]' =
                 [[v \in Worker |-> Range(queue[v])] EXCEPT ![at[p]] =
                     Range(queue[at[p]]) \ {Head(queue[at[p]])}]
<1>1. at[p] \in Worker /\ Holds(p)
  BY DEF IInv, PcInv, Holds
<1>2. mu[at[p]] = p
  BY <1>1 DEF IInv, LockOwner
<1>3. queue[at[p]] \in Seq(Conns) /\ queue \in [Worker -> Seq(Conns)]
  BY <1>1, BoardTypes
<1>4. \A i, j \in 1 .. Len(queue[at[p]]) : queue[at[p]][i] = queue[at[p]][j] => i = j
  BY <1>1 DEF PlaceInv, QueuedOnce
<1>5. /\ Head(queue[at[p]]) \in Range(queue[at[p]])
      /\ Range(Tail(queue[at[p]])) = Range(queue[at[p]]) \ {Head(queue[at[p]])}
  BY <1>3, <1>4, TasksTail
<1>6. [v \in Worker |-> Range(queue[v])]' =
         [[v \in Worker |-> Range(queue[v])] EXCEPT ![at[p]] =
             Range(queue[at[p]]) \ {Head(queue[at[p]])}]
  BY <1>1, <1>3, <1>5, QueuedChange
<1>7. Head(queue[at[p]]) \in Conns
  BY <1>3, <1>5, TasksOf
<1> QED
  BY <1>1, <1>2, <1>5, <1>6, <1>7

LEMMA LiftStep ==
    ASSUME IInv, PlaceInv, NEW p \in Proc, DrainOne(p),
           {c \in Conns : Enqueued(c)}' = {c \in Conns : Enqueued(c)}
    PROVE  \E w \in Worker, c \in Conns : Board!Lift(c, p, w)
<1> DEFINE w == at[p]
           c == Head(queue[at[p]])
<1>1. /\ pc[p] = "drain" /\ queue[w] # <<>>
      /\ queue' = [queue EXCEPT ![w] = Tail(queue[w])]
      /\ pend' = [pend EXCEPT ![p] = Append(pend[p], c)]
      /\ UNCHANGED <<mu, resp>>
  BY DEF DrainOne, At
<1>2. /\ w \in Worker /\ mu[w] = p /\ c \in Range(queue[w]) /\ c \in Conns
      /\ [v \in Worker |-> Range(queue[v])]' =
            [[v \in Worker |-> Range(queue[v])] EXCEPT ![w] = Range(queue[w]) \ {c}]
  BY <1>1, TakenFrom
<1> HIDE DEF w, c
<1>3. Range(Append(pend[p], c)) = Range(pend[p]) \cup {c}
  BY <1>2, BoardTypes, TasksAppend
<1>4. [q \in Proc |-> Range(pend[q])]' =
         [[q \in Proc |-> Range(pend[q])] EXCEPT ![p] = Range(pend[p]) \cup {c}]
  BY <1>1, <1>3, BoardTypes, HandChange
<1>5. Board!Lift(c, p, w)
  BY <1>1, <1>2, <1>4, ToldStays DEF Board!Lift
<1> QED
  BY <1>2, <1>5

\* cleanCompletedTasks runs after the client has been served.
LEMMA ClearStep ==
    ASSUME IInv, PlaceInv, NEW d \in Conns, CleanOne(d),
           {c \in Conns : Enqueued(c)}' = {c \in Conns : Enqueued(c)}
    PROVE  \E w \in Worker, c \in Conns : Board!Clear(c, d, w)
<1> DEFINE w == at[d]
           c == Head(queue[at[d]])
<1>1. /\ pc[d] = "cleaning" /\ queue[w] # <<>> /\ d \in Proc
      /\ queue' = [queue EXCEPT ![w] = Tail(queue[w])]
      /\ UNCHANGED <<pend, mu, resp>>
  BY DEF CleanOne, At, procVars, Proc
<1>2. /\ w \in Worker /\ mu[w] = d /\ c \in Range(queue[w]) /\ c \in Conns
      /\ [v \in Worker |-> Range(queue[v])]' =
            [[v \in Worker |-> Range(queue[v])] EXCEPT ![w] = Range(queue[w]) \ {c}]
  BY <1>1, TakenFrom
<1> HIDE DEF w, c
<1>3. Told(resp[d]) = "served"
  BY <1>1, ToldIs DEF IInv, RespInv
<1>4. Board!Clear(c, d, w)
  BY <1>1, <1>2, <1>3, ToldStays DEF Board!Clear
<1> QED
  BY <1>2, <1>4

\* A mutex is given back by a goroutine with nothing in hand.
LEMMA ReleaseStep ==
    ASSUME IInv, NEW p \in Proc, pc[p] \in {"drain", "cleaning"}, pend[p] = <<>>,
           mu' = [mu EXCEPT ![at[p]] = None], UNCHANGED <<queue, pend, resp>>,
           {c \in Conns : Enqueued(c)}' = {c \in Conns : Enqueued(c)}
    PROVE  Board!Release(p)
<1>1. at[p] \in Worker /\ Holds(p)
  BY DEF IInv, PcInv, Holds
<1>2. mu[at[p]] = p
  BY <1>1 DEF IInv, LockOwner
<1>3. mu' = [w \in Worker |-> IF mu[w] = p THEN None ELSE mu[w]]
  BY <1>1, LetGoes
<1>4. Range(pend[p]) = {}
  BY TasksOf, BoardTypes
<1> QED
  BY <1>1, <1>2, <1>3, <1>4, ToldStays DEF Board!Release, Board!LetGo

\* One client is told something.
LEMMA ToldChange ==
    ASSUME NEW c \in Conns, NEW s, NEW a, resp \in [Conns -> Seq(Response)],
           resp' = [resp EXCEPT ![c] = s], Told(resp'[c]) = a
    PROVE  [d \in Conns |-> Told(resp[d])]' = [[d \in Conns |-> Told(resp[d])] EXCEPT ![c] = a]
<1>1. \A d \in Conns : d # c => resp'[d] = resp[d]
  OBVIOUS
<1>2. \A d \in Conns : d # c => Told(resp'[d]) = Told(resp[d])
  BY <1>1
<1> QED
  BY <1>2

LEMMA WritesOne ==
    ASSUME NEW c \in Conns, NEW r, Write(c, r), resp \in [Conns -> Seq(Response)]
    PROVE  /\ resp' = [resp EXCEPT ![c] = Append(resp[c], r)]
           /\ resp'[c] = Append(resp[c], r)
  BY DEF Write

LEMMA AppendFirst == ASSUME NEW x PROVE Append(<<>>, x) = <<x>>
  OBVIOUS

LEMMA RefuseStep ==
    ASSUME IInv, NEW c \in Conns,
           Reject(c) \/ NoWorker(c) \/ (Answer(c) /\ back[c] = "503")
    PROVE  Board!Refuse(c)
<1>1. resp \in [Conns -> Seq(Response)]
  BY BoardTypes
<1>2. resp[c] = <<>> /\ ~Enqueued(c)
  <2>1. CASE Reject(c)
    BY <2>1, NoneIsNoWorker DEF Reject, At, IInv, PcInv, RespInv, Enqueued, Proc
  <2>2. CASE NoWorker(c)
    BY <2>2 DEF NoWorker, At, IInv, RespInv, Enqueued
  <2>3. CASE Answer(c) /\ back[c] = "503"
    BY <2>3 DEF Answer, At, IInv, RespInv, Enqueued
  <2> QED
    BY <2>1, <2>2, <2>3
<1>3. PICK r \in {"4xx", "503"} : Write(c, r)
  BY DEF Reject, NoWorker, Answer
<1>4. resp' = [resp EXCEPT ![c] = Append(resp[c], r)] /\ resp'[c] = <<r>>
  BY <1>1, <1>2, <1>3, WritesOne, AppendFirst
<1>5. Told(resp'[c]) = "refused"
  BY <1>4, ToldIs
<1>6. Told(resp[c]) = "nothing"
  BY <1>2, ToldIs
<1>7. [d \in Conns |-> Told(resp[d])]' = [[d \in Conns |-> Told(resp[d])] EXCEPT ![c] = "refused"]
  BY <1>1, <1>4, <1>5, ToldChange
<1> QED
  BY <1>2, <1>6, <1>7 DEF Board!Refuse

\* What a client with a task is told, one thing after the other.
LEMMA TellStep ==
    ASSUME IInv, NEW c \in Conns,
           Relay(c) \/ RelayFail(c) \/ Finish(c) \/ (Answer(c) /\ back[c] # "503")
    PROVE  \E a \in {t[2] : t \in Board!Answers} : Board!Tell(c, a)
<1>1. resp \in [Conns -> Seq(Response)]
  BY BoardTypes
<1>2. back[c] = "502" /\ Enqueued(c)
  <2>1. CASE Relay(c) \/ RelayFail(c) \/ Finish(c)
    BY <2>1 DEF Relay, RelayFail, Finish, At, IInv, RespInv, Enqueued
  <2>2. CASE Answer(c) /\ back[c] # "503"
    BY <2>2 DEF IInv, TypeOK, Enqueued, Proc
  <2> QED
    BY <2>1, <2>2
<1>3. ASSUME NEW s, NEW r, NEW a, Write(c, r), Append(resp[c], r) = s,
             resp'[c] = s => Told(resp'[c]) = a, <<Told(resp[c]), a>> \in Board!Answers
      PROVE  \E b \in {t[2] : t \in Board!Answers} : Board!Tell(c, b)
  <2>1. resp' = [resp EXCEPT ![c] = s] /\ resp'[c] = s
    BY <1>1, <1>3, WritesOne
  <2>2. [d \in Conns |-> Told(resp[d])]' = [[d \in Conns |-> Told(resp[d])] EXCEPT ![c] = a]
    BY <1>1, <1>3, <2>1, ToldChange
  <2>3. Board!Tell(c, a)
    BY <1>2, <1>3, <2>2 DEF Board!Tell
  <2>4. <<Told(resp[c]), a>>[2] = a
    OBVIOUS
  <2>5. a \in {t[2] : t \in Board!Answers}
    BY <1>3, <2>4
  <2> QED
    BY <2>3, <2>5
<1>4. CASE Relay(c)
  <2>1. resp[c] = <<>> /\ Write(c, "relay")
    BY <1>4 DEF Relay, At, IInv, RespInv
  <2>2. Append(resp[c], "relay") = <<"relay">>
    BY <2>1, AppendFirst
  <2>3. resp'[c] = <<"relay">> => Told(resp'[c]) = "relayed"
    BY ToldIs
  <2>4. <<Told(resp[c]), "relayed">> \in Board!Answers
    BY <2>1, ToldIs DEF Board!Answers
  <2> QED
    BY <1>3, <2>1, <2>2, <2>3, <2>4
<1>5. CASE RelayFail(c)
  <2>1. resp[c] = <<>> /\ Write(c, "gone")
    BY <1>5 DEF RelayFail, At, IInv, RespInv
  <2>2. Append(resp[c], "gone") = <<"gone">>
    BY <2>1, AppendFirst
  <2>3. resp'[c] = <<"gone">> => Told(resp'[c]) = "cut"
    BY ToldIs
  <2>4. <<Told(resp[c]), "cut">> \in Board!Answers
    BY <2>1, ToldIs DEF Board!Answers
  <2> QED
    BY <1>3, <2>1, <2>2, <2>3, <2>4
<1>6. CASE Finish(c)
  <2>1. resp[c] = <<"relay">> /\ Write(c, "200")
    BY <1>6 DEF Finish, At, IInv, RespInv
  <2>2. Append(resp[c], "200") = <<"relay", "200">>
    BY <2>1, AppendSecond
  <2>3. resp'[c] = <<"relay", "200">> => Told(resp'[c]) = "served"
    BY ToldIs
  <2>4. <<Told(resp[c]), "served">> \in Board!Answers
    BY <2>1, ToldIs DEF Board!Answers
  <2> QED
    BY <1>3, <2>1, <2>2, <2>3, <2>4
<1>7. CASE Answer(c)
  <2>0. Write(c, "502") /\ (resp[c] = <<>> \/ resp[c] = <<"gone">>)
    BY <1>2, <1>7 DEF Answer, At, IInv, RespInv
  <2>1. CASE resp[c] = <<>>
    <3>1. Append(resp[c], "502") = <<"502">>
      BY <2>1, AppendFirst
    <3>2. resp'[c] = <<"502">> => Told(resp'[c]) = "failed"
      BY ToldIs
    <3>3. <<Told(resp[c]), "failed">> \in Board!Answers
      BY <2>1, ToldIs DEF Board!Answers
    <3> QED
      BY <1>3, <2>0, <3>1, <3>2, <3>3
  <2>2. CASE resp[c] = <<"gone">>
    <3>1. Append(resp[c], "502") = <<"gone", "502">>
      BY <2>2, AppendSecond
    <3>2. resp'[c] = <<"gone", "502">> => Told(resp'[c]) = "failed"
      BY ToldIs
    <3>3. <<Told(resp[c]), "failed">> \in Board!Answers
      BY <2>2, ToldIs DEF Board!Answers
    <3> QED
      BY <1>3, <2>0, <3>1, <3>2, <3>3
  <2> QED
    BY <2>0, <2>1, <2>2
<1> QED
  BY <1>4, <1>5, <1>6, <1>7

\* Every step is one of TaskBoard's, or changes nothing that it knows.
LEMMA NextBoard ==
    ASSUME IInv, PlaceInv, HandInv, [Next]_vars
    PROVE  [Board!Next]_(Board!vars)
<1> DEFINE Posted == {c \in Conns : Enqueued(c)}
<1>0. Proc = Board!Movers
  BY DEF Proc, Board!Movers
<1>1. CASE \E c \in Conns : Enqueue(c)
  <2>1. PICK c \in Conns : Enqueue(c)
    BY <1>1
  <2>2. Board!Post(c, at[c]) /\ at[c] \in Worker
    BY <2>1, PostStep DEF Enqueue, At, IInv, PcInv, Proc
  <2> QED
    BY <2>2 DEF Board!Next
<1>2. CASE \A c \in Conns : ~Enqueue(c)
  <2>0. UNCHANGED Posted
    BY <1>2, PostedStays
  <2>1. CASE UNCHANGED boardVars
    <3>1. UNCHANGED <<queue, pend, mu, resp>>
      BY <2>1 DEF boardVars
    <3> QED
      BY <2>0, <3>1, ToldStays DEF Board!vars
  <2>2. ASSUME NEW p \in Proc, Lock(p) PROVE Board!Next
    <3>1. /\ pc[p] = "rlock" /\ Free(at[p]) /\ mu' = [mu EXCEPT ![at[p]] = p]
          /\ UNCHANGED <<queue, pend, resp>>
      BY <2>2 DEF Lock, At
    <3>2. at[p] \in Worker /\ Board!Grab(p, at[p])
      BY <2>0, <3>1, GrabStep
    <3> QED
      BY <1>0, <3>2 DEF Board!Next
  <2>3. ASSUME NEW p \in Proc, DrainOne(p) PROVE Board!Next
    <3>1. \E w \in Worker, c \in Conns : Board!Lift(c, p, w)
      BY <2>0, <2>3, LiftStep
    <3> QED
      BY <1>0, <3>1 DEF Board!Next
  <2>4. ASSUME NEW p \in Proc, Drained(p) PROVE [Board!Next]_(Board!vars)
    <3>0. pc[p] = "drain" /\ Moving(p, pend[p]) /\ UNCHANGED <<queue, resp>>
      BY <2>4 DEF Drained, At
    <3>1. pend' = pend
      BY <3>0, BoardTypes DEF Moving
    <3>2. CASE pend[p] = <<>>
      <4>1. mu' = [mu EXCEPT ![at[p]] = None]
        BY <3>0, <3>2 DEF Moving
      <4>2. Board!Release(p)
        BY <2>0, <3>0, <3>1, <3>2, <4>1, ReleaseStep
      <4> QED
        BY <1>0, <4>2 DEF Board!Next
    <3>3. CASE pend[p] # <<>>
      <4>1. mu' = mu
        BY <3>0, <3>3 DEF Moving
      <4> QED
        BY <2>0, <3>0, <3>1, <4>1, ToldStays DEF Board!vars
    <3> QED
      BY <3>2, <3>3
  <2>5. ASSUME NEW p \in Proc, Push(p) PROVE Board!Next
    <3> DEFINE c == Head(pend[p])
    <3>0. /\ pend[p] # <<>> /\ look[p] \in Worker
          /\ Moving(p, Tail(pend[p])) /\ UNCHANGED resp
          /\ queue' = [queue EXCEPT ![look[p]] = Append(queue[look[p]], c)]
      BY <2>5 DEF Push, At, IInv, PcInv, Holds
    <3>1. Board!Leave(c, p)
      BY <2>0, <3>0, LeaveStep
    <3>2. c \in Conns
      BY <3>0, BoardTypes, TailPlaces
    <3> HIDE DEF c
    <3>3. Range(Append(queue[look[p]], c)) = Range(queue[look[p]]) \cup {c}
      BY <3>0, <3>2, BoardTypes, TasksAppend
    <3>4. [v \in Worker |-> Range(queue[v])]' =
             [[v \in Worker |-> Range(queue[v])] EXCEPT ![look[p]] =
                 Range(queue[look[p]]) \cup {c}]
      BY <3>0, <3>3, BoardTypes, QueuedChange
    <3>5. Board!Put(c, p, look[p])
      BY <3>0, <3>1, <3>4 DEF Board!Put
    <3> QED
      BY <1>0, <3>0, <3>2, <3>5 DEF Board!Next
  <2>6. ASSUME NEW p \in Proc, DropTask(p) PROVE Board!Next
    <3> DEFINE c == Head(pend[p])
    <3>0. /\ pend[p] # <<>> /\ Moving(p, Tail(pend[p])) /\ UNCHANGED <<queue, resp>>
      BY <2>6 DEF DropTask, At, IInv, PcInv, Holds
    <3>1. Board!Leave(c, p)
      BY <2>0, <3>0, LeaveStep
    <3>2. c \in Conns
      BY <3>0, BoardTypes, TailPlaces
    <3> HIDE DEF c
    <3>3. Board!Discard(c, p)
      BY <3>0, <3>1 DEF Board!Discard
    <3> QED
      BY <1>0, <3>2, <3>3 DEF Board!Next
  <2>7. ASSUME NEW c \in Conns, CleanLock(c) PROVE Board!Next
    <3>1. /\ pc[c] = "clean" /\ Free(at[c]) /\ mu' = [mu EXCEPT ![at[c]] = c]
          /\ UNCHANGED <<queue, pend, resp>> /\ c \in Proc
      BY <2>7 DEF CleanLock, At, procVars, Proc
    <3>2. at[c] \in Worker /\ Board!Grab(c, at[c])
      BY <2>0, <3>1, GrabStep
    <3> QED
      BY <1>0, <3>1, <3>2 DEF Board!Next
  <2>8. ASSUME NEW c \in Conns, CleanOne(c) PROVE Board!Next
    <3>1. \E w \in Worker, d \in Conns : Board!Clear(d, c, w)
      BY <2>0, <2>8, ClearStep
    <3> QED
      BY <3>1 DEF Board!Next
  <2>9. ASSUME NEW c \in Conns, Cleaned(c) PROVE Board!Next
    <3>1. /\ pc[c] = "cleaning" /\ mu' = [mu EXCEPT ![at[c]] = None]
          /\ UNCHANGED <<queue, pend, resp>> /\ c \in Proc
      BY <2>9 DEF Cleaned, At, procVars, Proc
    <3>2. pend[c] = <<>>
      BY <3>1 DEF HandInv
    <3>3. Board!Release(c)
      BY <2>0, <3>1, <3>2, ReleaseStep
    <3> QED
      BY <1>0, <3>1, <3>3 DEF Board!Next
  <2>10. ASSUME NEW c \in Conns, \/ Reject(c) \/ NoWorker(c) \/ Answer(c)
                                 \/ Relay(c) \/ RelayFail(c) \/ Finish(c)
         PROVE  Board!Next
    <3>1. UNCHANGED <<queue, pend, mu>>
      BY <2>10 DEF Reject, NoWorker, Answer, Relay, RelayFail, Finish, procVars
    <3>2. Board!Refuse(c) \/ \E a \in {t[2] : t \in Board!Answers} : Board!Tell(c, a)
      BY <2>10, RefuseStep, TellStep
    <3> QED
      BY <2>0, <3>1, <3>2 DEF Board!Next
  <2> QED
    BY <1>2, <2>1, <2>2, <2>3, <2>4, <2>5, <2>6, <2>7, <2>8, <2>9, <2>10, NextBoardVars
<1> QED
  BY <1>1, <1>2

LEMMA InitBoard == Init => Board!Init /\ HandInv
<1> SUFFICES ASSUME Init PROVE Board!Init /\ HandInv
  OBVIOUS
<1>1. \A c \in Conns : ~Enqueued(c) /\ resp[c] = <<>>
  BY NameAssumption DEF Init, Enqueued, Proc
<1>2. \A c \in Conns : Told(resp[c]) = "nothing"
  BY <1>1, ToldIs
<1>3. Range(<<>>) = {}
  <2>1. <<>> \in Seq(Conns)
    OBVIOUS
  <2> QED
    BY <2>1, TasksOf
<1>4. /\ [w \in Worker |-> Range(queue[w])] = [w \in Worker |-> {}]
      /\ [p \in Proc |-> Range(pend[p])] = [p \in Proc |-> {}]
  BY <1>3 DEF Init
<1>5. HandInv
  BY DEF Init, HandInv
<1> QED
  BY <1>1, <1>2, <1>4, <1>5 DEF Board!Init, Board!Movers, Proc, Init

LEMMA SpecHand == Spec => []HandInv
  BY InitBoard, NextHandInv, Invariance, PTL DEF Spec

\* Queues, redistributions and cleaning implement the board of TaskBoard: a task
\* enters the queues once, moves only in the hands of who holds the mutex, never
\* comes back, and its client is told what fits.
THEOREM BoardImplemented == Spec => ImplementsBoard
  BY InitBoard, SpecHand, NextBoard, AlwaysPlaced, Invariance, PTL
     DEF Spec, ImplementsBoard, Board!Spec

\* The sets of tasks that wait, and that are being moved.
Queued == [w \in Worker |-> Range(queue[w])]
InHand == [p \in Proc |-> Range(pend[p])]

\* The task of c is in a queue or in the hands of who moves it.
Waiting(c) == (\E w \in Worker : c \in Queued[w]) \/ (\E p \in Proc : c \in InHand[p])

\* What a step can do with them: a new task comes, one goes from a queue to
\* nowhere or to a hand, one goes from a hand to nowhere or to a queue.
Comes(c, w)    == /\ ~Enqueued(c)
                  /\ Queued' = [Queued EXCEPT ![w] = @ \cup {c}] /\ UNCHANGED InHand
Taken(c, w)    == /\ mu[w] # None /\ c \in Queued[w]
                  /\ Queued' = [Queued EXCEPT ![w] = @ \ {c}]
Goes(c, w)     == Taken(c, w) /\ UNCHANGED InHand
Lifts(c, w, p) == Taken(c, w) /\ InHand' = [InHand EXCEPT ![p] = @ \cup {c}]
Left(c, p)     == c \in InHand[p] /\ InHand' = [InHand EXCEPT ![p] = @ \ {c}]
Drops(c, p)    == Left(c, p) /\ UNCHANGED Queued
Puts(c, w, p)  == Left(c, p) /\ Queued' = [Queued EXCEPT ![w] = @ \cup {c}]

LEMMA BoardMoves ==
    ASSUME [Board!Next]_(Board!vars)
    PROVE  \/ UNCHANGED <<Queued, InHand>>
           \/ \E c \in Conns, w \in Worker : Comes(c, w) \/ Goes(c, w)
           \/ \E c \in Conns, w \in Worker, p \in Proc : Lifts(c, w, p) \/ Puts(c, w, p)
           \/ \E c \in Conns, p \in Proc : Drops(c, p)
<1>0. Proc = Board!Movers /\ None \notin Proc /\ Conns \subseteq Proc
  BY NameAssumption DEF Proc, Board!Movers
<1>1. CASE UNCHANGED Board!vars
  BY <1>1 DEF Board!vars, Queued, InHand
<1>2. ASSUME NEW c \in Conns, NEW w \in Worker, Board!Post(c, w)
      PROVE  Comes(c, w)
  BY <1>2 DEF Board!Post, Comes, Queued, InHand
<1>3. ASSUME NEW c \in Conns, NEW w \in Worker, NEW d \in Conns, Board!Clear(c, d, w)
      PROVE  Goes(c, w)
  BY <1>0, <1>3 DEF Board!Clear, Goes, Taken, Queued, InHand
<1>4. ASSUME NEW c \in Conns, NEW w \in Worker, NEW p \in Proc, Board!Lift(c, p, w)
      PROVE  Lifts(c, w, p)
  BY <1>0, <1>4 DEF Board!Lift, Lifts, Taken, Queued, InHand
<1>5. ASSUME NEW c \in Conns, NEW w \in Worker, NEW p \in Proc, Board!Put(c, p, w)
      PROVE  Puts(c, w, p)
  BY <1>5 DEF Board!Put, Board!Leave, Puts, Left, Queued, InHand
<1>6. ASSUME NEW c \in Conns, NEW p \in Proc, Board!Discard(c, p)
      PROVE  Drops(c, p)
  BY <1>6 DEF Board!Discard, Board!Leave, Drops, Left, Queued, InHand
<1>7. ASSUME NEW p \in Proc, Board!Release(p) \/ \E w \in Worker : Board!Grab(p, w)
      PROVE  UNCHANGED <<Queued, InHand>>
  BY <1>7 DEF Board!Release, Board!Grab, Queued, InHand
<1>8. CASE Board!Next
  <2>1. CASE \E c \in Conns, w \in Worker :
                \/ Board!Post(c, w)
                \/ \E d \in Conns : Board!Clear(c, d, w)
                \/ \E p \in Proc : Board!Lift(c, p, w) \/ Board!Put(c, p, w)
    BY <1>2, <1>3, <1>4, <1>5, <2>1
  <2>2. CASE \E p \in Proc : \/ Board!Release(p)
                             \/ \E w \in Worker : Board!Grab(p, w)
                             \/ \E c \in Conns : Board!Discard(c, p)
    BY <1>6, <1>7, <2>2
  <2>3. CASE UNCHANGED <<Queued, InHand>>
    BY <2>3
  <2> QED
    BY <1>0, <1>8, <2>1, <2>2, <2>3 DEF Board!Next, Queued, InHand
<1> QED
  BY <1>1, <1>8

\* A task that has left the dispatcher does not come back.
NoReturn == \A c \in Conns : Enqueued(c) /\ ~Waiting(c) => ~Waiting(c)'

\* A task leaves a queue while somebody holds the mutex of that worker.
TakesLocked == \A w \in Worker : ~(Queued[w] \subseteq Queued'[w]) => mu[w] # None

LEMMA NextTakes ==
    ASSUME IInv, PlaceInv, HandInv, [Next]_vars
    PROVE  NoReturn /\ TakesLocked
<1>1. Queued \in [Worker -> SUBSET Conns] /\ InHand \in [Proc -> SUBSET Conns]
  BY BoardTypes, TasksOf DEF Queued, InHand
<1>2. \/ UNCHANGED <<Queued, InHand>>
      \/ \E c \in Conns, w \in Worker : Comes(c, w) \/ Goes(c, w)
      \/ \E c \in Conns, w \in Worker, p \in Proc : Lifts(c, w, p) \/ Puts(c, w, p)
      \/ \E c \in Conns, p \in Proc : Drops(c, p)
  BY NextBoard, BoardMoves
<1>3. ASSUME NEW c \in Conns, Enqueued(c), ~Waiting(c) PROVE ~Waiting(c)'
  <2>1. (\A w \in Worker : c \notin Queued[w]) /\ (\A p \in Proc : c \notin InHand[p])
    BY <1>3 DEF Waiting
  <2>2. (\A w \in Worker : c \notin Queued'[w]) /\ (\A p \in Proc : c \notin InHand'[p])
    BY <1>1, <1>2, <1>3, <2>1 DEF Comes, Goes, Taken, Lifts, Puts, Left, Drops
  <2> QED
    BY <2>2 DEF Waiting, Proc
<1>4. ASSUME NEW w \in Worker, ~(Queued[w] \subseteq Queued'[w]) PROVE mu[w] # None
  BY <1>1, <1>2, <1>4 DEF Comes, Goes, Taken, Lifts, Puts, Left, Drops
<1> QED
  BY <1>3, <1>4 DEF NoReturn, TakesLocked

\* A task that has left the dispatcher never comes back: no redistribution that
\* was under way puts it in a queue again.
THEOREM GoneForGood == Spec => [][NoReturn]_vars
  BY NextTakes, SpecHand, AlwaysPlaced, Invariance, PTL DEF Spec

\* Neither a redistribution nor the handler of a served request takes a task
\* from a queue whose mutex nobody holds.
THEOREM TakenUnderLock == Spec => [][TakesLocked]_vars
  BY NextTakes, SpecHand, AlwaysPlaced, Invariance, PTL DEF Spec
=============================================================================
