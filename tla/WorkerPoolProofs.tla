-------------------------- MODULE WorkerPoolProofs --------------------------
(***************************************************************************)
(* Theorems about WorkerPool, for any number of workers and connections.   *)
(***************************************************************************)
EXTENDS WorkerPool, TLAPS

\* Where a request is, according to the goroutines that could hold it.
HandInv == /\ dispatch = "select" <=> inHand = NoReq
           /\ inHand # NoReq => conn[inHand] = "waiting" /\ answered[inHand] = 0

WorkerInv ==
    \A w \in Workers :
       /\ worker[w] \in {"serve", "tidy"} <=> req[w] # NoReq
       /\ worker[w] = "serve" => /\ conn[req[w]] = "waiting"
                                 /\ answered[req[w]] = 0
                                 /\ inHand # req[w]
       /\ worker[w] = "tidy" => /\ conn[req[w]] = "waiting"
                                /\ answered[req[w]] = 1

ServeInv ==
    \A v, w \in Workers : 
       worker[v] = "serve" /\ worker[w] = "serve" /\ req[v] = req[w] => v = w

AnswerInv ==
    \A c \in Conns :
       /\ conn[c] \in {"idle", "reading", "counted", "submitting"}
             => answered[c] = 0
       /\ answered[c] \in {0, 1}
       /\ conn[c] = "waiting" /\ answered[c] = 0
             => inHand = c \/ \E w \in Workers : Serves(w, c)

\* The inductive invariant: OneHolder is not inductive by itself, for it does
\* not say that the number of responses is bounded or who may listen.
IInv == TypeOK /\ HandInv /\ WorkerInv /\ ServeInv /\ AnswerInv /\ Handoff

LEMMA InitIInv == Init => IInv
  BY NoReqAssumption
     DEF Init, IInv, TypeOK, HandInv, WorkerInv, ServeInv, AnswerInv, Handoff,
         ConnStates

\* Type correctness is preserved by every step on its own but for Respond and
\* Deliver, which use what a worker or dispatch holds.
LEMMA NextTypeOK == IInv /\ [Next]_vars => TypeOK'
<1> SUFFICES ASSUME IInv, [Next]_vars PROVE TypeOK'
  OBVIOUS
<1> USE NoReqAssumption DEF IInv, TypeOK, ConnStates
<1>1. ASSUME NEW c \in Conns, Accept(c) PROVE TypeOK'
  BY <1>1 DEF Accept, poolVars
<1>2. ASSUME NEW c \in Conns, ReadError(c) PROVE TypeOK'
  BY <1>2 DEF ReadError, poolVars
<1>3. ASSUME NEW c \in Conns, Count(c) PROVE TypeOK'
  BY <1>3 DEF Count, poolVars
<1>4. ASSUME NEW c \in Conns, Inline(c) PROVE TypeOK'
  BY <1>4 DEF Inline, poolVars
<1>5. ASSUME NEW c \in Conns, Submit(c) PROVE TypeOK'
  BY <1>5 DEF Submit, poolVars
<1>6. ASSUME NEW c \in Conns, HandToDispatch(c) PROVE TypeOK'
  BY <1>6 DEF HandToDispatch
<1>7. ASSUME NEW w \in Workers, Claim(w) PROVE TypeOK'
  BY <1>7 DEF Claim, connVars
<1>8. ASSUME NEW w \in Workers, Deliver(w) PROVE TypeOK'
  BY <1>8 DEF Deliver, connVars
<1>9. ASSUME NEW c \in Conns, NEW w \in Workers, Steal(c, w) PROVE TypeOK'
  BY <1>9 DEF Steal
<1>10. ASSUME NEW w \in Workers, Respond(w) PROVE TypeOK'
  <2>1. req[w] \in Conns
    BY <1>10 DEF Respond, WorkerInv
  <2> QED BY <1>10, <2>1 DEF Respond
<1>11. ASSUME NEW w \in Workers, Tidy(w) PROVE TypeOK'
  BY <1>11 DEF Tidy, connVars
<1>12. CASE UNCHANGED vars
  BY <1>12 DEF vars
<1> QED
  BY <1>1, <1>2, <1>3, <1>4, <1>5, <1>6, <1>7, <1>8, <1>9, <1>10, <1>11, <1>12
     DEF Next, Handler, Receive, Work

\* The steps of a handler before it offers its request leave the pool alone.
LEMMA HandlerStep ==
    ASSUME IInv, TypeOK', NEW c \in Conns, Accept(c) \/ Handler(c)
    PROVE  (HandInv /\ WorkerInv /\ ServeInv /\ AnswerInv /\ Handoff)'
<1> USE DEF IInv, TypeOK, ConnStates
<1>1. /\ UNCHANGED poolVars
      /\ conn[c] \in {"idle", "reading", "counted"}
      /\ \A d \in Conns \ {c} : conn'[d] = conn[d] /\ answered'[d] = answered[d]
      /\ conn'[c] # "waiting"
      /\ \/ conn'[c] = "closed" /\ answered'[c] \in {0, 1}
         \/ conn'[c] \in ConnStates /\ answered'[c] = answered[c]
    BY DEF Accept, Handler, ReadError, Count, Inline, Submit, AnswerInv
<1>2. inHand # c /\ \A w \in Workers : req[w] # c
    BY <1>1, NoReqAssumption DEF HandInv, WorkerInv
<1>3. HandInv'
    BY <1>1, <1>2 DEF HandInv, poolVars
<1>4. WorkerInv'
    BY <1>1, <1>2, NoReqAssumption DEF WorkerInv, poolVars
<1>5. ServeInv' /\ Handoff'
    BY <1>1 DEF ServeInv, Handoff, poolVars
<1>6. AnswerInv'
    BY <1>1 DEF AnswerInv, Serves, poolVars
<1> QED BY <1>3, <1>4, <1>5, <1>6

LEMMA HandToDispatchStep ==
    ASSUME IInv, TypeOK', NEW c \in Conns, HandToDispatch(c)
    PROVE  (HandInv /\ WorkerInv /\ ServeInv /\ AnswerInv /\ Handoff)'
<1> USE NoReqAssumption DEF IInv, TypeOK, HandToDispatch
<1>1. HandInv'
    BY DEF HandInv, AnswerInv
<1>2. WorkerInv'
    BY DEF WorkerInv
<1>3. ServeInv' /\ Handoff'
    BY DEF ServeInv, Handoff
<1>4. AnswerInv'
    BY DEF AnswerInv, HandInv, Serves
<1> QED BY <1>1, <1>2, <1>3, <1>4

LEMMA ClaimStep ==
    ASSUME IInv, TypeOK', NEW w \in Workers, Claim(w)
    PROVE  (HandInv /\ WorkerInv /\ ServeInv /\ AnswerInv /\ Handoff)'
<1> USE NoReqAssumption DEF IInv, TypeOK, Claim, connVars
<1>1. HandInv'
    BY DEF HandInv
<1>2. WorkerInv'
    BY DEF WorkerInv
<1>3. ServeInv' /\ Handoff'
    BY DEF ServeInv, Handoff
<1>4. AnswerInv'
    BY DEF AnswerInv, Serves
<1> QED BY <1>1, <1>2, <1>3, <1>4

LEMMA DeliverStep ==
    ASSUME IInv, TypeOK', NEW w \in Workers, Deliver(w)
    PROVE  (HandInv /\ WorkerInv /\ ServeInv /\ AnswerInv /\ Handoff)'
<1> USE NoReqAssumption DEF IInv, TypeOK, Deliver, connVars
<1>1. /\ inHand \in Conns /\ conn[inHand] = "waiting" /\ answered[inHand] = 0
      /\ \A v \in Workers : ~Serves(v, inHand)
    BY DEF HandInv, WorkerInv, Serves
<1>2. HandInv'
    BY DEF HandInv
<1>3. WorkerInv'
    BY <1>1 DEF WorkerInv
<1>4. ServeInv'
    BY <1>1 DEF ServeInv, Serves
<1>5. Handoff'
    BY DEF Handoff
<1>6. AnswerInv'
    BY <1>1 DEF AnswerInv, Serves
<1> QED BY <1>2, <1>3, <1>4, <1>5, <1>6

LEMMA StealStep ==
    ASSUME IInv, TypeOK', NEW c \in Conns, NEW w \in Workers, Steal(c, w)
    PROVE  (HandInv /\ WorkerInv /\ ServeInv /\ AnswerInv /\ Handoff)'
<1> USE NoReqAssumption DEF IInv, TypeOK, Steal
<1>1. /\ answered[c] = 0 /\ inHand # c
      /\ \A v \in Workers : req[v] # c
    BY DEF HandInv, WorkerInv, AnswerInv
<1>2. HandInv'
    BY <1>1 DEF HandInv
<1>3. WorkerInv'
    BY <1>1 DEF WorkerInv
<1>4. ServeInv'
    BY <1>1 DEF ServeInv
<1>5. Handoff'
    BY DEF Handoff
<1>6. AnswerInv'
    BY <1>1 DEF AnswerInv, Serves
<1> QED BY <1>2, <1>3, <1>4, <1>5, <1>6

LEMMA RespondStep ==
    ASSUME IInv, TypeOK', NEW w \in Workers, Respond(w)
    PROVE  (HandInv /\ WorkerInv /\ ServeInv /\ AnswerInv /\ Handoff)'
<1> USE NoReqAssumption DEF IInv, TypeOK, Respond
<1>1. /\ req[w] \in Conns /\ conn[req[w]] = "waiting"
      /\ answered[req[w]] = 0 /\ inHand # req[w]
      /\ \A v \in Workers \ {w} : worker[v] \in {"serve", "tidy"} => req[v] # req[w]
    BY DEF WorkerInv, ServeInv
<1>2. HandInv'
    BY <1>1 DEF HandInv
<1>3. WorkerInv'
    BY <1>1 DEF WorkerInv
<1>4. ServeInv' /\ Handoff'
    BY DEF ServeInv, Handoff
<1>5. AnswerInv'
    BY <1>1 DEF AnswerInv, Serves
<1> QED BY <1>2, <1>3, <1>4, <1>5

LEMMA TidyStep ==
    ASSUME IInv, TypeOK', NEW w \in Workers, Tidy(w)
    PROVE  (HandInv /\ WorkerInv /\ ServeInv /\ AnswerInv /\ Handoff)'
<1> USE NoReqAssumption DEF IInv, TypeOK, Tidy, connVars
<1>1. HandInv'
    BY DEF HandInv
<1>2. WorkerInv'
    BY DEF WorkerInv
<1>3. ServeInv' /\ Handoff'
    BY DEF ServeInv, Handoff
<1>4. AnswerInv'
    BY DEF AnswerInv, Serves
<1> QED BY <1>1, <1>2, <1>3, <1>4

\* Every step of the pool keeps the inductive invariant.
LEMMA NextIInv == IInv /\ [Next]_vars => IInv'
<1> SUFFICES ASSUME IInv, [Next]_vars PROVE IInv'
  OBVIOUS
<1>0. TypeOK'
  BY NextTypeOK
<1>1. CASE \E c \in Conns : Accept(c) \/ Handler(c)
  BY <1>0, <1>1, HandlerStep DEF IInv
<1>2. CASE \E c \in Conns : Receive(c)
  BY <1>0, <1>2, HandToDispatchStep, StealStep DEF IInv, Receive
<1>3. CASE \E w \in Workers : Work(w)
  BY <1>0, <1>3, ClaimStep, DeliverStep, RespondStep, TidyStep DEF IInv, Work
<1>4. CASE UNCHANGED vars
  BY <1>0, <1>4
     DEF vars, IInv, HandInv, WorkerInv, ServeInv, AnswerInv, Handoff, Serves
<1> QED BY <1>1, <1>2, <1>3, <1>4 DEF Next

\* The inductive invariant holds.
THEOREM Invariance == Spec => []IInv
  BY InitIInv, NextIInv, PTL DEF Spec

\* Every variable keeps its type, whatever the interleaving.
THEOREM TypeCorrect == Spec => []TypeOK
  BY Invariance, PTL DEF IInv

\* A request in the pool is in exactly one place.
THEOREM RequestHasOneHolder == Spec => []OneHolder
<1>1. IInv => OneHolder
  <2> SUFFICES ASSUME IInv, NEW c \in Conns
               PROVE  LET servers == {w \in Workers : Serves(w, c)}
                      IN  /\ \A v, w \in servers : v = w
                          /\ inHand = c => servers = {}
                          /\ (inHand = c \/ servers # {})
                                <=> (conn[c] = "waiting" /\ answered[c] = 0)
    BY DEF OneHolder
  <2> USE DEF IInv, Serves
  <2>1. \A v, w \in {u \in Workers : Serves(u, c)} : v = w
    BY DEF ServeInv
  <2>2. inHand = c => {u \in Workers : Serves(u, c)} = {}
    BY DEF WorkerInv
  <2>3. inHand = c \/ {u \in Workers : Serves(u, c)} # {}
           => conn[c] = "waiting" /\ answered[c] = 0
    BY NoReqAssumption DEF HandInv, WorkerInv
  <2>4. conn[c] = "waiting" /\ answered[c] = 0
           => inHand = c \/ {u \in Workers : Serves(u, c)} # {}
    BY DEF AnswerInv
  <2> QED BY <2>1, <2>2, <2>3, <2>4
<1> QED BY <1>1, Invariance, PTL

\* No connection is ever answered twice by the pool.
THEOREM AnsweredOnce == Spec => []OneAnswer
<1>1. IInv => OneAnswer
  BY DEF IInv, AnswerInv, OneAnswer
<1> QED BY <1>1, Invariance, PTL

\* At most one worker listens, only while dispatch is sending.
THEOREM OneListener == Spec => []Handoff
<1>1. IInv => Handoff
  BY DEF IInv
<1> QED BY <1>1, Invariance, PTL

\* A worker gives up its request only once it is answered, and is then free.
LEMMA FreeAfterAnswer ==
    ASSUME IInv, [Next]_vars, NEW w \in Workers, req[w] # NoReq, req'[w] # req[w]
    PROVE  answered[req[w]] = 1 /\ req'[w] = NoReq
<1> USE DEF IInv, TypeOK, WorkerInv
<1>1. CASE UNCHANGED vars
  BY <1>1 DEF vars
<1>2. ASSUME NEW c \in Conns, Accept(c) \/ Handler(c) PROVE FALSE
  BY <1>2 DEF Accept, Handler, ReadError, Count, Inline, Submit, poolVars
<1>3. ASSUME NEW c \in Conns, Receive(c) PROVE FALSE
  BY <1>3 DEF Receive, HandToDispatch, Steal
<1>4. ASSUME NEW v \in Workers, Claim(v) \/ Deliver(v) \/ Respond(v) PROVE FALSE
  BY <1>4 DEF Claim, Deliver, Respond
<1>5. ASSUME NEW v \in Workers, Tidy(v)
      PROVE  answered[req[w]] = 1 /\ req'[w] = NoReq
  BY <1>5 DEF Tidy
<1> QED
  BY <1>1, <1>2, <1>3, <1>4, <1>5 DEF Next, Work

\* A worker is announced free only after it has answered the request it had.
THEOREM AnsweredBeforeFree == Spec => AnswerBeforeFree
<1> DEFINE Kept == \A w \in Workers : req[w] # NoReq /\ req'[w] # req[w]
                      => answered[req[w]] = 1 /\ req'[w] = NoReq
<1>1. IInv /\ [Next]_vars => Kept
  BY FreeAfterAnswer
<1>2. IInv /\ [Next]_vars => [Kept]_vars
  BY <1>1
<1> HIDE DEF Kept
<1>3. Spec => [][Kept]_vars
  BY <1>2, Invariance, PTL DEF Spec
<1> QED
  BY <1>3 DEF AnswerBeforeFree, Kept

\* A wedged pool gives no request to a worker any more, ever.
THEOREM WedgePermanent == Spec => WedgeIsForever
<1>1. ASSUME TypeOK, [Next]_vars, Wedged
      PROVE  Wedged' /\ \A w \in Workers : req'[w] \in {req[w], NoReq}
  <2>1. CASE \E c \in Conns : Accept(c) \/ Handler(c)
    BY <1>1, <2>1 DEF Accept, Handler, ReadError, Count, Inline, Submit, poolVars,
                      Wedged
  <2>2. CASE \E c \in Conns : Receive(c)
    BY <1>1, <2>2 DEF Receive, HandToDispatch, Steal, Wedged
  <2>3. CASE \E w \in Workers : Work(w)
    BY <1>1, <2>3 DEF Work, Claim, Deliver, Respond, Tidy, Wedged, TypeOK
  <2>4. CASE UNCHANGED vars
    BY <1>1, <2>4 DEF vars, Wedged
  <2> QED BY <1>1, <2>1, <2>2, <2>3, <2>4 DEF Next
<1>2. TypeOK /\ [Next]_vars =>
         [Wedged => Wedged' /\ \A w \in Workers : req'[w] \in {req[w], NoReq}]_vars
  BY <1>1
<1> QED BY <1>2, TypeCorrect, PTL DEF Spec, WedgeIsForever

-----------------------------------------------------------------------------
(* Clients that come one after the other.                                   *)

\* At most one client waits; a pool that is sending has its receiver; only the
\* handler that has just counted sees a total nobody has used as an ID.
SeqInv == /\ \A c, d \in Conns : Outstanding(c) /\ Outstanding(d) => c = d
          /\ dispatch = "deliver" => \E w \in Workers : worker[w] = "listen"
          /\ \A c \in Conns : id[c] <= total
          /\ \A c, d \in Conns : conn[c] = "counted" => id[d] < total
          /\ \A c, d \in Conns : c # d /\ id[c] # 0 => id[c] # id[d]

\* Whether clients overlap is settled once and for all.
LEMMA OverlapIsFixed == [Next]_vars => overlap' = overlap
  BY DEF Next, vars, Handler, Receive, Work, Accept, ReadError, Count, Inline,
         Submit, HandToDispatch, Claim, Deliver, Steal, Respond, Tidy

\* Without overlap no handler can meet a listening worker, and every step
\* keeps SeqInv.
LEMMA NextSeqInv ==
    ASSUME ~overlap, IInv, IInv', SeqInv, [Next]_vars PROVE SeqInv'
<1> USE NoReqAssumption DEF TypeOK, SeqInv, Outstanding, ConnStates
<1>0. TypeOK /\ TypeOK'
  BY DEF IInv
<1>1. ASSUME NEW c \in Conns, Accept(c) PROVE SeqInv'
  BY <1>0, <1>1 DEF Accept, poolVars
<1>2. ASSUME NEW c \in Conns, ReadError(c) PROVE SeqInv'
  BY <1>0, <1>2 DEF ReadError, poolVars
<1>3. ASSUME NEW c \in Conns, Count(c) PROVE SeqInv'
  BY <1>0, <1>3 DEF Count, poolVars
<1>4. ASSUME NEW c \in Conns, Inline(c) PROVE SeqInv'
  BY <1>0, <1>4 DEF Inline, poolVars
<1>5. ASSUME NEW c \in Conns, Submit(c) PROVE SeqInv'
  BY <1>0, <1>5 DEF Submit, poolVars
<1>6. ASSUME NEW c \in Conns, HandToDispatch(c) PROVE SeqInv'
  BY <1>0, <1>6 DEF HandToDispatch
<1>7. ASSUME NEW w \in Workers, Claim(w) PROVE SeqInv'
  BY <1>0, <1>7 DEF Claim, connVars
<1>8. ASSUME NEW w \in Workers, Deliver(w) PROVE SeqInv'
  BY <1>0, <1>8 DEF Deliver, connVars
<1>9. ASSUME NEW c \in Conns, NEW w \in Workers, Steal(c, w) PROVE SeqInv'
  <2>1. dispatch = "deliver" /\ inHand \in Conns /\ Outstanding(inHand)
    BY <1>0, <1>9 DEF Steal, IInv, Handoff, HandInv
  <2>2. inHand # c /\ Outstanding(c)
    BY <1>9, <2>1 DEF Steal, IInv, HandInv
  <2> QED BY <2>1, <2>2
<1>10. ASSUME NEW w \in Workers, Respond(w) PROVE SeqInv'
  <2>1. req[w] \in Conns /\ answered[req[w]] = 0
    BY <1>0, <1>10 DEF Respond, IInv, WorkerInv
  <2> QED BY <1>0, <1>10, <2>1 DEF Respond
<1>11. ASSUME NEW w \in Workers, Tidy(w) PROVE SeqInv'
  BY <1>0, <1>11 DEF Tidy, connVars
<1>12. CASE UNCHANGED vars
  BY <1>12 DEF vars
<1> QED
  BY <1>1, <1>2, <1>3, <1>4, <1>5, <1>6, <1>7, <1>8, <1>9, <1>10, <1>11, <1>12
     DEF Next, Handler, Receive, Work

LEMMA Sequential == Spec => [](~overlap => SeqInv)
<1>1. Init => SeqInv
  BY DEF Init, SeqInv, Outstanding
<1>2. IInv /\ IInv' /\ (~overlap => SeqInv) /\ [Next]_vars
         => (~overlap' => SeqInv')
  BY NextSeqInv, OverlapIsFixed
<1> QED BY <1>1, <1>2, Invariance, PTL DEF Spec

\* A pool whose clients never overlap does not wedge.
THEOREM SequentialIsSafe == Spec => []NeverWedged
<1>1. (~overlap => SeqInv) => NeverWedged
  BY DEF SeqInv, NeverWedged, Wedged
<1> QED BY <1>1, Sequential, PTL

\* Requests of clients that never overlap are numbered apart, although the
\* number is read after the lock is released.
THEOREM SequentialIds == Spec => []UniqueIds
<1>1. (~overlap => SeqInv) => UniqueIds
  BY DEF SeqInv, UniqueIds
<1> QED BY <1>1, Sequential, PTL

-----------------------------------------------------------------------------
(* Refinement                                                               *)

LEMMA InitRefines == Init => Service!Init
  BY NoReqAssumption DEF Init, Service!Init, Phase, Serves

\* A step in which no phase and no ReqActual changes is a stutter.
LEMMA Stutter ==
    ASSUME req' = req, \A c \in Conns : Phase(c)' = Phase(c)
    PROVE  UNCHANGED Service!vars
  BY DEF Service!vars

\* A step that changes the phase of one connection.
LEMMA PhaseUpdate ==
    ASSUME NEW e \in Conns, NEW p,
           \A d \in Conns : Phase(d)' = IF d = e THEN p ELSE Phase(d)
    PROVE  [c \in Conns |-> Phase(c)]' = [[c \in Conns |-> Phase(c)] EXCEPT ![e] = p]
  OBVIOUS

\* Each step of the pool is a step of the service or leaves it as it is.
LEMMA NextRefines ==
    ASSUME IInv, IInv', [Next]_vars PROVE [Service!Next]_(Service!vars)
<1> USE NoReqAssumption DEF IInv, TypeOK, ConnStates
<1>1. ASSUME NEW c \in Conns,
             Accept(c) \/ ReadError(c) \/ Count(c) \/ Inline(c)
      PROVE  UNCHANGED Service!vars
  <2>1. /\ UNCHANGED poolVars /\ conn[c] \in {"idle", "reading", "counted"}
        /\ conn'[c] \in {"reading", "counted", "closed"}
        /\ \A d \in Conns \ {c} : conn'[d] = conn[d]
    BY <1>1 DEF Accept, ReadError, Count, Inline
  <2>2. ASSUME NEW d \in Conns PROVE Phase(d)' = Phase(d)
    BY <2>1 DEF Phase, Serves, poolVars
  <2> QED BY <2>1, <2>2, Stutter DEF poolVars
<1>2. ASSUME NEW c \in Conns, Submit(c) PROVE Service!Request(c)
  <2>1. Phase(c) = "idle" /\ Phase(c)' = "pending"
    BY <1>2 DEF Submit, poolVars, Phase, Serves, HandInv, WorkerInv
  <2>2. ASSUME NEW d \in Conns
        PROVE  Phase(d)' = IF d = c THEN "pending" ELSE Phase(d)
    BY <1>2, <2>1 DEF Submit, poolVars, Phase, Serves
  <2> QED BY <1>2, <2>1, <2>2, PhaseUpdate DEF Service!Request, Submit, poolVars
<1>3. ASSUME NEW c \in Conns, HandToDispatch(c) PROVE UNCHANGED Service!vars
  <2>1. ASSUME NEW d \in Conns PROVE Phase(d)' = Phase(d)
    BY <1>3 DEF HandToDispatch, Phase, Serves, HandInv
  <2> QED BY <1>3, <2>1, Stutter DEF HandToDispatch
<1>4. ASSUME NEW w \in Workers, Claim(w) PROVE UNCHANGED Service!vars
  <2>1. ASSUME NEW d \in Conns PROVE Phase(d)' = Phase(d)
    BY <1>4 DEF Claim, connVars, Phase, Serves
  <2> QED BY <1>4, <2>1, Stutter DEF Claim
<1>5. ASSUME NEW w \in Workers, Deliver(w)
      PROVE  inHand \in Conns /\ Service!Take(inHand, w)
  <2>1. inHand \in Conns /\ req[w] = NoReq
    BY <1>5 DEF Deliver, HandInv, WorkerInv
  <2>2. Phase(inHand) = "pending"
    BY DEF Phase
  <2>3. /\ inHand' = NoReq /\ conn[inHand] = "waiting"
        /\ worker'[w] = "serve" /\ req'[w] = inHand
    BY <1>5, <2>1 DEF Deliver, HandInv
  <2>4. ASSUME NEW d \in Conns
        PROVE  Phase(d)' = IF d = inHand THEN "running" ELSE Phase(d)
    BY <1>5, <2>1, <2>3 DEF Deliver, connVars, Phase, Serves
  <2> QED BY <1>5, <2>1, <2>2, <2>4, PhaseUpdate DEF Service!Take, Deliver
<1>6. ASSUME NEW c \in Conns, NEW w \in Workers, Steal(c, w)
      PROVE  Service!Take(c, w)
  <2>1. req[w] = NoReq /\ inHand # c /\ Phase(c) = "pending"
    BY <1>6 DEF Steal, HandInv, WorkerInv, Phase
  <2>2. ASSUME NEW d \in Conns
        PROVE  Phase(d)' = IF d = c THEN "running" ELSE Phase(d)
    BY <1>6, <2>1 DEF Steal, Phase, Serves
  <2> QED BY <1>6, <2>1, <2>2, PhaseUpdate DEF Service!Take, Steal
<1>7. ASSUME NEW w \in Workers, Respond(w) PROVE Service!Answer(w)
  <2>1. /\ req[w] \in Conns /\ conn[req[w]] = "waiting" /\ inHand # req[w]
        /\ \A v \in Workers : Serves(v, req[w]) => v = w
    BY <1>7 DEF Respond, WorkerInv, ServeInv, Serves
  <2>2. Phase(req[w]) = "running"
    BY <1>7, <2>1 DEF Respond, Phase, Serves
  <2>3. ASSUME NEW d \in Conns
        PROVE  Phase(d)' = IF d = req[w] THEN "done" ELSE Phase(d)
    BY <1>7, <2>1 DEF Respond, Phase, Serves
  <2> QED BY <1>7, <2>1, <2>2, <2>3, PhaseUpdate DEF Service!Answer, Respond
<1>8. ASSUME NEW w \in Workers, Tidy(w) PROVE Service!Release(w)
  <2>1. /\ req[w] \in Conns /\ conn[req[w]] = "waiting"
        /\ answered[req[w]] = 1
    BY <1>8 DEF Tidy, WorkerInv
  <2>2. Phase(req[w]) = "done"
    BY <2>1 DEF Phase, HandInv, WorkerInv, Serves
  <2>3. ASSUME NEW d \in Conns PROVE Phase(d)' = Phase(d)
    BY <1>8 DEF Tidy, connVars, Phase, Serves
  <2> QED BY <1>8, <2>1, <2>2, <2>3 DEF Service!Release, Tidy
<1>9. ASSUME UNCHANGED vars PROVE UNCHANGED Service!vars
  <2>1. ASSUME NEW d \in Conns PROVE Phase(d)' = Phase(d)
    BY <1>9 DEF vars, Phase, Serves
  <2> QED BY <1>9, <2>1, Stutter DEF vars
<1> QED
  BY <1>1, <1>2, <1>3, <1>4, <1>5, <1>6, <1>7, <1>8, <1>9
     DEF Next, Handler, Receive, Work, Service!Next

\* The pool of channels implements the abstract pool service.
THEOREM Refinement == Spec => ImplementsService
  BY InitRefines, NextRefines, Invariance, PTL
     DEF Spec, ImplementsService, Service!Spec
=============================================================================
