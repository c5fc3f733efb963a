--------------------------- MODULE RegistryProofs ---------------------------
(***************************************************************************)
(* Theorems about Registry, for any number of worker servers, connections, *)
(* attempts, crashes and losses.                                            *)
(***************************************************************************)
EXTENDS Registry, SequenceTheorems, TLAPS

\* d.Mu is held by the handler that is between its check and its answer.
LockInv == \A c \in Conns : conn[c] \in {"grown", "known"} <=> mu = c

\* Who opened a connection, and when nobody waits on it any more.
OwnerInv == \A c \in Conns :
               /\ conn[c] = "free" <=> from[c] = None
               /\ conn[c] \in {"answered", "late", "reset"} => wait[from[c]] = c

WaitInv == \A w \in Workers :
              /\ worker[w] = "waiting" <=> wait[w] # None
              /\ wait[w] # None => from[wait[w]] = w /\ tries[w] < MaxRetries

\* Only the last slot may be empty, while a handler is about to fill it with a
\* worker server that has no entry.
SlotInv == /\ \A i \in 1..Len(registry) :
                 registry[i] = Nil =>
                    i = Len(registry) /\ \E c \in Conns : conn[c] = "grown"
           /\ \A c \in Conns : conn[c] = "grown" =>
                 /\ Len(registry) > 0
                 /\ registry[Len(registry)] = Nil
                 /\ from[c] \notin Known

SureInv == /\ \A c \in Conns : conn[c] \in {"known", "answered"} => from[c] \in Known
           /\ \A w \in told : w \in Known /\ worker[w] = "registered"

\* A worker server registered by a dispatcher that has ended has no connection
\* open, and one that is about to be has no other.
GoneInv == /\ \A w \in Workers : worker[w] = "registered" /\ w \notin told =>
                 \A c \in Conns : from[c] # w
           /\ \A c, d \in Conns :
                 conn[c] \in {"late", "reset"} /\ from[d] = from[c] => d = c

DownInv == ~up => /\ registry = <<>> /\ mu = None /\ told = {}
                  /\ visit = 0 /\ snap = 0
                  /\ \A c \in Conns : conn[c] \in {"free", "late", "reset"}

RoundInv == snap <= Len(registry) /\ visit <= snap + 1

IInv == /\ TypeOK /\ LockInv /\ OwnerInv /\ WaitInv /\ SlotInv /\ OneEntryEach
        /\ SureInv /\ GoneInv /\ DownInv /\ RoundInv

\* What the compiled append and the store of its element do to the registry.
LEMMA GrowFacts ==
  ASSUME registry \in Seq(Entries), registry' = Append(registry, Nil)
  PROVE  /\ registry' \in Seq(Entries)
         /\ Len(registry') = Len(registry) + 1
         /\ registry'[Len(registry')] = Nil
         /\ \A i \in 1..Len(registry) : registry'[i] = registry[i]
         /\ Known' = Known
<1>1. Nil \in Entries
  BY DEF Entries
<1>2. /\ registry' \in Seq(Entries)
      /\ Len(registry') = Len(registry) + 1
      /\ registry'[Len(registry')] = Nil
      /\ \A i \in 1..Len(registry) : registry'[i] = registry[i]
  BY <1>1, AppendProperties
<1> QED
  BY <1>2, LenProperties DEF Known

LEMMA StoreFacts ==
  ASSUME NEW w \in Workers, registry \in Seq(Entries), Len(registry) > 0,
         registry[Len(registry)] = Nil,
         registry' = [registry EXCEPT ![Len(registry)] =
                         [id |-> Len(registry), url |-> w]]
  PROVE  /\ registry' \in Seq(Entries)
         /\ Len(registry') = Len(registry)
         /\ registry'[Len(registry)] = [id |-> Len(registry), url |-> w]
         /\ registry'[Len(registry)] # Nil
         /\ \A i \in 1..Len(registry) :
               i # Len(registry) => registry'[i] = registry[i]
         /\ Known' = Known \union {w}
<1>0. Len(registry) \in Nat /\ Len(registry) \in 1..Len(registry)
  BY LenProperties
<1> DEFINE e == [id |-> Len(registry), url |-> w]
<1>1. e \in Entries /\ e # Nil
  BY <1>0, RegistryAssumption DEF Entries
<1>2. registry' \in Seq(Entries) /\ Len(registry') = Len(registry)
  BY <1>0, <1>1, ExceptSeq
<1>3. /\ registry'[Len(registry)] = e
      /\ \A i \in 1..Len(registry) :
            i # Len(registry) => registry'[i] = registry[i]
  BY <1>0, <1>1, ExceptSeq
<1> HIDE DEF e
<1>4. Known' = Known \union {w}
  <2>1. e.url = w
    BY DEF e
  <2> QED
    BY <1>0, <1>1, <1>2, <1>3, <2>1 DEF Known
<1> QED
  BY <1>1, <1>2, <1>3, <1>4 DEF e

LEMMA KnownStays ==
  ASSUME UNCHANGED registry
  PROVE  Known' = Known
BY DEF Known

\* Close disturbs one connection, and only if no handler is at work on it.
LEMMA ClosingOne ==
  ASSUME IInv, NEW w \in Workers, Close(wait[w])
  PROVE  /\ conn' \in [Conns -> {"free", "sent", "grown", "known", "answered",
                                "late", "reset"}]
         /\ from' \in [Conns -> Workers \union {None}]
         /\ \A d \in Conns : d # wait[w] => conn'[d] = conn[d] /\ from'[d] = from[d]
         /\ \A d \in Conns : d = wait[w] =>
               \/ /\ conn[d] \in {"sent", "grown", "known"}
                  /\ conn'[d] = conn[d] /\ from'[d] = from[d]
               \/ /\ conn[d] \notin {"sent", "grown", "known"}
                  /\ conn'[d] = "free" /\ from'[d] = None
<1> USE DEF IInv, TypeOK
<1>1. None \notin Conns
  BY RegistryAssumption
<1>2. wait[w] = None \/ wait[w] \in Conns
  OBVIOUS
<1>3. CASE wait[w] = None \/ conn[wait[w]] \in {"sent", "grown", "known"}
  <2>1. UNCHANGED <<conn, from>>
    BY <1>3 DEF Close, connVars
  <2> QED
    BY <1>1, <1>2, <1>3, <2>1
<1>4. CASE wait[w] \in Conns /\ conn[wait[w]] \notin {"sent", "grown", "known"}
  <2>1. /\ conn' = [conn EXCEPT ![wait[w]] = "free"]
        /\ from' = [from EXCEPT ![wait[w]] = None]
    BY <1>1, <1>4 DEF Close
  <2> QED
    BY <1>4, <2>1
<1> QED
  BY <1>2, <1>3, <1>4

LEMMA SendKeeps ==
  ASSUME NEW w \in Workers, NEW  c \in Conns, IInv, Send(w, c)
  PROVE  IInv'
<1>0. Known' = Known /\ UNCHANGED registry
  BY KnownStays DEF Send, vars, dispVars, connVars, workVars, roundVars
<1>1. TypeOK'
  BY <1>0, RegistryAssumption
  DEF Send, IInv, TypeOK, WaitInv, vars, dispVars, connVars, workVars, roundVars
<1>2. LockInv'
  BY <1>0, RegistryAssumption
  DEF Send, IInv, TypeOK, LockInv, OwnerInv, DownInv, vars, dispVars, connVars,
      workVars, roundVars
<1>3. OwnerInv'
  BY <1>0, RegistryAssumption
  DEF Send, IInv, TypeOK, OwnerInv, WaitInv, vars, dispVars, connVars, workVars,
      roundVars
<1>4. WaitInv'
  BY <1>0, RegistryAssumption
  DEF Send, IInv, TypeOK, OwnerInv, WaitInv, vars, dispVars, connVars, workVars,
      roundVars
<1>5. SlotInv'
  BY <1>0, RegistryAssumption
  DEF Send, IInv, TypeOK, LockInv, OwnerInv, SlotInv, WaitInv, vars, dispVars,
      connVars, workVars, roundVars
<1>6. OneEntryEach'
  BY <1>0, RegistryAssumption
  DEF Send, IInv, TypeOK, SlotInv, OneEntryEach, vars, dispVars, connVars, workVars,
      roundVars
<1>7. SureInv'
  BY <1>0, RegistryAssumption
  DEF Send, IInv, TypeOK, LockInv, OwnerInv, SlotInv, SureInv, WaitInv, vars,
      dispVars, connVars, workVars, roundVars
<1>8. GoneInv'
  <2>1. /\ worker[w] = "try" /\ wait[w] = None /\ told' = told
        /\ worker'[w] = "waiting" /\ from'[c] = w /\ conn'[c] = "sent"
        /\ \A v \in Workers \ {w} : worker'[v] = worker[v]
        /\ \A d \in Conns \ {c} : conn'[d] = conn[d] /\ from'[d] = from[d]
    BY DEF Send, IInv, TypeOK, WaitInv
  <2>2. ASSUME NEW v \in Workers, worker'[v] = "registered", v \notin told',
               NEW d \in Conns
        PROVE  from'[d] # v
    <3>1. v # w /\ worker[v] = "registered" /\ v \notin told
      BY <2>1, <2>2
    <3>2. from[d] # v
      BY <3>1 DEF IInv, GoneInv
    <3> QED
      BY <2>1, <3>1, <3>2
  <2>3. ASSUME NEW d \in Conns, NEW e \in Conns,
               conn'[d] \in {"late", "reset"}, from'[e] = from'[d]
        PROVE  e = d
    <3>1. d # c /\ conn'[d] = conn[d] /\ from'[d] = from[d]
      BY <2>1, <2>3
    <3>2. from[d] # None /\ from[d] \in Workers /\ wait[from[d]] = d
      BY <2>3, <3>1 DEF IInv, TypeOK, OwnerInv
    <3>3. from[d] # w
      BY <2>1, <3>2, RegistryAssumption
    <3>4. e # c /\ from'[e] = from[e]
      BY <2>1, <2>3, <3>1, <3>3
    <3> QED
      BY <2>3, <3>1, <3>4 DEF IInv, GoneInv
  <2> QED
    BY <2>2, <2>3 DEF GoneInv
<1>9. DownInv'
  BY <1>0, RegistryAssumption
  DEF Send, IInv, TypeOK, LockInv, OwnerInv, DownInv, RoundInv, vars, dispVars,
      connVars, workVars, roundVars
<1>10. RoundInv'
  BY <1>0, RegistryAssumption
  DEF Send, IInv, TypeOK, RoundInv, SlotInv, DownInv, vars, dispVars, connVars,
      workVars, roundVars
<1> QED
  BY <1>1, <1>2, <1>3, <1>4, <1>5, <1>6, <1>7, <1>8, <1>9, <1>10 DEF IInv

\* An action that leaves the connections and d.Workers alone.
LEMMA QuietKeeps ==
  ASSUME IInv, UNCHANGED <<registry, mu, connVars, worker, wait, told>>
  PROVE  /\ LockInv' /\ OwnerInv' /\ SlotInv' /\ OneEntryEach' /\ SureInv'
         /\ GoneInv' /\ Known' = Known
<1>0. Known' = Known
  BY KnownStays
<1>1. LockInv' /\ OwnerInv' /\ OneEntryEach' /\ GoneInv'
  BY DEF IInv, LockInv, OwnerInv, OneEntryEach, GoneInv, connVars
<1>2. SlotInv' /\ SureInv'
  BY <1>0 DEF IInv, SlotInv, SureInv, connVars
<1> QED
  BY <1>0, <1>1, <1>2

LEMMA RefusedKeeps ==
  ASSUME NEW w \in Workers, IInv, Refused(w)
  PROVE  IInv'
<1>1. LockInv' /\ OwnerInv' /\ SlotInv' /\ OneEntryEach' /\ SureInv' /\ GoneInv'
  BY QuietKeeps DEF Refused, dispVars, workVars
<1>2. TypeOK' /\ WaitInv'
  BY RegistryAssumption
  DEF Refused, IInv, TypeOK, WaitInv, dispVars, connVars, workVars, roundVars
<1>3. DownInv' /\ RoundInv'
  BY DEF Refused, IInv, TypeOK, DownInv, RoundInv, dispVars, connVars, workVars,
         roundVars
<1> QED
  BY <1>1, <1>2, <1>3 DEF IInv

LEMMA ReceiveKeeps ==
  ASSUME NEW w \in Workers, IInv, Receive(w)
  PROVE  IInv'
<1>0. Known' = Known /\ UNCHANGED registry
  BY KnownStays DEF Receive, vars, dispVars, connVars, workVars, roundVars
<1>c. Close(wait[w])
  BY DEF Receive
<1>d. /\ conn' \in [Conns -> {"free", "sent", "grown", "known", "answered",
                             "late", "reset"}]
      /\ from' \in [Conns -> Workers \union {None}]
      /\ \A d \in Conns : d # wait[w] => conn'[d] = conn[d] /\ from'[d] = from[d]
      /\ \A d \in Conns : d = wait[w] =>
            \/ /\ conn[d] \in {"sent", "grown", "known"}
               /\ conn'[d] = conn[d] /\ from'[d] = from[d]
            \/ /\ conn[d] \notin {"sent", "grown", "known"}
               /\ conn'[d] = "free" /\ from'[d] = None
  BY <1>c, ClosingOne
<1>e. /\ wait' \in [Workers -> Conns \union {None}] /\ wait'[w] = None
      /\ \A v \in Workers : v # w => wait'[v] = wait[v]
      /\ None \notin Conns /\ None \notin Workers
  BY RegistryAssumption DEF Receive, IInv, TypeOK
<1>f. /\ wait[w] # None => wait[w] \in Conns /\ from[wait[w]] = w
      /\ \A v \in Workers : v # w /\ wait[v] # None => wait[v] # wait[w]
  BY DEF IInv, TypeOK, WaitInv
<1>g. /\ worker' \in [Workers -> {"try", "waiting", "registered", "gaveup"}]
      /\ worker'[w] = "registered"
      /\ \A v \in Workers : v # w => worker'[v] = worker[v]
  BY DEF Receive, IInv, TypeOK
<1>h. /\ \A v \in Workers : v # w => tries'[v] = tries[v]
      /\ tries' \in [Workers -> 0..MaxRetries]
      /\ losses' \in 0..MaxLosses
      /\ UNCHANGED <<dispVars, hung, roundVars>>
      /\ worker[w] = "waiting"
      /\ \/ conn[wait[w]] = "answered" /\ told' = told \union {w}
         \/ conn[wait[w]] = "late" /\ told' = told
  BY RegistryAssumption DEF Receive, IInv, TypeOK, WaitInv
<1>1. TypeOK'
  BY <1>0, RegistryAssumption, <1>d, <1>e, <1>f, <1>g, <1>h
  DEF IInv, TypeOK, WaitInv, vars, dispVars, connVars, workVars, roundVars
<1>2. LockInv'
  BY <1>0, RegistryAssumption, <1>d, <1>e, <1>f, <1>g, <1>h
  DEF IInv, TypeOK, LockInv, OwnerInv, DownInv, vars, dispVars, connVars, workVars,
      roundVars
<1>3. OwnerInv'
  <2> SUFFICES ASSUME NEW d \in Conns
               PROVE  /\ conn'[d] = "free" <=> from'[d] = None
                      /\ conn'[d] \in {"answered", "late", "reset"} =>
                            wait'[from'[d]] = d
    BY DEF OwnerInv
  <2>0. /\ conn[d] = "free" <=> from[d] = None
        /\ conn[d] \in {"answered", "late", "reset"} => wait[from[d]] = d
        /\ from[d] \in Workers \union {None}
    BY DEF IInv, OwnerInv, TypeOK
  <2>1. CASE d = wait[w]
    BY <1>d, <2>0, <2>1
  <2>2. CASE d # wait[w]
    BY <1>d, <1>e, <2>0, <2>2
  <2> QED
    BY <2>1, <2>2
<1>4. WaitInv'
  <2> SUFFICES ASSUME NEW v \in Workers
               PROVE  /\ worker'[v] = "waiting" <=> wait'[v] # None
                      /\ wait'[v] # None => /\ from'[wait'[v]] = v
                                            /\ tries'[v] < MaxRetries
    BY DEF WaitInv
  <2>0. /\ worker[v] = "waiting" <=> wait[v] # None
        /\ wait[v] # None => /\ from[wait[v]] = v /\ tries[v] < MaxRetries
                              /\ wait[v] \in Conns
    BY DEF IInv, WaitInv, TypeOK
  <2>1. CASE v = w
    BY <1>e, <1>g, <2>1
  <2>2. CASE v # w
    BY <1>d, <1>e, <1>f, <1>g, <1>h, <2>0, <2>2
  <2> QED
    BY <2>1, <2>2
<1>5. SlotInv'
  BY <1>0, RegistryAssumption, <1>d, <1>e, <1>f, <1>g, <1>h
  DEF IInv, TypeOK, LockInv, OwnerInv, SlotInv, WaitInv, vars, dispVars, connVars,
      workVars, roundVars
<1>6. OneEntryEach'
  BY <1>0, RegistryAssumption, <1>d, <1>e, <1>f, <1>g, <1>h
  DEF IInv, TypeOK, SlotInv, OneEntryEach, vars, dispVars, connVars, workVars,
      roundVars
<1>7. SureInv'
  <2>1. ASSUME NEW d \in Conns, conn'[d] \in {"known", "answered"}
        PROVE  from'[d] \in Known'
    <3>1. conn'[d] = conn[d] /\ from'[d] = from[d]
      BY <1>d, <2>1
    <3> QED
      BY <1>0, <2>1, <3>1 DEF IInv, SureInv
  <2>2. ASSUME NEW v \in told'
        PROVE  v \in Known' /\ worker'[v] = "registered"
    <3>1. \A u \in told : u \in Workers /\ u \in Known /\ worker[u] = "registered"
      BY DEF IInv, SureInv, TypeOK
    <3>2. CASE v = w
      <4>1. v \in told \/ conn[wait[w]] = "answered"
        BY <1>h, <2>2
      <4>2. conn[wait[w]] = "answered" => w \in Known
        BY <1>e, <1>f, <1>h DEF IInv, TypeOK, WaitInv, SureInv
      <4> QED
        BY <1>0, <1>g, <3>1, <3>2, <4>1, <4>2
    <3>3. CASE v # w
      BY <1>0, <1>g, <1>h, <2>2, <3>1, <3>3
    <3> QED
      BY <3>2, <3>3
  <2> QED
    BY <2>1, <2>2 DEF SureInv
<1>8. GoneInv'
  <2>1. ASSUME NEW v \in Workers, worker'[v] = "registered", v \notin told',
               NEW d \in Conns
        PROVE  from'[d] # v
    <3>0. worker[w] = "waiting" /\ wait[w] \in Conns /\ from[wait[w]] = w
      BY <1>f, <1>h DEF IInv, WaitInv
    <3>1. CASE v = w
      <4>1. conn[wait[w]] = "late"
        BY <1>h, <2>1, <3>1
      <4>2. from[d] = w => d = wait[w]
        BY <3>0, <4>1 DEF IInv, GoneInv
      <4>3. d = wait[w] => from'[d] = None
        BY <1>d, <4>1
      <4>4. d # wait[w] => from'[d] = from[d]
        BY <1>d
      <4> QED
        BY <1>e, <3>1, <4>2, <4>3, <4>4
    <3>2. CASE v # w
      <4>1. worker[v] = "registered" /\ v \notin told
        BY <1>g, <1>h, <2>1, <3>2
      <4>2. from[d] # v
        BY <4>1 DEF IInv, GoneInv
      <4> QED
        BY <1>d, <1>e, <4>2
    <3> QED
      BY <3>1, <3>2
  <2>2. ASSUME NEW d \in Conns, NEW e \in Conns,
               conn'[d] \in {"late", "reset"}, from'[e] = from'[d]
        PROVE  e = d
    <3>1. conn'[d] = conn[d] /\ from'[d] = from[d] /\ from[d] # None
      BY <1>d, <2>2 DEF IInv, OwnerInv
    <3>2. from'[e] = from[e]
      BY <1>d, <1>e, <2>2, <3>1
    <3> QED
      BY <2>2, <3>1, <3>2 DEF IInv, GoneInv
  <2> QED
    BY <2>1, <2>2 DEF GoneInv
<1>9. DownInv'
  <2> SUFFICES ASSUME ~up
               PROVE  /\ registry' = <<>> /\ mu' = None /\ told' = {}
                      /\ visit' = 0 /\ snap' = 0
                      /\ \A c \in Conns : conn'[c] \in {"free", "late", "reset"}
    BY <1>h DEF DownInv, dispVars
  <2>1. /\ registry = <<>> /\ mu = None /\ told = {} /\ visit = 0 /\ snap = 0
        /\ \A c \in Conns : conn[c] \in {"free", "late", "reset"}
    BY DEF IInv, DownInv
  <2>2. wait[w] \in Conns
    BY <1>f, <1>h DEF IInv, WaitInv
  <2>3. conn[wait[w]] # "answered"
    BY <2>1, <2>2
  <2>4. \A c \in Conns : conn'[c] \in {"free", "late", "reset"}
    BY <1>d, <2>1
  <2> QED
    BY <1>0, <1>h, <2>1, <2>3, <2>4 DEF dispVars, roundVars
<1>10. RoundInv'
  BY <1>0, RegistryAssumption, <1>d, <1>e, <1>f, <1>g, <1>h
  DEF IInv, TypeOK, RoundInv, SlotInv, DownInv, vars, dispVars, connVars, workVars,
      roundVars
<1> QED
  BY <1>1, <1>2, <1>3, <1>4, <1>5, <1>6, <1>7, <1>8, <1>9, <1>10 DEF IInv

LEMMA ResetKeeps ==
  ASSUME NEW w \in Workers, IInv, Reset(w)
  PROVE  IInv'
<1>0. Known' = Known /\ UNCHANGED registry
  BY KnownStays DEF Reset, vars, dispVars, connVars, workVars, roundVars
<1>c. Close(wait[w])
  BY DEF Reset
<1>d. /\ conn' \in [Conns -> {"free", "sent", "grown", "known", "answered",
                             "late", "reset"}]
      /\ from' \in [Conns -> Workers \union {None}]
      /\ \A d \in Conns : d # wait[w] => conn'[d] = conn[d] /\ from'[d] = from[d]
      /\ \A d \in Conns : d = wait[w] =>
            \/ /\ conn[d] \in {"sent", "grown", "known"}
               /\ conn'[d] = conn[d] /\ from'[d] = from[d]
            \/ /\ conn[d] \notin {"sent", "grown", "known"}
               /\ conn'[d] = "free" /\ from'[d] = None
  BY <1>c, ClosingOne
<1>e. /\ wait' \in [Workers -> Conns \union {None}] /\ wait'[w] = None
      /\ \A v \in Workers : v # w => wait'[v] = wait[v]
      /\ None \notin Conns /\ None \notin Workers
  BY RegistryAssumption DEF Reset, IInv, TypeOK
<1>f. /\ wait[w] # None => wait[w] \in Conns /\ from[wait[w]] = w
      /\ \A v \in Workers : v # w /\ wait[v] # None => wait[v] # wait[w]
  BY DEF IInv, TypeOK, WaitInv
<1>g. /\ worker' \in [Workers -> {"try", "waiting", "registered", "gaveup"}]
      /\ worker'[w] = "try"
      /\ \A v \in Workers : v # w => worker'[v] = worker[v]
  BY DEF Reset, IInv, TypeOK
<1>h. /\ \A v \in Workers : v # w => tries'[v] = tries[v]
      /\ tries' \in [Workers -> 0..MaxRetries]
      /\ losses' \in 0..MaxLosses
      /\ UNCHANGED <<dispVars, hung, roundVars>>
      /\ worker[w] = "waiting" /\ told' = told
  BY RegistryAssumption DEF Reset, IInv, TypeOK, WaitInv
<1>1. TypeOK'
  BY <1>0, RegistryAssumption, <1>d, <1>e, <1>f, <1>g, <1>h
  DEF IInv, TypeOK, WaitInv, vars, dispVars, connVars, workVars, roundVars
<1>2. LockInv'
  BY <1>0, RegistryAssumption, <1>d, <1>e, <1>f, <1>g, <1>h
  DEF IInv, TypeOK, LockInv, OwnerInv, DownInv, vars, dispVars, connVars, workVars,
      roundVars
<1>3. OwnerInv'
  <2> SUFFICES ASSUME NEW d \in Conns
               PROVE  /\ conn'[d] = "free" <=> from'[d] = None
                      /\ conn'[d] \in {"answered", "late", "reset"} =>
                            wait'[from'[d]] = d
    BY DEF OwnerInv
  <2>0. /\ conn[d] = "free" <=> from[d] = None
        /\ conn[d] \in {"answered", "late", "reset"} => wait[from[d]] = d
        /\ from[d] \in Workers \union {None}
    BY DEF IInv, OwnerInv, TypeOK
  <2>1. CASE d = wait[w]
    BY <1>d, <2>0, <2>1
  <2>2. CASE d # wait[w]
    BY <1>d, <1>e, <2>0, <2>2
  <2> QED
    BY <2>1, <2>2
<1>4. WaitInv'
  <2> SUFFICES ASSUME NEW v \in Workers
               PROVE  /\ worker'[v] = "waiting" <=> wait'[v] # None
                      /\ wait'[v] # None => /\ from'[wait'[v]] = v
                                            /\ tries'[v] < MaxRetries
    BY DEF WaitInv
  <2>0. /\ worker[v] = "waiting" <=> wait[v] # None
        /\ wait[v] # None => /\ from[wait[v]] = v /\ tries[v] < MaxRetries
                              /\ wait[v] \in Conns
    BY DEF IInv, WaitInv, TypeOK
  <2>1. CASE v = w
    BY <1>e, <1>g, <2>1
  <2>2. CASE v # w
    BY <1>d, <1>e, <1>f, <1>g, <1>h, <2>0, <2>2
  <2> QED
    BY <2>1, <2>2
<1>5. SlotInv'
  BY <1>0, RegistryAssumption, <1>d, <1>e, <1>f, <1>g, <1>h
  DEF IInv, TypeOK, LockInv, OwnerInv, SlotInv, WaitInv, vars, dispVars, connVars,
      workVars, roundVars
<1>6. OneEntryEach'
  BY <1>0, RegistryAssumption, <1>d, <1>e, <1>f, <1>g, <1>h
  DEF IInv, TypeOK, SlotInv, OneEntryEach, vars, dispVars, connVars, workVars,
      roundVars
<1>7. SureInv'
  <2>1. ASSUME NEW d \in Conns, conn'[d] \in {"known", "answered"}
        PROVE  from'[d] \in Known'
    <3>1. conn'[d] = conn[d] /\ from'[d] = from[d]
      BY <1>d, <2>1
    <3> QED
      BY <1>0, <2>1, <3>1 DEF IInv, SureInv
  <2>2. ASSUME NEW v \in told'
        PROVE  v \in Known' /\ worker'[v] = "registered"
    <3>1. \A u \in told : u \in Workers /\ u \in Known /\ worker[u] = "registered"
      BY DEF IInv, SureInv, TypeOK
    <3>2. v \in told /\ v # w
      BY <1>h, <2>2, <3>1
    <3> QED
      BY <1>0, <1>g, <3>1, <3>2
  <2> QED
    BY <2>1, <2>2 DEF SureInv
<1>8. GoneInv'
  <2>1. ASSUME NEW v \in Workers, worker'[v] = "registered", v \notin told',
               NEW d \in Conns
        PROVE  from'[d] # v
    <3>1. v # w /\ worker[v] = "registered" /\ v \notin told
      BY <1>g, <1>h, <2>1
    <3>2. from[d] # v
      BY <3>1 DEF IInv, GoneInv
    <3> QED
      BY <1>d, <1>e, <3>2
  <2>2. ASSUME NEW d \in Conns, NEW e \in Conns,
               conn'[d] \in {"late", "reset"}, from'[e] = from'[d]
        PROVE  e = d
    <3>1. conn'[d] = conn[d] /\ from'[d] = from[d] /\ from[d] # None
      BY <1>d, <2>2 DEF IInv, OwnerInv
    <3>2. from'[e] = from[e]
      BY <1>d, <1>e, <2>2, <3>1
    <3> QED
      BY <2>2, <3>1, <3>2 DEF IInv, GoneInv
  <2> QED
    BY <2>1, <2>2 DEF GoneInv
<1>9. DownInv'
  BY <1>0, RegistryAssumption, <1>d, <1>e, <1>f, <1>g, <1>h
  DEF IInv, TypeOK, LockInv, OwnerInv, DownInv, RoundInv, vars, dispVars, connVars,
      workVars, roundVars
<1>10. RoundInv'
  BY <1>0, RegistryAssumption, <1>d, <1>e, <1>f, <1>g, <1>h
  DEF IInv, TypeOK, RoundInv, SlotInv, DownInv, vars, dispVars, connVars, workVars,
      roundVars
<1> QED
  BY <1>1, <1>2, <1>3, <1>4, <1>5, <1>6, <1>7, <1>8, <1>9, <1>10 DEF IInv

LEMMA GiveUpKeeps ==
  ASSUME NEW w \in Workers, IInv, GiveUp(w)
  PROVE  IInv'
<1>0. Known' = Known /\ UNCHANGED registry
  BY KnownStays DEF GiveUp, vars, dispVars, connVars, workVars, roundVars
<1>1. TypeOK'
  BY <1>0, RegistryAssumption
  DEF GiveUp, IInv, TypeOK, WaitInv, vars, dispVars, connVars, workVars, roundVars
<1>2. LockInv'
  BY <1>0, RegistryAssumption
  DEF GiveUp, IInv, TypeOK, LockInv, OwnerInv, DownInv, vars, dispVars, connVars,
      workVars, roundVars
<1>3. OwnerInv'
  BY <1>0, RegistryAssumption
  DEF GiveUp, IInv, TypeOK, OwnerInv, WaitInv, vars, dispVars, connVars, workVars,
      roundVars
<1>4. WaitInv'
  BY <1>0, RegistryAssumption
  DEF GiveUp, IInv, TypeOK, OwnerInv, WaitInv, vars, dispVars, connVars, workVars,
      roundVars
<1>5. SlotInv'
  BY <1>0, RegistryAssumption
  DEF GiveUp, IInv, TypeOK, LockInv, OwnerInv, SlotInv, WaitInv, vars, dispVars,
      connVars, workVars, roundVars
<1>6. OneEntryEach'
  BY <1>0, RegistryAssumption
  DEF GiveUp, IInv, TypeOK, SlotInv, OneEntryEach, vars, dispVars, connVars,
      workVars, roundVars
<1>7. SureInv'
  BY <1>0, RegistryAssumption
  DEF GiveUp, IInv, TypeOK, LockInv, OwnerInv, SlotInv, SureInv, WaitInv, vars,
      dispVars, connVars, workVars, roundVars
<1>8. GoneInv'
  BY <1>0, RegistryAssumption
  DEF GiveUp, IInv, TypeOK, OwnerInv, WaitInv, SureInv, GoneInv, LockInv, vars,
      dispVars, connVars, workVars, roundVars
<1>9. DownInv'
  BY <1>0, RegistryAssumption
  DEF GiveUp, IInv, TypeOK, LockInv, OwnerInv, DownInv, RoundInv, vars, dispVars,
      connVars, workVars, roundVars
<1>10. RoundInv'
  BY <1>0, RegistryAssumption
  DEF GiveUp, IInv, TypeOK, RoundInv, SlotInv, DownInv, vars, dispVars, connVars,
      workVars, roundVars
<1> QED
  BY <1>1, <1>2, <1>3, <1>4, <1>5, <1>6, <1>7, <1>8, <1>9, <1>10 DEF IInv

LEMMA HangKeeps ==
  ASSUME NEW w \in Workers, IInv, Hang(w)
  PROVE  IInv'
<1>1. LockInv' /\ OwnerInv' /\ SlotInv' /\ OneEntryEach' /\ SureInv' /\ GoneInv'
  BY QuietKeeps DEF Hang, dispVars
<1>2. TypeOK' /\ WaitInv'
  BY DEF Hang, IInv, TypeOK, WaitInv, dispVars, connVars, roundVars
<1>3. DownInv' /\ RoundInv'
  BY DEF Hang, IInv, DownInv, RoundInv, dispVars, connVars, roundVars
<1> QED
  BY <1>1, <1>2, <1>3 DEF IInv

LEMMA LoseKeeps ==
  ASSUME NEW w \in Workers, IInv, Lose(w)
  PROVE  IInv'
<1>0. Known' = Known /\ UNCHANGED registry
  BY KnownStays DEF Lose, vars, dispVars, connVars, workVars, roundVars
<1>c. Close(wait[w])
  BY DEF Lose
<1>d. /\ conn' \in [Conns -> {"free", "sent", "grown", "known", "answered",
                             "late", "reset"}]
      /\ from' \in [Conns -> Workers \union {None}]
      /\ \A d \in Conns : d # wait[w] => conn'[d] = conn[d] /\ from'[d] = from[d]
      /\ \A d \in Conns : d = wait[w] =>
            \/ /\ conn[d] \in {"sent", "grown", "known"}
               /\ conn'[d] = conn[d] /\ from'[d] = from[d]
            \/ /\ conn[d] \notin {"sent", "grown", "known"}
               /\ conn'[d] = "free" /\ from'[d] = None
  BY <1>c, ClosingOne
<1>e. /\ wait' \in [Workers -> Conns \union {None}] /\ wait'[w] = None
      /\ \A v \in Workers : v # w => wait'[v] = wait[v]
      /\ None \notin Conns /\ None \notin Workers
  BY RegistryAssumption DEF Lose, IInv, TypeOK
<1>f. /\ wait[w] # None => wait[w] \in Conns /\ from[wait[w]] = w
      /\ \A v \in Workers : v # w /\ wait[v] # None => wait[v] # wait[w]
  BY DEF IInv, TypeOK, WaitInv
<1>g. /\ worker' \in [Workers -> {"try", "waiting", "registered", "gaveup"}]
      /\ worker'[w] = "try"
      /\ \A v \in Workers : v # w => worker'[v] = worker[v]
  BY DEF Lose, IInv, TypeOK
<1>h. /\ \A v \in Workers : v # w => tries'[v] = tries[v]
      /\ tries' \in [Workers -> 0..MaxRetries]
      /\ losses' \in 0..MaxLosses
      /\ UNCHANGED <<dispVars, hung, roundVars>>
      /\ worker[w] = "waiting" /\ told' = told
  BY RegistryAssumption DEF Lose, IInv, TypeOK, WaitInv
<1>1. TypeOK'
  BY <1>0, RegistryAssumption, <1>d, <1>e, <1>f, <1>g, <1>h
  DEF IInv, TypeOK, WaitInv, vars, dispVars, connVars, workVars, roundVars
<1>2. LockInv'
  BY <1>0, RegistryAssumption, <1>d, <1>e, <1>f, <1>g, <1>h
  DEF IInv, TypeOK, LockInv, OwnerInv, DownInv, vars, dispVars, connVars, workVars,
      roundVars
<1>3. OwnerInv'
  <2> SUFFICES ASSUME NEW d \in Conns
               PROVE  /\ conn'[d] = "free" <=> from'[d] = None
                      /\ conn'[d] \in {"answered", "late", "reset"} =>
                            wait'[from'[d]] = d
    BY DEF OwnerInv
  <2>0. /\ conn[d] = "free" <=> from[d] = None
        /\ conn[d] \in {"answered", "late", "reset"} => wait[from[d]] = d
        /\ from[d] \in Workers \union {None}
    BY DEF IInv, OwnerInv, TypeOK
  <2>1. CASE d = wait[w]
    BY <1>d, <2>0, <2>1
  <2>2. CASE d # wait[w]
    BY <1>d, <1>e, <2>0, <2>2
  <2> QED
    BY <2>1, <2>2
<1>4. WaitInv'
  <2> SUFFICES ASSUME NEW v \in Workers
               PROVE  /\ worker'[v] = "waiting" <=> wait'[v] # None
                      /\ wait'[v] # None => /\ from'[wait'[v]] = v
                                            /\ tries'[v] < MaxRetries
    BY DEF WaitInv
  <2>0. /\ worker[v] = "waiting" <=> wait[v] # None
        /\ wait[v] # None => /\ from[wait[v]] = v /\ tries[v] < MaxRetries
                              /\ wait[v] \in Conns
    BY DEF IInv, WaitInv, TypeOK
  <2>1. CASE v = w
    BY <1>e, <1>g, <2>1
  <2>2. CASE v # w
    BY <1>d, <1>e, <1>f, <1>g, <1>h, <2>0, <2>2
  <2> QED
    BY <2>1, <2>2
<1>5. SlotInv'
  BY <1>0, RegistryAssumption, <1>d, <1>e, <1>f, <1>g, <1>h
  DEF IInv, TypeOK, LockInv, OwnerInv, SlotInv, WaitInv, vars, dispVars, connVars,
      workVars, roundVars
<1>6. OneEntryEach'
  BY <1>0, RegistryAssumption, <1>d, <1>e, <1>f, <1>g, <1>h
  DEF IInv, TypeOK, SlotInv, OneEntryEach, vars, dispVars, connVars, workVars,
      roundVars
<1>7. SureInv'
  <2>1. ASSUME NEW d \in Conns, conn'[d] \in {"known", "answered"}
        PROVE  from'[d] \in Known'
    <3>1. conn'[d] = conn[d] /\ from'[d] = from[d]
      BY <1>d, <2>1
    <3> QED
      BY <1>0, <2>1, <3>1 DEF IInv, SureInv
  <2>2. ASSUME NEW v \in told'
        PROVE  v \in Known' /\ worker'[v] = "registered"
    <3>1. \A u \in told : u \in Workers /\ u \in Known /\ worker[u] = "registered"
      BY DEF IInv, SureInv, TypeOK
    <3>2. v \in told /\ v # w
      BY <1>h, <2>2, <3>1
    <3> QED
      BY <1>0, <1>g, <3>1, <3>2
  <2> QED
    BY <2>1, <2>2 DEF SureInv
<1>8. GoneInv'
  <2>1. ASSUME NEW v \in Workers, worker'[v] = "registered", v \notin told',
               NEW d \in Conns
        PROVE  from'[d] # v
    <3>1. v # w /\ worker[v] = "registered" /\ v \notin told
      BY <1>g, <1>h, <2>1
    <3>2. from[d] # v
      BY <3>1 DEF IInv, GoneInv
    <3> QED
      BY <1>d, <1>e, <3>2
  <2>2. ASSUME NEW d \in Conns, NEW e \in Conns,
               conn'[d] \in {"late", "reset"}, from'[e] = from'[d]
        PROVE  e = d
    <3>1. conn'[d] = conn[d] /\ from'[d] = from[d] /\ from[d] # None
      BY <1>d, <2>2 DEF IInv, OwnerInv
    <3>2. from'[e] = from[e]
      BY <1>d, <1>e, <2>2, <3>1
    <3> QED
      BY <2>2, <3>1, <3>2 DEF IInv, GoneInv
  <2> QED
    BY <2>1, <2>2 DEF GoneInv
<1>9. DownInv'
  BY <1>0, RegistryAssumption, <1>d, <1>e, <1>f, <1>g, <1>h
  DEF IInv, TypeOK, LockInv, OwnerInv, DownInv, RoundInv, vars, dispVars, connVars,
      workVars, roundVars
<1>10. RoundInv'
  BY <1>0, RegistryAssumption, <1>d, <1>e, <1>f, <1>g, <1>h
  DEF IInv, TypeOK, RoundInv, SlotInv, DownInv, vars, dispVars, connVars, workVars,
      roundVars
<1> QED
  BY <1>1, <1>2, <1>3, <1>4, <1>5, <1>6, <1>7, <1>8, <1>9, <1>10 DEF IInv

LEMMA RelaunchKeeps ==
  ASSUME NEW w \in Workers, IInv, Relaunch(w)
  PROVE  IInv'
<1>0. Known' = Known /\ UNCHANGED registry
  BY KnownStays DEF Relaunch, vars, dispVars, connVars, workVars, roundVars
<1>c. Close(wait[w])
  BY DEF Relaunch
<1>d. /\ conn' \in [Conns -> {"free", "sent", "grown", "known", "answered",
                             "late", "reset"}]
      /\ from' \in [Conns -> Workers \union {None}]
      /\ \A d \in Conns : d # wait[w] => conn'[d] = conn[d] /\ from'[d] = from[d]
      /\ \A d \in Conns : d = wait[w] =>
            \/ /\ conn[d] \in {"sent", "grown", "known"}
               /\ conn'[d] = conn[d] /\ from'[d] = from[d]
            \/ /\ conn[d] \notin {"sent", "grown", "known"}
               /\ conn'[d] = "free" /\ from'[d] = None
  BY <1>c, ClosingOne
<1>e. /\ wait' \in [Workers -> Conns \union {None}] /\ wait'[w] = None
      /\ \A v \in Workers : v # w => wait'[v] = wait[v]
      /\ None \notin Conns /\ None \notin Workers
  BY RegistryAssumption DEF Relaunch, IInv, TypeOK
<1>f. /\ wait[w] # None => wait[w] \in Conns /\ from[wait[w]] = w
      /\ \A v \in Workers : v # w /\ wait[v] # None => wait[v] # wait[w]
  BY DEF IInv, TypeOK, WaitInv
<1>g. /\ worker' \in [Workers -> {"try", "waiting", "registered", "gaveup"}]
      /\ worker'[w] = "try"
      /\ \A v \in Workers : v # w => worker'[v] = worker[v]
  BY DEF Relaunch, IInv, TypeOK
<1>h. /\ \A v \in Workers : v # w => tries'[v] = tries[v]
      /\ tries' \in [Workers -> 0..MaxRetries]
      /\ losses' \in 0..MaxLosses
      /\ hung' \subseteq Workers /\ UNCHANGED <<dispVars, roundVars>>
      /\ told' = told \ {w}
  BY RegistryAssumption DEF Relaunch, IInv, TypeOK, WaitInv
<1>1. TypeOK'
  BY <1>0, RegistryAssumption, <1>d, <1>e, <1>f, <1>g, <1>h
  DEF IInv, TypeOK, WaitInv, vars, dispVars, connVars, workVars, roundVars
<1>2. LockInv'
  BY <1>0, RegistryAssumption, <1>d, <1>e, <1>f, <1>g, <1>h
  DEF IInv, TypeOK, LockInv, OwnerInv, DownInv, vars, dispVars, connVars, workVars,
      roundVars
<1>3. OwnerInv'
  <2> SUFFICES ASSUME NEW d \in Conns
               PROVE  /\ conn'[d] = "free" <=> from'[d] = None
                      /\ conn'[d] \in {"answered", "late", "reset"} =>
                            wait'[from'[d]] = d
    BY DEF OwnerInv
  <2>0. /\ conn[d] = "free" <=> from[d] = None
        /\ conn[d] \in {"answered", "late", "reset"} => wait[from[d]] = d
        /\ from[d] \in Workers \union {None}
    BY DEF IInv, OwnerInv, TypeOK
  <2>1. CASE d = wait[w]
    BY <1>d, <2>0, <2>1
  <2>2. CASE d # wait[w]
    BY <1>d, <1>e, <2>0, <2>2
  <2> QED
    BY <2>1, <2>2
<1>4. WaitInv'
  <2> SUFFICES ASSUME NEW v \in Workers
               PROVE  /\ worker'[v] = "waiting" <=> wait'[v] # None
                      /\ wait'[v] # None => /\ from'[wait'[v]] = v
                                            /\ tries'[v] < MaxRetries
    BY DEF WaitInv
  <2>0. /\ worker[v] = "waiting" <=> wait[v] # None
        /\ wait[v] # None => /\ from[wait[v]] = v /\ tries[v] < MaxRetries
                              /\ wait[v] \in Conns
    BY DEF IInv, WaitInv, TypeOK
  <2>1. CASE v = w
    BY <1>e, <1>g, <2>1
  <2>2. CASE v # w
    BY <1>d, <1>e, <1>f, <1>g, <1>h, <2>0, <2>2
  <2> QED
    BY <2>1, <2>2
<1>5. SlotInv'
  BY <1>0, RegistryAssumption, <1>d, <1>e, <1>f, <1>g, <1>h
  DEF IInv, TypeOK, LockInv, OwnerInv, SlotInv, WaitInv, vars, dispVars, connVars,
      workVars, roundVars
<1>6. OneEntryEach'
  BY <1>0, RegistryAssumption, <1>d, <1>e, <1>f, <1>g, <1>h
  DEF IInv, TypeOK, SlotInv, OneEntryEach, vars, dispVars, connVars, workVars,
      roundVars
<1>7. SureInv'
  <2>1. ASSUME NEW d \in Conns, conn'[d] \in {"known", "answered"}
        PROVE  from'[d] \in Known'
    <3>1. conn'[d] = conn[d] /\ from'[d] = from[d]
      BY <1>d, <2>1
    <3> QED
      BY <1>0, <2>1, <3>1 DEF IInv, SureInv
  <2>2. ASSUME NEW v \in told'
        PROVE  v \in Known' /\ worker'[v] = "registered"
    <3>1. \A u \in told : u \in Workers /\ u \in Known /\ worker[u] = "registered"
      BY DEF IInv, SureInv, TypeOK
    <3>2. v \in told /\ v # w
      BY <1>h, <2>2, <3>1
    <3> QED
      BY <1>0, <1>g, <3>1, <3>2
  <2> QED
    BY <2>1, <2>2 DEF SureInv
<1>8. GoneInv'
  <2>1. ASSUME NEW v \in Workers, worker'[v] = "registered", v \notin told',
               NEW d \in Conns
        PROVE  from'[d] # v
    <3>1. v # w /\ worker[v] = "registered" /\ v \notin told
      BY <1>g, <1>h, <2>1
    <3>2. from[d] # v
      BY <3>1 DEF IInv, GoneInv
    <3> QED
      BY <1>d, <1>e, <3>2
  <2>2. ASSUME NEW d \in Conns, NEW e \in Conns,
               conn'[d] \in {"late", "reset"}, from'[e] = from'[d]
        PROVE  e = d
    <3>1. conn'[d] = conn[d] /\ from'[d] = from[d] /\ from[d] # None
      BY <1>d, <2>2 DEF IInv, OwnerInv
    <3>2. from'[e] = from[e]
      BY <1>d, <1>e, <2>2, <3>1
    <3> QED
      BY <2>2, <3>1, <3>2 DEF IInv, GoneInv
  <2> QED
    BY <2>1, <2>2 DEF GoneInv
<1>9. DownInv'
  <2> SUFFICES ASSUME ~up'
               PROVE  /\ registry' = <<>> /\ mu' = None /\ told' = {}
                      /\ visit' = 0 /\ snap' = 0
                      /\ \A d \in Conns : conn'[d] \in {"free", "late", "reset"}
    BY DEF DownInv
  <2>1. ~up /\ registry' = registry /\ mu' = mu /\ visit' = visit /\ snap' = snap
    BY <1>h DEF dispVars, roundVars
  <2>2. /\ registry = <<>> /\ mu = None /\ told = {} /\ visit = 0 /\ snap = 0
        /\ \A d \in Conns : conn[d] \in {"free", "late", "reset"}
    BY <2>1 DEF IInv, DownInv
  <2>3. \A d \in Conns : conn'[d] \in {"free", "late", "reset"}
    BY <1>d, <2>2
  <2> QED
    BY <1>h, <2>1, <2>2, <2>3
<1>10. RoundInv'
  BY <1>0, RegistryAssumption, <1>d, <1>e, <1>f, <1>g, <1>h
  DEF IInv, TypeOK, RoundInv, SlotInv, DownInv, vars, dispVars, connVars, workVars,
      roundVars
<1> QED
  BY <1>1, <1>2, <1>3, <1>4, <1>5, <1>6, <1>7, <1>8, <1>9, <1>10 DEF IInv

LEMMA SubscribeKeeps ==
  ASSUME NEW c \in Conns, IInv, Subscribe(c)
  PROVE  IInv'
<1>a. registry \in Seq(Entries) /\ Len(registry) \in Nat
  BY LenProperties DEF IInv, TypeOK
<1>0. /\ Known' = Known
      /\ registry' \in Seq(Entries)
      /\ \/ /\ conn' = [conn EXCEPT ![c] = "known"] /\ from[c] \in Known
            /\ UNCHANGED registry
         \/ /\ conn' = [conn EXCEPT ![c] = "grown"] /\ from[c] \notin Known
            /\ Len(registry') = Len(registry) + 1
            /\ registry'[Len(registry')] = Nil
            /\ \A i \in 1..Len(registry) : registry'[i] = registry[i]
  <2>1. CASE from[c] \in Known
    BY <2>1, <1>a, KnownStays DEF Subscribe
  <2>2. CASE from[c] \notin Known
    BY <2>2, <1>a, GrowFacts DEF Subscribe
  <2> QED
    BY <2>1, <2>2
<1>b. /\ mu = None /\ mu' = c /\ conn[c] = "sent"
      /\ UNCHANGED <<up, crashes, losses, from, workVars, roundVars>>
  BY DEF Subscribe
<1>1. TypeOK'
  BY <1>0, RegistryAssumption, <1>a, <1>b
  DEF IInv, TypeOK, WaitInv, vars, dispVars, connVars, workVars, roundVars
<1>2. LockInv'
  BY <1>0, RegistryAssumption, <1>a, <1>b
  DEF IInv, TypeOK, LockInv, OwnerInv, DownInv, vars, dispVars, connVars, workVars,
      roundVars
<1>3. OwnerInv'
  BY <1>0, RegistryAssumption, <1>a, <1>b
  DEF IInv, TypeOK, OwnerInv, WaitInv, vars, dispVars, connVars, workVars, roundVars
<1>4. WaitInv'
  BY <1>0, RegistryAssumption, <1>a, <1>b
  DEF IInv, TypeOK, OwnerInv, WaitInv, vars, dispVars, connVars, workVars, roundVars
<1>5. SlotInv'
  <2>0. /\ \A d \in Conns : conn[d] \notin {"grown", "known"}
        /\ \A i \in 1..Len(registry) : registry[i] # Nil
    BY <1>b, RegistryAssumption DEF IInv, LockInv, SlotInv
  <2>1. CASE from[c] \in Known
    <3>1. /\ \A d \in Conns : conn'[d] # "grown"
          /\ \A i \in 1..Len(registry') : registry'[i] # Nil
      BY <1>0, <1>b, <2>0, <2>1 DEF IInv, TypeOK
    <3> QED
      BY <3>1 DEF SlotInv
  <2>2. CASE from[c] \notin Known
    <3>1. /\ conn'[c] = "grown"
          /\ \A d \in Conns : d # c => conn'[d] # "grown"
      BY <1>0, <1>b, <2>0, <2>2 DEF IInv, TypeOK
    <3>2. /\ Len(registry') = Len(registry) + 1 /\ Len(registry) \in Nat
          /\ registry'[Len(registry')] = Nil
          /\ \A i \in 1..Len(registry) : registry'[i] = registry[i]
          /\ Known' = Known
      BY <1>0, <1>a, <2>2
    <3>3. \A i \in 1..Len(registry') : registry'[i] = Nil => i = Len(registry')
      BY <2>0, <3>2
    <3>4. from'[c] \notin Known'
      BY <1>b, <2>2, <3>2
    <3>5. Len(registry') > 0
      BY <3>2
    <3> QED
      BY <3>1, <3>2, <3>3, <3>4, <3>5 DEF SlotInv
  <2> QED
    BY <2>1, <2>2
<1>6. OneEntryEach'
  BY <1>0, RegistryAssumption, <1>a, <1>b, SMTT(30)
  DEF IInv, TypeOK, SlotInv, OneEntryEach, vars, dispVars, connVars, workVars,
      roundVars
<1>7. SureInv'
  BY <1>0, RegistryAssumption, <1>a, <1>b, SMTT(30)
  DEF IInv, TypeOK, LockInv, OwnerInv, SlotInv, SureInv, WaitInv, vars, dispVars,
      connVars, workVars, roundVars
<1>8. GoneInv'
  BY <1>0, RegistryAssumption, <1>a, <1>b
  DEF IInv, TypeOK, OwnerInv, WaitInv, SureInv, GoneInv, LockInv, vars, dispVars,
      connVars, workVars, roundVars
<1>9. DownInv'
  BY <1>0, RegistryAssumption, <1>a, <1>b
  DEF IInv, TypeOK, LockInv, OwnerInv, DownInv, RoundInv, vars, dispVars, connVars,
      workVars, roundVars
<1>10. RoundInv'
  BY <1>0, RegistryAssumption, <1>a, <1>b
  DEF IInv, TypeOK, RoundInv, SlotInv, DownInv, vars, dispVars, connVars, workVars,
      roundVars
<1> QED
  BY <1>1, <1>2, <1>3, <1>4, <1>5, <1>6, <1>7, <1>8, <1>9, <1>10 DEF IInv

LEMMA StoreKeeps ==
  ASSUME NEW c \in Conns, IInv, Store(c)
  PROVE  IInv'
<1>a. /\ from[c] \in Workers /\ registry \in Seq(Entries) /\ Len(registry) \in Nat
      /\ Len(registry) > 0 /\ registry[Len(registry)] = Nil
  BY LenProperties DEF Store, IInv, TypeOK, OwnerInv, SlotInv
<1>0. /\ registry' \in Seq(Entries) /\ Len(registry') = Len(registry)
      /\ registry'[Len(registry)] = [id |-> Len(registry), url |-> from[c]]
      /\ registry'[Len(registry)] # Nil
      /\ \A i \in 1..Len(registry) :
            i # Len(registry) => registry'[i] = registry[i]
      /\ Known' = Known \union {from[c]}
  BY <1>a, StoreFacts DEF Store
<1>b. /\ conn[c] = "grown"
      /\ conn' \in [Conns -> {"free", "sent", "grown", "known", "answered",
                             "late", "reset"}]
      /\ conn'[c] = "known"
      /\ \A d \in Conns : d # c => conn'[d] = conn[d]
      /\ UNCHANGED <<up, crashes, mu, losses, from, workVars, roundVars>>
  BY DEF Store, IInv, TypeOK
<1>1. TypeOK'
  BY <1>0, RegistryAssumption, <1>a, <1>b
  DEF IInv, TypeOK, WaitInv, vars, dispVars, connVars, workVars, roundVars
<1>2. LockInv'
  BY <1>0, RegistryAssumption, <1>a, <1>b
  DEF IInv, TypeOK, LockInv, OwnerInv, DownInv, vars, dispVars, connVars, workVars,
      roundVars
<1>3. OwnerInv'
  BY <1>0, RegistryAssumption, <1>a, <1>b, SMTT(30)
  DEF IInv, TypeOK, OwnerInv, WaitInv, vars, dispVars, connVars, workVars, roundVars
<1>4. WaitInv'
  BY <1>0, RegistryAssumption, <1>a, <1>b
  DEF IInv, TypeOK, OwnerInv, WaitInv, vars, dispVars, connVars, workVars, roundVars
<1>5. SlotInv'
  BY <1>0, RegistryAssumption, <1>a, <1>b, SMTT(30)
  DEF IInv, TypeOK, LockInv, OwnerInv, SlotInv, WaitInv, vars, dispVars, connVars,
      workVars, roundVars
<1>6. OneEntryEach'
  <2>0. from[c] \notin Known
    BY <1>b DEF IInv, SlotInv
  <2>1. \A i \in 1..Len(registry) : i # Len(registry) =>
           /\ registry[i] # Nil => registry[i].id = i
           /\ registry[i] # Nil => registry[i].url # from[c]
    BY <1>a, <2>0 DEF IInv, OneEntryEach, Known
  <2>2. ASSUME NEW i \in 1..Len(registry'), NEW j \in 1..Len(registry'),
               registry'[i] # Nil
        PROVE  /\ registry'[i].id = i
               /\ registry'[j] # Nil /\ registry'[i].url = registry'[j].url => i = j
    <3>1. CASE i = Len(registry)
      BY <1>0, <1>a, <2>1, <3>1
    <3>2. CASE i # Len(registry) /\ j = Len(registry)
      BY <1>0, <1>a, <2>1, <2>2, <3>2
    <3>3. CASE i # Len(registry) /\ j # Len(registry)
      BY <1>0, <1>a, <2>1, <2>2, <3>3 DEF IInv, OneEntryEach
    <3> QED
      BY <3>1, <3>2, <3>3
  <2> QED
    BY <2>2 DEF OneEntryEach
<1>7. SureInv'
  BY <1>0, RegistryAssumption, <1>a, <1>b, SMTT(30)
  DEF IInv, TypeOK, LockInv, OwnerInv, SlotInv, SureInv, WaitInv, vars, dispVars,
      connVars, workVars, roundVars
<1>8. GoneInv'
  BY <1>0, RegistryAssumption, <1>a, <1>b, SMTT(30)
  DEF IInv, TypeOK, OwnerInv, WaitInv, SureInv, GoneInv, LockInv, vars, dispVars,
      connVars, workVars, roundVars
<1>9. DownInv'
  BY <1>0, RegistryAssumption, <1>a, <1>b
  DEF IInv, TypeOK, LockInv, OwnerInv, DownInv, RoundInv, vars, dispVars, connVars,
      workVars, roundVars
<1>10. RoundInv'
  BY <1>0, RegistryAssumption, <1>a, <1>b
  DEF IInv, TypeOK, RoundInv, SlotInv, DownInv, vars, dispVars, connVars, workVars,
      roundVars
<1> QED
  BY <1>1, <1>2, <1>3, <1>4, <1>5, <1>6, <1>7, <1>8, <1>9, <1>10 DEF IInv

LEMMA AnswerKeeps ==
  ASSUME NEW c \in Conns, IInv, Answer(c)
  PROVE  IInv'
<1>0. Known' = Known /\ UNCHANGED registry
  BY KnownStays DEF Answer, vars, dispVars, connVars, workVars, roundVars
<1>1. TypeOK'
  <2>1. /\ conn' \in [Conns -> {"free", "sent", "grown", "known", "answered",
                                "late", "reset"}]
        /\ from' \in [Conns -> Workers \union {None}]
    BY DEF Answer, IInv, TypeOK
  <2>2. mu' = None /\ UNCHANGED <<up, crashes, registry, losses, workVars, roundVars>>
    BY DEF Answer
  <2> QED
    BY <2>1, <2>2 DEF IInv, TypeOK, workVars, roundVars
<1>2. LockInv'
  BY <1>0, RegistryAssumption
  DEF Answer, IInv, TypeOK, LockInv, OwnerInv, DownInv, vars, dispVars, connVars,
      workVars, roundVars
<1>3. OwnerInv'
  <2> SUFFICES ASSUME NEW d \in Conns
               PROVE  /\ conn'[d] = "free" <=> from'[d] = None
                      /\ conn'[d] \in {"answered", "late", "reset"} =>
                            wait'[from'[d]] = d
    BY DEF OwnerInv
  <2>0. /\ conn[d] = "free" <=> from[d] = None
        /\ conn[d] \in {"answered", "late", "reset"} => wait[from[d]] = d
        /\ wait' = wait
    BY DEF Answer, workVars, IInv, OwnerInv
  <2>1. CASE wait[from[c]] = c
    <3>1. conn' = [conn EXCEPT ![c] = "answered"] /\ from' = from
      BY <2>1 DEF Answer
    <3>2. from[c] # None
      BY DEF Answer, IInv, OwnerInv
    <3> QED
      BY <2>0, <2>1, <3>1, <3>2 DEF IInv, TypeOK
  <2>2. CASE wait[from[c]] # c
    <3>1. /\ conn' = [conn EXCEPT ![c] = "free"]
          /\ from' = [from EXCEPT ![c] = None]
      BY <2>2 DEF Answer
    <3> QED
      BY <2>0, <3>1 DEF IInv, TypeOK
  <2> QED
    BY <2>1, <2>2
<1>4. WaitInv'
  <2> SUFFICES ASSUME NEW v \in Workers
               PROVE  /\ worker[v] = "waiting" <=> wait[v] # None
                      /\ wait[v] # None => from'[wait[v]] = v /\ tries[v] < MaxRetries
    BY DEF WaitInv, Answer, workVars
  <2>1. /\ worker[v] = "waiting" <=> wait[v] # None
        /\ wait[v] # None => /\ from[wait[v]] = v /\ tries[v] < MaxRetries
                              /\ wait[v] \in Conns
    BY DEF IInv, WaitInv, TypeOK
  <2>2. wait[v] # None => from'[wait[v]] = from[wait[v]]
    <3>1. CASE wait[from[c]] = c
      BY <3>1 DEF Answer
    <3>2. CASE wait[from[c]] # c
      <4>1. from' = [from EXCEPT ![c] = None]
        BY <3>2 DEF Answer
      <4>2. wait[v] # None => wait[v] # c
        BY <2>1, <3>2
      <4> QED
        BY <2>1, <4>1, <4>2 DEF IInv, TypeOK
    <3> QED
      BY <3>1, <3>2
  <2> QED
    BY <2>1, <2>2
<1>5. SlotInv'
  <2>1. \A d \in Conns : (conn'[d] = "grown" <=> conn[d] = "grown")
                           /\ (conn[d] = "grown" => from'[d] = from[d])
    <3>1. /\ conn[c] = "known" /\ conn'[c] \in {"answered", "free"}
          /\ \A d \in Conns \ {c} : conn'[d] = conn[d] /\ from'[d] = from[d]
      BY DEF Answer, IInv, TypeOK
    <3> QED
      BY <3>1
  <2> QED
    BY <1>0, <2>1 DEF IInv, SlotInv
<1>6. OneEntryEach'
  BY <1>0, RegistryAssumption
  DEF Answer, IInv, TypeOK, SlotInv, OneEntryEach, vars, dispVars, connVars,
      workVars, roundVars
<1>7. SureInv'
  BY <1>0, RegistryAssumption
  DEF Answer, IInv, TypeOK, LockInv, OwnerInv, SlotInv, SureInv, WaitInv, vars,
      dispVars, connVars, workVars, roundVars
<1>8. GoneInv'
  BY <1>0, RegistryAssumption
  DEF Answer, IInv, TypeOK, OwnerInv, WaitInv, SureInv, GoneInv, LockInv, vars,
      dispVars, connVars, workVars, roundVars
<1>9. DownInv'
  BY <1>0, RegistryAssumption
  DEF Answer, IInv, TypeOK, LockInv, OwnerInv, DownInv, RoundInv, vars, dispVars,
      connVars, workVars, roundVars
<1>10. RoundInv'
  BY <1>0, RegistryAssumption
  DEF Answer, IInv, TypeOK, RoundInv, SlotInv, DownInv, vars, dispVars, connVars,
      workVars, roundVars
<1> QED
  BY <1>1, <1>2, <1>3, <1>4, <1>5, <1>6, <1>7, <1>8, <1>9, <1>10 DEF IInv

LEMMA RoundBeginKeeps ==
  ASSUME IInv, RoundBegin
  PROVE  IInv'
<1>1. LockInv' /\ OwnerInv' /\ SlotInv' /\ OneEntryEach' /\ SureInv' /\ GoneInv'
  BY QuietKeeps DEF RoundBegin, dispVars, workVars
<1>2. TypeOK' /\ WaitInv'
  BY RegistryAssumption
  DEF RoundBegin, IInv, TypeOK, WaitInv, dispVars, connVars, workVars, roundVars
<1>3. DownInv' /\ RoundInv'
  BY DEF RoundBegin, IInv, TypeOK, DownInv, RoundInv, dispVars, connVars, workVars,
         roundVars
<1> QED
  BY <1>1, <1>2, <1>3 DEF IInv

LEMMA VisitKeeps ==
  ASSUME IInv, Visit
  PROVE  IInv'
<1>1. LockInv' /\ OwnerInv' /\ SlotInv' /\ OneEntryEach' /\ SureInv' /\ GoneInv'
  BY QuietKeeps DEF Visit, dispVars, workVars
<1>2. TypeOK' /\ WaitInv'
  BY RegistryAssumption
  DEF Visit, IInv, TypeOK, WaitInv, dispVars, connVars, workVars, roundVars
<1>3. DownInv' /\ RoundInv'
  BY DEF Visit, IInv, TypeOK, DownInv, RoundInv, dispVars, connVars, workVars,
         roundVars
<1> QED
  BY <1>1, <1>2, <1>3 DEF IInv

LEMMA RoundEndKeeps ==
  ASSUME IInv, RoundEnd
  PROVE  IInv'
<1>1. LockInv' /\ OwnerInv' /\ SlotInv' /\ OneEntryEach' /\ SureInv' /\ GoneInv'
  BY QuietKeeps DEF RoundEnd, dispVars, workVars
<1>2. TypeOK' /\ WaitInv'
  BY RegistryAssumption
  DEF RoundEnd, IInv, TypeOK, WaitInv, dispVars, connVars, workVars, roundVars
<1>3. DownInv' /\ RoundInv'
  BY DEF RoundEnd, IInv, TypeOK, DownInv, RoundInv, dispVars, connVars, workVars,
         roundVars
<1> QED
  BY <1>1, <1>2, <1>3 DEF IInv

LEMMA EndKeeps ==
  ASSUME IInv, End
  PROVE  IInv'
<1>0. /\ registry' = <<>> /\ Len(registry') = 0 /\ registry' \in Seq(Entries)
      /\ Known' = {}
  BY EmptySeq DEF End, Known
<1>a. /\ up' = FALSE /\ mu' = None /\ told' = {} /\ visit' = 0 /\ snap' = 0
      /\ UNCHANGED <<losses, worker, tries, wait, hung>>
      /\ crashes' \in 0..MaxCrashes
  BY RegistryAssumption DEF End, IInv, TypeOK
<1>b. \A c \in Conns :
         \/ Orphan(c) /\ conn'[c] = "free" /\ from'[c] = None
         \/ /\ conn[c] # "free" /\ wait[from[c]] = c
            /\ conn'[c] \in {"late", "reset"} /\ from'[c] = from[c]
  <2> SUFFICES ASSUME NEW c \in Conns
               PROVE  \/ Orphan(c) /\ conn'[c] = "free" /\ from'[c] = None
                      \/ /\ conn[c] # "free" /\ wait[from[c]] = c
                         /\ conn'[c] \in {"late", "reset"} /\ from'[c] = from[c]
    OBVIOUS
  <2>1. /\ conn'[c] = CASE Orphan(c) -> "free"
                         [] conn[c] \in {"answered", "late"} -> "late"
                         [] OTHER -> "reset"
        /\ from'[c] = IF Orphan(c) THEN None ELSE from[c]
    BY DEF End
  <2>2. CASE Orphan(c)
    <3>1. conn'[c] = "free"
      BY <2>1, <2>2 DEF Orphan, IInv, OwnerInv
    <3> QED
      BY <2>1, <2>2, <3>1
  <2>3. CASE ~Orphan(c)
    <3>1. conn'[c] \in {"late", "reset"}
      BY <2>1, <2>3
    <3> QED
      BY <2>1, <2>3, <3>1 DEF Orphan
  <2> QED
    BY <2>2, <2>3
<1>c. /\ conn' \in [Conns -> {"free", "sent", "grown", "known", "answered",
                             "late", "reset"}]
      /\ from' \in [Conns -> Workers \union {None}]
  <2>1. conn' = [c \in Conns |-> conn'[c]] /\ from' = [c \in Conns |-> from'[c]]
    BY DEF End
  <2>2. \A c \in Conns : /\ conn'[c] \in {"free", "late", "reset"}
                         /\ from'[c] \in Workers \union {None}
    BY <1>b DEF IInv, TypeOK
  <2> QED
    BY <2>1, <2>2
<1>1. TypeOK'
  BY <1>0, <1>a, <1>c DEF IInv, TypeOK
<1>2. LockInv' /\ SlotInv' /\ OneEntryEach'
  BY <1>0, <1>a, <1>b, RegistryAssumption DEF LockInv, SlotInv, OneEntryEach
<1>3. OwnerInv'
  BY <1>a, <1>b DEF IInv, OwnerInv
<1>4. WaitInv'
  <2> SUFFICES ASSUME NEW w \in Workers
               PROVE  /\ worker[w] = "waiting" <=> wait[w] # None
                      /\ wait[w] # None => from'[wait[w]] = w /\ tries[w] < MaxRetries
    BY <1>a DEF WaitInv
  <2>1. wait[w] # None => /\ wait[w] \in Conns /\ from[wait[w]] = w
                          /\ conn[wait[w]] # "free"
    <3>1. None \notin Workers
      BY RegistryAssumption
    <3>2. wait[w] # None => wait[w] \in Conns /\ from[wait[w]] = w
      BY DEF IInv, WaitInv, TypeOK
    <3> QED
      BY <3>1, <3>2 DEF IInv, OwnerInv
  <2>2. wait[w] # None => ~Orphan(wait[w])
    BY <2>1 DEF Orphan
  <2> QED
    BY <1>b, <2>1, <2>2 DEF IInv, WaitInv
<1>5. SureInv' /\ DownInv' /\ RoundInv'
  BY <1>0, <1>a, <1>b DEF SureInv, DownInv, RoundInv
<1>6. GoneInv'
  <2>1. \A c \in Conns : from'[c] # None => /\ from'[c] = from[c]
                                            /\ wait[from[c]] = c
                                            /\ from[c] \in Workers
    BY <1>b DEF IInv, TypeOK
  <2>2. ASSUME NEW w \in Workers, worker[w] = "registered", NEW c \in Conns
        PROVE  from'[c] # w
    BY <2>1, <2>2, RegistryAssumption DEF IInv, WaitInv
  <2>3. ASSUME NEW c \in Conns, NEW d \in Conns,
               conn'[c] \in {"late", "reset"}, from'[d] = from'[c]
        PROVE  d = c
    <3>1. from'[c] # None
      BY <1>3, <2>3 DEF OwnerInv
    <3> QED
      BY <2>1, <2>3, <3>1
  <2> QED
    BY <1>a, <2>2, <2>3 DEF GoneInv
<1> QED
  BY <1>1, <1>2, <1>3, <1>4, <1>5, <1>6 DEF IInv

LEMMA RestartKeeps ==
  ASSUME IInv, Restart
  PROVE  IInv'
<1>1. LockInv' /\ OwnerInv' /\ SlotInv' /\ OneEntryEach' /\ SureInv' /\ GoneInv'
  BY QuietKeeps DEF Restart, dispVars, workVars
<1>2. TypeOK' /\ WaitInv'
  BY RegistryAssumption
  DEF Restart, IInv, TypeOK, WaitInv, dispVars, connVars, workVars, roundVars
<1>3. DownInv' /\ RoundInv'
  BY DEF Restart, IInv, TypeOK, DownInv, RoundInv, dispVars, connVars, workVars,
         roundVars
<1> QED
  BY <1>1, <1>2, <1>3 DEF IInv

-----------------------------------------------------------------------------
LEMMA InitHolds == Init => IInv
<1> SUFFICES ASSUME Init PROVE IInv
  OBVIOUS
<1>1. registry \in Seq(Entries) /\ Len(registry) = 0 /\ registry = <<>>
  BY EmptySeq DEF Init
<1>2. TypeOK /\ LockInv /\ OwnerInv /\ WaitInv
  BY <1>1, RegistryAssumption DEF Init, TypeOK, LockInv, OwnerInv, WaitInv
<1>3. SlotInv /\ OneEntryEach /\ SureInv /\ GoneInv /\ DownInv /\ RoundInv
  BY <1>1, RegistryAssumption
  DEF Init, SlotInv, OneEntryEach, SureInv, GoneInv, DownInv, RoundInv
<1> QED
  BY <1>2, <1>3 DEF IInv

LEMMA StutterKeeps == IInv /\ UNCHANGED vars => IInv'
<1> SUFFICES ASSUME IInv, UNCHANGED vars PROVE IInv'
  OBVIOUS
<1>1. LockInv' /\ OwnerInv' /\ SlotInv' /\ OneEntryEach' /\ SureInv' /\ GoneInv'
  BY QuietKeeps DEF vars, dispVars, workVars
<1>2. TypeOK' /\ WaitInv' /\ DownInv' /\ RoundInv'
  BY DEF vars, dispVars, connVars, workVars, roundVars, IInv, TypeOK, WaitInv,
         DownInv, RoundInv
<1> QED
  BY <1>1, <1>2 DEF IInv

LEMMA NextHolds == IInv /\ [Next]_vars => IInv'
<1> SUFFICES ASSUME IInv, [Next]_vars PROVE IInv'
  OBVIOUS
<1>1. ASSUME NEW w \in Workers, Attempt(w) \/ Lose(w) \/ Hang(w) \/ Relaunch(w)
      PROVE  IInv'
  BY <1>1, SendKeeps, RefusedKeeps, ReceiveKeeps, ResetKeeps, GiveUpKeeps,
     LoseKeeps, HangKeeps, RelaunchKeeps DEF Attempt
<1>2. ASSUME NEW c \in Conns, Handle(c)
      PROVE  IInv'
  BY <1>2, SubscribeKeeps, StoreKeeps, AnswerKeeps DEF Handle
<1>3. CASE Round
  BY <1>3, RoundBeginKeeps, VisitKeeps, RoundEndKeeps DEF Round
<1>4. CASE Crash \/ ReadNil \/ Restart
  BY <1>4, EndKeeps, RestartKeeps DEF Crash, ReadNil
<1>5. CASE UNCHANGED vars
  BY <1>5, StutterKeeps
<1> QED
  BY <1>1, <1>2, <1>3, <1>4, <1>5 DEF Next

LEMMA Always == Spec => []IInv
BY InitHolds, NextHolds, PTL DEF Spec

\* Every variable of the registration has the values the code gives it.
THEOREM TypeCorrect == Spec => []TypeOK
<1>1. IInv => TypeOK
  BY DEF IInv
<1> QED
  BY Always, <1>1, PTL

\* suscribirHandler never lists a worker server twice, however often its
\* attempts are given up, repeated or handled late.
THEOREM NobodyTwice == Spec => []OneEntryEach
<1>1. IInv => OneEntryEach
  BY DEF IInv
<1> QED
  BY Always, <1>1, PTL

-----------------------------------------------------------------------------
\* A worker server that a dispatcher has forgotten, and that is not started
\* again, stays forgotten.
LEMMA ForgottenStep ==
  ASSUME IInv, [Next]_vars, NEW w \in Workers, Forgotten(w)
  PROVE  \/ w \notin Known' /\ worker'[w] = "registered"
         \/ losses' = losses + 1 /\ tries'[w] = 0
<1>0. worker[w] = "registered" /\ w \notin Known /\ \A c \in Conns : from[c] # w
  BY DEF Forgotten, IInv, GoneInv
<1>1. ASSUME NEW v \in Workers, Attempt(v) \/ Lose(v) \/ Hang(v)
      PROVE  w \notin Known' /\ worker'[w] = "registered"
  <2>1. UNCHANGED registry
    BY <1>1 DEF Attempt, Send, Refused, Receive, Reset, GiveUp, Lose, Hang, dispVars
  <2>2. worker[v] \in {"try", "waiting"} \/ worker' = worker
    BY <1>1 DEF Attempt, Send, Refused, Receive, Reset, GiveUp, Lose, Hang
  <2>3. worker'[w] = worker[w]
    BY <1>0, <1>1, <2>2
    DEF Attempt, Send, Refused, Receive, Reset, GiveUp, Lose, Hang, IInv, TypeOK
  <2> QED
    BY <1>0, <2>1, <2>3, KnownStays
<1>2. ASSUME NEW v \in Workers, Relaunch(v)
      PROVE  \/ w \notin Known' /\ worker'[w] = "registered"
             \/ losses' = losses + 1 /\ tries'[w] = 0
  <2>1. CASE v = w
    BY <1>2, <2>1 DEF Relaunch, IInv, TypeOK
  <2>2. CASE v # w
    BY <1>0, <1>2, <2>2, KnownStays DEF Relaunch, dispVars, IInv, TypeOK
  <2> QED
    BY <2>1, <2>2
<1>3. ASSUME NEW c \in Conns, Handle(c)
      PROVE  w \notin Known' /\ worker'[w] = "registered"
  <2>1. worker' = worker
    BY <1>3 DEF Handle, Subscribe, Store, Answer, workVars
  <2>2. CASE Subscribe(c)
    <3>1. Known' = Known
      BY <2>2, GrowFacts, KnownStays DEF Subscribe, IInv, TypeOK
    <3> QED
      BY <1>0, <2>1, <3>1
  <2>3. CASE Store(c)
    <3>1. /\ from[c] \in Workers /\ registry \in Seq(Entries)
          /\ Len(registry) > 0 /\ registry[Len(registry)] = Nil
      BY <2>3 DEF Store, IInv, TypeOK, OwnerInv, SlotInv
    <3>2. Known' = Known \union {from[c]}
      BY <2>3, <3>1, StoreFacts DEF Store
    <3> QED
      BY <1>0, <2>1, <3>2
  <2>4. CASE Answer(c)
    BY <1>0, <2>1, <2>4, KnownStays DEF Answer
  <2> QED
    BY <1>3, <2>2, <2>3, <2>4 DEF Handle
<1>4. CASE Round \/ Restart \/ UNCHANGED vars
  <2>1. UNCHANGED <<registry, worker>>
    BY <1>4 DEF Round, RoundBegin, Visit, RoundEnd, Restart, vars, dispVars,
                workVars
  <2> QED
    BY <1>0, <2>1, KnownStays
<1>5. CASE Crash \/ ReadNil
  <2>1. registry' = <<>> /\ worker' = worker
    BY <1>5 DEF Crash, ReadNil, End
  <2>2. Known' = {}
    BY <2>1, EmptySeq DEF Known
  <2> QED
    BY <1>0, <2>1, <2>2
<1> QED
  BY <1>1, <1>2, <1>3, <1>4, <1>5 DEF Next

\* After a crash of the dispatcher its workers are lost for good: only starting
\* a worker server again brings it back.
THEOREM LostForGood == Spec => ForgottenForGood
<1> DEFINE Stays == \A w \in Workers : Forgotten(w) =>
                       \/ w \notin Known' /\ worker'[w] = "registered"
                       \/ losses' = losses + 1 /\ tries'[w] = 0
<1>1. IInv /\ [Next]_vars => Stays
  BY ForgottenStep
<1>2. IInv /\ [Next]_vars => [Stays]_vars
  BY <1>1
<1> HIDE DEF Stays
<1>3. Spec => [][Stays]_vars
  BY <1>2, Always, PTL DEF Spec
<1> QED
  BY <1>3 DEF ForgottenForGood, Stays

-----------------------------------------------------------------------------
\* Every step of the registration is one of the membership, or none.
LEMMA MemberStep ==
  ASSUME IInv, [Next]_vars
  PROVE  [Members!Next]_(Members!vars)
<1> USE DEF Members!Next, Members!vars
<1>1. ASSUME NEW w \in Workers, Attempt(w) \/ Lose(w) \/ Hang(w)
      PROVE  [Members!Next]_(Members!vars)
  <2>1. UNCHANGED registry
    BY <1>1 DEF Attempt, Send, Refused, Receive, Reset, GiveUp, Lose, Hang, dispVars
  <2>2. Known' = Known
    BY <2>1, KnownStays
  <2>3. CASE Receive(w)
    <3>1. wait[w] \in Conns /\ from[wait[w]] = w
      BY <2>3, RegistryAssumption DEF Receive, IInv, WaitInv, TypeOK
    <3>2. CASE conn[wait[w]] = "late"
      BY <2>2, <2>3, <3>2 DEF Receive
    <3>3. CASE conn[wait[w]] = "answered"
      <4>1. w \in Known
        BY <3>1, <3>3 DEF IInv, SureInv
      <4>2. told' = told \union {w}
        BY <2>3, <3>3 DEF Receive
      <4> QED
        BY <2>2, <4>1, <4>2 DEF Members!Tell
    <3> QED
      BY <2>3, <3>2, <3>3 DEF Receive
  <2>4. CASE ~Receive(w)
    BY <1>1, <2>2, <2>4 DEF Attempt, Send, Refused, Reset, GiveUp, Lose, Hang, workVars
  <2> QED
    BY <2>3, <2>4
<1>2. ASSUME NEW w \in Workers, Relaunch(w)
      PROVE  [Members!Next]_(Members!vars)
  BY <1>2, KnownStays DEF Relaunch, dispVars, Members!Relaunch
<1>3. ASSUME NEW c \in Conns, Handle(c)
      PROVE  [Members!Next]_(Members!vars)
  <2>1. told' = told
    BY <1>3 DEF Handle, Subscribe, Store, Answer, workVars
  <2>2. CASE Subscribe(c)
    <3>1. Known' = Known
      BY <2>2, GrowFacts, KnownStays DEF Subscribe, IInv, TypeOK
    <3> QED
      BY <2>1, <3>1
  <2>3. CASE Store(c)
    <3>1. /\ from[c] \in Workers /\ registry \in Seq(Entries)
          /\ Len(registry) > 0 /\ registry[Len(registry)] = Nil
          /\ from[c] \notin Known
      BY <2>3 DEF Store, IInv, TypeOK, OwnerInv, SlotInv
    <3>2. Known' = Known \union {from[c]}
      BY <2>3, <3>1, StoreFacts DEF Store
    <3> QED
      BY <2>1, <3>1, <3>2 DEF Members!Join
  <2>4. CASE Answer(c)
    BY <2>1, <2>4, KnownStays DEF Answer
  <2> QED
    BY <1>3, <2>2, <2>3, <2>4 DEF Handle
<1>4. CASE Round \/ Restart \/ UNCHANGED vars
  <2>1. UNCHANGED <<registry, told>>
    BY <1>4 DEF Round, RoundBegin, Visit, RoundEnd, Restart, vars, dispVars,
                workVars
  <2> QED
    BY <2>1, KnownStays
<1>5. CASE Crash \/ ReadNil
  <2>1. registry' = <<>> /\ told' = {}
    BY <1>5 DEF Crash, ReadNil, End
  <2>2. Known' = {}
    BY <2>1, EmptySeq DEF Known
  <2> QED
    BY <2>1, <2>2 DEF Members!Forget
<1> QED
  BY <1>1, <1>2, <1>3, <1>4, <1>5 DEF Next

\* What a worker server is told of its registration is true, whatever is lost,
\* repeated or late, and however often the dispatcher ends.
THEOREM MembershipImplemented == Spec => ImplementsMembership
<1>1. Init => Members!Init
  <2> SUFFICES ASSUME Init PROVE Known = {} /\ told = {}
    BY DEF Members!Init
  <2> QED
    BY EmptySeq DEF Init, Known
<1>2. IInv /\ [Next]_vars => [Members!Next]_(Members!vars)
  BY MemberStep
<1> QED
  BY Always, <1>1, <1>2, PTL DEF Spec, ImplementsMembership, Members!Spec

=============================================================================
