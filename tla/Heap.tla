-------------------------------- MODULE Heap --------------------------------
(***************************************************************************)
(* What the simulator of tarea-3 promises: the variables own pieces of the *)
(* memory, and a new piece goes to the run of bytes without an owner that  *)
(* the search prefers.  There is no table here, nothing is split or merged *)
(* and no hole is remembered: what is free is what nobody owns.            *)
(*                                                                         *)
(* A piece of no bytes keeps the runs on both sides of it apart.  Several  *)
(* of them may be at one place; the set of pieces does not count them.     *)
(***************************************************************************)
EXTENDS Integers

CONSTANTS
    Variables,   \* the names of variables
    MemorySize,  \* the bytes
    Amounts      \* the sizes that are asked for

VARIABLES
    search,  \* 1 first fit, 2 best fit, 3 worst fit
    pieces   \* what is owned: a set of [name, start, size]

vars == <<search, pieces>>

End(p) == p.start + p.size

\* What lies between two pieces, or between a piece and an end of the memory.
Runs(P) ==
    {r \in {[start |-> a, size |-> b - a] : a \in {0} \union {End(p) : p \in P},
                                           b \in {MemorySize} \union {p.start : p \in P}} :
       r.size > 0 /\ \A p \in P : End(p) <= r.start \/ End(r) <= p.start}

Better(r, s) == \/ search = 2 /\ r.size < s.size
                \/ search = 3 /\ r.size > s.size
                \/ (search = 1 \/ r.size = s.size) /\ r.start <= s.start

Fitting(P, size) == {r \in Runs(P) : r.size >= size}
Best(P, size)    == LET fit == Fitting(P, size)
                    IN  {r \in fit : \A s \in fit : Better(r, s)}

\* Where a piece may begin.  One of no bytes may be put between any two.
Places(P, size) ==
    IF size > 0 THEN {r.start : r \in Best(P, size)}
    ELSE {a \in 0..MemorySize : \A p \in P : End(p) <= a \/ a <= p.start}

\* The pieces when n has got one more.
With(P, n, size) ==
    {P \union {[name |-> n, start |-> a, size |-> size]} : a \in Places(P, size)}

\* The pieces when n has given back its first one.
Foremost(P, n) ==
    {p \in P : /\ p.name = n
               /\ \A q \in P : q.name = n => \/ p.start < q.start
                                             \/ p.start = q.start /\ p.size <= q.size}
Without(P, n) ==
    UNION {{P \ {p}} \union {Q \in {P} : p.size = 0} : p \in Foremost(P, n)}

\* No run takes it.
NoRoom(P, size) == size = 0 \/ Fitting(P, size) = {}

Init == search \in 1..3 /\ pieces = {}

Alloc(n, size)   == pieces' \in With(pieces, n, size)
Free(n)          == pieces' \in Without(pieces, n)
Realloc(n, size) == \E P \in Without(pieces, n) :
                       \/ pieces' \in With(P, n, size)
                       \/ NoRoom(P, size) /\ pieces' = P

Next == /\ UNCHANGED search
        /\ \E n \in Variables :
              \/ Free(n)
              \/ \E size \in Amounts : Alloc(n, size) \/ Realloc(n, size)

Spec == Init /\ [][Next]_vars
=============================================================================
