------------------------------ MODULE SplitJob ------------------------------
(***************************************************************************)
(* What a distributed job promises, without workers, goroutines, channel   *)
(* or loop.  The units of a request are dealt out to chunks.  A chunk is   *)
(* given out or left out; one that was given out comes back once, counted  *)
(* or lost.  The client is answered when every chunk has gone one of these *)
(* ways: 200 if nothing was lost, and 500 otherwise.                       *)
(***************************************************************************)
EXTENDS Integers, FiniteSets

CONSTANTS
    Chunks,   \* the chunks a request is split into
    MaxUnits  \* the size of the largest request

VARIABLES
    share,  \* share[k]: the units of chunk k
    ahead,  \* the chunks of which nothing has become yet
    out,    \* those that were given out and have not come back
    sum,    \* the units counted
    lost,   \* the number of chunks that were lost
    noted,  \* has anybody been told that a chunk was left out?
    told    \* the answer

vars == <<share, ahead, out, sum, lost, noted, told>>

Init == /\ share = [k \in Chunks |-> {}]
        /\ ahead = {} /\ out = {}
        /\ sum = 0 /\ lost = 0
        /\ noted = FALSE /\ told = "nothing"

Unsplit == \A k \in Chunks : share[k] = {}

\* Each unit of 1 .. n is in one chunk, and no chunk has two units more than
\* another.
Fair(s, n) == /\ UNION {s[k] : k \in Chunks} = 1 .. n
              /\ \A j, k \in Chunks :
                    /\ j # k => s[j] \cap s[k] = {}
                    /\ Cardinality(s[j]) <= Cardinality(s[k]) + 1

Refuse == /\ told = "nothing" /\ Unsplit
          /\ told' \in {"400", "500", "503"}
          /\ UNCHANGED <<share, ahead, out, sum, lost, noted>>

Split == /\ told = "nothing" /\ Unsplit
         /\ share' = [k \in Chunks |-> share'[k]]
         /\ \E n \in 1 .. MaxUnits : Fair(share', n)
         /\ ahead' = {k \in Chunks : share'[k] # {}}
         /\ UNCHANGED <<out, sum, lost, noted, told>>

Give(k) == /\ k \in ahead
           /\ ahead' = ahead \ {k}
           /\ out' = out \cup {k}
           /\ UNCHANGED <<share, sum, lost, noted, told>>

LeaveOut(k) == /\ k \in ahead
               /\ ahead' = ahead \ {k}
               /\ noted' = TRUE
               /\ UNCHANGED <<share, out, sum, lost, told>>

Back(k) == /\ k \in out
           /\ out' = out \ {k}
           /\ UNCHANGED <<share, ahead, noted, told>>

Count(k) == Back(k) /\ sum' = sum + Cardinality(share[k]) /\ UNCHANGED lost
Lose(k)  == Back(k) /\ lost' = lost + 1 /\ UNCHANGED sum

\* A request without units is answered at once.
Answer == /\ told = "nothing" /\ ahead = {} /\ out = {}
          /\ told' = IF lost > 0 THEN "500" ELSE "200"
          /\ UNCHANGED <<share, ahead, out, sum, lost, noted>>

Next == \/ Refuse \/ Split \/ Answer
        \/ \E k \in Chunks : Give(k) \/ LeaveOut(k) \/ Count(k) \/ Lose(k)

Spec == Init /\ [][Next]_vars
=============================================================================
