------------------------------ MODULE ChunkPlan ------------------------------
(***************************************************************************)
(* How handleWordCount and handleCalculatePi split a job of `total` units  *)
(* (lines of text, Monte Carlo iterations) over n workers, numbered from   *)
(* 0: everyone gets total / n, the first total % n get one more.           *)
(***************************************************************************)
EXTENDS Integers

\* baseChunkSize, iterationsPerWorker
Base(total, n) == total \div n
\* extraChunks, remainingIterations
Extra(total, n) == total % n

\* Slips: the remainder is given to nobody; a chunk starts as if there were
\* none.  No definition uses them.
SizeEven(total, n, i) == Base(total, n)
StartEven(total, n, i) == i * Base(total, n)

\* workerLines, workerIterations
Size(total, n, i) == Base(total, n) + (IF i < Extra(total, n) THEN 1 ELSE 0)

\* startLine, as the inner loop over j computes it.
StartBySum(total, n, i) ==
    LET sum[j \in 0 .. i] == IF j = 0 THEN 0
                             ELSE sum[j - 1] + Size(total, n, j - 1)
    IN  sum[i]

\* startLine in closed form.
Start(total, n, i) ==
    i * Base(total, n) + (IF i < Extra(total, n) THEN i ELSE Extra(total, n))

\* endLine
End(total, n, i) == Start(total, n, i) + Size(total, n, i)

\* The units of chunk i, numbered from 1: lines[startLine:endLine].
Units(total, n, i) == (Start(total, n, i) + 1) .. End(total, n, i)
=============================================================================
