--------------------------- MODULE ChunkPlanProofs ---------------------------
(***************************************************************************)
(* The split of a job into chunks, for every size and number of workers.   *)
(***************************************************************************)
EXTENDS ChunkPlan, WellFoundedInduction, TLAPS

\* total is n times the base and the remainder.
LEMMA Division ==
    ASSUME NEW total \in Nat, NEW n \in Nat \ {0}
    PROVE  /\ Base(total, n) \in Nat
           /\ Extra(total, n) \in 0 .. (n - 1)
           /\ total = Base(total, n) * n + Extra(total, n)
<1>1. total \div n \in Nat
  OBVIOUS
<1>2. total % n \in 0 .. (n - 1)
  OBVIOUS
<1>3. total = (total \div n) * n + (total % n)
  BY Z3
<1> QED BY <1>1, <1>2, <1>3 DEF Base, Extra

LEMMA SizeIsNat ==
    ASSUME NEW total \in Nat, NEW n \in Nat \ {0}, NEW i \in Int
    PROVE  /\ Size(total, n, i) \in {Base(total, n), Base(total, n) + 1}
           /\ Size(total, n, i) \in Nat
<1>1. Base(total, n) \in Nat
  BY Division
<1>2. Size(total, n, i) \in {Base(total, n), Base(total, n) + 1}
  <2>1. CASE i < Extra(total, n)
    BY <1>1, <2>1 DEF Size
  <2>2. CASE ~(i < Extra(total, n))
    BY <1>1, <2>2 DEF Size
  <2> QED BY <2>1, <2>2
<1> QED BY <1>1, <1>2

\* A chunk starts where the one before it ends, as the summing loop has it.
LEMMA Adjacent ==
    ASSUME NEW total \in Nat, NEW n \in Nat \ {0}, NEW i \in Nat
    PROVE  End(total, n, i) = Start(total, n, i + 1)
<1> DEFINE b == Base(total, n)
           e == Extra(total, n)
<1>1. b \in Nat /\ e \in Nat
  BY Division
<1> HIDE DEF b, e
<1>2. (i + 1) * b = i * b + b /\ i * b \in Nat
  BY <1>1
<1>3. i * b + (IF i < e THEN i ELSE e) + (b + (IF i < e THEN 1 ELSE 0))
          = i * b + b + (IF i + 1 < e THEN i + 1 ELSE e)
  BY <1>1, <1>2
<1> QED BY <1>2, <1>3 DEF End, Start, Size, b, e

\* The first chunk starts at 0 and the last one ends at total.
LEMMA Ends ==
    ASSUME NEW total \in Nat, NEW n \in Nat \ {0}
    PROVE  Start(total, n, 0) = 0 /\ Start(total, n, n) = total
<1> DEFINE b == Base(total, n)
           e == Extra(total, n)
<1>1. b \in Nat /\ e \in 0 .. (n - 1) /\ total = b * n + e
  BY Division
<1>2. Start(total, n, 0) = 0 * b + (IF 0 < e THEN 0 ELSE e)
  BY DEF Start
<1>3. Start(total, n, n) = n * b + (IF n < e THEN n ELSE e)
  BY DEF Start
<1> HIDE DEF b, e
<1>4. n * b = b * n /\ 0 * b = 0
  BY <1>1
<1> QED BY <1>1, <1>2, <1>3, <1>4

\* Later chunks start later.
LEMMA Monotone ==
    ASSUME NEW total \in Nat, NEW n \in Nat \ {0}, NEW i \in Nat, NEW j \in Nat,
           i <= j
    PROVE  Start(total, n, i) <= Start(total, n, j) /\ Start(total, n, i) \in Nat
<1> DEFINE b == Base(total, n)
           e == Extra(total, n)
<1>1. b \in Nat /\ e \in Nat
  BY Division
<1>2. /\ Start(total, n, i) = i * b + (IF i < e THEN i ELSE e)
      /\ Start(total, n, j) = j * b + (IF j < e THEN j ELSE e)
  BY DEF Start
<1> HIDE DEF b, e
<1>3. i * b \in Nat /\ j * b \in Nat /\ i * b <= j * b
  <2>1. PICK k \in Nat : j = i + k
    BY j - i \in Nat
  <2>2. j * b = i * b + k * b /\ k * b \in Nat /\ i * b \in Nat
    BY <1>1, <2>1
  <2> QED BY <2>2
<1> QED BY <1>1, <1>2, <1>3

\* Every chunk lies inside the job, so the guard of WordCount.go:124 only ever
\* rejects an empty chunk, which line 105 has already skipped.
THEOREM ChunkInRange ==
    ASSUME NEW total \in Nat, NEW n \in Nat \ {0}, NEW i \in 0 .. (n - 1)
    PROVE  /\ 0 <= Start(total, n, i)
           /\ End(total, n, i) <= total
           /\ Size(total, n, i) # 0 => Start(total, n, i) < End(total, n, i)
<1>1. Start(total, n, i) \in Nat /\ Start(total, n, i + 1) <= Start(total, n, n)
  BY Monotone
<1>2. End(total, n, i) <= total
  BY <1>1, Adjacent, Ends
<1>3. Size(total, n, i) \in Nat
  BY SizeIsNat
<1> QED BY <1>1, <1>2, <1>3 DEF End

\* No unit belongs to two chunks: no line is counted twice.
THEOREM ChunksDisjoint ==
    ASSUME NEW total \in Nat, NEW n \in Nat \ {0},
           NEW i \in 0 .. (n - 1), NEW j \in 0 .. (n - 1), i # j
    PROVE  Units(total, n, i) \cap Units(total, n, j) = {}
<1>1. ASSUME NEW x \in 0 .. (n - 1), NEW y \in 0 .. (n - 1), x < y
      PROVE  Units(total, n, x) \cap Units(total, n, y) = {}
  <2>1. End(total, n, x) <= Start(total, n, y) /\ Start(total, n, y) \in Nat
    <3>1. x + 1 \in Nat /\ y \in Nat /\ x + 1 <= y
      BY <1>1
    <3> QED BY <3>1, Adjacent, Monotone
  <2>2. /\ End(total, n, x) \in Int /\ End(total, n, y) \in Int
        /\ Start(total, n, x) \in Nat
    <3>1. /\ Size(total, n, x) \in Nat /\ Size(total, n, y) \in Nat
          /\ Start(total, n, x) \in Nat /\ Start(total, n, y) \in Nat
      <4>1. /\ x \in Nat /\ x \in Int /\ x <= x
            /\ y \in Nat /\ y \in Int /\ y <= y
        OBVIOUS
      <4> QED BY <4>1, SizeIsNat, Monotone
    <3> QED BY <3>1 DEF End
  <2> QED BY <2>1, <2>2 DEF Units
<1>2. i < j \/ j < i
  OBVIOUS
<1> QED BY <1>1, <1>2

\* The loads of two workers differ by at most one unit.
THEOREM ChunksBalanced ==
    ASSUME NEW total \in Nat, NEW n \in Nat \ {0},
           NEW i \in 0 .. (n - 1), NEW j \in 0 .. (n - 1)
    PROVE  Size(total, n, i) <= Size(total, n, j) + 1
<1>1. Base(total, n) \in Nat
  BY Division
<1>2. /\ Size(total, n, i) \in {Base(total, n), Base(total, n) + 1}
      /\ Size(total, n, j) \in {Base(total, n), Base(total, n) + 1}
  BY SizeIsNat
<1> QED BY <1>1, <1>2

LEMMA TimesMonotone ==
    ASSUME NEW x \in Nat, NEW y \in Nat, NEW b \in Nat, x <= y
    PROVE  x * b <= y * b /\ x * b \in Nat /\ y * b \in Nat
<1>1. PICK k \in Nat : y = x + k
  BY y - x \in Nat
<1>2. y * b = x * b + k * b /\ k * b \in Nat /\ x * b \in Nat
  BY <1>1
<1> QED BY <1>2

\* The quotient and where it lies.
LEMMA Quotient ==
    ASSUME NEW a \in Nat, NEW d \in Nat \ {0}
    PROVE  /\ a \div d \in Nat
           /\ (a \div d) * d <= a
           /\ a < (a \div d) * d + d
  BY Division DEF Base, Extra

\* Every unit belongs to some chunk: no line goes uncounted.
THEOREM ChunksCover ==
    ASSUME NEW total \in Nat, NEW n \in Nat \ {0}, NEW u \in 1 .. total
    PROVE  \E i \in 0 .. (n - 1) : u \in Units(total, n, i)
<1> DEFINE b == Base(total, n)
           e == Extra(total, n)
<1>1. b \in Nat /\ e \in 0 .. (n - 1) /\ total = b * n + e
  BY Division
<1>2. \A i \in Nat : Units(total, n, i) =
         (i * b + (IF i < e THEN i ELSE e) + 1)
            .. (i * b + (IF i < e THEN i ELSE e) + (b + (IF i < e THEN 1 ELSE 0)))
  BY DEF Units, Start, End, Size
<1> HIDE DEF b, e
<1>3. e * b \in Nat /\ e * (b + 1) = e * b + e
  BY <1>1
<1>4. CASE u <= e * b + e
  <2> DEFINE i == (u - 1) \div (b + 1)
  <2>1. i \in Nat /\ i * (b + 1) <= u - 1 /\ u - 1 < i * (b + 1) + (b + 1)
    <3>1. u - 1 \in Nat /\ b + 1 \in Nat \ {0}
      BY <1>1
    <3> QED BY <3>1, Quotient
  <2> HIDE DEF i
  <2>2. i * (b + 1) = i * b + i /\ i * b \in Nat
    BY <1>1, <2>1
  <2>3. i < e
    <3>1. SUFFICES ASSUME e <= i PROVE FALSE
      BY <1>1, <2>1
    <3>2. e * b <= i * b
      BY <1>1, <2>1, <3>1, TimesMonotone
    <3> QED BY <1>1, <1>3, <1>4, <2>1, <2>2, <3>1, <3>2
  <2>4. i \in 0 .. (n - 1) /\ u \in Units(total, n, i)
    <3>1. Units(total, n, i) = (i * b + i + 1) .. (i * b + i + (b + 1))
      BY <1>2, <2>1, <2>3
    <3> QED BY <1>1, <2>1, <2>2, <2>3, <3>1
  <2> QED BY <2>4
<1>5. CASE u > e * b + e
  <2>1. b # 0
    <3>1. SUFFICES ASSUME b = 0 PROVE FALSE
      OBVIOUS
    <3>2. b * n = 0 /\ e * b = 0
      BY <1>1, <3>1
    <3> QED BY <1>1, <1>5, <3>2
  <2> DEFINE v == u - (e * b + e)
             q == (v - 1) \div b
  <2>2. v \in Nat \ {0} /\ u = v + e * b + e
    BY <1>1, <1>3, <1>5
  <2>3. q \in Nat /\ q * b <= v - 1 /\ v - 1 < q * b + b
    <3>1. v - 1 \in Nat /\ b \in Nat \ {0}
      BY <1>1, <2>1, <2>2
    <3> QED BY <3>1, Quotient
  <2> HIDE DEF v, q
  <2>4. q * b \in Nat /\ (e + q) * b = e * b + q * b
    BY <1>1, <2>3
  <2>5. e + q < n
    <3>1. SUFFICES ASSUME n <= e + q PROVE FALSE
      BY <1>1, <2>3
    <3>2. n * b <= (e + q) * b
      BY <1>1, <2>3, <3>1, TimesMonotone
    <3>3. b * n = n * b
      BY <1>1
    <3> QED BY <1>1, <1>3, <2>2, <2>3, <2>4, <3>2, <3>3
  <2>6. PICK k \in Nat : k = e + q
    BY <1>1, <2>3
  <2>7. k \in 0 .. (n - 1) /\ u \in Units(total, n, k)
    <3>1. ~(k < e)
      BY <1>1, <2>3, <2>6
    <3>2. Units(total, n, k) = (k * b + e + 1) .. (k * b + e + (b + 0))
      BY <1>2, <3>1
    <3>3. k * b \in Nat /\ k * b = e * b + q * b
      BY <1>1, <2>4, <2>6
    <3> QED BY <1>1, <1>3, <2>2, <2>3, <2>4, <2>5, <2>6, <3>2, <3>3
  <2> QED BY <2>7
<1> QED BY <1>1, <1>3, <1>4, <1>5
LEMMA NatOrder == IsWellFoundedOn({p \in Nat \X Nat : p[1] < p[2]}, Nat)
  BY NatLessThanWellFounded, Zenon DEF OpToRel

\* A set of numbers that is not empty has a least one.
LEMMA LeastNumber ==
    ASSUME NEW S, S \subseteq Nat, S # {}
    PROVE  \E i \in S : \A j \in S : i <= j
<1> DEFINE R == {p \in Nat \X Nat : p[1] < p[2]}
<1>1. \E x \in S : \A y \in S : ~ (<<y, x>> \in R)
  <2>1. IsWellFoundedOn(R, Nat)
    BY NatOrder
  <2> HIDE DEF R
  <2> QED
    BY <2>1, WFMin, Zenon
<1>2. PICK x \in S : \A y \in S : ~ (<<y, x>> \in R)
  BY <1>1
<1>3. ASSUME NEW y \in S PROVE x <= y
  <2>1. y \in Nat /\ x \in Nat
    BY <1>3
  <2>2. ~(<<y, x>>[1] < <<y, x>>[2])
    BY <1>2, <1>3, <2>1
  <2> QED
    BY <2>1, <2>2
<1> QED
  BY <1>3

\* The sum over the chunks before is the closed form: the recursive function
\* has the closed form as a solution, and a second solution would differ from
\* it first at some chunk, whose predecessor it has right.
THEOREM SumIsStart ==
    ASSUME NEW total \in Nat, NEW n \in Nat \ {0}, NEW i \in Nat
    PROVE  StartBySum(total, n, i) = Start(total, n, i)
<1> DEFINE Next(f) == [j \in 0 .. i |-> IF j = 0 THEN 0
                                        ELSE f[j - 1] + Size(total, n, j - 1)]
           sum == CHOOSE f : f = Next(f)
           S == [j \in 0 .. i |-> Start(total, n, j)]
<1>1. \A j \in 0 .. i : Start(total, n, j) =
         IF j = 0 THEN 0 ELSE Start(total, n, j - 1) + Size(total, n, j - 1)
  <2> TAKE j \in 0 .. i
  <2>1. CASE j = 0
    BY <2>1, Ends
  <2>2. CASE j # 0
    <3>1. j - 1 \in Nat /\ (j - 1) + 1 = j
      BY <2>2
    <3>2. End(total, n, j - 1) = Start(total, n, (j - 1) + 1)
      BY <3>1, Adjacent
    <3> QED BY <2>2, <3>1, <3>2 DEF End
  <2> QED BY <2>1, <2>2
<1>2. S = Next(S)
  <2>1. \A j \in 0 .. i : j # 0 => j - 1 \in 0 .. i
    OBVIOUS
  <2> QED BY <1>1, <2>1
<1>3. sum = Next(sum)
  <2> HIDE DEF S, Next
  <2> QED BY <1>2
<1>4. sum[i] = StartBySum(total, n, i)
  BY DEF StartBySum
<1> HIDE DEF sum
<1>5. \A j \in 0 .. i : sum[j] = Start(total, n, j)
  <2> DEFINE D == {j \in 0 .. i : sum[j] # Start(total, n, j)}
  <2>1. SUFFICES ASSUME D # {} PROVE FALSE
    OBVIOUS
  <2>2. D \subseteq Nat
    OBVIOUS
  <2>3. PICK j \in D : \A k \in D : j <= k
    BY <2>1, <2>2, LeastNumber
  <2>4. sum[j] = IF j = 0 THEN 0 ELSE sum[j - 1] + Size(total, n, j - 1)
    BY <1>3
  <2>5. j \in 0 .. i /\ (j # 0 => j - 1 \in 0 .. i /\ ~(j <= j - 1))
    OBVIOUS
  <2>6. j # 0 => sum[j - 1] = Start(total, n, j - 1)
    BY <2>3, <2>5
  <2> QED BY <1>1, <2>3, <2>4, <2>5, <2>6
<1> QED BY <1>4, <1>5
=============================================================================
