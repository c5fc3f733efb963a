-------------------------- MODULE AllocatorProofs --------------------------
(***************************************************************************)
(* Theorems about Allocator, for every size of memory and table and each   *)
(* of the three searches.                                                  *)
(***************************************************************************)
EXTENDS Allocator, WellFoundedInduction, FunctionTheorems, FiniteSetTheorems, TLAPS

\* A table whose blocks lie end to end.
Chain(L) ==
    /\ L.num \in Nat \ {0}
    /\ L.at \in [Index(L) -> Block]
    /\ L.at[0].start = 0
    /\ \A i \in Index(L) :
          /\ L.at[i].start + L.at[i].size =
                IF i = L.num - 1 THEN MemorySize ELSE L.at[i + 1].start
          /\ L.at[i].isFree => L.at[i].name = NoName
    /\ \A i, j \in Index(L) : i < j => L.at[i].start + L.at[i].size <= L.at[j].start

\* No hole beside a hole.
Apart(L) == \A i \in Index(L) : i + 1 < L.num => ~(L.at[i].isFree /\ L.at[i + 1].isFree)

\* Does n hold the byte a?
Holds(L, n, a) == \E i \in Of(L, n) : a \in Span(L.at[i])

\* The memory shows who holds what.
Shown(L, m) ==
    /\ m \in [0..(MemorySize - 1) -> Variables \union {Unset, Dash}]
    /\ \A a \in 0..(MemorySize - 1), n \in Variables : m[a] = n <=> Holds(L, n, a)

\* The inductive invariant.  That earlier blocks end before later ones begin
\* follows from the ends that meet only by induction on the table, so it is
\* part of it.
TableInv == /\ algorithm \in 1..3
            /\ Chain(list) /\ list.num <= MaxBlocks /\ Apart(list)
            /\ Shown(list, memory)

-----------------------------------------------------------------------------
(* The search *)

LEMMA NatOrder == IsWellFoundedOn({p \in Nat \X Nat : p[1] < p[2]}, Nat)
  BY NatLessThanWellFounded, Zenon DEF OpToRel

\* A set of numbers that is not empty has a least one.
LEMMA Least ==
    ASSUME NEW S, S \subseteq Nat, S # {}
    PROVE  \E i \in S : \A j \in S : i <= j
<1> DEFINE R == {p \in Nat \X Nat : p[1] < p[2]}
<1>1. \E x \in S : \A y \in S : ~ (<<y, x>> \in R)
  <2>1. IsWellFoundedOn(R, Nat)
    BY NatOrder
  <2> HIDE DEF R
  <2> QED
    BY <2>1, WFMin, Zenon
<1>2. PICK x \in S : \A y \in S : ~ (<<y, x>> \in R)
  BY <1>1
<1>3. ASSUME NEW y \in S PROVE x <= y
  <2>1. y \in Nat /\ x \in Nat
    BY <1>3
  <2>2. ~(<<y, x>>[1] < <<y, x>>[2])
    BY <1>2, <1>3, <2>1
  <2> QED
    BY <2>1, <2>2
<1> QED
  BY <1>3

\* search_free_block finds a hole that is large enough whenever there is one, and of
\* those the one it prefers.
LEMMA ChosenIsHole ==
    ASSUME NEW L, Chain(L), NEW size \in Nat, algorithm \in 1..3, Holes(L, size) # {}
    PROVE  /\ Chosen(L, size) \in Holes(L, size)
           /\ \A j \in Holes(L, size) : Preferred(L, Chosen(L, size), j)
<1> USE AllocatorAssumption DEF Chain, Index, Block
<1> DEFINE H == Holes(L, size)
<1>0. H \subseteq Nat /\ H # {} /\ \A i \in H : L.at[i].size \in 0..MemorySize
  <2>1. ASSUME NEW i \in H PROVE i \in Index(L)
    BY <2>1 DEF Holes
  <2>2. ASSUME NEW i \in Index(L) PROVE i \in Nat /\ L.at[i] \in Block
    BY <2>2
  <2> QED
    BY <2>1, <2>2
<1>1. \E i \in H : \A j \in H : Preferred(L, i, j)
  <2> HIDE DEF H
  <2>1. CASE algorithm = 1
    <3>1. PICK i \in H : \A j \in H : i <= j
      BY <1>0, Least
    <3> QED
      BY <2>1, <3>1 DEF Preferred
  <2>2. CASE algorithm = 2
    <3> DEFINE Z == {L.at[i].size : i \in H}
    <3>1. Z \subseteq Nat /\ Z # {}
      <4>1. \A i \in H : L.at[i].size \in Nat
        BY <1>0
      <4>2. PICK i \in H : TRUE
        BY <1>0
      <4>3. L.at[i].size \in Z
        BY <4>2
      <4>4. ASSUME NEW z \in Z PROVE z \in Nat
        BY <4>1, <4>4
      <4> QED
        BY <4>3, <4>4
    <3>2. PICK z \in Z : \A y \in Z : z <= y
      BY <3>1, Least
    <3> DEFINE B == {i \in H : L.at[i].size = z}
    <3>3. B \subseteq Nat /\ B # {}
      BY <1>0, <3>2
    <3>4. PICK i \in B : \A j \in B : i <= j
      BY <3>3, Least
    <3>5. ASSUME NEW j \in H PROVE Preferred(L, i, j)
      <4>1. L.at[j].size \in Nat /\ z \in Nat /\ z <= L.at[j].size /\ L.at[i].size = z
        <5>1. L.at[j].size \in Nat /\ L.at[j].size \in Z
          BY <1>0
        <5>2. z \in Nat /\ L.at[i].size = z
          BY <3>1, <3>2, <3>4
        <5> HIDE DEF Z
        <5> QED
          BY <3>2, <5>1, <5>2
      <4>2. L.at[j].size = z => i <= j
        BY <3>4
      <4> QED
        BY <2>2, <4>1, <4>2 DEF Preferred
    <3> QED
      BY <3>4, <3>5
  <2>3. CASE algorithm = 3
    <3> DEFINE Z == {MemorySize - L.at[i].size : i \in H}
    <3>1. Z \subseteq Nat /\ Z # {}
      <4>1. \A i \in H : MemorySize - L.at[i].size \in Nat
        BY <1>0
      <4>2. PICK i \in H : TRUE
        BY <1>0
      <4>3. MemorySize - L.at[i].size \in Z
        BY <4>2
      <4>4. ASSUME NEW z \in Z PROVE z \in Nat
        BY <4>1, <4>4
      <4> QED
        BY <4>3, <4>4
    <3>2. PICK z \in Z : \A y \in Z : z <= y
      BY <3>1, Least
    <3> DEFINE B == {i \in H : MemorySize - L.at[i].size = z}
    <3>3. B \subseteq Nat /\ B # {}
      BY <1>0, <3>2
    <3>4. PICK i \in B : \A j \in B : i <= j
      BY <3>3, Least
    <3>5. ASSUME NEW j \in H PROVE Preferred(L, i, j)
      <4>1. /\ L.at[j].size \in Nat /\ L.at[i].size \in Nat
            /\ z <= MemorySize - L.at[j].size /\ MemorySize - L.at[i].size = z
        <5>1. /\ L.at[j].size \in 0..MemorySize /\ L.at[i].size \in 0..MemorySize
              /\ MemorySize - L.at[j].size \in Z /\ MemorySize - L.at[i].size = z
          BY <1>0, <3>4
        <5> HIDE DEF Z
        <5> QED
          BY <5>1, <3>2
      <4>2. MemorySize - L.at[j].size = z => i <= j
        BY <3>4
      <4> QED
        BY <2>3, <4>1, <4>2 DEF Preferred
    <3> QED
      BY <3>4, <3>5
  <2> QED
    BY <2>1, <2>2, <2>3
<1> QED
  BY <1>1 DEF Chosen

\* The first block of a variable that has one.
LEMMA FirstIsOf ==
    ASSUME NEW L, Chain(L), NEW n, Of(L, n) # {}
    PROVE  First(L, n) \in Of(L, n) /\ \A j \in Of(L, n) : First(L, n) <= j
<1>1. Of(L, n) \subseteq Nat
  BY DEF Of, Index, Chain
<1>2. \E i \in Of(L, n) : \A j \in Of(L, n) : i <= j
  BY <1>1, Least
<1> QED
  BY <1>2 DEF First

-----------------------------------------------------------------------------
(* The table *)

\* A block, pointwise.
LEMMA ChainFields ==
    ASSUME NEW L, Chain(L), NEW i \in Index(L)
    PROVE  /\ i \in Nat /\ i < L.num /\ L.num \in Nat
           /\ L.at[i].name \in Variables \union {NoName}
           /\ L.at[i].size \in Nat /\ L.at[i].start \in Nat
           /\ L.at[i].size <= MemorySize /\ L.at[i].start <= MemorySize
           /\ L.at[i].isFree \in BOOLEAN
<1>1. i \in Nat /\ i < L.num /\ L.num \in Nat
  BY DEF Chain, Index
<1>2. L.at[i] \in Block
  BY DEF Chain
<1> QED
  BY <1>1, <1>2, AllocatorAssumption DEF Block

LEMMA FreedChain ==
    ASSUME NEW L, Chain(L), NEW i \in Index(L)
    PROVE  /\ Chain(Freed(L, i)) /\ Freed(L, i).num = L.num
           /\ \A k \in Index(L) \ {i} : Freed(L, i).at[k] = L.at[k]
           /\ Freed(L, i).at[i] = [L.at[i] EXCEPT !.name = NoName, !.isFree = TRUE]
           /\ Freed(L, i).at[i].isFree /\ Freed(L, i).at[i].name = NoName
           /\ Freed(L, i).at[i].size = L.at[i].size
           /\ Freed(L, i).at[i].start = L.at[i].start
<1> DEFINE F == Freed(L, i)
<1>1. /\ F.num = L.num /\ Index(F) = Index(L)
      /\ F.at = [L.at EXCEPT ![i] = [L.at[i] EXCEPT !.name = NoName, !.isFree = TRUE]]
  BY DEF Freed, Index
<1>2. \A k \in Index(L) \ {i} : F.at[k] = L.at[k]
  BY <1>1 DEF Chain
<1>3. /\ F.at[i] = [L.at[i] EXCEPT !.name = NoName, !.isFree = TRUE]
      /\ F.at[i] \in Block
      /\ F.at[i].isFree /\ F.at[i].name = NoName
      /\ F.at[i].size = L.at[i].size /\ F.at[i].start = L.at[i].start
  <2>1. F.at[i] = [L.at[i] EXCEPT !.name = NoName, !.isFree = TRUE]
    BY <1>1 DEF Chain
  <2>2. L.at[i] \in Block
    BY DEF Chain
  <2> HIDE DEF F
  <2> QED
    BY <2>1, <2>2 DEF Block
<1>4. F.at \in [Index(F) -> Block]
  BY <1>1, <1>3 DEF Chain
<1>5. \A k \in Index(L) : F.at[k].start = L.at[k].start /\ F.at[k].size = L.at[k].size
  BY <1>2, <1>3
<1>6. Chain(F)
  <2> HIDE DEF F
  <2>0. 0 \in Index(L) /\ F.at[0].start = 0
    BY <1>5 DEF Chain, Index
  <2>1. \A k \in Index(L) : k # L.num - 1 => k + 1 \in Index(L)
    BY DEF Chain, Index
  <2>2. \A k \in Index(L) :
           /\ F.at[k].start + F.at[k].size =
                 IF k = L.num - 1 THEN MemorySize ELSE F.at[k + 1].start
           /\ F.at[k].isFree => F.at[k].name = NoName
    <3>1. ASSUME NEW k \in Index(L)
          PROVE  F.at[k].start + F.at[k].size =
                    IF k = L.num - 1 THEN MemorySize ELSE F.at[k + 1].start
      BY <1>5, <2>1 DEF Chain
    <3>2. ASSUME NEW k \in Index(L), F.at[k].isFree PROVE F.at[k].name = NoName
      BY <1>2, <1>3, <3>2 DEF Chain
    <3> QED
      BY <3>1, <3>2
  <2>3. \A j, k \in Index(L) : j < k => F.at[j].start + F.at[j].size <= F.at[k].start
    BY <1>5 DEF Chain
  <2> QED
    BY <1>1, <1>4, <2>0, <2>2, <2>3 DEF Chain
<1> QED
  BY <1>1, <1>2, <1>3, <1>6

\* Merging two holes keeps the chain; the places behind move up by one.
LEMMA MergeChain ==
    ASSUME NEW L, Chain(L), NEW i \in Index(L), i + 1 \in Index(L),
           L.at[i].isFree, L.at[i + 1].isFree
    PROVE  /\ Chain(Merge(L, i)) /\ Merge(L, i).num = L.num - 1
           /\ i \in Index(Merge(L, i))
           /\ \A k \in Index(Merge(L, i)) :
                 /\ k < i => Merge(L, i).at[k] = L.at[k]
                 /\ k > i => Merge(L, i).at[k] = L.at[k + 1]
           /\ Merge(L, i).at[i].isFree /\ Merge(L, i).at[i].name = NoName
           /\ Merge(L, i).at[i].size = L.at[i].size + L.at[i + 1].size
           /\ Merge(L, i).at[i].start = L.at[i].start
<1> DEFINE M == Merge(L, i)
<1>0. /\ i \in Nat /\ L.num \in Nat /\ i + 1 < L.num
  BY DEF Chain, Index
<1>1. /\ M.num = L.num - 1 /\ Index(M) = 0..(L.num - 2)
      /\ M.at = [k \in 0..(L.num - 2) |->
                   IF k < i THEN L.at[k] ELSE IF k > i THEN L.at[k + 1]
                   ELSE [L.at[i] EXCEPT !.size = L.at[i].size + L.at[i + 1].size]]
  BY <1>0 DEF Merge, Index
<1>2. i \in Index(M) /\ \A k \in Index(M) : k \in Index(L) /\ k + 1 \in Index(L)
  BY <1>0, <1>1 DEF Index
<1>3. \A k \in Index(M) : /\ k < i => M.at[k] = L.at[k]
                          /\ k > i => M.at[k] = L.at[k + 1]
  BY <1>0, <1>1, <1>2
<1>4. /\ L.at[i].start + L.at[i].size = L.at[i + 1].start
      /\ L.at[i + 1].start + L.at[i + 1].size <= MemorySize
      /\ L.at[i].size + L.at[i + 1].size \in 0..MemorySize
  <2>1. L.at[i].start + L.at[i].size = L.at[i + 1].start
    BY <1>0 DEF Chain
  <2>2. /\ L.at[i].size \in Nat /\ L.at[i + 1].size \in Nat
        /\ L.at[i].start \in Nat /\ L.at[i + 1].start \in Nat
    BY ChainFields
  <2>3. L.at[i + 1].start + L.at[i + 1].size <= MemorySize
    <3>1. CASE i + 1 = L.num - 1
      BY <3>1, AllocatorAssumption DEF Chain
    <3>2. CASE i + 1 # L.num - 1
      <4>1. i + 2 \in Index(L) /\ L.at[i + 1].start + L.at[i + 1].size = L.at[i + 2].start
        BY <1>0, <3>2 DEF Chain, Index
      <4> QED
        BY <4>1, ChainFields
    <3> QED
      BY <3>1, <3>2
  <2> QED
    BY <2>1, <2>2, <2>3, AllocatorAssumption
<1>5. /\ M.at[i] = [L.at[i] EXCEPT !.size = L.at[i].size + L.at[i + 1].size]
      /\ M.at[i] \in Block /\ M.at[i].isFree /\ M.at[i].name = NoName
      /\ M.at[i].size = L.at[i].size + L.at[i + 1].size
      /\ M.at[i].start = L.at[i].start
  <2>1. M.at[i] = [L.at[i] EXCEPT !.size = L.at[i].size + L.at[i + 1].size]
    BY <1>0, <1>1, <1>2
  <2>2. L.at[i] \in Block /\ L.at[i].name = NoName
    BY DEF Chain
  <2> HIDE DEF M
  <2> QED
    BY <1>4, <2>1, <2>2 DEF Block
<1>6. M.at \in [Index(M) -> Block]
  <2>1. \A k \in Index(M) : M.at[k] \in Block
    <3>1. \A k \in Index(L) : L.at[k] \in Block
      BY DEF Chain
    <3>2. \A k \in Index(M) : k < i \/ k = i \/ k > i
      BY <1>0, <1>1
    <3> QED
      BY <1>2, <1>3, <1>5, <3>1, <3>2
  <2> QED
    BY <1>1, <2>1
<1>7. Chain(M)
  <2> HIDE DEF M
  <2>1. M.num \in Nat \ {0}
    BY <1>0, <1>1
  <2>2. M.at[0].start = 0
    <3>1. L.at[0].start = 0
      BY DEF Chain
    <3>2. CASE i = 0
      BY <1>5, <3>1, <3>2
    <3>3. CASE i # 0
      <4>1. 0 \in Index(M) /\ 0 < i
        BY <1>0, <1>1, <3>3
      <4> QED
        BY <1>3, <3>1, <4>1
    <3> QED
      BY <3>2, <3>3
  <2>3. ASSUME NEW k \in Index(M)
        PROVE  /\ M.at[k].start + M.at[k].size =
                     IF k = M.num - 1 THEN MemorySize ELSE M.at[k + 1].start
               /\ M.at[k].isFree => M.at[k].name = NoName
    <3>0. k \in Nat /\ k <= L.num - 2 /\ (k # M.num - 1 => k + 1 \in Index(M))
      BY <1>0, <1>1
    <3>1. CASE k > i
      BY <1>0, <1>1, <1>2, <1>3, <3>0, <3>1 DEF Chain
    <3>2. CASE k < i - 1
      BY <1>0, <1>1, <1>2, <1>3, <3>0, <3>2 DEF Chain
    <3>3. CASE k = i - 1
      <4>1. /\ k < i /\ k + 1 = i /\ k # M.num - 1 /\ k # L.num - 1
            /\ k \in Index(L) /\ M.at[k] = L.at[k]
        BY <1>0, <1>1, <1>2, <1>3, <3>0, <3>3
      <4>2. /\ L.at[k].start + L.at[k].size = L.at[i].start
            /\ L.at[k].isFree => L.at[k].name = NoName
        BY <4>1 DEF Chain
      <4> QED
        BY <1>5, <4>1, <4>2
    <3>4. CASE k = i
      <4>1. L.at[i].size \in Nat /\ L.at[i + 1].size \in Nat /\ L.at[i].start \in Nat
        BY ChainFields
      <4>2. M.at[i].start + M.at[i].size = L.at[i + 1].start + L.at[i + 1].size
        BY <1>4, <1>5, <4>1
      <4>3. L.at[i + 1].start + L.at[i + 1].size =
                 IF i + 1 = L.num - 1 THEN MemorySize ELSE L.at[i + 2].start
        BY <1>0 DEF Chain
      <4>4. i # M.num - 1 => M.at[i + 1] = L.at[i + 2]
        BY <1>0, <1>3, <3>0, <3>4
      <4>5. i + 1 = L.num - 1 <=> i = M.num - 1
        BY <1>0, <1>1
      <4>6. M.at[i].start + M.at[i].size =
                 IF i = M.num - 1 THEN MemorySize ELSE M.at[i + 1].start
        BY <4>2, <4>3, <4>4, <4>5
      <4> QED
        BY <1>5, <3>4, <4>6
    <3> QED
      BY <1>0, <3>0, <3>1, <3>2, <3>3, <3>4
  <2>4. ASSUME NEW j \in Index(M), NEW k \in Index(M), j < k
        PROVE  M.at[j].start + M.at[j].size <= M.at[k].start
    <3>0. j \in Nat /\ k \in Nat /\ j \in Index(L) /\ k \in Index(L) /\ k + 1 \in Index(L)
          /\ j + 1 \in Index(L)
      BY <1>0, <1>1, <1>2
    <3>1. CASE j < i
      <4>1. M.at[j] = L.at[j]
        BY <1>3, <3>1
      <4>2. L.at[j].start + L.at[j].size <= L.at[k].start
        BY <2>4, <3>0 DEF Chain
      <4>3. L.at[j].start + L.at[j].size <= L.at[k + 1].start
        BY <2>4, <3>0 DEF Chain
      <4>4. M.at[k].start = L.at[k].start \/ M.at[k].start = L.at[k + 1].start
        <5>1. k < i \/ k = i \/ k > i
          BY <1>0, <3>0
        <5> QED
          BY <1>3, <1>5, <5>1
      <4> QED
        BY <4>1, <4>2, <4>3, <4>4
    <3>2. CASE j > i
      BY <1>0, <1>3, <2>4, <3>0, <3>2 DEF Chain
    <3>3. CASE j = i
      <4>1. M.at[k] = L.at[k + 1]
        BY <1>0, <1>3, <2>4, <3>0, <3>3
      <4>2. L.at[i + 1].start + L.at[i + 1].size <= L.at[k + 1].start
        BY <2>4, <3>0, <3>3 DEF Chain
      <4>3. L.at[i].size \in Nat /\ L.at[i + 1].size \in Nat /\ L.at[i].start \in Nat
        BY ChainFields
      <4> QED
        <5>1. /\ M.at[i].start = L.at[i].start
              /\ M.at[i].size = L.at[i].size + L.at[i + 1].size
              /\ L.at[i].start + L.at[i].size = L.at[i + 1].start
          BY <1>4, <1>5
        <5>2. M.at[i].start + M.at[i].size = L.at[i + 1].start + L.at[i + 1].size
          BY <4>3, <5>1
        <5> QED
          BY <3>3, <4>1, <4>2, <5>2
    <3> QED
      BY <1>0, <3>0, <3>1, <3>2, <3>3
  <2> QED
    BY <1>6, <2>1, <2>2, <2>3, <2>4 DEF Chain
<1> QED
  BY <1>1, <1>2, <1>3, <1>5, <1>7

\* Merging holes does not change who owns what.
LEMMA MergePieces ==
    ASSUME NEW L, Chain(L), NEW i \in Index(L), i + 1 \in Index(L),
           L.at[i].isFree, L.at[i + 1].isFree
    PROVE  Pieces(Merge(L, i)) = Pieces(L)
<1> DEFINE M == Merge(L, i)
           P(b) == [name |-> b.name, start |-> b.start, size |-> b.size]
<1>0. i \in Nat /\ L.num \in Nat /\ M.num = L.num - 1 /\ i \in Index(M)
  BY MergeChain DEF Chain, Index
<1>1. /\ M.at[i].isFree
      /\ \A k \in Index(M) : /\ k < i => M.at[k] = L.at[k]
                             /\ k > i => M.at[k] = L.at[k + 1]
  BY MergeChain
<1> HIDE DEF M
<1>2. ASSUME NEW k \in Index(M), ~M.at[k].isFree
      PROVE  \E j \in Index(L) : ~L.at[j].isFree /\ L.at[j] = M.at[k]
  <2>1. k # i /\ k \in Nat /\ k \in Index(L) /\ k + 1 \in Index(L)
    BY <1>0, <1>1, <1>2 DEF Index
  <2>2. CASE k < i
    BY <1>1, <1>2, <2>1, <2>2
  <2>3. CASE k > i
    BY <1>1, <1>2, <2>1, <2>3
  <2> QED
    BY <1>0, <2>1, <2>2, <2>3
<1>3. ASSUME NEW k \in Index(L), ~L.at[k].isFree
      PROVE  \E j \in Index(M) : ~M.at[j].isFree /\ M.at[j] = L.at[k]
  <2>1. k # i /\ k # i + 1 /\ k \in Nat
    BY <1>0, <1>3 DEF Index
  <2>2. CASE k < i
    <3>1. k \in Index(M) /\ M.at[k] = L.at[k]
      BY <1>0, <1>1, <2>1, <2>2 DEF Index
    <3> QED
      BY <1>3, <3>1
  <2>3. CASE k > i + 1
    <3>1. k - 1 \in Index(M) /\ k - 1 > i /\ (k - 1) + 1 = k
      BY <1>0, <1>3, <2>1, <2>3 DEF Index
    <3>2. M.at[k - 1] = L.at[k]
      BY <1>1, <3>1
    <3> QED
      BY <1>3, <3>1, <3>2
  <2> QED
    BY <1>0, <2>1, <2>2, <2>3
<1>4. /\ Pieces(M) = {P(M.at[k]) : k \in {j \in Index(M) : ~M.at[j].isFree}}
      /\ Pieces(L) = {P(L.at[k]) : k \in {j \in Index(L) : ~L.at[j].isFree}}
  BY DEF Pieces
<1> HIDE DEF P
<1>5. Pieces(M) \subseteq Pieces(L)
  BY <1>2, <1>4
<1>6. Pieces(L) \subseteq Pieces(M)
  BY <1>3, <1>4
<1> QED
  BY <1>5, <1>6 DEF M

\* Who holds a byte is told by the pieces.
LEMMA PiecesHold ==
    ASSUME NEW L, NEW n, NEW a
    PROVE  Holds(L, n, a) <=> \E p \in Pieces(L) : p.name = n /\ a \in Span(p)
<1> DEFINE P(b) == [name |-> b.name, start |-> b.start, size |-> b.size]
<1>1. Pieces(L) = {P(L.at[k]) : k \in {j \in Index(L) : ~L.at[j].isFree}}
  BY DEF Pieces
<1>2. \A b : P(b).name = b.name /\ Span(P(b)) = Span(b)
  BY DEF Span
<1> HIDE DEF P
<1>3. ASSUME NEW k \in Of(L, n), a \in Span(L.at[k])
      PROVE  \E p \in Pieces(L) : p.name = n /\ a \in Span(p)
  BY <1>1, <1>2, <1>3 DEF Of
<1>4. ASSUME NEW p \in Pieces(L), p.name = n, a \in Span(p)
      PROVE  \E k \in Of(L, n) : a \in Span(L.at[k])
  BY <1>1, <1>2, <1>4 DEF Of
<1> QED
  BY <1>3, <1>4 DEF Holds

\* The bytes of one block are no other's.
LEMMA SpansDisjoint ==
    ASSUME NEW L, Chain(L), NEW i \in Index(L), NEW j \in Index(L), i # j,
           NEW a \in Span(L.at[i])
    PROVE  a \notin Span(L.at[j])
<1>1. /\ i \in Nat /\ j \in Nat
      /\ L.at[i].start \in Nat /\ L.at[i].size \in Nat
      /\ L.at[j].start \in Nat /\ L.at[j].size \in Nat
  BY ChainFields
<1>2. \/ L.at[i].start + L.at[i].size <= L.at[j].start
      \/ L.at[j].start + L.at[j].size <= L.at[i].start
  BY <1>1 DEF Chain
<1> QED
  BY <1>1, <1>2 DEF Span

\* free_block: the table after it is a chain with no two holes together, in
\* which everybody but the freed block holds what it held, and a hole is there
\* that is as large as that block.
LEMMA ReleasedChain ==
    ASSUME NEW L, Chain(L), Apart(L), NEW i \in Index(L), ~L.at[i].isFree
    PROVE  /\ Chain(Released(L, i)) /\ Apart(Released(L, i))
           /\ Released(L, i).num <= L.num
           /\ Pieces(Released(L, i)) = Pieces(Freed(L, i))
           /\ \E k \in Index(Released(L, i)) :
                 /\ Released(L, i).at[k].isFree
                 /\ Released(L, i).at[k].size >= L.at[i].size
<1> DEFINE F == Freed(L, i)
           N == IF i + 1 < L.num /\ L.at[i + 1].isFree THEN Merge(F, i) ELSE F
           R == IF i > 0 /\ L.at[i - 1].isFree THEN Merge(N, i - 1) ELSE N
<1>0. /\ i \in Nat /\ L.num \in Nat /\ i < L.num
      /\ \A k \in Index(L) : k \in Nat /\ k < L.num
  BY ChainFields
<1>1. /\ Chain(F) /\ F.num = L.num /\ F.at[i].isFree
      /\ F.at[i].size = L.at[i].size
      /\ \A k \in Index(L) : k # i => F.at[k] = L.at[k]
      /\ Index(F) = Index(L)
  <2>1. /\ Chain(F) /\ F.num = L.num /\ F.at[i].isFree
        /\ F.at[i].size = L.at[i].size
        /\ \A k \in Index(L) \ {i} : F.at[k] = L.at[k]
    BY FreedChain
  <2> HIDE DEF F
  <2> QED
    BY <2>1 DEF Index
<1> HIDE DEF F
<1>2. ASSUME i + 1 < L.num, L.at[i + 1].isFree
      PROVE  /\ i + 1 \in Index(F) /\ F.at[i + 1].isFree
  BY <1>0, <1>1, <1>2 DEF Index
<1>3. /\ Chain(N) /\ i \in Index(N) /\ N.num <= L.num
      /\ N.at[i].isFree /\ N.at[i].size >= L.at[i].size
      /\ \A k \in Index(N) : k < i => N.at[k] = L.at[k]
      /\ Pieces(N) = Pieces(F)
  <2>1. CASE i + 1 < L.num /\ L.at[i + 1].isFree
    <3>1. N = Merge(F, i)
      BY <2>1
    <3>2. i \in Index(F) /\ i + 1 \in Index(F) /\ F.at[i + 1].isFree
      BY <1>1, <1>2, <2>1
    <3>3. /\ Chain(N) /\ N.num = L.num - 1 /\ i \in Index(N)
          /\ N.at[i].isFree /\ N.at[i].size = F.at[i].size + F.at[i + 1].size
          /\ \A k \in Index(N) : k < i => N.at[k] = F.at[k]
      BY <1>1, <3>1, <3>2, MergeChain
    <3>4. Pieces(N) = Pieces(F)
      BY <1>1, <3>1, <3>2, MergePieces
    <3>5. F.at[i].size \in Nat /\ F.at[i + 1].size \in Nat
      BY <1>1, <3>2, ChainFields
    <3>6. \A k \in Index(N) : k < i => k \in Index(L) /\ k # i
      BY <1>0, <3>3 DEF Index
    <3> HIDE DEF N
    <3> QED
      BY <1>0, <1>1, <3>3, <3>4, <3>5, <3>6
  <2>2. CASE ~(i + 1 < L.num /\ L.at[i + 1].isFree)
    <3>1. N = F
      BY <2>2
    <3>2. F.at[i].size \in Nat
      BY <1>1, ChainFields
    <3> HIDE DEF N
    <3> QED
      BY <1>0, <1>1, <3>1, <3>2
  <2> QED
    BY <2>1, <2>2
<1>4. \A k \in Index(N) : k > i /\ k + 1 < N.num => ~(N.at[k].isFree /\ N.at[k + 1].isFree)
  <2> SUFFICES ASSUME NEW k \in Index(N), k > i, k + 1 < N.num
               PROVE  ~(N.at[k].isFree /\ N.at[k + 1].isFree)
    OBVIOUS
  <2>0. k \in Nat
    BY <1>3, ChainFields
  <2>1. CASE i + 1 < L.num /\ L.at[i + 1].isFree
    <3>1. /\ N.num = L.num - 1 /\ k + 1 \in Index(N)
          /\ \A h \in Index(N) : h > i => N.at[h] = F.at[h + 1]
      <4>1. N = Merge(F, i) /\ i \in Index(F) /\ i + 1 \in Index(F) /\ F.at[i + 1].isFree
        BY <1>1, <1>2, <2>1
      <4>2. N.num = L.num - 1 /\ \A h \in Index(N) : h > i => N.at[h] = F.at[h + 1]
        BY <1>1, <4>1, MergeChain
      <4> QED
        BY <4>2, <2>0, <1>3 DEF Index, Chain
    <3>2. N.at[k] = F.at[k + 1] /\ N.at[k + 1] = F.at[k + 2]
      <4>1. k + 1 > i /\ k + 1 + 1 = k + 2
        BY <1>0, <2>0
      <4> QED
        BY <3>1, <4>1
    <3>3. k + 1 \in Index(L) /\ k + 2 \in Index(L) /\ k + 2 < L.num /\ k + 1 # i /\ k + 2 # i
      BY <1>0, <2>0, <3>1 DEF Index
    <3>4. ~(L.at[k + 1].isFree /\ L.at[k + 2].isFree)
      <4>1. k + 1 + 1 = k + 2
        BY <2>0
      <4> QED
        BY <3>3, <4>1 DEF Apart
    <3> QED
      BY <1>1, <3>2, <3>3, <3>4
  <2>2. CASE ~(i + 1 < L.num /\ L.at[i + 1].isFree)
    <3>1. N = F
      BY <2>2
    <3>2. k \in Index(L) /\ k + 1 \in Index(L) /\ k + 1 < L.num /\ k # i /\ k + 1 # i
      BY <1>0, <1>1, <2>0, <3>1 DEF Index
    <3> QED
      BY <1>1, <3>1, <3>2 DEF Apart
  <2> QED
    BY <2>1, <2>2
<1>5. i + 1 < N.num => ~N.at[i + 1].isFree
  <2>1. CASE i + 1 < L.num /\ L.at[i + 1].isFree
    <3> SUFFICES ASSUME i + 1 < N.num PROVE ~N.at[i + 1].isFree
      OBVIOUS
    <3>1. N = Merge(F, i) /\ i \in Index(F) /\ i + 1 \in Index(F) /\ F.at[i + 1].isFree
      BY <1>1, <1>2, <2>1
    <3>2. N.num = L.num - 1 /\ \A h \in Index(N) : h > i => N.at[h] = F.at[h + 1]
      BY <1>1, <3>1, MergeChain
    <3>3. /\ i + 1 \in Index(N) /\ i + 1 > i /\ i + 1 + 1 = i + 2
          /\ i + 2 \in Index(L) /\ i + 2 # i /\ i + 2 < L.num /\ i + 1 \in Index(L)
      BY <1>0, <3>2 DEF Index
    <3>4. N.at[i + 1] = L.at[i + 2]
      BY <1>1, <3>2, <3>3
    <3> QED
      BY <2>1, <3>3, <3>4 DEF Apart
  <2>2. CASE ~(i + 1 < L.num /\ L.at[i + 1].isFree)
    <3>1. N = F
      BY <2>2
    <3>2. i + 1 < L.num => i + 1 \in Index(L) /\ i + 1 # i
      BY <1>0 DEF Index
    <3> QED
      BY <1>1, <2>2, <3>1, <3>2
  <2> QED
    BY <2>1, <2>2
<1>6. R = Released(L, i)
  BY DEF Released, F
<1> HIDE DEF N
<1>7. CASE i > 0 /\ L.at[i - 1].isFree
  <2>1. R = Merge(N, i - 1)
    BY <1>7
  <2>2. /\ i - 1 \in Index(L) /\ i - 1 \in Index(N) /\ i - 1 < i
        /\ (i - 1) + 1 = i /\ N.at[i - 1] = L.at[i - 1]
    <3>1. N.num \in Nat
      BY <1>3 DEF Chain
    <3>2. i - 1 \in Index(L) /\ i - 1 \in Index(N) /\ i - 1 < i /\ (i - 1) + 1 = i
      BY <1>0, <1>3, <1>7, <3>1 DEF Index
    <3> QED
      BY <1>3, <3>2
  <2>3. N.at[i - 1].isFree /\ N.at[(i - 1) + 1].isFree /\ (i - 1) + 1 \in Index(N)
    BY <1>3, <1>7, <2>2
  <2>4. /\ Chain(R) /\ R.num = N.num - 1 /\ i - 1 \in Index(R)
        /\ R.at[i - 1].isFree
        /\ R.at[i - 1].size = N.at[i - 1].size + N.at[(i - 1) + 1].size
        /\ \A k \in Index(R) : /\ k < i - 1 => R.at[k] = N.at[k]
                               /\ k > i - 1 => R.at[k] = N.at[k + 1]
    BY <1>3, <2>1, <2>2, <2>3, MergeChain
  <2>5. Pieces(R) = Pieces(F)
    <3>1. Pieces(R) = Pieces(N)
      BY <1>3, <2>1, <2>2, <2>3, MergePieces
    <3> QED
      BY <1>3, <3>1
  <2> HIDE DEF R
  <2>6. R.at[i - 1].size >= L.at[i].size /\ R.num <= L.num
    <3>1. N.at[i - 1].size \in Nat /\ N.at[i].size \in Nat /\ L.at[i].size \in Nat
      BY <1>3, <2>2, ChainFields
    <3>2. N.num \in Nat
      BY <1>3 DEF Chain
    <3> QED
      BY <1>0, <1>3, <2>2, <2>4, <3>1, <3>2
  <2>7. Apart(R)
    <3> SUFFICES ASSUME NEW k \in Index(R), k + 1 < R.num
                 PROVE  ~(R.at[k].isFree /\ R.at[k + 1].isFree)
      BY DEF Apart
    <3>0. /\ k \in Nat /\ R.num \in Nat /\ N.num \in Nat /\ R.num = N.num - 1
          /\ k + 1 \in Index(R) /\ k \in Index(N) /\ k + 1 \in Index(N)
          /\ k + 2 < N.num /\ k + 1 + 1 = k + 2 /\ k + 2 \in Index(N)
      <4>1. R.num \in Nat /\ N.num \in Nat /\ R.num = N.num - 1
        BY <1>3, <2>4 DEF Chain
      <4>2. k \in 0..(R.num - 1)
        BY DEF Index
      <4> QED
        BY <4>1, <4>2 DEF Index
    <3>1. CASE k > i - 1
      <4>1. R.at[k] = N.at[k + 1] /\ R.at[k + 1] = N.at[k + 2] /\ k + 1 > i
        BY <1>0, <2>4, <3>0, <3>1
      <4> QED
        BY <1>4, <3>0, <4>1
    <3>2. CASE k = i - 1
      <4>1. R.at[k + 1] = N.at[i + 1] /\ i + 1 < N.num
        BY <1>0, <2>4, <3>0, <3>2
      <4> QED
        BY <1>5, <4>1
    <3>3. CASE k < i - 1
      <4>1. R.at[k] = L.at[k]
        BY <1>0, <1>3, <2>4, <3>0, <3>3
      <4>2. k \in Index(L) /\ k + 1 < L.num
        BY <1>0, <1>3, <3>0 DEF Index
      <4>3. ~(L.at[k].isFree /\ L.at[k + 1].isFree)
        BY <4>2 DEF Apart
      <4>4. CASE k + 1 = i - 1
        BY <1>7, <4>1, <4>3, <4>4
      <4>5. CASE k + 1 < i - 1
        <5>1. R.at[k + 1] = L.at[k + 1]
          BY <1>0, <1>3, <2>4, <3>0, <4>5
        <5> QED
          BY <4>1, <4>3, <5>1
      <4> QED
        BY <1>0, <3>0, <3>3, <4>4, <4>5
    <3> QED
      BY <1>0, <3>0, <3>1, <3>2, <3>3
  <2>8. \E k \in Index(R) : R.at[k].isFree /\ R.at[k].size >= L.at[i].size
    BY <2>4, <2>6
  <2>9. /\ Chain(R) /\ Apart(R) /\ R.num <= L.num
        /\ Pieces(R) = Pieces(Freed(L, i))
    BY <2>4, <2>5, <2>6, <2>7 DEF F
  <2> QED
    BY <1>6, <2>8, <2>9
<1>8. CASE ~(i > 0 /\ L.at[i - 1].isFree)
  <2>1. R = N
    BY <1>8
  <2> HIDE DEF R
  <2>2. Apart(R)
    <3> SUFFICES ASSUME NEW k \in Index(N), k + 1 < N.num
                 PROVE  ~(N.at[k].isFree /\ N.at[k + 1].isFree)
      BY <2>1 DEF Apart
    <3>0. k \in Nat /\ N.num \in Nat /\ k + 1 \in Index(N)
      BY <1>3 DEF Index, Chain
    <3>1. CASE k > i
      BY <1>4, <3>1
    <3>2. CASE k = i
      BY <1>5, <3>2
    <3>3. CASE k < i
      <4>1. N.at[k] = L.at[k] /\ k \in Index(L) /\ k + 1 < L.num
        BY <1>0, <1>3, <3>0, <3>3 DEF Index
      <4>2. ~(L.at[k].isFree /\ L.at[k + 1].isFree)
        BY <4>1 DEF Apart
      <4>3. CASE k + 1 = i
        <5>1. i > 0 /\ i - 1 = k
          BY <1>0, <3>0, <4>3
        <5> QED
          BY <1>8, <4>1, <5>1
      <4>4. CASE k + 1 < i
        <5>1. N.at[k + 1] = L.at[k + 1]
          BY <1>3, <3>0, <4>4
        <5> QED
          BY <4>1, <4>2, <5>1
      <4> QED
        BY <1>0, <3>0, <3>3, <4>3, <4>4
    <3> QED
      BY <1>0, <3>0, <3>1, <3>2, <3>3
  <2>3. \E k \in Index(R) : R.at[k].isFree /\ R.at[k].size >= L.at[i].size
    BY <1>3, <2>1
  <2>4. /\ Chain(R) /\ Apart(R) /\ R.num <= L.num
        /\ Pieces(R) = Pieces(Freed(L, i))
    BY <1>3, <2>1, <2>2 DEF F
  <2> QED
    BY <1>6, <2>3, <2>4
<1> QED
  BY <1>7, <1>8

\* What alloc_block makes of the table, place by place: the hole becomes the
\* variable and, unless it fits exactly, a hole behind it.
LEMMA GivenPlaces ==
    ASSUME NEW L, Chain(L), NEW i \in Index(L), NEW n \in Variables, NEW size \in Nat,
           L.at[i].isFree, size <= L.at[i].size
    PROVE  LET G == Given(L, i, n, size)
           IN  /\ i \in Index(G)
               /\ G.at[i] = [name |-> n, size |-> size, start |-> L.at[i].start,
                             isFree |-> FALSE]
               /\ \A k \in Index(L) : k < i => G.at[k] = L.at[k]
               /\ L.at[i].size = size =>
                     /\ G.num = L.num
                     /\ G.at \in [0..(L.num - 1) -> Block]
                     /\ \A k \in Index(L) : k > i => G.at[k] = L.at[k]
               /\ L.at[i].size # size =>
                     /\ G.num = L.num + 1
                     /\ G.at \in [0..L.num -> Block]
                     /\ G.at[i + 1] = [name |-> NoName, size |-> L.at[i].size - size,
                                       start |-> L.at[i].start + size, isFree |-> TRUE]
                     /\ \A k \in Index(L) : k > i => G.at[k + 1] = L.at[k]
<1> DEFINE used == [name |-> n, size |-> size, start |-> L.at[i].start, isFree |-> FALSE]
           rest == [name |-> NoName, size |-> L.at[i].size - size,
                    start |-> L.at[i].start + size, isFree |-> TRUE]
           G == Given(L, i, n, size)
<1>0. /\ i \in Nat /\ L.num \in Nat /\ i < L.num
      /\ L.at[i].size \in Nat /\ L.at[i].start \in Nat /\ L.at[i].size <= MemorySize
      /\ L.at[i].start <= MemorySize
      /\ L.at \in [0..(L.num - 1) -> Block]
      /\ \A k \in Index(L) : k \in Nat /\ k < L.num
  BY ChainFields DEF Chain, Index
<1>1. L.at[i].start + L.at[i].size <= MemorySize
  <2>1. CASE i = L.num - 1
    BY <2>1, AllocatorAssumption DEF Chain
  <2>2. CASE i # L.num - 1
    <3>1. i + 1 \in Index(L) /\ L.at[i].start + L.at[i].size = L.at[i + 1].start
      BY <1>0, <2>2 DEF Chain, Index
    <3> QED
      BY <3>1, ChainFields
  <2> QED
    BY <2>1, <2>2
<1>2. used \in Block /\ rest \in Block
  <2>1. size \in 0..MemorySize /\ L.at[i].start \in 0..MemorySize
    BY <1>0, AllocatorAssumption
  <2>2. L.at[i].size - size \in 0..MemorySize /\ L.at[i].start + size \in 0..MemorySize
    <3> DEFINE z == L.at[i].size
               x == L.at[i].start
    <3>1. z \in Nat /\ x \in Nat /\ size <= z /\ x + z <= MemorySize /\ MemorySize \in Nat
      BY <1>0, <1>1, AllocatorAssumption
    <3> HIDE DEF z, x
    <3>2. z - size \in 0..MemorySize /\ x + size \in 0..MemorySize
      BY <3>1
    <3> QED
      BY <3>2 DEF z, x
  <2> QED
    BY <2>1, <2>2 DEF Block
<1>3. CASE L.at[i].size = size
  <2>1. G = [num |-> L.num, at |-> [L.at EXCEPT ![i] = used]]
    BY <1>3 DEF Given
  <2>2. G.num = L.num /\ G.at = [L.at EXCEPT ![i] = used] /\ Index(G) = Index(L)
    BY <2>1 DEF Index
  <2> HIDE DEF G, used, rest
  <2>3. G.at \in [0..(L.num - 1) -> Block]
    BY <1>0, <1>2, <2>2
  <2>4. G.at[i] = used /\ \A k \in Index(L) : k # i => G.at[k] = L.at[k]
    BY <1>0, <2>2 DEF Index
  <2>5. \A k \in Index(L) : (k < i => k # i) /\ (k > i => k # i)
    BY <1>0
  <2> QED
    BY <1>3, <2>2, <2>3, <2>4, <2>5 DEF G, used, rest
<1>4. CASE L.at[i].size # size
  <2> DEFINE at == [k \in 0..L.num |-> IF k < i THEN L.at[k]
                                       ELSE IF k = i THEN used
                                       ELSE IF k = i + 1 THEN rest
                                       ELSE L.at[k - 1]]
  <2>1. G = [num |-> L.num + 1, at |-> at]
    BY <1>4 DEF Given
  <2>2. G.num = L.num + 1 /\ G.at = at
    BY <2>1
  <2>3. i \in Index(G)
    BY <1>0, <2>2 DEF Index
  <2> HIDE DEF G, used, rest
  <2>4. \A k \in 0..L.num : at[k] \in Block
    <3> SUFFICES ASSUME NEW k \in 0..L.num PROVE at[k] \in Block
      OBVIOUS
    <3>1. CASE k < i
      <4>1. at[k] = L.at[k] /\ k \in 0..(L.num - 1)
        BY <1>0, <3>1
      <4> QED
        BY <1>0, <4>1
    <3>2. CASE k = i
      <4>1. at[k] = used
        BY <1>0, <3>2
      <4> QED
        BY <1>2, <4>1
    <3>3. CASE k = i + 1
      <4>1. at[k] = rest
        BY <1>0, <3>3
      <4> QED
        BY <1>2, <4>1
    <3>4. CASE k > i + 1
      <4>1. at[k] = L.at[k - 1] /\ k - 1 \in 0..(L.num - 1)
        BY <1>0, <3>4
      <4> QED
        BY <1>0, <4>1
    <3> QED
      BY <1>0, <3>1, <3>2, <3>3, <3>4
  <2>5. G.at \in [0..L.num -> Block]
    BY <2>2, <2>4
  <2>6. /\ G.at[i] = used /\ G.at[i + 1] = rest
        /\ \A k \in Index(L) : k < i => G.at[k] = L.at[k]
    BY <1>0, <2>2 DEF Index
  <2>7. ASSUME NEW k \in Index(L), k > i PROVE G.at[k + 1] = L.at[k]
    <3>1. /\ k + 1 \in 0..L.num /\ ~(k + 1 < i) /\ k + 1 # i /\ k + 1 # i + 1
          /\ (k + 1) - 1 = k
      BY <1>0, <2>7
    <3> QED
      BY <2>2, <3>1
  <2> QED
    BY <1>4, <2>2, <2>3, <2>5, <2>6, <2>7 DEF G, used, rest
<1> QED
  BY <1>3, <1>4

\* The new block itself.
LEMMA GivenAt ==
    ASSUME NEW L, Chain(L), NEW i \in Index(L), NEW n \in Variables, NEW size \in Nat,
           L.at[i].isFree, size <= L.at[i].size
    PROVE  /\ i \in Index(Given(L, i, n, size))
           /\ Given(L, i, n, size).at[i] =
                 [name |-> n, size |-> size, start |-> L.at[i].start, isFree |-> FALSE]
           /\ L.at[i].size = size => Given(L, i, n, size).num = L.num
           /\ L.at[i].size # size => Given(L, i, n, size).num = L.num + 1
<1> DEFINE G == Given(L, i, n, size)
           used == [name |-> n, size |-> size, start |-> L.at[i].start, isFree |-> FALSE]
           rest == [name |-> NoName, size |-> L.at[i].size - size,
                    start |-> L.at[i].start + size, isFree |-> TRUE]
<1>1. /\ i \in Index(G) /\ G.at[i] = used
      /\ \A k \in Index(L) : k < i => G.at[k] = L.at[k]
      /\ L.at[i].size = size => /\ G.num = L.num
                                /\ \A k \in Index(L) : k > i => G.at[k] = L.at[k]
      /\ L.at[i].size # size => /\ G.num = L.num + 1
                                /\ G.at[i + 1] = rest
                                /\ \A k \in Index(L) : k > i => G.at[k + 1] = L.at[k]
  BY GivenPlaces
<1> QED
  BY <1>1

\* alloc_block keeps the chain, and never leaves a hole beside another.
LEMMA GivenChain ==
    ASSUME NEW L, Chain(L), Apart(L), NEW i \in Index(L), NEW n \in Variables,
           NEW size \in Nat, L.at[i].isFree, size <= L.at[i].size
    PROVE  Chain(Given(L, i, n, size)) /\ Apart(Given(L, i, n, size))
<1> DEFINE G == Given(L, i, n, size)
           x == L.at[i].start
           z == L.at[i].size
           used == [name |-> n, size |-> size, start |-> x, isFree |-> FALSE]
           rest == [name |-> NoName, size |-> z - size, start |-> x + size,
                    isFree |-> TRUE]
<1>1. /\ i \in Index(G) /\ G.at[i] = used
      /\ \A k \in Index(L) : k < i => G.at[k] = L.at[k]
      /\ z = size => /\ G.num = L.num
                     /\ G.at \in [0..(L.num - 1) -> Block]
                     /\ \A k \in Index(L) : k > i => G.at[k] = L.at[k]
      /\ z # size => /\ G.num = L.num + 1
                     /\ G.at \in [0..L.num -> Block]
                     /\ G.at[i + 1] = rest
                     /\ \A k \in Index(L) : k > i => G.at[k + 1] = L.at[k]
  BY GivenPlaces
<1>2. /\ i \in Nat /\ L.num \in Nat \ {0} /\ i < L.num /\ x \in Nat /\ z \in Nat
      /\ \A k \in Index(L) : /\ k \in Nat /\ k < L.num
                             /\ L.at[k].start \in Nat /\ L.at[k].size \in Nat
  BY ChainFields DEF Chain
<1>3. /\ used.size = size /\ used.start = x /\ ~used.isFree
      /\ rest.size = z - size /\ rest.start = x + size /\ rest.isFree
      /\ rest.name = NoName
  OBVIOUS
<1>4. x + z = IF i = L.num - 1 THEN MemorySize ELSE L.at[i + 1].start
  BY DEF Chain
<1>5. /\ \A k \in Index(L) : k < i => L.at[k].start + L.at[k].size <= x
      /\ \A k \in Index(L) : k > i => x + z <= L.at[k].start
  BY <1>2 DEF Chain
<1>6. L.at[0].start = 0 /\ L.at \in [Index(L) -> Block]
  BY DEF Chain
<1>7. \A k \in Index(L) :
         /\ L.at[k].start + L.at[k].size =
               IF k = L.num - 1 THEN MemorySize ELSE L.at[k + 1].start
         /\ L.at[k].isFree => L.at[k].name = NoName
  BY DEF Chain
<1>8. \A j, k \in Index(L) : j < k => L.at[j].start + L.at[j].size <= L.at[k].start
  BY DEF Chain
<1>9. Index(L) = 0..(L.num - 1) /\ Index(G) = 0..(G.num - 1)
  BY DEF Index
<1>10. \A k \in Index(L) : k + 1 < L.num => ~(L.at[k].isFree /\ L.at[k + 1].isFree)
  BY DEF Apart
<1>11. L.at[i].isFree /\ size <= z
  OBVIOUS
<1> HIDE DEF G, used, rest, x
<1>12. CASE z = size
  <2>1. G.num = L.num /\ Index(G) = Index(L) /\ G.at \in [Index(G) -> Block]
    BY <1>1, <1>9, <1>12
  <2>2. \A k \in Index(L) : /\ k # i => G.at[k] = L.at[k]
                            /\ G.at[k].start = L.at[k].start
                            /\ G.at[k].size = L.at[k].size
    <3>1. ASSUME NEW k \in Index(L), k # i PROVE G.at[k] = L.at[k]
      <4>1. k < i \/ k > i
        BY <1>2, <3>1
      <4> QED
        BY <1>1, <1>12, <4>1
    <3> QED
      BY <1>1, <1>3, <1>12, <3>1 DEF x
  <2>3. \A k \in Index(L) : k # L.num - 1 => k + 1 \in Index(L) /\ k + 1 # k
    <3>1. ASSUME NEW k \in 0..(L.num - 1), k # L.num - 1
          PROVE  k + 1 \in 0..(L.num - 1) /\ k + 1 # k
      BY <1>2, <3>1
    <3> QED
      BY <1>9, <3>1
  <2>4. 0 \in Index(L)
    BY <1>2, <1>9
  <2>5. \A k \in Index(G) :
           /\ G.at[k].start + G.at[k].size =
                 IF k = G.num - 1 THEN MemorySize ELSE G.at[k + 1].start
           /\ G.at[k].isFree => G.at[k].name = NoName
    BY <1>1, <1>3, <1>7, <2>1, <2>2, <2>3
  <2>6. \A j, k \in Index(G) : j < k => G.at[j].start + G.at[j].size <= G.at[k].start
    BY <1>8, <2>1, <2>2
  <2>7. Chain(G)
    BY <1>2, <1>6, <2>1, <2>2, <2>4, <2>5, <2>6 DEF Chain
  <2>8. Apart(G)
    <3> SUFFICES ASSUME NEW k \in Index(L), k + 1 < L.num
                 PROVE  ~(G.at[k].isFree /\ G.at[k + 1].isFree)
      BY <2>1 DEF Apart
    <3>1. k + 1 \in Index(L)
      BY <1>2, <1>9
    <3>2. \A h \in Index(L) : G.at[h].isFree => L.at[h].isFree
      BY <1>1, <1>3, <2>2
    <3> QED
      BY <1>10, <3>1, <3>2
  <2> QED
    BY <2>7, <2>8 DEF G
<1>13. CASE z # size
  <2>1. /\ G.num = L.num + 1 /\ Index(G) = 0..L.num /\ G.at \in [Index(G) -> Block]
        /\ G.at[i + 1] = rest
        /\ \A k \in Index(L) : k > i => G.at[k + 1] = L.at[k]
    BY <1>1, <1>2, <1>9, <1>13
  <2>2. ASSUME NEW k \in Index(G), k > i + 1
        PROVE  k \in Nat /\ k - 1 \in Index(L) /\ k - 1 > i /\ G.at[k] = L.at[k - 1]
    <3>1. k \in Nat /\ k - 1 \in Index(L) /\ k - 1 > i /\ (k - 1) + 1 = k
      BY <1>2, <1>9, <2>1, <2>2
    <3> QED
      BY <2>1, <3>1
  <2>3. ASSUME NEW k \in Index(G), k < i
        PROVE  k \in Nat /\ k \in Index(L) /\ G.at[k] = L.at[k]
    <3>1. k \in Nat /\ k \in Index(L)
      BY <1>2, <1>9, <2>1, <2>3
    <3> QED
      BY <1>1, <2>3, <3>1
  <2>4. ASSUME NEW k \in Index(G) PROVE k < i \/ k = i \/ k = i + 1 \/ k > i + 1
    BY <1>2, <2>1
  <2>5. G.at[0].start = 0
    <3>1. 0 \in Index(G)
      BY <1>2, <2>1
    <3>2. CASE i = 0
      BY <1>1, <1>3, <1>6, <3>2 DEF x
    <3>3. CASE i # 0
      <4>1. 0 < i
        BY <1>2, <3>3
      <4> QED
        BY <1>6, <2>3, <3>1, <4>1
    <3> QED
      BY <3>2, <3>3
  <2>6. ASSUME NEW k \in Index(G)
        PROVE  /\ G.at[k].start + G.at[k].size =
                     IF k = G.num - 1 THEN MemorySize ELSE G.at[k + 1].start
               /\ G.at[k].isFree => G.at[k].name = NoName
    <3>0. k \in Nat /\ (k # G.num - 1 => k + 1 \in Index(G))
      BY <1>2, <2>1
    <3>1. CASE k < i
      <4>1. k \in Index(L) /\ G.at[k] = L.at[k] /\ k # L.num - 1 /\ k # G.num - 1
            /\ k + 1 \in Index(G)
        BY <1>2, <2>1, <2>3, <3>0, <3>1
      <4>2. G.at[k + 1].start = L.at[k + 1].start
        <5>1. CASE k + 1 = i
          BY <1>1, <1>3, <5>1 DEF x
        <5>2. CASE k + 1 < i
          BY <2>3, <4>1, <5>2
        <5> QED
          BY <1>2, <3>0, <3>1, <5>1, <5>2
      <4> QED
        BY <1>7, <4>1, <4>2
    <3>2. CASE k = i
      <4>1. k # G.num - 1
        BY <1>2, <2>1, <3>2
      <4> QED
        BY <1>1, <1>3, <2>1, <3>2, <4>1
    <3>3. CASE k = i + 1
      <4>1. (x + size) + (z - size) = x + z
        BY <1>2
      <4>2. G.at[k].start + G.at[k].size = x + z
        BY <1>3, <2>1, <3>3, <4>1
      <4>3. CASE i = L.num - 1
        <5>1. k = G.num - 1
          BY <1>2, <2>1, <3>3, <4>3
        <5> QED
          BY <1>3, <1>4, <2>1, <3>3, <4>2, <4>3, <5>1
      <4>4. CASE i # L.num - 1
        <5>1. k # G.num - 1 /\ i + 1 \in Index(L) /\ i + 1 > i
          BY <1>2, <1>9, <2>1, <3>3, <4>4
        <5>2. G.at[k + 1] = L.at[i + 1]
          BY <2>1, <3>3, <5>1
        <5> QED
          BY <1>3, <1>4, <2>1, <3>3, <4>2, <4>4, <5>1, <5>2
      <4> QED
        BY <4>3, <4>4
    <3>4. CASE k > i + 1
      <4>1. k - 1 \in Index(L) /\ k - 1 > i /\ G.at[k] = L.at[k - 1]
        BY <2>2, <3>4
      <4>2. /\ k = G.num - 1 <=> k - 1 = L.num - 1
            /\ (k - 1) + 1 = k /\ k > i
            /\ k # G.num - 1 => k \in Index(L)
        BY <1>2, <1>9, <2>1, <3>0, <3>4
      <4>3. k # G.num - 1 => G.at[k + 1] = L.at[(k - 1) + 1]
        BY <2>1, <4>2
      <4> QED
        BY <1>7, <4>1, <4>2, <4>3
    <3> QED
      BY <2>4, <3>1, <3>2, <3>3, <3>4
  <2>7. ASSUME NEW j \in Index(G), NEW k \in Index(G), j < k
        PROVE  G.at[j].start + G.at[j].size <= G.at[k].start
    <3>0. j \in Nat /\ k \in Nat /\ size \in Nat
      BY <1>2, <2>1
    <3>1. CASE j < i
      <4>1. j \in Index(L) /\ G.at[j] = L.at[j]
        BY <2>3, <3>1
      <4>2. L.at[j].start + L.at[j].size <= x
        BY <1>5, <3>1, <4>1
      <4>3. L.at[j].start \in Nat /\ L.at[j].size \in Nat
        BY <1>2, <4>1
      <4>4. CASE k < i
        BY <1>8, <2>3, <2>7, <4>1, <4>4
      <4>5. CASE k = i
        BY <1>1, <1>3, <4>1, <4>2, <4>5
      <4>6. CASE k = i + 1
        <5>1. G.at[k].start = x + size
          BY <1>3, <2>1, <4>6
        <5> QED
          BY <1>2, <3>0, <4>1, <4>2, <4>3, <5>1
      <4>7. CASE k > i + 1
        <5>1. k - 1 \in Index(L) /\ G.at[k] = L.at[k - 1] /\ j < k - 1
          BY <1>2, <2>2, <3>0, <3>1, <4>7
        <5> QED
          BY <1>8, <4>1, <5>1
      <4> QED
        BY <2>4, <4>4, <4>5, <4>6, <4>7
    <3>2. CASE j = i
      <4>1. G.at[j].start + G.at[j].size = x + size
        BY <1>1, <1>3, <3>2
      <4>2. CASE k = i + 1
        BY <1>2, <1>3, <2>1, <3>0, <4>1, <4>2
      <4>3. CASE k > i + 1
        <5>1. k - 1 \in Index(L) /\ G.at[k] = L.at[k - 1] /\ k - 1 > i
          BY <2>2, <4>3
        <5>2. x + z <= L.at[k - 1].start /\ L.at[k - 1].start \in Nat
          BY <1>2, <1>5, <5>1
        <5> QED
          BY <1>2, <1>11, <3>0, <4>1, <5>1, <5>2
      <4> QED
        BY <1>2, <2>4, <2>7, <3>0, <3>2, <4>2, <4>3
    <3>3. CASE j = i + 1
      <4>1. G.at[j].start + G.at[j].size = x + z
        <5>1. G.at[j].start = x + size /\ G.at[j].size = z - size
          BY <1>3, <2>1, <3>3
        <5>2. (x + size) + (z - size) = x + z
          BY <1>2
        <5> QED
          BY <5>1, <5>2
      <4>2. k > i + 1
        BY <2>7, <3>3
      <4>3. k - 1 \in Index(L) /\ G.at[k] = L.at[k - 1] /\ k - 1 > i
        BY <2>2, <4>2
      <4> QED
        BY <1>5, <4>1, <4>3
    <3>4. CASE j > i + 1
      <4>1. j - 1 \in Index(L) /\ G.at[j] = L.at[j - 1]
        BY <2>2, <3>4
      <4>2. k > i + 1
        BY <1>2, <2>7, <3>0, <3>4
      <4>3. k - 1 \in Index(L) /\ G.at[k] = L.at[k - 1] /\ j - 1 < k - 1
        BY <2>2, <2>7, <3>0, <4>2
      <4> QED
        BY <1>8, <4>1, <4>3
    <3> QED
      BY <2>4, <3>1, <3>2, <3>3, <3>4
  <2>8. Chain(G)
    <3>1. G.num \in Nat \ {0}
      BY <1>2, <2>1
    <3> QED
      BY <2>1, <2>5, <2>6, <2>7, <3>1 DEF Chain
  <2>9. Apart(G)
    <3> SUFFICES ASSUME NEW k \in Index(G), k + 1 < G.num
                 PROVE  ~(G.at[k].isFree /\ G.at[k + 1].isFree)
      BY DEF Apart
    <3>0. k \in Nat /\ k + 1 \in Index(G)
      BY <1>2, <2>1
    <3>1. CASE k < i
      <4>1. k \in Index(L) /\ G.at[k] = L.at[k] /\ k + 1 < L.num
        BY <1>2, <2>3, <3>0, <3>1
      <4>2. ~(L.at[k].isFree /\ L.at[k + 1].isFree)
        BY <1>10, <4>1
      <4>3. CASE k + 1 = i
        BY <1>1, <1>3, <4>3
      <4>4. CASE k + 1 < i
        <5>1. G.at[k + 1] = L.at[k + 1]
          BY <2>3, <3>0, <4>4
        <5> QED
          BY <4>1, <4>2, <5>1
      <4> QED
        BY <1>2, <3>0, <3>1, <4>3, <4>4
    <3>2. CASE k = i
      BY <1>1, <1>3, <3>2
    <3>3. CASE k = i + 1
      <4>1. i + 1 \in Index(L) /\ i + 1 > i /\ i + 1 < L.num
        BY <1>2, <1>9, <2>1, <3>3
      <4>2. G.at[k + 1] = L.at[i + 1]
        BY <2>1, <3>3, <4>1
      <4>3. ~L.at[i + 1].isFree
        BY <1>10, <1>11, <4>1
      <4> QED
        BY <4>2, <4>3
    <3>4. CASE k > i + 1
      <4>1. k - 1 \in Index(L) /\ G.at[k] = L.at[k - 1]
        BY <2>2, <3>4
      <4>2. k + 1 > i + 1 /\ (k + 1) - 1 = (k - 1) + 1 /\ (k - 1) + 1 < L.num
        BY <1>2, <2>1, <3>0, <3>4
      <4>3. G.at[k + 1] = L.at[(k - 1) + 1]
        BY <2>2, <3>0, <4>2
      <4> QED
        BY <1>10, <4>1, <4>2, <4>3
    <3> QED
      BY <2>4, <3>1, <3>2, <3>3, <3>4
  <2> QED
    BY <2>8, <2>9 DEF G
<1> QED
  BY <1>12, <1>13

-----------------------------------------------------------------------------
(* The memory *)

\* FREE writes over the bytes of the freed block and over nothing else.
LEMMA ReleasedShown ==
    ASSUME NEW L, NEW m, Chain(L), Apart(L), Shown(L, m),
           NEW i \in Index(L), ~L.at[i].isFree
    PROVE  Shown(Released(L, i), Filled(m, L.at[i], Dash))
<1> DEFINE f == Filled(m, L.at[i], Dash)
           F == Freed(L, i)
<1>1. f \in [0..(MemorySize - 1) -> Variables \union {Unset, Dash}]
  BY DEF Shown, Filled
<1>2. \A a \in 0..(MemorySize - 1) : f[a] = IF a \in Span(L.at[i]) THEN Dash ELSE m[a]
  BY DEF Shown, Filled
<1>3. /\ F.at[i].isFree /\ Index(F) = Index(L)
      /\ \A k \in Index(L) \ {i} : F.at[k] = L.at[k]
  BY FreedChain DEF Index
<1> HIDE DEF f, F
<1>4. ASSUME NEW a \in 0..(MemorySize - 1), NEW n \in Variables
      PROVE  f[a] = n <=> Holds(F, n, a)
  <2>1. Holds(F, n, a) <=> \E k \in Index(L) \ {i} :
                              ~L.at[k].isFree /\ L.at[k].name = n /\ a \in Span(L.at[k])
    BY <1>3 DEF Holds, Of
  <2>2. m[a] = n <=> \E k \in Index(L) :
                              ~L.at[k].isFree /\ L.at[k].name = n /\ a \in Span(L.at[k])
    BY DEF Shown, Holds, Of
  <2>3. CASE a \in Span(L.at[i])
    <3>1. f[a] = Dash /\ Dash # n
      BY <1>2, <2>3, AllocatorAssumption
    <3>2. \A k \in Index(L) \ {i} : a \notin Span(L.at[k])
      BY <2>3, SpansDisjoint
    <3> QED
      BY <2>1, <3>1, <3>2
  <2>4. CASE a \notin Span(L.at[i])
    BY <1>2, <2>1, <2>2, <2>4
  <2> QED
    BY <2>3, <2>4
<1>5. \A n, a : Holds(Released(L, i), n, a) <=> Holds(F, n, a)
  <2>1. Pieces(Released(L, i)) = Pieces(F)
    BY ReleasedChain DEF F
  <2> QED
    BY <2>1, PiecesHold
<1> QED
  BY <1>1, <1>4, <1>5 DEF Shown, f

\* ALLOC writes over the bytes of the new block and over nobody else's.
LEMMA GivenShown ==
    ASSUME NEW L, NEW m, Chain(L), Shown(L, m), NEW i \in Index(L),
           NEW n \in Variables, NEW size \in Nat, L.at[i].isFree, size <= L.at[i].size
    PROVE  Shown(Given(L, i, n, size), Filled(m, Given(L, i, n, size).at[i], n))
<1> DEFINE G == Given(L, i, n, size)
           f == Filled(m, G.at[i], n)
           used == [name |-> n, size |-> size, start |-> L.at[i].start, isFree |-> FALSE]
           rest == [name |-> NoName, size |-> L.at[i].size - size,
                    start |-> L.at[i].start + size, isFree |-> TRUE]
<1>1. /\ i \in Index(G) /\ G.at[i] = used
      /\ \A k \in Index(L) : k < i => G.at[k] = L.at[k]
      /\ L.at[i].size = size => /\ G.num = L.num
                                /\ \A k \in Index(L) : k > i => G.at[k] = L.at[k]
      /\ L.at[i].size # size => /\ G.num = L.num + 1
                                /\ G.at[i + 1] = rest
                                /\ \A k \in Index(L) : k > i => G.at[k + 1] = L.at[k]
  BY GivenPlaces
<1>2. /\ i \in Nat /\ L.num \in Nat /\ i < L.num
      /\ L.at[i].start \in Nat /\ L.at[i].size \in Nat
  BY ChainFields
<1>3. used.name = n /\ ~used.isFree /\ Span(used) \subseteq Span(L.at[i]) /\ rest.isFree
  BY <1>2 DEF Span
<1>4. f \in [0..(MemorySize - 1) -> Variables \union {Unset, Dash}]
  BY DEF Shown, Filled
<1>5. \A a \in 0..(MemorySize - 1) : f[a] = IF a \in Span(used) THEN n ELSE m[a]
  BY <1>1 DEF Shown, Filled
<1> HIDE DEF G, f, used, rest
<1>6. ASSUME NEW v, NEW a
      PROVE  Holds(G, v, a) <=> (v = n /\ a \in Span(used)) \/ Holds(L, v, a)
  <2>1. ASSUME Holds(G, v, a)
        PROVE  (v = n /\ a \in Span(used)) \/ Holds(L, v, a)
    <3>1. PICK k \in Index(G) : ~G.at[k].isFree /\ G.at[k].name = v /\ a \in Span(G.at[k])
      BY <2>1 DEF Holds, Of
    <3>2. k \in Nat
      BY <3>1 DEF Index
    <3>3. CASE k = i
      BY <1>1, <1>3, <3>1, <3>3
    <3>4. CASE k < i
      <4>1. k \in Index(L) /\ G.at[k] = L.at[k]
        BY <1>1, <1>2, <3>2, <3>4 DEF Index
      <4> QED
        BY <3>1, <4>1 DEF Holds, Of
    <3>5. CASE k > i /\ L.at[i].size = size
      <4>1. k \in Index(L) /\ G.at[k] = L.at[k]
        BY <1>1, <3>5 DEF Index
      <4> QED
        BY <3>1, <4>1 DEF Holds, Of
    <3>6. CASE k > i /\ L.at[i].size # size
      <4>1. k # i + 1
        BY <1>1, <1>3, <3>1, <3>6
      <4>2. k - 1 \in Index(L) /\ k - 1 > i /\ (k - 1) + 1 = k
        BY <1>1, <1>2, <3>1, <3>2, <3>6, <4>1 DEF Index
      <4>3. G.at[k] = L.at[k - 1]
        BY <1>1, <3>6, <4>2
      <4> QED
        BY <3>1, <4>2, <4>3 DEF Holds, Of
    <3> QED
      BY <1>2, <3>2, <3>3, <3>4, <3>5, <3>6
  <2>2. ASSUME v = n /\ a \in Span(used) PROVE Holds(G, v, a)
    BY <1>1, <1>3, <2>2 DEF Holds, Of
  <2>3. ASSUME Holds(L, v, a) PROVE Holds(G, v, a)
    <3>1. PICK k \in Index(L) : ~L.at[k].isFree /\ L.at[k].name = v /\ a \in Span(L.at[k])
      BY <2>3 DEF Holds, Of
    <3>2. k \in Nat /\ k < L.num /\ k # i
      BY <1>2, <3>1 DEF Index
    <3>3. CASE k < i
      <4>1. k \in Index(G) /\ G.at[k] = L.at[k]
        BY <1>1, <1>2, <3>1, <3>2, <3>3 DEF Index
      <4> QED
        BY <3>1, <4>1 DEF Holds, Of
    <3>4. CASE k > i /\ L.at[i].size = size
      <4>1. k \in Index(G) /\ G.at[k] = L.at[k]
        BY <1>1, <3>1, <3>4 DEF Index
      <4> QED
        BY <3>1, <4>1 DEF Holds, Of
    <3>5. CASE k > i /\ L.at[i].size # size
      <4>1. k + 1 \in Index(G) /\ G.at[k + 1] = L.at[k]
        BY <1>1, <1>2, <3>1, <3>2, <3>5 DEF Index
      <4> QED
        BY <3>1, <4>1 DEF Holds, Of
    <3> QED
      BY <1>2, <3>2, <3>3, <3>4, <3>5
  <2> QED
    BY <2>1, <2>2, <2>3
<1>7. ASSUME NEW a \in 0..(MemorySize - 1), NEW v \in Variables
      PROVE  f[a] = v <=> Holds(G, v, a)
  <2>1. m[a] = v <=> Holds(L, v, a)
    BY DEF Shown
  <2>2. CASE a \in Span(used)
    <3>1. f[a] = n
      BY <1>5, <2>2
    <3>2. ~Holds(L, v, a)
      <4>1. a \in Span(L.at[i])
        BY <1>3, <2>2
      <4>2. \A k \in Index(L) : k # i => a \notin Span(L.at[k])
        BY <4>1, SpansDisjoint
      <4> QED
        BY <4>2 DEF Holds, Of
    <3> QED
      BY <1>6, <2>2, <3>1, <3>2
  <2>3. CASE a \notin Span(used)
    <3>1. f[a] = m[a]
      BY <1>5, <2>3
    <3> QED
      BY <1>6, <2>1, <2>3, <3>1
  <2> QED
    BY <2>2, <2>3
<1> QED
  BY <1>4, <1>7 DEF Shown, f, G

-----------------------------------------------------------------------------
(* The steps *)

LEMMA InitTableInv == AlInit => TableInv
<1> SUFFICES ASSUME AlInit PROVE TableInv
  OBVIOUS
<1> DEFINE b == [name |-> NoName, size |-> MemorySize, start |-> 0, isFree |-> TRUE]
<1>1. /\ list.num = 1 /\ list.at = [i \in {0} |-> b] /\ Index(list) = {0}
      /\ list.at[0] = b
  BY DEF AlInit, Index
<1>2. b \in Block
  BY AllocatorAssumption DEF Block
<1>3. Chain(list)
  BY <1>1, <1>2, AllocatorAssumption DEF Chain
<1>4. Apart(list) /\ list.num <= MaxBlocks
  BY <1>1, AllocatorAssumption DEF Apart
<1>5. Shown(list, memory)
  <2>1. \A n, a : ~Holds(list, n, a)
    BY <1>1 DEF Holds, Of
  <2> QED
    BY <2>1, AllocatorAssumption DEF AlInit, Shown
<1> QED
  BY <1>3, <1>4, <1>5 DEF TableInv, AlInit

\* What a table must be like; the argument of the lemmas above.
Sound(L, m) == Chain(L) /\ Apart(L) /\ L.num <= MaxBlocks /\ Shown(L, m)

\* alloc_block, when it finds a hole and a place in the table.
LEMMA AllocSound ==
    ASSUME algorithm \in 1..3, NEW L, NEW m, Sound(L, m),
           NEW n \in Variables, NEW size \in Amounts, Holes(L, size) # {},
           ~Past(L, Chosen(L, size), size)
    PROVE  LET G == Given(L, Chosen(L, size), n, size)
           IN  /\ Sound(G, Filled(m, G.at[Chosen(L, size)], n))
               /\ \E i \in Of(G, n) : G.at[i].size = size
<1> DEFINE i == Chosen(L, size)
           G == Given(L, i, n, size)
<1>1. size \in Nat
  BY AllocatorAssumption
<1>2. i \in Index(L) /\ L.at[i].isFree /\ size <= L.at[i].size
  <2>1. i \in Holes(L, size)
    BY <1>1, ChosenIsHole DEF Sound
  <2>2. i \in Index(L) /\ L.at[i].isFree /\ L.at[i].size >= size
    BY <2>1 DEF Holes
  <2>3. L.at[i].size \in Nat
    BY <2>2, ChainFields DEF Sound
  <2> QED
    BY <1>1, <2>2, <2>3
<1> HIDE DEF i
<1>3. Chain(G) /\ Apart(G)
  BY <1>1, <1>2, GivenChain DEF Sound
<1>4. Shown(G, Filled(m, G.at[i], n))
  BY <1>1, <1>2, GivenShown DEF Sound
<1>5. /\ i \in Index(G)
      /\ G.at[i] = [name |-> n, size |-> size, start |-> L.at[i].start, isFree |-> FALSE]
      /\ L.at[i].size = size => G.num = L.num
      /\ L.at[i].size # size => G.num = L.num + 1
  BY <1>1, <1>2, GivenAt DEF Sound
<1> HIDE DEF G
<1>6. G.num <= MaxBlocks
  <2>1. L.num \in Nat /\ L.num <= MaxBlocks /\ L.at[i].size \in Nat
    BY <1>2, ChainFields DEF Sound
  <2>2. ~(L.num >= MaxBlocks /\ L.at[i].size > size)
    BY DEF Past, i
  <2> QED
    BY <1>1, <1>2, <1>5, <2>1, <2>2, AllocatorAssumption
<1>7. i \in Of(G, n) /\ G.at[i].size = size
  BY <1>5 DEF Of
<1> QED
  BY <1>3, <1>4, <1>6, <1>7 DEF Sound, G, i

\* free_block of a variable that is there.
LEMMA FreeSound ==
    ASSUME NEW L, NEW m, Sound(L, m), NEW n, Of(L, n) # {}
    PROVE  LET i == First(L, n)
           IN  /\ Sound(Released(L, i), Filled(m, L.at[i], Dash))
               /\ Released(L, i).num \in Nat /\ Released(L, i).num <= L.num
               /\ \E k \in Index(Released(L, i)) :
                     /\ Released(L, i).at[k].isFree
                     /\ Released(L, i).at[k].size >= L.at[i].size
<1> DEFINE i == First(L, n)
<1>1. i \in Index(L) /\ ~L.at[i].isFree
  <2>1. i \in Of(L, n)
    BY FirstIsOf DEF Sound
  <2> QED
    BY <2>1 DEF Of
<1> HIDE DEF i
<1>2. /\ Chain(Released(L, i)) /\ Apart(Released(L, i)) /\ Released(L, i).num <= L.num
      /\ \E k \in Index(Released(L, i)) :
            /\ Released(L, i).at[k].isFree
            /\ Released(L, i).at[k].size >= L.at[i].size
  BY <1>1, ReleasedChain DEF Sound
<1>3. Shown(Released(L, i), Filled(m, L.at[i], Dash))
  BY <1>1, ReleasedShown DEF Sound
<1>4. Released(L, i).num \in Nat /\ Released(L, i).num <= MaxBlocks
  BY <1>2, AllocatorAssumption DEF Chain, Sound
<1> QED
  BY <1>2, <1>3, <1>4 DEF Sound, i

\* The table is full when its end is passed.
FullInv == overrun => list.num = MaxBlocks

LEMMA NextTableInv == TableInv /\ FullInv /\ [AlNext]_alVars => TableInv' /\ FullInv'
<1> SUFFICES ASSUME TableInv, FullInv, [AlNext]_alVars PROVE TableInv' /\ FullInv'
  OBVIOUS
<1>0. /\ algorithm \in 1..3 /\ Sound(list, memory)
      /\ list.num \in Nat /\ list.num <= MaxBlocks /\ MaxBlocks \in Nat
  BY AllocatorAssumption DEF TableInv, Sound, Chain
<1>1. ASSUME algorithm' \in 1..3, Sound(list', memory') PROVE TableInv'
  BY <1>1 DEF TableInv, Sound, Chain, Apart, Shown, Index, Holds, Of
<1>2. ASSUME NEW n \in Variables, Free(n) PROVE TableInv' /\ FullInv'
  <2>1. Sound(list', memory') /\ UNCHANGED <<algorithm, overrun>> /\ ~overrun
    BY <1>0, <1>2, FreeSound DEF Free
  <2> QED
    BY <1>0, <1>1, <2>1 DEF FullInv
<1>3. ASSUME NEW n \in Variables, NEW size \in Amounts, Alloc(n, size)
      PROVE  TableInv' /\ FullInv'
  <2> DEFINE i == Chosen(list, size)
  <2>0. Holes(list, size) # {} /\ ~overrun /\ UNCHANGED algorithm
    BY <1>3 DEF Alloc
  <2>1. CASE Past(list, i, size)
    <3>1. overrun' = TRUE /\ UNCHANGED <<list, memory>> /\ list.num >= MaxBlocks
      BY <1>3, <2>1 DEF Alloc, Past
    <3> QED
      BY <1>0, <1>1, <2>0, <3>1 DEF FullInv
  <2>2. CASE ~Past(list, i, size)
    <3>1. /\ list' = Given(list, i, n, size)
          /\ memory' = Filled(memory, Given(list, i, n, size).at[i], n)
          /\ UNCHANGED overrun
      BY <1>3, <2>2 DEF Alloc
    <3>2. Sound(list', memory')
      BY <1>0, <2>0, <2>2, <3>1, AllocSound
    <3> QED
      BY <1>0, <1>1, <2>0, <3>1, <3>2 DEF FullInv
  <2> QED
    BY <2>1, <2>2
<1>4. ASSUME NEW n \in Variables, NEW size \in Amounts, Realloc(n, size)
      PROVE  TableInv' /\ FullInv'
  <2> DEFINE L == Released(list, First(list, n))
             m == Filled(memory, list.at[First(list, n)], Dash)
             i == Chosen(L, size)
  <2>0. Of(list, n) # {} /\ ~overrun /\ UNCHANGED algorithm
    BY <1>4 DEF Realloc
  <2>1. Sound(L, m) /\ L.num \in Nat /\ L.num <= list.num
    BY <1>0, <2>0, FreeSound
  <2>2. \/ Holes(L, size) = {} /\ list' = L /\ memory' = m /\ UNCHANGED overrun
        \/ Past(L, i, size) /\ overrun' = TRUE /\ UNCHANGED <<list, memory>>
        \/ /\ Holes(L, size) # {} /\ ~Past(L, i, size)
           /\ list' = Given(L, i, n, size)
           /\ memory' = Filled(m, Given(L, i, n, size).at[i], n)
           /\ UNCHANGED overrun
    BY <1>4 DEF Realloc
  <2> HIDE DEF L, m
  <2>3. CASE Holes(L, size) = {} /\ list' = L /\ memory' = m /\ UNCHANGED overrun
    BY <1>0, <1>1, <2>0, <2>1, <2>3 DEF FullInv
  <2>4. CASE Past(L, i, size) /\ overrun' = TRUE /\ UNCHANGED <<list, memory>>
    <3>1. L.num >= MaxBlocks
      BY <2>4 DEF Past
    <3>2. list.num = MaxBlocks
      BY <1>0, <2>1, <3>1
    <3> QED
      BY <1>0, <1>1, <2>0, <2>4, <3>2 DEF FullInv
  <2>5. CASE /\ Holes(L, size) # {} /\ ~Past(L, i, size)
             /\ list' = Given(L, i, n, size)
             /\ memory' = Filled(m, Given(L, i, n, size).at[i], n)
             /\ UNCHANGED overrun
    <3>1. Sound(list', memory')
      BY <1>0, <2>1, <2>5, AllocSound
    <3> QED
      BY <1>0, <1>1, <2>0, <2>5, <3>1 DEF FullInv
  <2> QED
    BY <2>2, <2>3, <2>4, <2>5
<1>5. CASE UNCHANGED alVars
  <2>1. UNCHANGED <<algorithm, list, memory, overrun>>
    BY <1>5 DEF alVars
  <2> QED
    BY <1>0, <1>1, <2>1 DEF FullInv
<1> QED
  BY <1>2, <1>3, <1>4, <1>5 DEF AlNext

LEMMA AlwaysTable == AlSpec => [](TableInv /\ FullInv)
<1>1. AlInit => FullInv
  BY DEF AlInit, FullInv
<1> QED
  BY InitTableInv, <1>1, NextTableInv, PTL DEF AlSpec

-----------------------------------------------------------------------------
(* Theorems *)

\* After any lines of ALLOC, FREE and REALLOC, whichever search is compiled in,
\* the blocks of the table lie end to end from the first byte to the last, and
\* no two neighbours are free.
THEOREM AlwaysPartition == AlSpec => []Partition
<1>1. TableInv => Partition
  <2> SUFFICES ASSUME TableInv PROVE Partition
    OBVIOUS
  <2>1. Chain(list) /\ Apart(list) /\ list.num <= MaxBlocks
    BY DEF TableInv
  <2>2. list.num \in 1..MaxBlocks
    BY <2>1, AllocatorAssumption DEF Chain
  <2>3. \A i \in Index(list) : list.at[i].size \in Nat
    BY <2>1, ChainFields
  <2> QED
    BY <2>1, <2>2, <2>3 DEF Partition, Chain, Apart
<1> QED
  BY <1>1, AlwaysTable, PTL

\* A byte shows a variable's letter exactly while a block of that variable
\* holds it.
THEOREM AlwaysOwnBytes == AlSpec => []OwnBytes
<1>1. TableInv => OwnBytes
  BY DEF TableInv, Shown, Holds, OwnBytes
<1> QED
  BY <1>1, AlwaysTable, PTL

\* REALLOC loses a variable only when no hole could take its new size; a
\* variable that shrinks is never lost.
THEOREM ReallocNeverLoses == AlSpec => ReallocKeeps
<1> DEFINE Kept == \A n \in Variables, size \in Amounts :
          Realloc(n, size) /\ ~overrun' /\ (size > 0 \/ algorithm # 3) =>
             \/ \E i \in Of(list', n) : list'.at[i].size = size
             \/ /\ size > list.at[First(list, n)].size
                /\ \A i \in Index(list') : list'.at[i].isFree => list'.at[i].size < size
<1>1. TableInv => Kept
  <2> SUFFICES ASSUME TableInv, NEW n \in Variables, NEW size \in Amounts,
                      Realloc(n, size), ~overrun', size > 0 \/ algorithm # 3
               PROVE  \/ \E i \in Of(list', n) : list'.at[i].size = size
                      \/ /\ size > list.at[First(list, n)].size
                         /\ \A i \in Index(list') :
                               list'.at[i].isFree => list'.at[i].size < size
    OBVIOUS
  <2> DEFINE L == Released(list, First(list, n))
             m == Filled(memory, list.at[First(list, n)], Dash)
             i == Chosen(L, size)
             old == list.at[First(list, n)].size
  <2>0. /\ algorithm \in 1..3 /\ Sound(list, memory) /\ Of(list, n) # {} /\ size \in Nat
    BY AllocatorAssumption DEF TableInv, Sound, Realloc
  <2>1. /\ Sound(L, m)
        /\ \E k \in Index(L) : L.at[k].isFree /\ L.at[k].size >= old
    BY <2>0, FreeSound
  <2>2. \/ Holes(L, size) = {} /\ list' = L
        \/ /\ Holes(L, size) # {} /\ ~Past(L, i, size)
           /\ list' = Given(L, i, n, size)
    BY DEF Realloc
  <2>3. old \in Nat
    <3>1. First(list, n) \in Index(list)
      BY <2>0, FirstIsOf DEF Sound, Of
    <3> QED
      BY <2>0, <3>1, ChainFields DEF Sound
  <2> HIDE DEF L, m, old
  <2>4. CASE Holes(L, size) = {} /\ list' = L
    <3>1. ASSUME NEW k \in Index(L), L.at[k].isFree
          PROVE  L.at[k].size \in Nat /\ L.at[k].size < size
      <4>1. L.at[k].size \in Nat
        BY <2>1, ChainFields DEF Sound
      <4>2. ~(L.at[k].size >= size /\ (algorithm = 3 => L.at[k].size > 0))
        BY <2>4, <3>1 DEF Holes
      <4> QED
        BY <2>0, <4>1, <4>2
    <3>2. PICK k \in Index(L) : L.at[k].isFree /\ L.at[k].size >= old
      BY <2>1
    <3>3. size > old
      BY <2>0, <2>3, <3>1, <3>2
    <3> QED
      BY <2>4, <3>1, <3>3 DEF old
  <2>5. CASE /\ Holes(L, size) # {} /\ ~Past(L, i, size)
             /\ list' = Given(L, i, n, size)
    BY <2>0, <2>1, <2>5, AllocSound
  <2> QED
    BY <2>2, <2>4, <2>5
<1>2. (TableInv /\ FullInv) /\ [AlNext]_alVars => [Kept]_alVars
  BY <1>1
<1> QED
  BY <1>2, AlwaysTable, PTL DEF ReallocKeeps, AlSpec

\* In a table without two holes together every second block is a variable.
LEMMA HalfIsUsed ==
    ASSUME NEW L, Chain(L), Apart(L)
    PROVE  2 * Cardinality({i \in Index(L) : ~L.at[i].isFree}) + 1 >= L.num
<1> DEFINE U == {i \in Index(L) : ~L.at[i].isFree}
           H == {i \in Index(L) : L.at[i].isFree}
           last == L.num - 1
           next == [i \in H \ {last} |-> i + 1]
<1>1. L.num \in Nat \ {0} /\ Index(L) = 0..last /\ last \in Nat
  BY DEF Chain, Index
<1>2. IsFiniteSet(Index(L)) /\ Cardinality(Index(L)) = L.num
  BY <1>1, FS_Interval
<1>3. /\ IsFiniteSet(U) /\ IsFiniteSet(H)
      /\ Cardinality(U) \in Nat /\ Cardinality(H) \in Nat
      /\ Cardinality(U) + Cardinality(H) = L.num
  <2>1. IsFiniteSet(U) /\ IsFiniteSet(H)
    BY <1>2, FS_Subset
  <2>2. U \union H = Index(L) /\ U \cap H = {}
    OBVIOUS
  <2>3. Cardinality(U \union H) = Cardinality(U) + Cardinality(H) - Cardinality(U \cap H)
    BY <2>1, FS_Union
  <2>4. Cardinality(U \cap H) = 0
    BY <2>2, FS_EmptySet
  <2>5. Cardinality(U) \in Nat /\ Cardinality(H) \in Nat
    BY <2>1, FS_CardinalityType
  <2>6. Cardinality(U \union H) = L.num
    BY <1>2, <2>2
  <2> HIDE DEF U, H
  <2> QED
    BY <2>1, <2>3, <2>4, <2>5, <2>6
<1>4. next \in Injection(H \ {last}, U)
  <2>1. ASSUME NEW i \in H \ {last} PROVE i + 1 \in U /\ next[i] = i + 1 /\ i \in Nat
    <3>1. i \in Nat /\ i \in Index(L) /\ i + 1 < L.num /\ i + 1 \in Index(L)
      BY <1>1
    <3>2. ~L.at[i + 1].isFree
      BY <3>1 DEF Apart
    <3> QED
      BY <3>1, <3>2
  <2>2. next \in [H \ {last} -> U]
    BY <2>1
  <2>3. ASSUME NEW i \in H \ {last}, NEW j \in H \ {last}, next[i] = next[j]
        PROVE  i = j
    <3>1. i + 1 = j + 1 /\ i \in Nat /\ j \in Nat
      BY <2>1, <2>3
    <3> QED
      BY <3>1
  <2> HIDE DEF next, U, H
  <2> QED
    BY <2>2, <2>3, Fun_IsInj
<1>5. Cardinality(H \ {last}) <= Cardinality(U)
  <2> HIDE DEF next, U, H
  <2> QED
    BY <1>3, <1>4, FS_Injection
<1>6. /\ Cardinality(H \ {last}) \in Nat
      /\ Cardinality(H) <= Cardinality(H \ {last}) + 1
  <2> HIDE DEF U, H
  <2>1. /\ IsFiniteSet(H \ {last})
        /\ Cardinality(H \ {last}) = IF last \in H THEN Cardinality(H) - 1
                                     ELSE Cardinality(H)
    BY <1>3, FS_RemoveElement
  <2>2. Cardinality(H \ {last}) \in Nat
    BY <2>1, FS_CardinalityType
  <2> QED
    BY <1>3, <2>1, <2>2
<1> HIDE DEF U, H
<1>7. 2 * Cardinality(U) + 1 >= L.num
  BY <1>1, <1>3, <1>5, <1>6
<1> QED
  BY <1>7 DEF U

\* The table is not written past its end before about half as many variables
\* are there as it has places.
THEOREM OverrunWhenFull == AlSpec => []OverrunNeedsMany
<1>1. TableInv /\ FullInv => OverrunNeedsMany
  BY HalfIsUsed DEF TableInv, FullInv, OverrunNeedsMany
<1> QED
  BY <1>1, AlwaysTable, PTL

-----------------------------------------------------------------------------
(* Implementing Heap: the runs of the pieces and the holes of the table *)

\* Where blocks meet.
LEMMA ChainEnds ==
    ASSUME NEW L, Chain(L), NEW i \in Index(L)
    PROVE  /\ L.at[i].start + L.at[i].size <= MemorySize
           /\ i = L.num - 1 => L.at[i].start + L.at[i].size = MemorySize
           /\ i # L.num - 1 => /\ i + 1 \in Index(L)
                               /\ L.at[i].start + L.at[i].size = L.at[i + 1].start
           /\ i # 0 => /\ i - 1 \in Index(L)
                       /\ L.at[i - 1].start + L.at[i - 1].size = L.at[i].start
<1>1. i \in Nat /\ i < L.num /\ L.num \in Nat
  BY ChainFields
<1>2. i = L.num - 1 => L.at[i].start + L.at[i].size = MemorySize
  BY DEF Chain
<1>3. i # L.num - 1 => /\ i + 1 \in Index(L)
                       /\ L.at[i].start + L.at[i].size = L.at[i + 1].start
  BY <1>1 DEF Chain, Index
<1>4. i # 0 => /\ i - 1 \in Index(L)
               /\ L.at[i - 1].start + L.at[i - 1].size = L.at[i].start
  <2> SUFFICES ASSUME i # 0 PROVE /\ i - 1 \in Index(L)
               /\ L.at[i - 1].start + L.at[i - 1].size = L.at[i].start
    OBVIOUS
  <2>1. i - 1 \in Index(L) /\ i - 1 # L.num - 1 /\ (i - 1) + 1 = i
    BY <1>1 DEF Index
  <2> QED
    BY <2>1 DEF Chain
<1>5. L.at[i].start + L.at[i].size <= MemorySize
  <2>1. CASE i = L.num - 1
    BY <1>2, <2>1, AllocatorAssumption
  <2>2. CASE i # L.num - 1
    BY <1>3, <2>2, ChainFields
  <2> QED
    BY <2>1, <2>2
<1> QED
  BY <1>2, <1>3, <1>4, <1>5

\* Every byte is in some block.
LEMMA ByteHasBlock ==
    ASSUME NEW L, Chain(L), NEW a \in Nat, a < MemorySize
    PROVE  \E i \in Index(L) : L.at[i].start <= a /\ a < L.at[i].start + L.at[i].size
<1> DEFINE S == {i \in Index(L) : a < L.at[i].start + L.at[i].size}
<1>1. S \subseteq Nat /\ S # {}
  <2>1. L.num - 1 \in Index(L)
    BY DEF Chain, Index
  <2>2. L.at[L.num - 1].start + L.at[L.num - 1].size = MemorySize
    BY <2>1, ChainEnds
  <2>3. S \subseteq Nat
    BY DEF Index
  <2> QED
    BY <2>1, <2>2, <2>3
<1>2. PICK i \in S : \A j \in S : i <= j
  <2> HIDE DEF S
  <2> QED
    BY <1>1, Least
<1>3. L.at[i].start <= a
  <2>0. i \in Index(L) /\ i \in Nat /\ L.at[i].start \in Nat
    BY ChainFields
  <2>1. CASE i = 0
    BY <2>1 DEF Chain
  <2>2. CASE i # 0
    <3>1. i - 1 \in Index(L) /\ L.at[i - 1].start + L.at[i - 1].size = L.at[i].start
      BY <2>0, <2>2, ChainEnds
    <3>2. i - 1 \notin S
      BY <1>2, <2>0
    <3> QED
      BY <2>0, <3>1, <3>2
  <2> QED
    BY <2>1, <2>2
<1> QED
  BY <1>3

\* The piece of a block that is not free, and the block of a piece.
LEMMA PieceOf ==
    ASSUME NEW L, Chain(L)
    PROVE  /\ \A k \in Index(L) : ~L.at[k].isFree =>
                 [name |-> L.at[k].name, start |-> L.at[k].start, size |-> L.at[k].size]
                    \in Pieces(L)
           /\ \A p \in Pieces(L) : \E k \in Index(L) :
                 /\ ~L.at[k].isFree
                 /\ p = [name |-> L.at[k].name, start |-> L.at[k].start,
                         size |-> L.at[k].size]
                 /\ p.name = L.at[k].name /\ p.start = L.at[k].start
                 /\ p.size = L.at[k].size
           /\ \A p \in Pieces(L) : p.start \in Nat /\ p.size \in Nat
<1>1. \A p \in Pieces(L) : \E k \in Index(L) :
                 /\ ~L.at[k].isFree
                 /\ p = [name |-> L.at[k].name, start |-> L.at[k].start,
                         size |-> L.at[k].size]
                 /\ p.name = L.at[k].name /\ p.start = L.at[k].start
                 /\ p.size = L.at[k].size
  BY DEF Pieces
<1>2. \A p \in Pieces(L) : p.start \in Nat /\ p.size \in Nat
  BY <1>1, ChainFields
<1>3. \A k \in Index(L) : ~L.at[k].isFree =>
         [name |-> L.at[k].name, start |-> L.at[k].start, size |-> L.at[k].size]
            \in Pieces(L)
  BY DEF Pieces
<1> QED
  BY <1>1, <1>2, <1>3

\* A run, by its two ends.
IsRun(P, a, b) ==
    /\ a < b
    /\ a = 0 \/ \E p \in P : p.start + p.size = a
    /\ b = MemorySize \/ \E p \in P : p.start = b
    /\ \A p \in P : p.start + p.size <= a \/ b <= p.start

LEMMA RunEnds ==
    ASSUME NEW P, \A p \in P : p.start \in Nat /\ p.size \in Nat
    PROVE  /\ \A r \in Memory!Runs(P) :
                 /\ r.start \in Nat /\ r.size \in Nat \ {0}
                 /\ IsRun(P, r.start, r.start + r.size)
                 /\ r = [start |-> r.start, size |-> r.size]
           /\ \A a \in Nat, b \in Nat :
                 IsRun(P, a, b) => [start |-> a, size |-> b - a] \in Memory!Runs(P)
<1> DEFINE from == {0} \union {p.start + p.size : p \in P}
           to == {MemorySize} \union {p.start : p \in P}
           pairs == {[start |-> a, size |-> b - a] : a \in from, b \in to}
<1>1. Memory!Runs(P) =
         {r \in pairs :
            r.size > 0 /\ \A p \in P : p.start + p.size <= r.start
                                         \/ r.start + r.size <= p.start}
  BY DEF Memory!Runs, Memory!End
<1>2. from \subseteq Nat /\ to \subseteq Nat
  BY AllocatorAssumption
<1>3. \A a \in from : a = 0 \/ \E p \in P : p.start + p.size = a
  OBVIOUS
<1>4. \A b \in to : b = MemorySize \/ \E p \in P : p.start = b
  OBVIOUS
<1> HIDE DEF from, to
<1>5. ASSUME NEW r \in Memory!Runs(P)
      PROVE  /\ r.start \in Nat /\ r.size \in Nat \ {0}
             /\ IsRun(P, r.start, r.start + r.size)
             /\ r = [start |-> r.start, size |-> r.size]
  <2>1. PICK a \in from, b \in to : r = [start |-> a, size |-> b - a]
    BY <1>1
  <2>2. /\ r.start = a /\ r.size = b - a /\ a \in Nat /\ b \in Nat
        /\ r = [start |-> r.start, size |-> r.size]
    BY <1>2, <2>1
  <2>3. r.size > 0 /\ \A p \in P : p.start + p.size <= r.start
                                     \/ r.start + r.size <= p.start
    BY <1>1
  <2>4. r.start + r.size = b /\ a < b
    BY <2>2, <2>3
  <2> QED
    BY <1>3, <1>4, <2>2, <2>3, <2>4 DEF IsRun
<1>6. ASSUME NEW a \in Nat, NEW b \in Nat, IsRun(P, a, b)
      PROVE  [start |-> a, size |-> b - a] \in Memory!Runs(P)
  <2>1. a \in from /\ b \in to
    BY <1>6 DEF IsRun, from, to
  <2>2. [start |-> a, size |-> b - a] \in pairs
    BY <2>1
  <2>3. b - a > 0 /\ a + (b - a) = b
    BY <1>6 DEF IsRun
  <2>4. \A p \in P : p.start + p.size <= a \/ b <= p.start
    BY <1>6 DEF IsRun
  <2> HIDE DEF pairs
  <2> QED
    BY <1>1, <2>2, <2>3, <2>4
<1> QED
  BY <1>5, <1>6

\* A hole that is not empty is a run: what lies beside it is not free.
LEMMA HoleIsRun ==
    ASSUME NEW L, Chain(L), Apart(L), NEW i \in Index(L), L.at[i].isFree,
           L.at[i].size > 0
    PROVE  IsRun(Pieces(L), L.at[i].start, L.at[i].start + L.at[i].size)
<1> DEFINE a == L.at[i].start
           b == L.at[i].start + L.at[i].size
<1>0. i \in Nat /\ L.num \in Nat /\ L.at[i].start \in Nat /\ L.at[i].size \in Nat
      /\ i < L.num
  BY ChainFields
<1>1. a < b
  BY <1>0
<1>2. a = 0 \/ \E p \in Pieces(L) : p.start + p.size = a
  <2>1. CASE i = 0
    BY <2>1 DEF Chain
  <2>2. CASE i # 0
    <3>1. i - 1 \in Index(L) /\ L.at[i - 1].start + L.at[i - 1].size = L.at[i].start
      BY <2>2, ChainEnds
    <3>2. ~L.at[i - 1].isFree
      <4>1. (i - 1) + 1 = i /\ i < L.num
        BY <1>0
      <4> QED
        BY <3>1, <4>1 DEF Apart
    <3>3. [name |-> L.at[i - 1].name, start |-> L.at[i - 1].start,
           size |-> L.at[i - 1].size] \in Pieces(L)
      BY <3>1, <3>2, PieceOf
    <3> QED
      BY <3>1, <3>3
  <2> QED
    BY <2>1, <2>2
<1>3. b = MemorySize \/ \E p \in Pieces(L) : p.start = b
  <2>1. CASE i = L.num - 1
    BY <2>1, ChainEnds
  <2>2. CASE i # L.num - 1
    <3>1. i + 1 \in Index(L) /\ L.at[i + 1].start = b /\ i + 1 < L.num
      BY <1>0, <2>2, ChainEnds DEF Index
    <3>2. ~L.at[i + 1].isFree
      BY <3>1 DEF Apart
    <3>3. [name |-> L.at[i + 1].name, start |-> L.at[i + 1].start,
           size |-> L.at[i + 1].size] \in Pieces(L)
      BY <3>1, <3>2, PieceOf
    <3> QED
      BY <3>1, <3>3
  <2> QED
    BY <2>1, <2>2
<1>4. ASSUME NEW p \in Pieces(L) PROVE p.start + p.size <= a \/ b <= p.start
  <2>1. PICK k \in Index(L) : /\ ~L.at[k].isFree /\ p.start = L.at[k].start
                              /\ p.size = L.at[k].size
    BY PieceOf
  <2>2. k \in Nat /\ k # i
    BY <2>1, ChainFields
  <2>3. CASE k < i
    BY <2>1, <2>3 DEF Chain
  <2>4. CASE k > i
    BY <2>1, <2>4 DEF Chain
  <2> QED
    BY <1>0, <2>2, <2>3, <2>4
<1> QED
  BY <1>1, <1>2, <1>3, <1>4 DEF IsRun

\* Two runs that share a byte are one.
LEMMA RunsApart ==
    ASSUME NEW P, \A p \in P : p.start \in Nat /\ p.size \in Nat,
           \A p \in P : p.start + p.size <= MemorySize,
           NEW a \in Nat, NEW b \in Nat, NEW c \in Nat, NEW d \in Nat,
           IsRun(P, a, b), IsRun(P, c, d), c <= a, a < d, d <= MemorySize
    PROVE  a = c /\ b = d
<1>1. a = c
  <2> SUFFICES ASSUME a # c PROVE FALSE
    OBVIOUS
  <2>1. PICK p \in P : p.start + p.size = a
    BY DEF IsRun
  <2>2. p.start + p.size <= c \/ d <= p.start
    BY DEF IsRun
  <2>3. p.start \in Nat /\ p.size \in Nat
    OBVIOUS
  <2> QED
    BY <2>1, <2>2, <2>3
<1>2. b <= MemorySize
  <2>1. CASE b = MemorySize
    BY <2>1, AllocatorAssumption
  <2>2. CASE b # MemorySize
    <3>1. PICK p \in P : p.start = b
      BY <2>2 DEF IsRun
    <3>2. p.start \in Nat /\ p.size \in Nat /\ p.start + p.size <= MemorySize
      OBVIOUS
    <3> QED
      BY <3>1, <3>2, AllocatorAssumption
  <2> QED
    BY <2>1, <2>2
<1>3. ~(b < d)
  <2> SUFFICES ASSUME b < d PROVE FALSE
    OBVIOUS
  <2>1. b # MemorySize
    BY <1>2, AllocatorAssumption
  <2>2. PICK p \in P : p.start = b
    BY <2>1 DEF IsRun
  <2>3. /\ p.start + p.size <= c \/ d <= p.start
        /\ p.start \in Nat /\ p.size \in Nat /\ a < b
    BY DEF IsRun
  <2> QED
    BY <1>1, <2>2, <2>3
<1>4. ~(d < b)
  <2> SUFFICES ASSUME d < b PROVE FALSE
    OBVIOUS
  <2>1. d # MemorySize
    BY <1>2, AllocatorAssumption
  <2>2. PICK p \in P : p.start = d
    BY <2>1 DEF IsRun
  <2>3. /\ p.start + p.size <= a \/ b <= p.start
        /\ p.start \in Nat /\ p.size \in Nat /\ a < d
    BY DEF IsRun
  <2> QED
    BY <1>1, <2>2, <2>3
<1> QED
  BY <1>1, <1>3, <1>4

\* A run is a hole: the block its first byte is in is free, so a run itself.
LEMMA RunIsHole ==
    ASSUME NEW L, Chain(L), Apart(L), NEW a \in Nat, NEW b \in Nat,
           IsRun(Pieces(L), a, b)
    PROVE  \E i \in Index(L) : /\ L.at[i].isFree /\ L.at[i].size > 0
                               /\ L.at[i].start = a /\ L.at[i].start + L.at[i].size = b
<1>0. \A p \in Pieces(L) : /\ p.start \in Nat /\ p.size \in Nat
                           /\ p.start + p.size <= MemorySize
  BY PieceOf, ChainEnds
<1>1. a < MemorySize
  <2>1. CASE b = MemorySize
    BY <2>1 DEF IsRun
  <2>2. CASE b # MemorySize
    <3>1. PICK p \in Pieces(L) : p.start = b
      BY <2>2 DEF IsRun
    <3>2. p.start \in Nat /\ p.size \in Nat /\ p.start + p.size <= MemorySize
      BY <1>0
    <3> QED
      BY <3>1, <3>2, AllocatorAssumption DEF IsRun
  <2> QED
    BY <2>1, <2>2
<1>2. PICK i \in Index(L) : L.at[i].start <= a /\ a < L.at[i].start + L.at[i].size
  BY <1>1, ByteHasBlock
<1>3. /\ L.at[i].start \in Nat /\ L.at[i].size \in Nat
      /\ L.at[i].start + L.at[i].size <= MemorySize
  BY ChainFields, ChainEnds
<1>4. L.at[i].isFree
  <2> SUFFICES ASSUME ~L.at[i].isFree PROVE FALSE
    BY ChainFields
  <2>1. [name |-> L.at[i].name, start |-> L.at[i].start, size |-> L.at[i].size]
           \in Pieces(L)
    BY PieceOf
  <2>2. L.at[i].start + L.at[i].size <= a \/ b <= L.at[i].start
    BY <2>1 DEF IsRun
  <2>3. a < b
    BY DEF IsRun
  <2> QED
    BY <1>2, <1>3, <2>2, <2>3
<1>5. L.at[i].size > 0
  BY <1>2, <1>3
<1>6. IsRun(Pieces(L), L.at[i].start, L.at[i].start + L.at[i].size)
  BY <1>4, <1>5, HoleIsRun
<1>7. a = L.at[i].start /\ b = L.at[i].start + L.at[i].size
  <2> DEFINE c == L.at[i].start
             d == L.at[i].start + L.at[i].size
  <2>1. c \in Nat /\ d \in Nat /\ c <= a /\ a < d /\ d <= MemorySize
        /\ IsRun(Pieces(L), c, d)
    BY <1>2, <1>3, <1>6
  <2> HIDE DEF c, d
  <2>2. a = c /\ b = d
    BY <1>0, <2>1, RunsApart
  <2> QED
    BY <2>2 DEF c, d
<1> QED
  BY <1>4, <1>5, <1>7

\* The holes of a table that are not empty are the runs.
LEMMA HolesMatch ==
    ASSUME NEW L, Chain(L), Apart(L)
    PROVE  {[start |-> L.at[i].start, size |-> L.at[i].size]
              : i \in {k \in Index(L) : L.at[k].isFree /\ L.at[k].size > 0}}
           = Memory!Runs(Pieces(L))
<1> DEFINE H == {[start |-> L.at[i].start, size |-> L.at[i].size]
                   : i \in {k \in Index(L) : L.at[k].isFree /\ L.at[k].size > 0}}
<1>0. \A p \in Pieces(L) : p.start \in Nat /\ p.size \in Nat
  BY PieceOf
<1>1. ASSUME NEW i \in Index(L), L.at[i].isFree, L.at[i].size > 0
      PROVE  [start |-> L.at[i].start, size |-> L.at[i].size] \in Memory!Runs(Pieces(L))
  <2> DEFINE a == L.at[i].start
             b == L.at[i].start + L.at[i].size
  <2>1. a \in Nat /\ b \in Nat /\ b - a = L.at[i].size
    BY ChainFields
  <2>2. IsRun(Pieces(L), a, b)
    BY <1>1, HoleIsRun
  <2>3. [start |-> a, size |-> b - a] \in Memory!Runs(Pieces(L))
    <3> HIDE DEF a, b
    <3> QED
      BY <1>0, <2>1, <2>2, RunEnds
  <2> QED
    BY <2>1, <2>3
<1>2. ASSUME NEW r \in Memory!Runs(Pieces(L)) PROVE r \in H
  <2>1. /\ r.start \in Nat /\ r.size \in Nat \ {0}
        /\ IsRun(Pieces(L), r.start, r.start + r.size)
        /\ r = [start |-> r.start, size |-> r.size]
    BY <1>0, RunEnds
  <2>2. r.start + r.size \in Nat
    BY <2>1
  <2>3. PICK i \in Index(L) : /\ L.at[i].isFree /\ L.at[i].size > 0
                              /\ L.at[i].start = r.start
                              /\ L.at[i].start + L.at[i].size = r.start + r.size
    BY <2>1, <2>2, RunIsHole
  <2>4. L.at[i].size = r.size
    <3>1. L.at[i].start \in Nat /\ L.at[i].size \in Nat
      BY ChainFields
    <3> QED
      BY <2>1, <2>3, <3>1
  <2>5. r = [start |-> L.at[i].start, size |-> L.at[i].size]
    BY <2>1, <2>3, <2>4
  <2> QED
    BY <2>3, <2>5
<1>3. H \subseteq Memory!Runs(Pieces(L))
  BY <1>1
<1> QED
  BY <1>2, <1>3

\* The hole that search_free_block takes begins where the next piece should.
LEMMA ChosenPlace ==
    ASSUME NEW L, Chain(L), Apart(L), NEW size \in Nat, algorithm \in 1..3,
           Holes(L, size) # {}
    PROVE  L.at[Chosen(L, size)].start \in Memory!Places(Pieces(L), size)
<1> DEFINE i == Chosen(L, size)
           P == Pieces(L)
<1>1. i \in Holes(L, size)
  BY ChosenIsHole
<1>2. \A j \in Holes(L, size) : Preferred(L, i, j)
  BY ChosenIsHole
<1> HIDE DEF i
<1>3. /\ i \in Index(L) /\ L.at[i].isFree /\ i \in Nat
      /\ L.at[i].start \in Nat /\ L.at[i].size \in Nat /\ size <= L.at[i].size
      /\ L.at[i].start + L.at[i].size <= MemorySize
  <2>1. i \in Index(L) /\ L.at[i].isFree /\ L.at[i].size >= size
    BY <1>1 DEF Holes
  <2> QED
    BY <2>1, ChainFields, ChainEnds
<1>4. CASE size > 0
  <2> DEFINE r == [start |-> L.at[i].start, size |-> L.at[i].size]
             fit == Memory!Fitting(P, size)
  <2>0. fit = {s \in Memory!Runs(P) : s.size >= size}
    BY DEF Memory!Fitting
  <2>1. r \in fit
    <3>1. L.at[i].size > 0
      BY <1>3, <1>4
    <3>2. r \in Memory!Runs(P)
      BY <1>3, <3>1, HolesMatch
    <3> QED
      BY <1>3, <2>0, <3>2
  <2>2. ASSUME NEW s \in fit PROVE Memory!Better(r, s)
    <3>1. PICK j \in Index(L) : /\ L.at[j].isFree /\ L.at[j].size > 0
                                /\ s = [start |-> L.at[j].start, size |-> L.at[j].size]
      BY <2>0, HolesMatch
    <3>2. /\ L.at[j].size >= size /\ s.start = L.at[j].start /\ s.size = L.at[j].size
          /\ j \in Nat /\ L.at[j].start \in Nat /\ L.at[j].size \in Nat
      BY <2>0, <3>1, ChainFields
    <3>3. j \in Holes(L, size)
      BY <3>1, <3>2 DEF Holes
    <3>4. Preferred(L, i, j)
      BY <1>2, <3>3
    <3>5. i <= j => L.at[i].start <= L.at[j].start
      <4>1. CASE i = j
        BY <1>3, <4>1
      <4>2. CASE i < j
        <5>1. L.at[i].start + L.at[i].size <= L.at[j].start
          BY <1>3, <4>2 DEF Chain
        <5> QED
          BY <1>3, <3>2, <5>1
      <4> QED
        BY <1>3, <3>2, <4>1, <4>2
    <3> QED
      BY <3>2, <3>4, <3>5 DEF Preferred, Memory!Better
  <2>3. r \in Memory!Best(P, size)
    <3> HIDE DEF r
    <3> QED
      BY <2>1, <2>2 DEF Memory!Best
  <2>4. Memory!Places(P, size) = {s.start : s \in Memory!Best(P, size)}
    BY <1>4 DEF Memory!Places
  <2>5. r.start = L.at[i].start
    OBVIOUS
  <2> QED
    BY <2>3, <2>4, <2>5 DEF i
<1>5. CASE ~(size > 0)
  <2>1. Memory!Places(P, size) =
           {a \in 0..MemorySize : \A p \in P : p.start + p.size <= a \/ a <= p.start}
    BY <1>5 DEF Memory!Places, Memory!End
  <2>2. L.at[i].start \in 0..MemorySize
    BY <1>3, AllocatorAssumption
  <2>3. ASSUME NEW p \in P
        PROVE  p.start + p.size <= L.at[i].start \/ L.at[i].start <= p.start
    <3>1. PICK k \in Index(L) : /\ ~L.at[k].isFree /\ p.start = L.at[k].start
                                /\ p.size = L.at[k].size
      BY PieceOf
    <3>2. k \in Nat /\ k # i /\ L.at[k].start \in Nat
      BY <1>3, <3>1, ChainFields
    <3>3. CASE k < i
      BY <1>3, <3>1, <3>3 DEF Chain
    <3>4. CASE i < k
      <4>1. L.at[i].start + L.at[i].size <= L.at[k].start
        BY <1>3, <3>4 DEF Chain
      <4> QED
        BY <1>3, <3>1, <3>2, <4>1
    <3> QED
      BY <1>3, <3>2, <3>3, <3>4
  <2> HIDE DEF P
  <2> QED
    BY <2>1, <2>2, <2>3 DEF i, P
<1> QED
  BY <1>4, <1>5

\* search_free_block returns -1: nothing is large enough.
LEMMA NoneFits ==
    ASSUME NEW L, Chain(L), Apart(L), NEW size \in Nat, Holes(L, size) = {}
    PROVE  Memory!NoRoom(Pieces(L), size)
<1> SUFFICES ASSUME size # 0, NEW r \in Memory!Fitting(Pieces(L), size) PROVE FALSE
  BY DEF Memory!NoRoom
<1>1. r \in Memory!Runs(Pieces(L)) /\ r.size >= size
  BY DEF Memory!Fitting
<1>2. PICK i \in Index(L) : /\ L.at[i].isFree /\ L.at[i].size > 0
                            /\ r = [start |-> L.at[i].start, size |-> L.at[i].size]
  BY <1>1, HolesMatch
<1>3. i \in Holes(L, size)
  BY <1>1, <1>2 DEF Holes
<1> QED
  BY <1>3

\* alloc_block adds one piece.
LEMMA GivenPieces ==
    ASSUME NEW L, Chain(L), NEW i \in Index(L), NEW n \in Variables, NEW size \in Nat,
           L.at[i].isFree, size <= L.at[i].size
    PROVE  Pieces(Given(L, i, n, size)) =
              Pieces(L) \union {[name |-> n, start |-> L.at[i].start, size |-> size]}
<1> DEFINE G == Given(L, i, n, size)
           P(b) == [name |-> b.name, start |-> b.start, size |-> b.size]
           used == [name |-> n, size |-> size, start |-> L.at[i].start, isFree |-> FALSE]
           rest == [name |-> NoName, size |-> L.at[i].size - size,
                    start |-> L.at[i].start + size, isFree |-> TRUE]
<1>1. /\ i \in Index(G) /\ G.at[i] = used
      /\ \A k \in Index(L) : k < i => G.at[k] = L.at[k]
      /\ L.at[i].size = size => /\ G.num = L.num
                                /\ \A k \in Index(L) : k > i => G.at[k] = L.at[k]
      /\ L.at[i].size # size => /\ G.num = L.num + 1
                                /\ G.at[i + 1] = rest
                                /\ \A k \in Index(L) : k > i => G.at[k + 1] = L.at[k]
  BY GivenPlaces
<1>2. i \in Nat /\ L.num \in Nat /\ i < L.num
  BY ChainFields
<1>3. ~used.isFree /\ rest.isFree
      /\ P(used) = [name |-> n, start |-> L.at[i].start, size |-> size]
  OBVIOUS
<1>4. /\ Pieces(G) = {P(G.at[k]) : k \in {j \in Index(G) : ~G.at[j].isFree}}
      /\ Pieces(L) = {P(L.at[k]) : k \in {j \in Index(L) : ~L.at[j].isFree}}
  BY DEF Pieces
<1> HIDE DEF G, P, used, rest
<1>5. ASSUME NEW k \in Index(G), ~G.at[k].isFree, k # i
      PROVE  \E j \in Index(L) : ~L.at[j].isFree /\ L.at[j] = G.at[k]
  <2>0. k \in Nat
    BY DEF Index
  <2>1. CASE k < i
    <3>1. k \in Index(L)
      BY <1>2, <2>0, <2>1 DEF Index
    <3> QED
      BY <1>1, <1>5, <2>1, <3>1
  <2>2. CASE k > i /\ L.at[i].size = size
    <3>1. k \in Index(L)
      BY <1>1, <2>2 DEF Index
    <3> QED
      BY <1>1, <1>5, <2>2, <3>1
  <2>3. CASE k > i /\ L.at[i].size # size
    <3>1. k # i + 1
      BY <1>1, <1>3, <1>5, <2>3
    <3>2. k - 1 \in Index(L) /\ k - 1 > i /\ (k - 1) + 1 = k
      BY <1>1, <1>2, <2>0, <2>3, <3>1 DEF Index
    <3>3. G.at[k] = L.at[k - 1]
      BY <1>1, <2>3, <3>2
    <3> QED
      BY <1>5, <3>2, <3>3
  <2> QED
    BY <1>2, <1>5, <2>0, <2>1, <2>2, <2>3
<1>6. ASSUME NEW k \in Index(L), ~L.at[k].isFree
      PROVE  \E j \in Index(G) : ~G.at[j].isFree /\ G.at[j] = L.at[k]
  <2>0. k \in Nat /\ k < L.num /\ k # i
    BY <1>2, <1>6 DEF Index
  <2>1. CASE k < i
    <3>1. k \in Index(G)
      BY <1>1, <1>2, <2>0, <2>1 DEF Index
    <3> QED
      BY <1>1, <1>6, <2>1, <3>1
  <2>2. CASE k > i /\ L.at[i].size = size
    <3>1. k \in Index(G)
      BY <1>1, <2>2 DEF Index
    <3> QED
      BY <1>1, <1>6, <2>2, <3>1
  <2>3. CASE k > i /\ L.at[i].size # size
    <3>1. k + 1 \in Index(G)
      BY <1>1, <1>2, <2>0, <2>3 DEF Index
    <3> QED
      BY <1>1, <1>6, <2>3, <3>1
  <2> QED
    BY <1>2, <2>0, <2>1, <2>2, <2>3
<1>7. P(used) \in Pieces(G)
  BY <1>1, <1>3, <1>4
<1>8. Pieces(L) \subseteq Pieces(G)
  BY <1>4, <1>6
<1>9. Pieces(G) \subseteq Pieces(L) \union {P(used)}
  <2> SUFFICES ASSUME NEW k \in Index(G), ~G.at[k].isFree
               PROVE  P(G.at[k]) \in Pieces(L) \union {P(used)}
    BY <1>4
  <2>1. CASE k = i
    BY <1>1, <2>1
  <2>2. CASE k # i
    BY <1>4, <1>5, <2>2
  <2> QED
    BY <2>1, <2>2
<1> QED
  BY <1>3, <1>7, <1>8, <1>9 DEF G

\* free_block takes away the first piece of the variable, unless it is empty and
\* another is at the same place.
LEMMA ReleasedPieces ==
    ASSUME NEW L, Chain(L), Apart(L), NEW n, Of(L, n) # {}
    PROVE  Pieces(Released(L, First(L, n))) \in Memory!Without(Pieces(L), n)
<1> DEFINE i == First(L, n)
           F == Freed(L, i)
           P(b) == [name |-> b.name, start |-> b.start, size |-> b.size]
           p == P(L.at[i])
<1>1. i \in Of(L, n)
  BY FirstIsOf
<1>2. \A j \in Of(L, n) : i <= j
  BY FirstIsOf
<1> HIDE DEF i
<1>3. /\ i \in Index(L) /\ ~L.at[i].isFree /\ L.at[i].name = n /\ i \in Nat
      /\ L.at[i].start \in Nat /\ L.at[i].size \in Nat
  <2>1. i \in Index(L) /\ ~L.at[i].isFree /\ L.at[i].name = n
    BY <1>1 DEF Of
  <2> QED
    BY <2>1, ChainFields
<1>4. Pieces(Released(L, i)) = Pieces(F)
  BY <1>3, ReleasedChain
<1>5. /\ Index(F) = Index(L) /\ F.at[i].isFree
      /\ \A k \in Index(L) \ {i} : F.at[k] = L.at[k]
  BY <1>3, FreedChain DEF Index
<1> HIDE DEF F
<1>6. p.name = n /\ p.start = L.at[i].start /\ p.size = L.at[i].size
  BY <1>3
<1>7. /\ Pieces(F) = {P(F.at[k]) : k \in {j \in Index(F) : ~F.at[j].isFree}}
      /\ Pieces(L) = {P(L.at[k]) : k \in {j \in Index(L) : ~L.at[j].isFree}}
  BY DEF Pieces
<1>8. \A k \in Index(L) : P(L.at[k]).start = L.at[k].start
  OBVIOUS
<1> HIDE DEF P
<1>9. p \in Pieces(L) /\ Pieces(L) = Pieces(F) \union {p}
  <2>1. Pieces(F) = {P(L.at[k]) : k \in {j \in Index(L) \ {i} : ~L.at[j].isFree}}
    BY <1>5, <1>7
  <2> QED
    BY <1>3, <1>7, <2>1
<1>10. p.size # 0 => p \notin Pieces(F)
  <2> SUFFICES ASSUME p.size # 0, NEW k \in Index(L) \ {i}, P(L.at[k]) = p PROVE FALSE
    BY <1>5, <1>7
  <2>1. L.at[k].start = L.at[i].start
    BY <1>6, <1>8
  <2>2. k \in Nat /\ k # i /\ L.at[k].start \in Nat
    BY ChainFields
  <2>3. L.at[i].size > 0
    BY <1>3, <1>6
  <2>4. CASE i < k
    <3>1. L.at[i].start + L.at[i].size <= L.at[k].start
      BY <1>3, <2>4 DEF Chain
    <3> QED
      BY <1>3, <2>1, <2>3, <3>1
  <2>5. CASE k < i
    <3>1. L.at[k].start + L.at[k].size <= L.at[i].start /\ L.at[k].size \in Nat
      BY <1>3, <2>5, ChainFields DEF Chain
    <3>2. L.at[k].size = L.at[i].size
      BY <1>6 DEF P
    <3> QED
      BY <1>3, <2>1, <2>3, <3>1, <3>2
  <2> QED
    BY <1>3, <2>2, <2>4, <2>5
<1>11. p \in Memory!Foremost(Pieces(L), n)
  <2>1. ASSUME NEW q \in Pieces(L), q.name = n
        PROVE  p.start < q.start \/ (p.start = q.start /\ p.size <= q.size)
    <3>1. PICK k \in Index(L) : /\ ~L.at[k].isFree /\ q.name = L.at[k].name
                                /\ q.start = L.at[k].start /\ q.size = L.at[k].size
      BY PieceOf
    <3>2. i <= k /\ k \in Nat /\ L.at[k].start \in Nat /\ L.at[k].size \in Nat
      BY <1>2, <2>1, <3>1, ChainFields DEF Of
    <3>3. CASE i = k
      BY <1>3, <1>6, <3>1, <3>3
    <3>4. CASE i < k
      <4>1. L.at[i].start + L.at[i].size <= L.at[k].start
        BY <1>3, <3>4 DEF Chain
      <4>2. L.at[i].start < L.at[k].start \/ L.at[i].size = 0
        BY <1>3, <3>2, <4>1
      <4>3. L.at[i].start <= L.at[k].start
        BY <1>3, <3>2, <4>1
      <4> HIDE DEF p
      <4> QED
        BY <1>3, <1>6, <3>1, <3>2, <4>2, <4>3
    <3> QED
      BY <1>3, <3>2, <3>3, <3>4
  <2> HIDE DEF p
  <2> QED
    BY <1>6, <1>9, <2>1 DEF Memory!Foremost
<1> HIDE DEF p
<1>12. Pieces(F) = Pieces(L) \ {p} \/ (p.size = 0 /\ Pieces(F) = Pieces(L))
  <2>1. CASE p \in Pieces(F)
    BY <1>9, <1>10, <2>1
  <2>2. CASE p \notin Pieces(F)
    <3>1. Pieces(F) = Pieces(L) \ {p}
      BY <1>9, <2>2
    <3> QED
      BY <3>1
  <2> QED
    BY <2>1, <2>2
<1>13. Pieces(F) \in {Pieces(L) \ {p}} \union {Q \in {Pieces(L)} : p.size = 0}
  BY <1>12
<1>14. Pieces(F) \in Memory!Without(Pieces(L), n)
  BY <1>11, <1>13, Zenon DEF Memory!Without
<1> QED
  BY <1>4, <1>14 DEF i

-----------------------------------------------------------------------------
(* Implementing Heap: the steps *)

\* alloc_block puts the new piece where it should be.
LEMMA AllocPlaced ==
    ASSUME algorithm \in 1..3, NEW L, Chain(L), Apart(L), NEW n \in Variables,
           NEW size \in Nat, Holes(L, size) # {}
    PROVE  Pieces(Given(L, Chosen(L, size), n, size)) \in Memory!With(Pieces(L), n, size)
<1> DEFINE i == Chosen(L, size)
<1>1. i \in Index(L) /\ L.at[i].isFree /\ size <= L.at[i].size
  <2>1. i \in Holes(L, size)
    BY ChosenIsHole
  <2>2. i \in Index(L) /\ L.at[i].isFree /\ L.at[i].size >= size
    BY <2>1 DEF Holes
  <2> QED
    BY <2>2, ChainFields
<1>2. L.at[i].start \in Memory!Places(Pieces(L), size)
  BY ChosenPlace
<1> HIDE DEF i
<1>3. Pieces(Given(L, i, n, size)) =
         Pieces(L) \union {[name |-> n, start |-> L.at[i].start, size |-> size]}
  BY <1>1, GivenPieces
<1>4. Pieces(Given(L, i, n, size)) \in Memory!With(Pieces(L), n, size)
  BY <1>2, <1>3 DEF Memory!With
<1> QED
  BY <1>4 DEF i

\* One line of the input is one line of the abstract memory, or changes nothing
\* when the end of the table is passed.
LEMMA NextHeap == TableInv /\ [AlNext]_alVars => [Memory!Next]_(Memory!vars)
<1> SUFFICES ASSUME TableInv, [AlNext]_alVars PROVE [Memory!Next]_(Memory!vars)
  OBVIOUS
<1>0. algorithm \in 1..3 /\ Chain(list) /\ Apart(list) /\ Sound(list, memory)
  BY DEF TableInv, Sound
<1>1. ASSUME UNCHANGED <<algorithm, list>> PROVE UNCHANGED Memory!vars
  BY <1>1 DEF Memory!vars, Pieces, Index
<1>2. ASSUME NEW L, list' = L PROVE Pieces(list)' = Pieces(L)
  BY <1>2 DEF Pieces, Index
<1>3. ASSUME NEW n \in Variables, Free(n) PROVE Memory!Next
  <2>1. /\ Of(list, n) # {} /\ list' = Released(list, First(list, n))
        /\ UNCHANGED algorithm
    BY <1>3 DEF Free
  <2>2. Pieces(list)' \in Memory!Without(Pieces(list), n)
    BY <1>0, <1>2, <2>1, ReleasedPieces
  <2> QED
    BY <2>1, <2>2 DEF Memory!Next, Memory!Free
<1>4. ASSUME NEW n \in Variables, NEW size \in Amounts, Alloc(n, size)
      PROVE  [Memory!Next]_(Memory!vars)
  <2> DEFINE i == Chosen(list, size)
  <2>0. Holes(list, size) # {} /\ UNCHANGED algorithm /\ size \in Nat
    BY <1>4, AllocatorAssumption DEF Alloc
  <2>1. CASE Past(list, i, size)
    <3>1. UNCHANGED <<algorithm, list>>
      BY <1>4, <2>0, <2>1 DEF Alloc
    <3> QED
      BY <1>1, <3>1
  <2>2. CASE ~Past(list, i, size)
    <3>1. list' = Given(list, i, n, size)
      BY <1>4, <2>2 DEF Alloc
    <3>2. Pieces(list)' \in Memory!With(Pieces(list), n, size)
      BY <1>0, <1>2, <2>0, <3>1, AllocPlaced
    <3> QED
      BY <2>0, <3>2 DEF Memory!Next, Memory!Alloc
  <2> QED
    BY <2>1, <2>2
<1>5. ASSUME NEW n \in Variables, NEW size \in Amounts, Realloc(n, size)
      PROVE  [Memory!Next]_(Memory!vars)
  <2> DEFINE L == Released(list, First(list, n))
             m == Filled(memory, list.at[First(list, n)], Dash)
             i == Chosen(L, size)
  <2>0. Of(list, n) # {} /\ UNCHANGED algorithm /\ size \in Nat
    BY <1>5, AllocatorAssumption DEF Realloc
  <2>1. Chain(L) /\ Apart(L)
    <3>1. Sound(L, m)
      BY <1>0, <2>0, FreeSound
    <3> QED
      BY <3>1 DEF Sound
  <2>2. Pieces(L) \in Memory!Without(Pieces(list), n)
    BY <1>0, <2>0, ReleasedPieces
  <2>3. \/ Holes(L, size) = {} /\ list' = L
        \/ UNCHANGED list
        \/ Holes(L, size) # {} /\ list' = Given(L, i, n, size)
    BY <1>5 DEF Realloc
  <2> HIDE DEF L, m
  <2>4. CASE Holes(L, size) = {} /\ list' = L
    <3>1. Pieces(list)' = Pieces(L)
      BY <1>2, <2>4
    <3>2. Memory!NoRoom(Pieces(L), size)
      BY <2>0, <2>1, <2>4, NoneFits
    <3> QED
      BY <2>0, <2>2, <3>1, <3>2 DEF Memory!Next, Memory!Realloc
  <2>5. CASE UNCHANGED list
    BY <1>1, <2>0, <2>5
  <2>6. CASE Holes(L, size) # {} /\ list' = Given(L, i, n, size)
    <3>1. Pieces(list)' \in Memory!With(Pieces(L), n, size)
      BY <1>0, <1>2, <2>0, <2>1, <2>6, AllocPlaced
    <3> QED
      BY <2>0, <2>2, <3>1 DEF Memory!Next, Memory!Realloc
  <2> QED
    BY <2>3, <2>4, <2>5, <2>6
<1>6. CASE UNCHANGED alVars
  BY <1>1, <1>6 DEF alVars
<1> QED
  BY <1>3, <1>4, <1>5, <1>6 DEF AlNext

\* The holes of the table that are not empty are always exactly the runs of
\* bytes that no variable owns: free_block and alloc_block neither lose a byte
\* nor leave a run divided.
THEOREM HolesAlwaysRuns == AlSpec => []HolesAreRuns
<1>1. TableInv => HolesAreRuns
  <2> SUFFICES ASSUME TableInv PROVE HolesAreRuns
    OBVIOUS
  <2>1. Chain(list) /\ Apart(list)
    BY DEF TableInv
  <2> QED
    BY <2>1, HolesMatch DEF HolesAreRuns
<1> QED
  BY <1>1, AlwaysTable, PTL

\* The table of blocks with its splits and merges implements the memory of Heap,
\* where only the pieces that the variables own are known.
THEOREM HeapImplemented == AlSpec => ImplementsHeap
<1>1. AlInit => Memory!Init
  <2> SUFFICES ASSUME AlInit PROVE Memory!Init
    OBVIOUS
  <2>1. list.num = 1 /\ list.at[0].isFree /\ Index(list) = {0}
    BY DEF AlInit, Index
  <2>2. Pieces(list) = {}
    BY <2>1 DEF Pieces
  <2> QED
    BY <2>2 DEF AlInit, Memory!Init
<1> QED
  BY <1>1, NextHeap, AlwaysTable, PTL DEF AlSpec, ImplementsHeap, Memory!Spec
=============================================================================
