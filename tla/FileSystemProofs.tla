-------------------------- MODULE FileSystemProofs --------------------------
(***************************************************************************)
(* Theorems about FileSystem, for every size of block, disk and table.     *)
(***************************************************************************)
EXTENDS FileSystem, WellFoundedInduction, FiniteSetTheorems, SequenceTheorems, TLAPS

-----------------------------------------------------------------------------
(* Arithmetic *)

LEMMA TimesMonotone ==
    ASSUME NEW x \in Nat, NEW y \in Nat, NEW b \in Nat, x <= y
    PROVE  x * b <= y * b /\ x * b \in Nat /\ y * b \in Nat
<1>1. PICK k \in Nat : y = x + k
  BY y - x \in Nat
<1>2. y * b = x * b + k * b /\ k * b \in Nat /\ x * b \in Nat
  BY <1>1
<1> QED
  BY <1>2

LEMMA Quotient ==
    ASSUME NEW a \in Nat, NEW d \in Nat \ {0}
    PROVE  /\ a \div d \in Nat /\ a % d \in 0..(d - 1)
           /\ a = (a \div d) * d + (a % d)
<1>1. a \div d \in Nat /\ a % d \in 0..(d - 1)
  OBVIOUS
<1>2. a = (a \div d) * d + (a % d)
  BY Z3
<1> QED
  BY <1>1, <1>2

\* A size rounded up to blocks: enough of them, and none to spare.
LEMMA RoundedFits ==
    ASSUME NEW size \in Nat \ {0}
    PROVE  /\ Rounded(size) \in Nat \ {0}
           /\ size <= Rounded(size) * BlockSize
           /\ (Rounded(size) - 1) * BlockSize < size
           /\ size <= DiskSize => Rounded(size) <= TotalBlocks
<1> DEFINE r == Rounded(size)
           b == BlockSize
<1>0. b \in Nat \ {0} /\ TotalBlocks \in Nat \ {0} /\ size + b - 1 \in Nat
  BY FileSystemAssumption
<1>1. /\ r \in Nat /\ (size + b - 1) % b \in 0..(b - 1)
      /\ size + b - 1 = r * b + ((size + b - 1) % b)
  BY <1>0, Quotient DEF Rounded
<1> HIDE DEF r, b
<1>2. PICK m \in 0..(b - 1) : size + b - 1 = r * b + m
  BY <1>1
<1>3. r * b \in Nat
  BY <1>0, <1>1
<1>4. size <= r * b
  BY <1>0, <1>2, <1>3
<1>5. r # 0
  <2>1. r = 0 => r * b = 0
    BY <1>0
  <2> QED
    BY <1>4, <2>1
<1>6. (r - 1) * b = r * b - b
  BY <1>0, <1>1
<1>7. (r - 1) * b < size
  BY <1>0, <1>2, <1>3, <1>6
<1>8. size <= DiskSize => r <= TotalBlocks
  <2> SUFFICES ASSUME size <= DiskSize, r > TotalBlocks PROVE FALSE
    BY <1>0, <1>1
  <2>1. TotalBlocks * b <= (r - 1) * b
    BY <1>0, <1>1, <1>5, TimesMonotone
  <2>2. DiskSize = TotalBlocks * b /\ DiskSize \in Nat
    BY <1>0 DEF DiskSize, b
  <2>3. (r - 1) * b \in Nat
    BY <1>0, <1>1, <1>5
  <2> QED
    BY <1>7, <2>1, <2>2, <2>3
<1> QED
  BY <1>1, <1>4, <1>5, <1>7, <1>8 DEF r, b

\* The bytes of a file lie one after the other from its first block on.
LEMMA AtIs ==
    ASSUME NEW s \in Nat, NEW o \in Nat, NEW f, f.start = s
    PROVE  At(f, o) = s * BlockSize + o
<1> DEFINE b == BlockSize
           q == o \div b
           m == o % b
<1>0. b \in Nat \ {0}
  BY FileSystemAssumption
<1>1. q \in Nat /\ m \in Nat /\ o = q * b + m
  BY <1>0, Quotient
<1>2. At(f, o) = (s + q) * b + m
  BY DEF At
<1> HIDE DEF b, q, m
<1>3. (s + q) * b = s * b + q * b /\ s * b \in Nat /\ q * b \in Nat
  BY <1>0, <1>1
<1>4. At(f, o) = s * b + o
  BY <1>1, <1>2, <1>3
<1> QED
  BY <1>4 DEF b

-----------------------------------------------------------------------------
(* The table *)

\* An entry in use: its blocks are as many as its size needs, and on the disk.
UsedInv ==
    /\ table \in [Slots -> [name : Names \union {None}, size : Nat,
                            start : Blocks \union {-1}, num : Nat]]
    /\ \A i \in Used : /\ table[i].name \in Names /\ table[i].start \in Blocks
                       /\ table[i].size \in 1..DiskSize
                       /\ table[i].num = Rounded(table[i].size)
                       /\ table[i].start + table[i].num <= TotalBlocks

\* Two files share neither a name nor a block.
OthersInv ==
    \A i, j \in Used : i # j =>
       /\ table[i].name # table[j].name
       /\ \/ table[i].start + table[i].num <= table[j].start
          \/ table[j].start + table[j].num <= table[i].start

MapInv ==
    /\ freeBlocks \in [Blocks -> BOOLEAN]
    /\ \A b \in Blocks : freeBlocks[b] <=> \A i \in Used : b \notin Extent(table[i])

CountInv == numFiles = Cardinality(Used)

DiskInv == disk \in [0..(DiskSize - 1) -> Bytes]

\* The inductive invariant: BlocksAccounted with what a step needs besides, the
\* types and the sizes and places of the files in use.
FsInv == UsedInv /\ OthersInv /\ MapInv /\ CountInv /\ DiskInv

LEMMA NatOrder == IsWellFoundedOn({p \in Nat \X Nat : p[1] < p[2]}, Nat)
  BY NatLessThanWellFounded, Zenon DEF OpToRel

\* A set of numbers that is not empty has a least one.
LEMMA SmallestIn ==
    ASSUME NEW S, S \subseteq Nat, S # {}
    PROVE  Smallest(S) \in S
<1> DEFINE R == {p \in Nat \X Nat : p[1] < p[2]}
<1>1. \E x \in S : \A y \in S : ~ (<<y, x>> \in R)
  <2>1. IsWellFoundedOn(R, Nat)
    BY NatOrder
  <2> HIDE DEF R
  <2> QED
    BY <2>1, WFMin, Zenon
<1>2. PICK x \in S : \A y \in S : ~ (<<y, x>> \in R)
  BY <1>1
<1>3. ASSUME NEW y \in S PROVE x <= y
  <2>1. y \in Nat /\ x \in Nat
    BY <1>3
  <2>2. ~(<<y, x>>[1] < <<y, x>>[2])
    BY <1>2, <1>3, <2>1
  <2> QED
    BY <2>1, <2>2
<1> QED
  BY <1>3 DEF Smallest

\* find_file_entry_index finds the one entry of a name.
LEMMA FoundOne ==
    ASSUME UsedInv, OthersInv, NEW i \in Used
    PROVE  /\ Found(table[i].name) = {i}
           /\ Entry(table[i].name) = table[i]
<1>1. Found(table[i].name) = {i}
  BY DEF Found, OthersInv
<1>2. i \in Nat
  BY FileSystemAssumption DEF Used, Slots
<1>3. Smallest({i}) \in {i}
  BY <1>2, SmallestIn
<1> QED
  BY <1>1, <1>3 DEF Entry

LEMMA FoundSome ==
    ASSUME UsedInv, OthersInv, NEW n, Found(n) # {}
    PROVE  \E i \in Used : /\ table[i].name = n /\ Found(n) = {i}
                           /\ Smallest(Found(n)) = i /\ Entry(n) = table[i]
<1>1. PICK i \in Used : table[i].name = n
  BY DEF Found
<1>2. Found(n) = {i} /\ Entry(n) = table[i]
  BY <1>1, FoundOne
<1>3. i \in Nat
  BY FileSystemAssumption DEF Used, Slots
<1>4. Smallest({i}) = i
  BY <1>3, SmallestIn
<1> QED
  BY <1>1, <1>2, <1>4

LEMMA InitFsInv == FsInit => FsInv
<1> SUFFICES ASSUME FsInit PROVE FsInv
  OBVIOUS
<1>1. Used = {}
  BY DEF FsInit, Used, NoEntry
<1>2. UsedInv
  <2>1. NoEntry \in [name : Names \union {None}, size : Nat,
                     start : Blocks \union {-1}, num : Nat]
    BY DEF NoEntry
  <2> QED
    BY <1>1, <2>1 DEF FsInit, UsedInv
<1>3. OthersInv /\ MapInv
  BY <1>1 DEF FsInit, OthersInv, MapInv
<1>4. CountInv
  BY <1>1, FS_EmptySet DEF FsInit, CountInv
<1>5. DiskInv
  BY FileSystemAssumption DEF FsInit, DiskInv
<1> QED
  BY <1>2, <1>3, <1>4, <1>5 DEF FsInv

\* What is left alone stays as it was.
LEMMA SameDisk ==
    ASSUME FsInv, UNCHANGED diskVars
    PROVE  FsInv'
<1>1. UNCHANGED <<table, freeBlocks, numFiles, disk>> /\ Used' = Used
  BY DEF diskVars, Used
<1> QED
  BY <1>1 DEF FsInv, UsedInv, OthersInv, MapInv, CountInv, DiskInv, Extent, Used

-----------------------------------------------------------------------------
(* CREATE *)

NewEntry(n, size, s) == [name |-> n, size |-> size, start |-> s, num |-> Rounded(size)]

\* A file is made: in an entry that was free, on a run of blocks that were.
Created(n, size, i, s) ==
    /\ table' = [table EXCEPT ![i] = NewEntry(n, size, s)]
    /\ freeBlocks' = [b \in Blocks |->
           freeBlocks[b] /\ b \notin s..(s + Rounded(size) - 1)]
    /\ numFiles' = numFiles + 1
    /\ UNCHANGED disk

\* create_file refuses a legal size only while there are files, and its last
\* guard, "Error interno", never applies.
LEMMA CreateCases ==
    ASSUME FsInv, NEW n \in Names, NEW size \in Sizes, Create(n, size)
    PROVE  \/ /\ said' = [ok |-> FALSE] /\ UNCHANGED diskVars
              /\ size \notin 1..DiskSize \/ Used # {}
           \/ /\ said' = [ok |-> TRUE]
              /\ size \in 1..DiskSize /\ Found(n) = {}
              /\ \E i \in Slots \ Used, s \in Runs(Rounded(size)) : Created(n, size, i, s)
<1> DEFINE r == Rounded(size)
           vacant == Slots \ Used
           refused == \/ size <= 0 \/ Found(n) # {} \/ numFiles >= MaxFiles
                      \/ size > DiskSize \/ Runs(r) = {}
<1>0. /\ size \in Int /\ MaxFiles \in Nat \ {0} /\ TotalBlocks \in Nat \ {0}
      /\ DiskSize \in Nat /\ IsFiniteSet(Slots) /\ Cardinality(Slots) = MaxFiles
  <2>1. /\ size \in Int /\ MaxFiles \in Nat \ {0} /\ TotalBlocks \in Nat \ {0}
        /\ BlockSize \in Nat
    BY FileSystemAssumption
  <2>2. DiskSize \in Nat
    BY <2>1 DEF DiskSize
  <2>3. IsFiniteSet(Slots) /\ Cardinality(Slots) = MaxFiles
    BY <2>1, FS_Interval DEF Slots
  <2> QED
    BY <2>1, <2>2, <2>3
<1>1. /\ IsFiniteSet(Used) /\ Used \subseteq Slots
      /\ Cardinality(Used) \in Nat /\ numFiles = Cardinality(Used)
  <2>1. Used \subseteq Slots
    BY DEF Used
  <2>2. IsFiniteSet(Used)
    BY <1>0, <2>1, FS_Subset
  <2> QED
    BY <2>1, <2>2, FS_CardinalityType DEF FsInv, CountInv
<1>2. CASE refused
  <2>1. said' = [ok |-> FALSE] /\ UNCHANGED diskVars
    BY <1>2 DEF Create, Refuse
  <2>2. ASSUME size \in 1..DiskSize, Used = {} PROVE FALSE
    <3>1. Found(n) = {}
      BY <2>2 DEF Found
    <3>2. numFiles = 0
      BY <1>1, <2>2, FS_EmptySet
    <3>3. \A b \in Blocks : freeBlocks[b]
      BY <2>2 DEF FsInv, MapInv
    <3>4. r \in Nat \ {0} /\ r <= TotalBlocks
      BY <1>0, <2>2, RoundedFits
    <3>5. 0 \in Runs(r)
      <4>1. 0..(r - 1) \subseteq Blocks /\ 0 \in Blocks /\ 0 + r <= TotalBlocks
        BY <1>0, <3>4 DEF Blocks
      <4>2. 0 + r - 1 = r - 1
        BY <3>4
      <4> QED
        BY <3>3, <4>1, <4>2 DEF Runs
    <3> QED
      BY <1>0, <1>2, <2>2, <3>1, <3>2, <3>5
  <2> QED
    BY <2>1, <2>2
<1>3. CASE ~refused
  <2>1. size \in 1..DiskSize /\ Found(n) = {} /\ Runs(r) # {} /\ numFiles < MaxFiles
    BY <1>0, <1>1, <1>3
  <2>2. vacant # {}
    <3>1. vacant = {} => Used = Slots
      BY <1>1
    <3> QED
      BY <1>0, <1>1, <2>1, <3>1
  <2>3. Smallest(vacant) \in vacant
    <3>1. vacant \subseteq Nat
      BY <1>0 DEF Slots
    <3> QED
      BY <2>2, <3>1, SmallestIn
  <2>4. Smallest(Runs(r)) \in Runs(r)
    <3>1. Runs(r) \subseteq Nat
      BY <1>0 DEF Runs, Blocks
    <3> QED
      BY <2>1, <3>1, SmallestIn
  <2>5. said' = [ok |-> TRUE] /\ Created(n, size, Smallest(vacant), Smallest(Runs(r)))
    BY <1>3, <2>2 DEF Create, Created, NewEntry
  <2> HIDE DEF vacant, r
  <2> QED
    BY <2>1, <2>3, <2>4, <2>5 DEF vacant, r
<1> QED
  BY <1>2, <1>3

\* The table after a file is made.
LEMMA CreatedTable ==
    ASSUME FsInv, NEW n \in Names, NEW size \in 1..DiskSize, Found(n) = {},
           NEW i \in Slots \ Used, NEW s \in Runs(Rounded(size)), Created(n, size, i, s)
    PROVE  /\ Used' = Used \union {i}
           /\ table'[i] = NewEntry(n, size, s) /\ s \in Blocks /\ s \in Nat
           /\ \A j \in Used : table'[j] = table[j] /\ j # i
           /\ s + Rounded(size) <= TotalBlocks
           /\ Rounded(size) \in Nat \ {0}
           /\ \A b \in s..(s + Rounded(size) - 1) : freeBlocks[b]
<1>0. /\ s \in Blocks /\ s \in Nat /\ s # -1 /\ s + Rounded(size) <= TotalBlocks
      /\ \A b \in s..(s + Rounded(size) - 1) : freeBlocks[b]
  BY FileSystemAssumption DEF Runs, Blocks
<1>1. /\ table'[i] = NewEntry(n, size, s)
      /\ \A j \in Slots : j # i => table'[j] = table[j]
  BY DEF Created, FsInv, UsedInv
<1>2. table'[i].start # -1
  BY <1>0, <1>1 DEF NewEntry
<1>3. Used' = Used \union {i}
  BY <1>1, <1>2 DEF Used
<1>4. \A j \in Used : j \in Slots /\ j # i
  BY DEF Used
<1>5. DiskSize \in Nat
  BY FileSystemAssumption DEF DiskSize
<1>6. Rounded(size) \in Nat \ {0}
  BY <1>5, RoundedFits
<1> QED
  BY <1>0, <1>1, <1>3, <1>4, <1>6

LEMMA CreatedInv ==
    ASSUME FsInv, NEW n \in Names, NEW size \in 1..DiskSize, Found(n) = {},
           NEW i \in Slots \ Used, NEW s \in Runs(Rounded(size)), Created(n, size, i, s)
    PROVE  FsInv'
<1> DEFINE r == Rounded(size)
<1>0. /\ Used' = Used \union {i}
      /\ table'[i] = NewEntry(n, size, s) /\ s \in Blocks /\ s \in Nat
      /\ \A j \in Used : table'[j] = table[j] /\ j # i
      /\ s + r <= TotalBlocks /\ r \in Nat \ {0}
      /\ \A b \in s..(s + r - 1) : freeBlocks[b]
  BY CreatedTable
<1>1. /\ table'[i].name = n /\ table'[i].size = size /\ table'[i].start = s
      /\ table'[i].num = r
  BY <1>0 DEF NewEntry
<1>2. \A j \in Used : /\ table[j].name \in Names /\ table[j].start \in Nat
                      /\ table[j].num \in Nat \ {0}
                      /\ table[j].start + table[j].num <= TotalBlocks
                      /\ Extent(table[j]) \subseteq Blocks
  <2> SUFFICES ASSUME NEW j \in Used
               PROVE  /\ table[j].name \in Names /\ table[j].start \in Nat
                      /\ table[j].num \in Nat \ {0}
                      /\ table[j].start + table[j].num <= TotalBlocks
                      /\ Extent(table[j]) \subseteq Blocks
    OBVIOUS
  <2>1. /\ table[j].name \in Names /\ table[j].start \in Blocks
        /\ table[j].size \in 1..DiskSize /\ table[j].num = Rounded(table[j].size)
        /\ table[j].start + table[j].num <= TotalBlocks
    BY DEF FsInv, UsedInv
  <2>2. DiskSize \in Nat /\ TotalBlocks \in Nat
    BY FileSystemAssumption DEF DiskSize
  <2>3. table[j].num \in Nat \ {0}
    BY <2>1, <2>2, RoundedFits
  <2> QED
    BY <2>1, <2>2, <2>3 DEF Blocks, Extent
<1> HIDE DEF r
<1>3. UsedInv'
  <2>1. NewEntry(n, size, s) \in [name : Names \union {None}, size : Nat,
                                  start : Blocks \union {-1}, num : Nat]
    <3>1. size \in Nat
      BY FileSystemAssumption DEF DiskSize
    <3> QED
      BY <1>0, <3>1 DEF NewEntry, r
  <2>2. table' \in [Slots -> [name : Names \union {None}, size : Nat,
                              start : Blocks \union {-1}, num : Nat]]
    BY <2>1 DEF Created, FsInv, UsedInv
  <2>3. \A j \in Used' :
          /\ table'[j].name \in Names /\ table'[j].start \in Blocks
          /\ table'[j].size \in 1..DiskSize
          /\ table'[j].num = Rounded(table'[j].size)
          /\ table'[j].start + table'[j].num <= TotalBlocks
    <3>1. \A j \in Used :
          /\ table[j].name \in Names /\ table[j].start \in Blocks
          /\ table[j].size \in 1..DiskSize
          /\ table[j].num = Rounded(table[j].size)
          /\ table[j].start + table[j].num <= TotalBlocks
      BY DEF FsInv, UsedInv
    <3> QED
      BY <1>0, <1>1, <3>1 DEF r
  <2> QED
    BY <2>2, <2>3 DEF UsedInv
<1>4. \A j \in Used : /\ table[j].name # n
                      /\ \/ table[j].start + table[j].num <= s
                         \/ s + r <= table[j].start
  <2> SUFFICES ASSUME NEW j \in Used
               PROVE  /\ table[j].name # n
                      /\ \/ table[j].start + table[j].num <= s
                         \/ s + r <= table[j].start
    OBVIOUS
  <2>1. table[j].name # n
    BY DEF Found
  <2>2. \A b \in s..(s + r - 1) : b \notin Extent(table[j])
    <3>1. ASSUME NEW b \in s..(s + r - 1) PROVE b \in Blocks
      BY <1>0, FileSystemAssumption DEF Blocks
    <3> QED
      BY <1>0, <3>1 DEF FsInv, MapInv
  <2>3. CASE s \in Extent(table[j])
    BY <1>0, <2>2, <2>3
  <2>4. CASE table[j].start \in s..(s + r - 1)
    <3>1. table[j].start \in Extent(table[j])
      BY <1>2 DEF Extent
    <3> QED
      BY <2>2, <2>4, <3>1
  <2>5. CASE s \notin Extent(table[j]) /\ table[j].start \notin s..(s + r - 1)
    BY <1>0, <1>2, <2>1, <2>5 DEF Extent
  <2> QED
    BY <2>3, <2>4, <2>5
<1>5. OthersInv'
  BY <1>0, <1>1, <1>4 DEF FsInv, OthersInv
<1>6. MapInv'
  <2>1. /\ freeBlocks \in [Blocks -> BOOLEAN]
        /\ \A b \in Blocks : freeBlocks[b] <=> \A j \in Used : b \notin Extent(table[j])
    BY DEF FsInv, MapInv
  <2>2. freeBlocks' = [b \in Blocks |-> freeBlocks[b] /\ b \notin s..(s + r - 1)]
    BY DEF Created, r
  <2>3. Extent(table'[i]) = s..(s + r - 1)
    BY <1>1 DEF Extent
  <2>4. \A j \in Used : Extent(table'[j]) = Extent(table[j])
    BY <1>0
  <2>5. freeBlocks' \in [Blocks -> BOOLEAN]
    BY <2>1, <2>2
  <2>6. ASSUME NEW b \in Blocks
        PROVE  freeBlocks'[b] <=> \A j \in Used' : b \notin Extent(table'[j])
    <3>1. freeBlocks'[b] <=> freeBlocks[b] /\ b \notin s..(s + r - 1)
      BY <2>2
    <3>2. (\A j \in Used' : b \notin Extent(table'[j]))
            <=> (\A j \in Used : b \notin Extent(table[j])) /\ b \notin s..(s + r - 1)
      BY <1>0, <2>3, <2>4
    <3> QED
      BY <2>1, <3>1, <3>2
  <2> QED
    BY <2>5, <2>6 DEF MapInv, Extent
<1>7. CountInv'
  <2>1. IsFiniteSet(Used) /\ i \notin Used
    <3>1. Used \subseteq Slots /\ IsFiniteSet(Slots)
      <4>1. 0 \in Int /\ MaxFiles - 1 \in Int
        BY FileSystemAssumption
      <4>2. IsFiniteSet(0..(MaxFiles - 1))
        BY <4>1, FS_Interval
      <4> QED
        BY <4>2 DEF Used, Slots
    <3> QED
      BY <3>1, FS_Subset
  <2>2. Cardinality(Used \union {i}) = Cardinality(Used) + 1
    BY <2>1, FS_AddElement
  <2> QED
    BY <1>0, <2>2 DEF Created, FsInv, CountInv
<1>8. DiskInv'
  BY DEF Created, FsInv, DiskInv
<1> QED
  BY <1>3, <1>5, <1>6, <1>7, <1>8 DEF FsInv

-----------------------------------------------------------------------------
(* DELETE and WRITE *)

\* A file is gone: its entry and its blocks are free.
Deleted(i) ==
    /\ freeBlocks' = [b \in Blocks |-> freeBlocks[b] \/ b \in Extent(table[i])]
    /\ table' = [table EXCEPT ![i] = NoEntry]
    /\ numFiles' = numFiles - 1
    /\ UNCHANGED disk

LEMMA DeleteCases ==
    ASSUME FsInv, NEW n \in Names, Delete(n)
    PROVE  \/ said' = [ok |-> FALSE] /\ UNCHANGED diskVars /\ Found(n) = {}
           \/ /\ said' = [ok |-> TRUE]
              /\ \E i \in Used : table[i].name = n /\ Found(n) = {i} /\ Deleted(i)
<1>1. CASE Found(n) = {}
  BY <1>1 DEF Delete, Refuse
<1>2. CASE Found(n) # {}
  <2>1. PICK i \in Used : /\ table[i].name = n /\ Found(n) = {i}
                          /\ Smallest(Found(n)) = i /\ Entry(n) = table[i]
    BY <1>2, FoundSome DEF FsInv
  <2>2. said' = [ok |-> TRUE] /\ Deleted(i)
    BY <1>2, <2>1 DEF Delete, Deleted, Extent
  <2> QED
    BY <2>1, <2>2
<1> QED
  BY <1>1, <1>2

LEMMA DeletedTable ==
    ASSUME FsInv, NEW i \in Used, Deleted(i)
    PROVE  /\ Used' = Used \ {i}
           /\ \A j \in Used \ {i} : table'[j] = table[j]
<1>1. /\ table'[i] = NoEntry
      /\ \A j \in Slots : j # i => table'[j] = table[j]
  BY DEF Deleted, FsInv, UsedInv, Used
<1>2. table'[i].start = -1
  BY <1>1 DEF NoEntry
<1> QED
  BY <1>1, <1>2 DEF Used

LEMMA DeletedInv ==
    ASSUME FsInv, NEW i \in Used, Deleted(i)
    PROVE  FsInv'
<1>0. /\ Used' = Used \ {i}
      /\ \A j \in Used \ {i} : table'[j] = table[j]
  BY DeletedTable
<1>1. UsedInv'
  <2>1. NoEntry \in [name : Names \union {None}, size : Nat,
                     start : Blocks \union {-1}, num : Nat]
    BY DEF NoEntry
  <2>2. table' \in [Slots -> [name : Names \union {None}, size : Nat,
                              start : Blocks \union {-1}, num : Nat]]
    BY <2>1 DEF Deleted, FsInv, UsedInv
  <2>3. \A j \in Used' :
          /\ table'[j].name \in Names /\ table'[j].start \in Blocks
          /\ table'[j].size \in 1..DiskSize
          /\ table'[j].num = Rounded(table'[j].size)
          /\ table'[j].start + table'[j].num <= TotalBlocks
    BY <1>0 DEF FsInv, UsedInv
  <2> QED
    BY <2>2, <2>3 DEF UsedInv
<1>2. OthersInv'
  BY <1>0 DEF FsInv, OthersInv
<1>3. MapInv'
  <2>1. /\ freeBlocks \in [Blocks -> BOOLEAN]
        /\ \A b \in Blocks : freeBlocks[b] <=> \A j \in Used : b \notin Extent(table[j])
    BY DEF FsInv, MapInv
  <2>2. freeBlocks' = [b \in Blocks |-> freeBlocks[b] \/ b \in Extent(table[i])]
    BY DEF Deleted
  <2>3. \A j \in Used' : Extent(table'[j]) = Extent(table[j])
    BY <1>0
  <2>4. \A j \in Used, b \in Extent(table[i]) : j # i => b \notin Extent(table[j])
    <3> SUFFICES ASSUME NEW j \in Used, NEW b \in Extent(table[i]), j # i
                 PROVE  b \notin Extent(table[j])
      OBVIOUS
    <3>1. \/ table[i].start + table[i].num <= table[j].start
          \/ table[j].start + table[j].num <= table[i].start
      BY DEF FsInv, OthersInv
    <3>2. /\ table[i].start \in Int /\ table[i].num \in Int
          /\ table[j].start \in Int /\ table[j].num \in Int
      BY FileSystemAssumption DEF FsInv, UsedInv, Used, Blocks
    <3> QED
      BY <3>1, <3>2 DEF Extent
  <2>5. ASSUME NEW b \in Blocks
        PROVE  freeBlocks'[b] <=> \A j \in Used' : b \notin Extent(table'[j])
    <3>1. freeBlocks'[b] <=> freeBlocks[b] \/ b \in Extent(table[i])
      BY <2>2
    <3>2. (\A j \in Used' : b \notin Extent(table'[j]))
            <=> (\A j \in Used \ {i} : b \notin Extent(table[j]))
      BY <1>0, <2>3
    <3> QED
      BY <2>1, <2>4, <3>1, <3>2
  <2>6. freeBlocks' \in [Blocks -> BOOLEAN]
    BY <2>1, <2>2
  <2> QED
    BY <2>5, <2>6 DEF MapInv, Extent
<1>4. CountInv'
  <2>1. IsFiniteSet(Used)
    <3>1. 0 \in Int /\ MaxFiles - 1 \in Int
      BY FileSystemAssumption
    <3>2. IsFiniteSet(0..(MaxFiles - 1))
      BY <3>1, FS_Interval
    <3>3. Used \subseteq 0..(MaxFiles - 1)
      BY DEF Used, Slots
    <3> QED
      BY <3>2, <3>3, FS_Subset
  <2>2. Cardinality(Used \ {i}) = Cardinality(Used) - 1
    BY <2>1, FS_RemoveElement
  <2> QED
    BY <1>0, <2>2 DEF Deleted, FsInv, CountInv
<1>5. DiskInv'
  BY DEF Deleted, FsInv, DiskInv
<1> QED
  BY <1>1, <1>2, <1>3, <1>4, <1>5 DEF FsInv

\* What write_file makes of the disk: k bytes from byte o of the file on.
Written(i, o, data, k) ==
    /\ disk' = [a \in DOMAIN disk |->
                   IF \E h \in 1..k : a = At(table[i], o + h - 1)
                   THEN data[CHOOSE h \in 1..k : a = At(table[i], o + h - 1)]
                   ELSE disk[a]]
    /\ UNCHANGED <<table, freeBlocks, numFiles>>

LEMMA WriteCases ==
    ASSUME FsInv, NEW n \in Names, NEW o \in Offsets, NEW data \in Data,
           Write(n, o, data)
    PROVE  \/ /\ said' = [ok |-> FALSE] /\ UNCHANGED diskVars
              /\ \/ Found(n) = {} \/ data = <<>>
                 \/ \E i \in Used : /\ Found(n) = {i} /\ table[i].name = n
                                    /\ o \notin 0..(table[i].size - 1)
           \/ \E i \in Used, k \in Nat \ {0} :
                 /\ Found(n) = {i} /\ table[i].name = n
                 /\ o \in 0..(table[i].size - 1)
                 /\ k = IF o + Len(data) > table[i].size THEN table[i].size - o
                        ELSE Len(data)
                 /\ Written(i, o, data, k)
                 /\ said' = [ok |-> TRUE]
<1>0. o \in Int /\ data \in Seq(Bytes \ {Nul}) /\ Len(data) \in Nat
  BY FileSystemAssumption
<1>1. CASE Found(n) = {}
  BY <1>1 DEF Write, Refuse
<1>2. CASE Found(n) # {}
  <2>1. PICK i \in Used : /\ table[i].name = n /\ Found(n) = {i}
                          /\ Entry(n) = table[i]
    BY <1>2, FoundSome DEF FsInv
  <2> DEFINE z == table[i].size
             k == IF o + Len(data) > z THEN z - o ELSE Len(data)
  <2>2. z \in Nat
    BY FileSystemAssumption DEF FsInv, UsedInv, Used
  <2>3. CASE o \in 0..z /\ k > 0
    <3>1. said' = [ok |-> TRUE] /\ Written(i, o, data, k)
      <4> DEFINE e == Entry(n)
                 l == IF o + Len(data) > e.size THEN e.size - o ELSE Len(data)
      <4>1. l = k /\ e = table[i]
        BY <2>1
      <4>2. /\ said' = [ok |-> TRUE]
            /\ disk' = [a \in DOMAIN disk |->
                          IF \E h \in 1..l : a = At(e, o + h - 1)
                          THEN data[CHOOSE h \in 1..l : a = At(e, o + h - 1)]
                          ELSE disk[a]]
            /\ UNCHANGED <<table, freeBlocks, numFiles>>
        <5>1. o \in 0..e.size /\ l > 0
          BY <2>1, <2>3
        <5> QED
          BY <1>2, <5>1, Zenon DEF Write
      <4> HIDE DEF l, e, k
      <4> QED
        BY <4>1, <4>2 DEF Written
    <3> HIDE DEF z
    <3>2. k \in Nat \ {0} /\ o \in 0..(z - 1)
      BY <1>0, <2>2, <2>3
    <3> QED
      BY <2>1, <3>1, <3>2 DEF z
  <2>4. CASE ~(o \in 0..z /\ k > 0)
    <3>1. said' = [ok |-> FALSE] /\ UNCHANGED diskVars
      BY <1>2, <2>1, <2>4 DEF Write, Refuse
    <3> HIDE DEF z
    <3>2. Len(data) = 0 \/ o \notin 0..(z - 1)
      BY <1>0, <2>2, <2>4
    <3>3. Len(data) = 0 => data = <<>>
      BY <1>0, EmptySeq
    <3> QED
      BY <2>1, <3>1, <3>2, <3>3 DEF z
  <2> QED
    BY <2>3, <2>4
<1> QED
  BY <1>1, <1>2

\* The bytes that are written are bytes.
LEMMA WrittenInv ==
    ASSUME FsInv, NEW o \in Int, NEW data \in Data, NEW i \in Used, NEW k \in Nat,
           k <= Len(data), Written(i, o, data, k)
    PROVE  FsInv'
<1>1. data \in Seq(Bytes) /\ Len(data) \in Nat /\ \A h \in 1..k : data[h] \in Bytes
  BY FileSystemAssumption
<1>2. disk' \in [0..(DiskSize - 1) -> Bytes]
  <2>1. ASSUME NEW a \in DOMAIN disk
        PROVE  (IF \E h \in 1..k : a = At(table[i], o + h - 1)
                THEN data[CHOOSE h \in 1..k : a = At(table[i], o + h - 1)]
                ELSE disk[a]) \in Bytes
    <3>1. CASE \E h \in 1..k : a = At(table[i], o + h - 1)
      <4>1. (CHOOSE h \in 1..k : a = At(table[i], o + h - 1)) \in 1..k
        BY <3>1
      <4> QED
        BY <1>1, <3>1, <4>1
    <3>2. CASE ~\E h \in 1..k : a = At(table[i], o + h - 1)
      BY <3>2 DEF FsInv, DiskInv
    <3> QED
      BY <3>1, <3>2
  <2> QED
    BY <2>1 DEF Written, FsInv, DiskInv
<1>3. UNCHANGED <<table, freeBlocks, numFiles>> /\ Used' = Used
  BY DEF Written, Used
<1> QED
  BY <1>2, <1>3 DEF FsInv, UsedInv, OthersInv, MapInv, CountInv, DiskInv, Extent, Used

-----------------------------------------------------------------------------
(* The blocks *)

LEMMA NextFsInv == FsInv /\ [FsNext]_fsVars => FsInv'
<1> SUFFICES ASSUME FsInv, [FsNext]_fsVars PROVE FsInv'
  OBVIOUS
<1>1. CASE Prompt \/ List \/ Exit \/ UNCHANGED fsVars
  <2>1. UNCHANGED diskVars
    BY <1>1 DEF Prompt, List, Exit, fsVars, diskVars
  <2> QED
    BY <2>1, SameDisk
<1>2. ASSUME NEW n \in Names, NEW size \in Sizes, Create(n, size) PROVE FsInv'
  BY <1>2, CreateCases, CreatedInv, SameDisk
<1>3. ASSUME NEW n \in Names, NEW o \in Offsets, NEW data \in Data, Write(n, o, data)
      PROVE  FsInv'
  <2>1. CASE UNCHANGED diskVars
    BY <2>1, SameDisk
  <2>2. ASSUME NEW i \in Used, NEW k \in Nat \ {0}, o \in 0..(table[i].size - 1),
               k = IF o + Len(data) > table[i].size THEN table[i].size - o
                   ELSE Len(data),
               Written(i, o, data, k)
        PROVE  FsInv'
    <3>1. o \in Int /\ Len(data) \in Nat /\ table[i].size \in Nat
      BY FileSystemAssumption DEF FsInv, UsedInv, Used
    <3>2. k <= Len(data)
      BY <2>2, <3>1
    <3> QED
      BY <2>2, <3>1, <3>2, WrittenInv
  <2> QED
    BY <1>3, <2>1, <2>2, WriteCases
<1>4. ASSUME NEW n \in Names, NEW o \in Offsets, NEW k \in Lengths,
             Read(n, o, k) \/ ReadWild(n, o, k)
      PROVE  FsInv'
  <2>1. UNCHANGED diskVars
    BY <1>4 DEF Read, ReadWild, Refuse
  <2> QED
    BY <2>1, SameDisk
<1>5. ASSUME NEW n \in Names, Delete(n) PROVE FsInv'
  BY <1>5, DeleteCases, DeletedInv, SameDisk
<1> QED
  BY <1>1, <1>2, <1>3, <1>4, <1>5 DEF FsNext

LEMMA AlwaysFsInv == FsSpec => []FsInv
  BY InitFsInv, NextFsInv, PTL DEF FsSpec

\* After any sequence of commands a block is taken exactly if one file has it,
\* no two files share one or a name, every file has as many blocks as its size
\* needs, and num_files is the number of files.
THEOREM BlocksAgree == FsSpec => []BlocksAccounted
<1>1. FsInv => BlocksAccounted
  <2> SUFFICES ASSUME FsInv PROVE BlocksAccounted
    OBVIOUS
  <2>1. ASSUME NEW i \in Used
        PROVE  /\ table[i].start \in Nat /\ table[i].num \in Nat \ {0}
               /\ Extent(table[i]) \subseteq Blocks
               /\ table[i].size <= table[i].num * BlockSize
               /\ (table[i].num - 1) * BlockSize < table[i].size
    <3>1. /\ table[i].start \in Blocks /\ table[i].size \in 1..DiskSize
          /\ table[i].num = Rounded(table[i].size)
          /\ table[i].start + table[i].num <= TotalBlocks
      BY DEF FsInv, UsedInv
    <3>2. DiskSize \in Nat /\ TotalBlocks \in Nat
      BY FileSystemAssumption DEF DiskSize
    <3>3. table[i].size \in Nat \ {0}
      BY <3>1, <3>2
    <3>4. /\ table[i].num \in Nat \ {0}
          /\ table[i].size <= table[i].num * BlockSize
          /\ (table[i].num - 1) * BlockSize < table[i].size
      BY <3>1, <3>3, RoundedFits
    <3> QED
      BY <3>1, <3>2, <3>4 DEF Extent, Blocks
  <2>2. ASSUME NEW i \in Used, NEW j \in Used, i # j
        PROVE  /\ table[i].name # table[j].name
               /\ Extent(table[i]) \cap Extent(table[j]) = {}
    <3>1. /\ table[i].name # table[j].name
          /\ \/ table[i].start + table[i].num <= table[j].start
             \/ table[j].start + table[j].num <= table[i].start
      BY <2>2 DEF FsInv, OthersInv
    <3>2. /\ table[i].start \in Nat /\ table[i].num \in Nat
          /\ table[j].start \in Nat /\ table[j].num \in Nat
      BY <2>1
    <3> QED
      BY <3>1, <3>2 DEF Extent
  <2>3. \A b \in Blocks : freeBlocks[b] <=> \A i \in Used : b \notin Extent(table[i])
    BY DEF FsInv, MapInv
  <2>4. numFiles = Cardinality(Used)
    BY DEF FsInv, CountInv
  <2> QED
    BY <2>1, <2>2, <2>3, <2>4 DEF BlocksAccounted
<1> QED
  BY <1>1, AlwaysFsInv, PTL

-----------------------------------------------------------------------------
(* The texts *)

Address(i, o) == table[i].start * BlockSize + o

\* Every byte of a file is on the disk, and no other file's.
LEMMA OnDisk ==
    ASSUME FsInv, NEW i \in Used, NEW o \in 0..(table[i].size - 1)
    PROVE  /\ At(table[i], o) = Address(i, o) /\ Address(i, o) \in Nat
           /\ Address(i, o) \in 0..(DiskSize - 1)
           /\ table[i].size \in Nat \ {0} /\ table[i].start \in Nat
<1> DEFINE s == table[i].start
           r == table[i].num
           z == table[i].size
           b == BlockSize
<1>1. /\ s \in Nat /\ s + r <= TotalBlocks /\ TotalBlocks \in Nat /\ b \in Nat
      /\ z \in Nat \ {0} /\ r \in Nat \ {0} /\ z <= r * b
  <2>1. /\ s \in Blocks /\ z \in 1..DiskSize /\ r = Rounded(z) /\ s + r <= TotalBlocks
    BY DEF FsInv, UsedInv
  <2>2. DiskSize \in Nat /\ TotalBlocks \in Nat /\ b \in Nat
    BY FileSystemAssumption DEF DiskSize
  <2>3. z \in Nat \ {0}
    BY <2>1, <2>2
  <2>4. r \in Nat \ {0} /\ z <= r * b
    BY <2>1, <2>3, RoundedFits
  <2> QED
    BY <2>1, <2>2, <2>3, <2>4 DEF Blocks
<1>2. o \in Nat /\ o < z
  BY <1>1
<1>3. At(table[i], o) = s * b + o
  BY <1>1, <1>2, AtIs
<1> HIDE DEF s, r, z, b
<1>4. s * b \in Nat /\ r * b \in Nat /\ (s + r) * b = s * b + r * b
  BY <1>1
<1>5. (s + r) * b <= TotalBlocks * b /\ TotalBlocks * b \in Nat
  BY <1>1, TimesMonotone
<1>6. s * b + o \in 0..(TotalBlocks * b - 1)
  BY <1>1, <1>2, <1>4, <1>5
<1>7. DiskSize = TotalBlocks * b
  BY <1>1, FileSystemAssumption DEF DiskSize, b
<1> QED
  BY <1>1, <1>3, <1>6, <1>7 DEF Address, s, b, z

LEMMA OthersBytes ==
    ASSUME FsInv, NEW i \in Used, NEW j \in Used, i # j,
           NEW o \in 0..(table[i].size - 1), NEW p \in 0..(table[j].size - 1)
    PROVE  Address(i, o) # Address(j, p)
<1> DEFINE b == BlockSize
<1>0. b \in Nat
  BY FileSystemAssumption
<1>1. ASSUME NEW k \in Used
      PROVE  /\ table[k].start \in Nat /\ table[k].num \in Nat /\ table[k].size \in Nat
             /\ table[k].size <= table[k].num * b
  <2>1. /\ table[k].start \in Blocks /\ table[k].size \in 1..DiskSize
        /\ table[k].num = Rounded(table[k].size)
    BY DEF FsInv, UsedInv
  <2>2. DiskSize \in Nat
    BY FileSystemAssumption DEF DiskSize
  <2>3. table[k].size \in Nat \ {0}
    BY <2>1, <2>2
  <2> QED
    BY <2>1, <2>3, RoundedFits DEF Blocks
<1>2. ASSUME NEW k \in Used, NEW l \in Used, NEW x \in 0..(table[k].size - 1),
             NEW y \in 0..(table[l].size - 1),
             table[k].start + table[k].num <= table[l].start
      PROVE  Address(k, x) < Address(l, y)
  <2> DEFINE s == table[k].start
             r == table[k].num
             t == table[l].start
             z == table[k].size
  <2>1. /\ s \in Nat /\ r \in Nat /\ t \in Nat /\ s + r <= t /\ z \in Nat
        /\ z <= r * b /\ x \in 0..(z - 1) /\ y \in Nat
    BY <1>1, <1>2
  <2> HIDE DEF s, r, t, z, b
  <2>2. (s + r) * b <= t * b /\ t * b \in Nat
    BY <1>0, <2>1, TimesMonotone
  <2>3. (s + r) * b = s * b + r * b /\ s * b \in Nat /\ r * b \in Nat
    BY <1>0, <2>1
  <2>4. s * b + x < t * b + y
    BY <2>1, <2>2, <2>3
  <2> QED
    BY <2>4 DEF Address, s, t, b
<1>3. \/ table[i].start + table[i].num <= table[j].start
      \/ table[j].start + table[j].num <= table[i].start
  BY DEF FsInv, OthersInv
<1>4. Address(i, o) \in Nat /\ Address(j, p) \in Nat
  BY OnDisk
<1>5. CASE table[i].start + table[i].num <= table[j].start
  <2>1. Address(i, o) < Address(j, p)
    BY <1>2, <1>5
  <2> QED
    BY <1>4, <2>1
<1>6. CASE table[j].start + table[j].num <= table[i].start
  <2>1. Address(j, p) < Address(i, o)
    BY <1>2, <1>6
  <2> QED
    BY <1>4, <2>1
<1> QED
  BY <1>3, <1>5, <1>6

\* A text made of bytes.
LEMMA TextSeq ==
    ASSUME NEW z \in Nat, NEW t \in [1..z -> Bytes]
    PROVE  t \in Seq(Bytes) /\ Len(t) = z /\ (z # 0 => t # <<>>)
<1>1. t \in Seq(Bytes)
  BY SeqDef
<1>2. Len(t) \in Nat /\ DOMAIN t = 1..Len(t)
  BY <1>1, LenProperties
<1>3. 1..z = 1..Len(t)
  BY <1>2
<1>4. Len(t) = z
  BY <1>2, <1>3
<1>5. z # 0 => t # <<>>
  BY <1>1, <1>4, EmptySeq
<1> QED
  BY <1>1, <1>4, <1>5

\* What is under the name of an entry.
LEMMA TextIs ==
    ASSUME FsInv, NEW i \in Used
    PROVE  LET t == TextOf(table[i].name)
           IN  /\ t = [h \in 1..table[i].size |-> disk[Address(i, h - 1)]]
               /\ t \in [1..table[i].size -> Bytes]
               /\ t \in Seq(Bytes) /\ Len(t) = table[i].size /\ t # <<>>
               /\ table[i].size \in Nat \ {0} /\ table[i].name \in Names
<1> DEFINE z == table[i].size
           t == [h \in 1..z |-> disk[Address(i, h - 1)]]
<1>1. z \in Nat \ {0} /\ table[i].name \in Names
  <2>1. z \in 1..DiskSize /\ DiskSize \in Nat /\ table[i].name \in Names
    BY FileSystemAssumption DEF FsInv, UsedInv, DiskSize
  <2> QED
    BY <2>1
<1>2. TextOf(table[i].name) = Content(table[i])
  BY FoundOne DEF TextOf, FsInv
<1>3. \A h \in 1..z : /\ At(table[i], h - 1) = Address(i, h - 1)
                      /\ Address(i, h - 1) \in 0..(DiskSize - 1)
  <2>1. \A h \in 1..z : h - 1 \in 0..(z - 1)
    BY <1>1
  <2> QED
    BY <2>1, OnDisk
<1>4. Content(table[i]) = t
  BY <1>3 DEF Content
<1>5. t \in [1..z -> Bytes]
  BY <1>3 DEF FsInv, DiskInv
<1>6. t \in Seq(Bytes) /\ Len(t) = z /\ t # <<>>
  <2> HIDE DEF t, z
  <2> QED
    BY <1>1, <1>5, TextSeq
<1> HIDE DEF t
<1> QED
  BY <1>1, <1>2, <1>4, <1>5, <1>6 DEF t

-----------------------------------------------------------------------------
(* The simulator implements FileStore *)

Texts == [n \in Names |-> TextOf(n)]

\* Every name has an entry, whose text it is, or no text.
Named == \A n \in Names :
    \/ Found(n) = {} /\ TextOf(n) = <<>>
    \/ \E i \in Used :
          /\ table[i].name = n /\ Found(n) = {i} /\ Entry(n) = table[i]
          /\ TextOf(n) = [h \in 1..table[i].size |-> disk[Address(i, h - 1)]]
          /\ TextOf(n) \in Seq(Bytes) /\ Len(TextOf(n)) = table[i].size
          /\ TextOf(n) # <<>> /\ table[i].size \in Nat \ {0}

LEMMA AllNamed == FsInv => Named
<1> SUFFICES ASSUME FsInv, NEW n \in Names, Found(n) # {}
             PROVE  \E i \in Used :
                /\ table[i].name = n /\ Found(n) = {i} /\ Entry(n) = table[i]
                /\ TextOf(n) = [h \in 1..table[i].size |-> disk[Address(i, h - 1)]]
                /\ TextOf(n) \in Seq(Bytes) /\ Len(TextOf(n)) = table[i].size
                /\ TextOf(n) # <<>> /\ table[i].size \in Nat \ {0}
  BY DEF Named, TextOf
<1>1. PICK i \in Used : table[i].name = n /\ Found(n) = {i} /\ Entry(n) = table[i]
  BY FoundSome DEF FsInv
<1> QED
  BY <1>1, TextIs

LEMMA AllNamedNext == FsInv' => Named'
  BY AllNamed, PTL

\* A text is left alone with its entry and its bytes.
LEMMA OtherText ==
    ASSUME FsInv, NEW n, Found(n)' = Found(n),
           \A j \in Found(n) : table'[j] = table[j], UNCHANGED disk
    PROVE  TextOf(n)' = TextOf(n)
<1>1. CASE Found(n) = {}
  BY <1>1 DEF TextOf
<1>2. CASE Found(n) # {}
  <2>1. PICK i \in Used : Found(n) = {i} /\ Smallest(Found(n)) = i
    BY <1>2, FoundSome DEF FsInv
  <2>2. Entry(n)' = Entry(n)
    <3>1. Entry(n)' = table'[Smallest(Found(n)')]
      BY DEF Entry, Smallest
    <3> QED
      BY <2>1, <3>1 DEF Entry
  <2> QED
    BY <2>2 DEF TextOf, Content, At
<1> QED
  BY <1>1, <1>2

LEMMA SameTexts ==
    ASSUME UNCHANGED diskVars
    PROVE  Texts' = Texts
  BY DEF diskVars, Texts, TextOf, Found, Used, Entry, Content, At, Smallest

\* One text changes.
LEMMA OneText ==
    ASSUME NEW n \in Names, \A m \in Names : m # n => TextOf(m)' = TextOf(m)
    PROVE  Texts' = [Texts EXCEPT ![n] = TextOf(n)'] /\ Texts'[n] = TextOf(n)'
  BY DEF Texts

LEMMA StoreCreate ==
    ASSUME FsInv, NEW n \in Names, NEW size \in Sizes, Create(n, size)
    PROVE  Store!Create(n, size)
<1>1. Take([op |-> "CREATE", name |-> n, size |-> size])
  BY DEF Create
<1>2. CASE said' = [ok |-> FALSE] /\ UNCHANGED diskVars
           /\ (size \notin 1..DiskSize \/ Used # {})
  <2>1. Texts' = Texts
    BY <1>2, SameTexts
  <2>2. size \notin 1..DiskSize \/ \E m \in Names : Texts[m] # <<>>
    BY <1>2, TextIs DEF Texts
  <2> QED
    BY <1>1, <1>2, <2>1, <2>2
       DEF Texts, Take, Store!Create, Store!Take, Store!Refuse, Store!Refused, Store!Here
<1>3. ASSUME said' = [ok |-> TRUE], size \in 1..DiskSize, Found(n) = {},
             NEW i \in Slots \ Used, NEW s \in Runs(Rounded(size)),
             Created(n, size, i, s)
      PROVE  Store!Create(n, size)
  <2>1. FsInv'
    BY <1>3, CreatedInv
  <2>2. /\ Used' = Used \union {i} /\ table'[i] = NewEntry(n, size, s)
        /\ \A j \in Used : table'[j] = table[j] /\ j # i
    BY <1>3, CreatedTable
  <2>3. table'[i].name = n /\ table'[i].size = size
    BY <2>2 DEF NewEntry
  <2>4. TextOf(n)' \in Seq(Bytes) /\ Len(TextOf(n)') = size
    <3>1. Found(n)' = {i}
      BY <1>3, <2>2, <2>3 DEF Found
    <3> QED
      BY <2>1, <2>3, <3>1, AllNamedNext DEF Named
  <2>5. ASSUME NEW m \in Names, m # n PROVE TextOf(m)' = TextOf(m)
    <3>1. Found(m)' = Found(m)
      BY <2>2, <2>3, <2>5 DEF Found
    <3>2. \A j \in Found(m) : table'[j] = table[j]
      BY <2>2 DEF Found
    <3> QED
      BY <1>3, <3>1, <3>2, OtherText DEF Created
  <2>6. Texts' = [Texts EXCEPT ![n] = TextOf(n)'] /\ Texts'[n] = TextOf(n)'
    BY <2>5, OneText
  <2>7. Texts[n] = <<>>
    BY <1>3 DEF Texts, TextOf
  <2>8. \E new \in {Texts'[n]} : Texts' = [Texts EXCEPT ![n] = new]
    BY <2>6
  <2>9. Texts'[n] \in Seq(Bytes) /\ Len(Texts'[n]) = size
    BY <2>4, <2>6
  <2> QED
    BY <1>1, <1>3, <2>7, <2>8, <2>9
       DEF Texts, Take, Store!Create, Store!Take, Store!Done, Store!Here
<1> QED
  BY <1>2, <1>3, CreateCases

LEMMA StoreDelete ==
    ASSUME FsInv, NEW n \in Names, Delete(n)
    PROVE  Store!Delete(n)
<1>1. Take([op |-> "DELETE", name |-> n])
  BY DEF Delete
<1>2. CASE said' = [ok |-> FALSE] /\ UNCHANGED diskVars /\ Found(n) = {}
  <2>1. Texts' = Texts
    BY <1>2, SameTexts
  <2>2. Texts[n] = <<>>
    BY <1>2 DEF Texts, TextOf
  <2> QED
    BY <1>1, <1>2, <2>1, <2>2
       DEF Texts, Take, Store!Delete, Store!Take, Store!Refuse, Store!Refused, Store!Here
<1>3. ASSUME said' = [ok |-> TRUE], NEW i \in Used, table[i].name = n,
             Found(n) = {i}, Deleted(i)
      PROVE  Store!Delete(n)
  <2>1. Used' = Used \ {i} /\ \A j \in Used \ {i} : table'[j] = table[j]
    BY <1>3, DeletedTable
  <2>2. TextOf(n)' = <<>>
    <3>1. Found(n)' = {}
      BY <1>3, <2>1 DEF Found
    <3> QED
      BY <3>1 DEF TextOf
  <2>3. ASSUME NEW m \in Names, m # n PROVE TextOf(m)' = TextOf(m)
    <3>1. Found(m)' = Found(m)
      BY <1>3, <2>1, <2>3 DEF Found
    <3>2. \A j \in Found(m) : table'[j] = table[j]
      BY <1>3, <2>1, <2>3 DEF Found
    <3> QED
      BY <1>3, <3>1, <3>2, OtherText DEF Deleted
  <2>4. Texts' = [Texts EXCEPT ![n] = <<>>]
    BY <2>2, <2>3, OneText
  <2>5. Texts[n] # <<>>
    BY <1>3, TextIs DEF Texts
  <2> QED
    BY <1>1, <1>3, <2>4, <2>5
       DEF Texts, Take, Store!Delete, Store!Take, Store!Done, Store!Here
<1> QED
  BY <1>2, <1>3, DeleteCases

\* A WRITE changes the bytes it is given places for.
LEMMA WrittenByte ==
    ASSUME FsInv, NEW i \in Used, NEW o \in 0..(table[i].size - 1),
           NEW data, NEW k \in Nat, o + k <= table[i].size, Written(i, o, data, k),
           NEW j \in Used, NEW h \in 1..table[j].size
    PROVE  disk'[Address(j, h - 1)] =
              IF j = i /\ h - o \in 1..k THEN data[h - o] ELSE disk[Address(j, h - 1)]
<1> DEFINE a == Address(j, h - 1)
           there(x) == a = At(table[i], o + x - 1)
<1>0. /\ table[i].size \in Nat /\ table[j].size \in Nat
      /\ table[i].start \in Nat /\ table[j].start \in Nat /\ BlockSize \in Nat
  BY FileSystemAssumption DEF FsInv, UsedInv, Used, Blocks
<1>1. h \in Nat /\ o \in Nat /\ h - 1 \in 0..(table[j].size - 1)
  BY <1>0
<1>2. a \in DOMAIN disk
  BY <1>1, OnDisk DEF FsInv, DiskInv
<1>3. disk'[a] = IF \E x \in 1..k : there(x) THEN data[CHOOSE x \in 1..k : there(x)]
                 ELSE disk[a]
  BY <1>2 DEF Written
<1>4. ASSUME NEW x \in 1..k
      PROVE  /\ o + x - 1 \in 0..(table[i].size - 1)
             /\ there(x) <=> Address(j, h - 1) = Address(i, o + x - 1)
  <2>1. o + x - 1 \in 0..(table[i].size - 1)
    BY <1>0, <1>1
  <2>2. At(table[i], o + x - 1) = Address(i, o + x - 1)
    BY <2>1, OnDisk
  <2> QED
    BY <2>1, <2>2
<1> HIDE DEF there, a
<1>5. CASE j # i
  <2>1. ASSUME NEW x \in 1..k PROVE ~there(x)
    BY <1>1, <1>4, <1>5, OthersBytes
  <2> QED
    BY <1>3, <1>5, <2>1 DEF a
<1>6. CASE j = i
  <2>1. ASSUME NEW x \in 1..k PROVE there(x) <=> x = h - o
    <3> DEFINE base == table[i].start * BlockSize
    <3>1. base \in Nat
      BY <1>0
    <3>2. Address(j, h - 1) = base + (h - 1) /\ Address(i, o + x - 1) = base + (o + x - 1)
      BY <1>6 DEF Address
    <3> HIDE DEF base
    <3>3. base + (h - 1) = base + (o + x - 1) <=> x = h - o
      BY <1>1, <3>1
    <3> QED
      BY <1>4, <3>2, <3>3
  <2>2. CASE h - o \in 1..k
    <3>1. there(h - o) /\ (CHOOSE x \in 1..k : there(x)) = h - o
      BY <2>1, <2>2
    <3> QED
      BY <1>3, <1>6, <2>2, <3>1 DEF a
  <2>3. CASE h - o \notin 1..k
    BY <1>3, <1>6, <2>1, <2>3 DEF a
  <2> QED
    BY <2>2, <2>3
<1> QED
  BY <1>5, <1>6

LEMMA StoreWrite ==
    ASSUME FsInv, NEW n \in Names, NEW o \in Offsets, NEW data \in Data,
           Write(n, o, data)
    PROVE  Store!Write(n, o, data)
<1>0. o \in Int /\ data \in Seq(Bytes) /\ Len(data) \in Nat
  BY FileSystemAssumption
<1>1. Take([op |-> "WRITE", name |-> n, at |-> o, text |-> data])
  BY DEF Write
<1>2. CASE /\ said' = [ok |-> FALSE] /\ UNCHANGED diskVars
           /\ \/ Found(n) = {} \/ data = <<>>
              \/ \E i \in Used : /\ Found(n) = {i} /\ table[i].name = n
                                 /\ o \notin 0..(table[i].size - 1)
  <2>1. Texts' = Texts
    BY <1>2, SameTexts
  <2>2. ~(o \in 0..(Len(Texts[n]) - 1) /\ data # <<>>)
    <3>1. CASE Found(n) = {}
      <4>1. Texts[n] = <<>> /\ Len(<<>>) = 0
        BY <3>1 DEF Texts, TextOf
      <4> QED
        BY <1>0, <4>1
    <3>2. ASSUME NEW i \in Used, table[i].name = n, o \notin 0..(table[i].size - 1)
          PROVE  ~(o \in 0..(Len(Texts[n]) - 1))
      <4>1. Len(Texts[n]) = table[i].size
        BY <3>2, TextIs DEF Texts
      <4> QED
        BY <3>2, <4>1
    <3> QED
      BY <1>2, <3>1, <3>2
  <2> QED
    BY <1>1, <1>2, <2>1, <2>2
       DEF Texts, Take, Store!Write, Store!Take, Store!Refuse, Store!Refused
<1>3. ASSUME said' = [ok |-> TRUE], NEW i \in Used, NEW k \in Nat \ {0},
             Found(n) = {i}, table[i].name = n, o \in 0..(table[i].size - 1),
             k = IF o + Len(data) > table[i].size THEN table[i].size - o
                 ELSE Len(data),
             Written(i, o, data, k)
      PROVE  Store!Write(n, o, data)
  <2> DEFINE z == table[i].size
             new == [h \in 1..z |-> IF h - o \in 1..Len(data) THEN data[h - o]
                                    ELSE Texts[n][h]]
  <2>1. /\ z \in Nat \ {0} /\ o \in Nat /\ k <= Len(data) /\ o + k <= z
        /\ Len(data) # 0
        /\ \A h \in 1..z : h - o \in 1..k <=> h - o \in 1..Len(data)
    <3>1. z \in Nat \ {0}
      BY <1>3, TextIs
    <3> HIDE DEF z
    <3>2. o \in Nat /\ k \in Nat \ {0} /\ o \in 0..(z - 1)
          /\ k = IF o + Len(data) > z THEN z - o ELSE Len(data)
      BY <1>0, <1>3 DEF z
    <3> QED
      BY <1>0, <3>1, <3>2
  <2>2. /\ Len(Texts[n]) = z
        /\ \A h \in 1..z : Texts[n][h] = disk[Address(i, h - 1)]
    <3>1. Texts[n] = TextOf(table[i].name)
      BY <1>3 DEF Texts
    <3>2. /\ TextOf(table[i].name) = [h \in 1..z |-> disk[Address(i, h - 1)]]
          /\ Len(TextOf(table[i].name)) = z
      BY <1>3, TextIs
    <3> HIDE DEF z
    <3> QED
      BY <3>1, <3>2
  <2>3. Used' = Used /\ table' = table /\ \A m : Found(m)' = Found(m)
    BY <1>3 DEF Written, Used, Found
  <2>4. FsInv'
    BY <1>0, <1>3, <2>1, WrittenInv
  <2>5. ASSUME NEW m \in Names, NEW j \in Used, table[j].name = m, Found(m) = {j}
        PROVE  TextOf(m)' = [h \in 1..table[j].size |->
                  IF j = i /\ h - o \in 1..k THEN data[h - o] ELSE disk[Address(j, h - 1)]]
    <3>1. Found(m)' = {j}
      BY <2>3, <2>5
    <3>2. PICK x \in Used' : /\ Found(m)' = {x}
             /\ TextOf(m)' = [h \in 1..table'[x].size |-> disk'[Address(x, h - 1)']]
      BY <2>4, <3>1, AllNamedNext DEF Named
    <3>3. x = j
      BY <3>1, <3>2
    <3>4. TextOf(m)' = [h \in 1..table[j].size |-> disk'[Address(j, h - 1)]]
      BY <2>3, <3>2, <3>3 DEF Address
    <3>5. ASSUME NEW h \in 1..table[j].size
          PROVE  disk'[Address(j, h - 1)] =
                    IF j = i /\ h - o \in 1..k THEN data[h - o] ELSE disk[Address(j, h - 1)]
      <4>1. o + k <= table[i].size /\ k \in Nat
        BY <2>1
      <4>2. Written(i, o, data, k) /\ o \in 0..(table[i].size - 1)
        BY <1>3
      <4> QED
        BY <4>1, <4>2, WrittenByte
    <3> QED
      BY <3>4, <3>5
  <2>6. ASSUME NEW m \in Names, m # n PROVE TextOf(m)' = TextOf(m)
    <3>1. CASE Found(m) = {}
      BY <2>3, <3>1 DEF TextOf
    <3>2. CASE Found(m) # {}
      <4>1. PICK j \in Used : /\ table[j].name = m /\ Found(m) = {j}
                 /\ TextOf(m) = [h \in 1..table[j].size |-> disk[Address(j, h - 1)]]
        BY <3>2, AllNamed DEF Named
      <4>2. j # i
        BY <1>3, <2>6, <4>1
      <4> QED
        BY <2>5, <4>1, <4>2
    <3> QED
      BY <3>1, <3>2
  <2>7. TextOf(n)' = new
    <3>1. TextOf(n)' = [h \in 1..z |->
                IF h - o \in 1..k THEN data[h - o] ELSE disk[Address(i, h - 1)]]
      BY <1>3, <2>5
    <3> QED
      BY <2>1, <2>2, <3>1
  <2>8. Texts' = [Texts EXCEPT ![n] = new]
    BY <2>6, <2>7, OneText
  <2>9. o \in 0..(Len(Texts[n]) - 1) /\ data # <<>>
    BY <1>3, <2>1, <2>2
  <2>10. Texts' = [Texts EXCEPT ![n] =
            [h \in 1..Len(Texts[n]) |-> IF h - o \in 1..Len(data) THEN data[h - o]
                                        ELSE Texts[n][h]]]
    BY <2>2, <2>8
  <2> HIDE DEF new, z
  <2> QED
    BY <1>1, <1>3, <2>9, <2>10
       DEF Texts, Take, Store!Write, Store!Take, Store!Done
<1> QED
  BY <1>2, <1>3, WriteCases

LEMMA StoreRead ==
    ASSUME FsInv, NEW n \in Names, NEW o \in Offsets, NEW k \in Lengths,
           Read(n, o, k) \/ ReadWild(n, o, k)
    PROVE  Store!Read(n, o, k)
<1>0. o \in Int /\ k \in Int /\ IntMax \in Nat
  BY FileSystemAssumption
<1>1. Take([op |-> "READ", name |-> n, at |-> o, size |-> k]) /\ UNCHANGED diskVars
  BY DEF Read, ReadWild, Refuse
<1>2. Texts' = Texts
  BY <1>1, SameTexts
<1>3. CASE Found(n) = {}
  <2>1. Len(Texts[n]) = 0
    <3>1. Texts[n] = <<>>
      BY <1>3 DEF Texts, TextOf
    <3> QED
      BY <3>1
  <2>2. said' = [ok |-> FALSE]
    BY <1>3 DEF Read, ReadWild, Refuse
  <2>3. o \notin 0..(Len(Texts[n]) - 1)
    BY <1>0, <2>1
  <2> QED
    BY <1>1, <1>2, <2>2, <2>3
       DEF Texts, Take, Store!Read, Store!Take, Store!Refuse, Store!Refused
<1>4. CASE Found(n) # {}
  <2>1. PICK i \in Used : table[i].name = n /\ Found(n) = {i} /\ Entry(n) = table[i]
    BY <1>4, FoundSome DEF FsInv
  <2> DEFINE z == table[i].size
  <2>2. /\ z \in Nat \ {0} /\ Len(Texts[n]) = z
        /\ \A h \in 1..z : Texts[n][h] = disk[Address(i, h - 1)]
    BY <2>1, TextIs DEF Texts
  <2>3. CASE ReadWild(n, o, k)
    <3>1. said' \in {[ok |-> FALSE], [ended |-> TRUE]} /\ o + k > IntMax
      BY <2>3 DEF ReadWild
    <3> QED
      BY <1>1, <1>2, <3>1
         DEF Texts, Take, Store!Read, Store!Take, Store!Refuse, Store!Refused, Store!Gone
  <2>4. CASE Read(n, o, k) /\ ~(o \in 0..(z - 1) /\ k > 0)
    <3>1. said' = [ok |-> FALSE]
      BY <1>4, <2>1, <2>4 DEF Read, Refuse
    <3>2. o \notin 0..(Len(Texts[n]) - 1) \/ k <= 0
      BY <1>0, <2>2, <2>4
    <3> QED
      BY <1>1, <1>2, <3>1, <3>2
         DEF Texts, Take, Store!Read, Store!Take, Store!Refuse, Store!Refused
  <2>5. CASE Read(n, o, k) /\ o \in 0..(z - 1) /\ k > 0
    <3> DEFINE m == IF o + k > z THEN z - o ELSE k
    <3>1. PICK j \in 0..m :
             /\ \A h \in 1..j : disk[At(table[i], o + h - 1)] # Nul
             /\ j < m => disk[At(table[i], o + j)] = Nul
             /\ said' = [text |-> [h \in 1..j |-> disk[At(table[i], o + h - 1)]]]
      <4> DEFINE f == Entry(n)
                 l == IF o + k > f.size THEN f.size - o ELSE k
      <4>1. l = m /\ f = table[i]
        BY <2>1
      <4>2. \E j \in 0..l :
               /\ \A h \in 1..j : disk[At(f, o + h - 1)] # Nul
               /\ j < l => disk[At(f, o + j)] = Nul
               /\ said' = [text |-> [h \in 1..j |-> disk[At(f, o + h - 1)]]]
        <5>1. o \in 0..(f.size - 1)
          BY <2>1, <2>5
        <5> QED
          BY <1>4, <2>5, <5>1, Zenon DEF Read
      <4> HIDE DEF f, l, m
      <4> QED
        BY <4>1, <4>2
    <3>2. /\ o \in Nat /\ j \in 0..(z - o) /\ j <= k /\ m \in Nat
          /\ j < k /\ j < z - o => j < m
      <4> HIDE DEF z
      <4> QED
        BY <1>0, <2>2, <2>5
    <3>3. ASSUME NEW p \in 0..(z - o), p # z - o
          PROVE  disk[At(table[i], o + p)] = Texts[n][o + p + 1]
      <4> HIDE DEF z, m
      <4>1. o + p \in 0..(z - 1) /\ o + p + 1 \in 1..z /\ (o + p + 1) - 1 = o + p
        BY <2>2, <3>2, <3>3
      <4>2. Texts[n][o + p + 1] = disk[Address(i, o + p)]
        BY <2>2, <4>1
      <4>3. At(table[i], o + p) = Address(i, o + p)
        BY <4>1, OnDisk DEF z
      <4> QED
        BY <4>2, <4>3
    <3>4. ASSUME NEW h \in 1..j
          PROVE  disk[At(table[i], o + h - 1)] = Texts[n][o + h]
      <4> HIDE DEF z, m
      <4>1. /\ h - 1 \in 0..(z - o) /\ h - 1 # z - o
            /\ o + (h - 1) = o + h - 1 /\ o + (h - 1) + 1 = o + h
        BY <2>2, <3>2
      <4>2. disk[At(table[i], o + (h - 1))] = Texts[n][o + (h - 1) + 1]
        BY <3>3, <4>1
      <4> QED
        BY <4>1, <4>2
    <3>5. said' = [text |-> [h \in 1..j |-> Texts[n][o + h]]]
      <4>1. [h \in 1..j |-> disk[At(table[i], o + h - 1)]] = [h \in 1..j |-> Texts[n][o + h]]
        BY <3>4
      <4> QED
        BY <3>1, <4>1
    <3>6. \A h \in 1..j : Texts[n][o + h] # Nul
      BY <3>1, <3>4
    <3>7. j < k /\ j < z - o => Texts[n][o + j + 1] = Nul
      <4> SUFFICES ASSUME j < k, j < z - o PROVE Texts[n][o + j + 1] = Nul
        OBVIOUS
      <4>1. disk[At(table[i], o + j)] = Nul
        BY <3>1, <3>2
      <4>2. j # z - o
        BY <2>2, <3>2
      <4> QED
        BY <3>2, <3>3, <4>1, <4>2
    <3>8. /\ o \in 0..(Len(Texts[n]) - 1) /\ k > 0
          /\ \E x \in 0..(Len(Texts[n]) - o) :
                /\ x <= k
                /\ \A h \in 1..x : Texts[n][o + h] # Nul
                /\ x < k /\ x < Len(Texts[n]) - o => Texts[n][o + x + 1] = Nul
                /\ said' = [text |-> [h \in 1..x |-> Texts[n][o + h]]]
      <4> HIDE DEF z, m
      <4>1. j \in 0..(Len(Texts[n]) - o) /\ o \in 0..(Len(Texts[n]) - 1) /\ k > 0
        BY <2>2, <2>5, <3>2
      <4>2. j < k /\ j < Len(Texts[n]) - o => Texts[n][o + j + 1] = Nul
        BY <2>2, <3>7
      <4> QED
        BY <3>2, <3>5, <3>6, <4>1, <4>2
    <3> HIDE DEF z, m
    <3> QED
      BY <1>1, <1>2, <3>8 DEF Texts, Take, Store!Read, Store!Take
  <2> QED
    BY <2>3, <2>4, <2>5
<1> QED
  BY <1>3, <1>4

LEMMA StoreList ==
    ASSUME FsInv, List
    PROVE  Store!List
<1>1. UNCHANGED diskVars /\ Take([op |-> "LIST"])
  BY DEF List
<1>2. Texts' = Texts
  BY <1>1, SameTexts
<1> DEFINE listed == {<<table[i].name, table[i].size>> : i \in Used}
           here == {m \in Names : Texts[m] # <<>>}
           shown == {<<n, Len(Texts[n])>> : n \in here}
<1>3. ASSUME NEW i \in Used
      PROVE  <<table[i].name, table[i].size>> \in shown
  BY TextIs DEF Texts
<1>4. ASSUME NEW n \in here
      PROVE  <<n, Len(Texts[n])>> \in listed
  <2>1. n \in Names /\ TextOf(n) # <<>> /\ Texts[n] = TextOf(n)
    BY DEF Texts
  <2>2. PICK i \in Used : table[i].name = n /\ Len(TextOf(n)) = table[i].size
    BY <2>1, AllNamed DEF Named
  <2> QED
    BY <2>1, <2>2
<1>5. listed = shown
  BY <1>3, <1>4
<1>6. said' = [list |-> listed]
  BY DEF List
<1> HIDE DEF listed
<1> QED
  BY <1>1, <1>2, <1>5, <1>6 DEF Texts, Take, Store!List, Store!Take, Store!Here

LEMMA StoreInit == FsInit => Store!Init
<1> SUFFICES ASSUME FsInit PROVE Store!Init
  OBVIOUS
<1>1. Used = {}
  BY DEF FsInit, Used, NoEntry
<1>2. \A n \in Names : TextOf(n) = <<>>
  BY <1>1 DEF TextOf, Found
<1> QED
  BY <1>2 DEF FsInit, Store!Init, Store!Silence

LEMMA StoreNext ==
    FsInv /\ [FsNext]_fsVars => [Store!Next(Sizes, Offsets, Data, Lengths)]_(Store!vars)
<1> SUFFICES ASSUME FsInv, [FsNext]_fsVars
             PROVE  [Store!Next(Sizes, Offsets, Data, Lengths)]_(Store!vars)
  OBVIOUS
<1>1. CASE UNCHANGED fsVars
  <2>1. Texts' = Texts
    BY <1>1, SameTexts DEF fsVars, diskVars
  <2> QED
    BY <1>1, <2>1 DEF fsVars, Texts, Store!vars
<1>2. CASE Prompt
  <2>1. Texts' = Texts
    BY <1>2, SameTexts DEF Prompt
  <2>2. Store!Prompt
    BY <1>2, <2>1 DEF Prompt, Texts, Store!Prompt, Store!Gone, Store!Silence
  <2> QED
    BY <2>2 DEF Store!Next
<1>3. CASE Exit
  <2>1. Texts' = Texts
    BY <1>3, SameTexts DEF Exit
  <2>2. Store!Exit
    BY <1>3, <2>1 DEF Exit, Texts, Take, Store!Exit, Store!Take, Store!Gone
  <2> QED
    BY <2>2 DEF Store!Next
<1>4. CASE List
  BY <1>4, StoreList DEF Store!Next
<1>5. ASSUME NEW n \in Names, NEW size \in Sizes, Create(n, size)
      PROVE  Store!Next(Sizes, Offsets, Data, Lengths)
  BY <1>5, StoreCreate DEF Store!Next
<1>6. ASSUME NEW n \in Names, NEW o \in Offsets, NEW data \in Data, Write(n, o, data)
      PROVE  Store!Next(Sizes, Offsets, Data, Lengths)
  BY <1>6, StoreWrite DEF Store!Next
<1>7. ASSUME NEW n \in Names, NEW o \in Offsets, NEW k \in Lengths,
             Read(n, o, k) \/ ReadWild(n, o, k)
      PROVE  Store!Next(Sizes, Offsets, Data, Lengths)
  BY <1>7, StoreRead DEF Store!Next
<1>8. ASSUME NEW n \in Names, Delete(n)
      PROVE  Store!Next(Sizes, Offsets, Data, Lengths)
  BY <1>8, StoreDelete DEF Store!Next
<1> QED
  BY <1>1, <1>2, <1>3, <1>4, <1>5, <1>6, <1>7, <1>8 DEF FsNext

\* Every command answers what the texts under the names say and changes no
\* other text; "Error interno" is never answered; with no file left, the whole
\* disk can be had again.
THEOREM StoreImplemented == FsSpec => ImplementsFileStore
  BY StoreInit, StoreNext, AlwaysFsInv, PTL DEF FsSpec, ImplementsFileStore
=============================================================================
