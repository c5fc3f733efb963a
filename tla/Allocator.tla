----------------------------- MODULE Allocator -----------------------------
(***************************************************************************)
(* The memory allocator simulator, tarea-3/main.c: MemorySize bytes cut     *)
(* into the blocks of a table with MaxBlocks places.  A line of the input   *)
(* file is one step; PRINT only reads.                                      *)
(*                                                                          *)
(* alloc_block does not look whether the table has a place left.  What the  *)
(* store behind its end does depends on the build: the model stops there    *)
(* (overrun).                                                               *)
(***************************************************************************)
EXTENDS Integers, FiniteSets

CONSTANTS
    Variables,   \* the names of variables; one stands for its first letter too
    NoName,      \* ""
    Unset,       \* a byte that malloc has left as it was
    Dash,        \* '-', the byte of a freed block
    MemorySize,  \* MEMORY_SIZE: 1000
    MaxBlocks,   \* MAX_BLOCKS: 100
    Amounts      \* bound: the sizes that ALLOC and REALLOC ask for

ASSUME AllocatorAssumption ==
    /\ MemorySize \in Nat /\ MaxBlocks \in Nat \ {0}
    /\ Amounts \subseteq Nat
    /\ NoName \notin Variables /\ Unset \notin Variables /\ Dash \notin Variables

VARIABLES
    algorithm,  \* SEARCH_ALGORITHM: 1 first fit, 2 best fit, 3 worst fit
    list,       \* num_blocks and blockList
    memory,     \* the bytes
    overrun     \* has blockList been written past its end?

alVars == <<algorithm, list, memory, overrun>>

Block == [name : Variables \union {NoName}, size : 0..MemorySize,
          start : 0..MemorySize, isFree : BOOLEAN]

\* init_memory
AlInit == /\ algorithm \in 1..3
          /\ list = [num |-> 1,
                     at |-> [i \in {0} |-> [name |-> NoName, size |-> MemorySize,
                                            start |-> 0, isFree |-> TRUE]]]
          /\ memory = [a \in 0..(MemorySize - 1) |-> Unset]
          /\ overrun = FALSE

-----------------------------------------------------------------------------
(* The table *)

Index(L) == 0..(L.num - 1)

\* A block is free.
Freed(L, i) == [num |-> L.num,
                at |-> [L.at EXCEPT ![i] =
                          [L.at[i] EXCEPT !.name = NoName, !.isFree = TRUE]]]

\* Two neighbours become one.
Merge(L, i) == [num |-> L.num - 1,
                at |-> [k \in 0..(L.num - 2) |->
                          IF k < i THEN L.at[k]
                          ELSE IF k > i THEN L.at[k + 1]
                          ELSE [L.at[i] EXCEPT !.size = L.at[i].size + L.at[i + 1].size]]]

-----------------------------------------------------------------------------
(* Slips *)

\* Only the next block is looked at.
ReleasedHalf(L, i) ==
    LET free == Freed(L, i)
    IN  IF i + 1 < L.num /\ L.at[i + 1].isFree THEN Merge(free, i) ELSE free

\* The block after is swallowed whether it is free or not.
ReleasedWide(L, i) ==
    LET free == Freed(L, i)
        next == IF i + 1 < L.num THEN Merge(free, i) ELSE free
    IN  IF i > 0 /\ L.at[i - 1].isFree THEN Merge(next, i - 1) ELSE next

\* The whole hole is given away and the rest forgotten.
GivenAll(L, i, n, size) ==
    [num |-> L.num,
     at |-> [L.at EXCEPT ![i] = [name |-> n, size |-> size,
                                 start |-> L.at[i].start, isFree |-> FALSE]]]

\* The search goes on after the first hole that would do.
PreferredLast(L, i, j) == \/ algorithm = 2 /\ L.at[i].size < L.at[j].size
                          \/ algorithm = 3 /\ L.at[i].size > L.at[j].size
                          \/ (algorithm = 1 \/ L.at[i].size = L.at[j].size) /\ i >= j

\* A hole must be larger than what is asked for.
HolesLarger(L, size) == {i \in Index(L) : L.at[i].isFree /\ L.at[i].size > size}

-----------------------------------------------------------------------------
(* Taking and giving back *)

\* search_free_block: the places that would do, and which of them it takes.
Holes(L, size) == {i \in Index(L) : /\ L.at[i].isFree /\ L.at[i].size >= size
                                    /\ algorithm = 3 => L.at[i].size > 0}

Preferred(L, i, j) == \/ algorithm = 2 /\ L.at[i].size < L.at[j].size
                      \/ algorithm = 3 /\ L.at[i].size > L.at[j].size
                      \/ (algorithm = 1 \/ L.at[i].size = L.at[j].size) /\ i <= j

Chosen(L, size) == CHOOSE i \in Holes(L, size) :
                      \A j \in Holes(L, size) : Preferred(L, i, j)

\* alloc_block: the hole i becomes the variable, and a hole for the rest.
Given(L, i, n, size) ==
    LET used == [name |-> n, size |-> size, start |-> L.at[i].start, isFree |-> FALSE]
        rest == [name |-> NoName, size |-> L.at[i].size - size,
                 start |-> L.at[i].start + size, isFree |-> TRUE]
    IN  IF L.at[i].size = size
        THEN [num |-> L.num, at |-> [L.at EXCEPT ![i] = used]]
        ELSE [num |-> L.num + 1,
              at |-> [k \in 0..L.num |-> IF k < i THEN L.at[k]
                                         ELSE IF k = i THEN used
                                         ELSE IF k = i + 1 THEN rest
                                         ELSE L.at[k - 1]]]

\* The store behind the table.
Past(L, i, size) == L.num >= MaxBlocks /\ L.at[i].size > size

\* free_block, with the next block first, then with the one before.
Released(L, i) ==
    LET free == Freed(L, i)
        next == IF i + 1 < L.num /\ L.at[i + 1].isFree THEN Merge(free, i) ELSE free
    IN  IF i > 0 /\ L.at[i - 1].isFree THEN Merge(next, i - 1) ELSE next

Span(b) == b.start..(b.start + b.size - 1)

Filled(m, b, byte) == [a \in DOMAIN m |-> IF a \in Span(b) THEN byte ELSE m[a]]

Of(L, n)    == {i \in Index(L) : ~L.at[i].isFree /\ L.at[i].name = n}
First(L, n) == CHOOSE i \in Of(L, n) : \A j \in Of(L, n) : i <= j

-----------------------------------------------------------------------------
(* The lines of the input *)

\* A size that sscanf could not read is whatever the variable held: one of
\* Amounts, too.  An ALLOC that finds no hole changes nothing.
Alloc(n, size) ==
    /\ ~overrun
    /\ LET i == Chosen(list, size)
       IN  /\ Holes(list, size) # {}
           /\ IF Past(list, i, size)
              THEN overrun' = TRUE /\ UNCHANGED <<list, memory>>
              ELSE /\ list' = Given(list, i, n, size)
                   /\ memory' = Filled(memory, Given(list, i, n, size).at[i], n)
                   /\ UNCHANGED overrun
    /\ UNCHANGED algorithm

Free(n) ==
    /\ ~overrun /\ Of(list, n) # {}
    /\ list' = Released(list, First(list, n))
    /\ memory' = Filled(memory, list.at[First(list, n)], Dash)
    /\ UNCHANGED <<algorithm, overrun>>

\* Free, then alloc, which may find no hole: then the variable is gone.
Realloc(n, size) ==
    /\ ~overrun /\ Of(list, n) # {}
    /\ LET L == Released(list, First(list, n))
           m == Filled(memory, list.at[First(list, n)], Dash)
           i == Chosen(L, size)
       IN  IF Holes(L, size) = {}
           THEN list' = L /\ memory' = m /\ UNCHANGED overrun
           ELSE IF Past(L, i, size)
           THEN overrun' = TRUE /\ UNCHANGED <<list, memory>>
           ELSE /\ list' = Given(L, i, n, size)
                /\ memory' = Filled(m, Given(L, i, n, size).at[i], n)
                /\ UNCHANGED overrun
    /\ UNCHANGED algorithm

AlNext == \E n \in Variables : \/ Free(n)
                               \/ \E size \in Amounts : Alloc(n, size) \/ Realloc(n, size)

AlSpec == AlInit /\ [][AlNext]_alVars

-----------------------------------------------------------------------------
(* Properties *)

\* After any lines the blocks of the table lie end to end from the first byte
\* of the memory to its last, and no two neighbours are free: free_block has
\* merged them, and alloc_block never leaves a second hole beside one.
Partition ==
    /\ list.num \in 1..MaxBlocks
    /\ list.at[0].start = 0
    /\ \A i \in Index(list) :
          /\ list.at[i].size \in Nat
          /\ list.at[i].start + list.at[i].size =
                IF i = list.num - 1 THEN MemorySize ELSE list.at[i + 1].start
          /\ i + 1 < list.num => ~(list.at[i].isFree /\ list.at[i + 1].isFree)

\* A byte shows a variable's letter exactly if a block of that variable holds
\* it: nobody writes into another's block, and FREE leaves nothing behind.
OwnBytes ==
    \A a \in 0..(MemorySize - 1), n \in Variables :
       memory[a] = n <=> \E i \in Of(list, n) : a \in Span(list.at[i])

\* REALLOC frees first.  It loses a variable only if no hole that is left can
\* take the new size, so never when the variable shrinks.  (Worst fit does not
\* give empty holes.)
ReallocKeeps ==
    [][\A n \in Variables, size \in Amounts :
          Realloc(n, size) /\ ~overrun' /\ (size > 0 \/ algorithm # 3) =>
             \/ \E i \in Of(list', n) : list'.at[i].size = size
             \/ /\ size > list.at[First(list, n)].size
                /\ \A i \in Index(list') : list'.at[i].isFree => list'.at[i].size < size]_alVars

\* Who owns what.
Pieces(L) == {[name |-> L.at[i].name, start |-> L.at[i].start, size |-> L.at[i].size]
                : i \in {k \in Index(L) : ~L.at[k].isFree}}

Memory == INSTANCE Heap WITH search <- algorithm, pieces <- Pieces(list)

\* Splitting and merging lose no byte and divide no run: the holes of the table
\* that are not empty are exactly the runs of bytes that nobody owns, so what is
\* refused (search_free_block returns -1) would not have fitted anywhere.
HolesAreRuns ==
    {[start |-> list.at[i].start, size |-> list.at[i].size]
       : i \in {k \in Index(list) : list.at[k].isFree /\ list.at[k].size > 0}}
    = Memory!Runs(Pieces(list))

\* Whatever the table goes through, the pieces are where a user who knows only
\* them and the search expects them: ALLOC takes the beginning of the first,
\* smallest or largest run, FREE gives back the first piece of the variable, and
\* REALLOC does the two one after the other.  An ALLOC that is refused is no step
\* of the heap, a REALLOC that is refused one of FREE: that they are refused for
\* lack of room only is for HolesAreRuns and ReallocKeeps to say.
ImplementsHeap == Memory!Spec

\* The table is not written past its end while fewer than about MAX_BLOCKS / 2
\* variables are there, because two holes have a variable between them.
OverrunNeedsMany ==
    overrun => 2 * Cardinality({i \in Index(list) : ~list.at[i].isFree}) + 1 >= MaxBlocks
=============================================================================
