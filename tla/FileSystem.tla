----------------------------- MODULE FileSystem -----------------------------
(***************************************************************************)
(* The file system simulator, tarea-4/main.c: a disk of TotalBlocks blocks  *)
(* of BlockSize bytes, a table of MaxFiles entries, and a map of the free   *)
(* blocks.  A command is one step, the next prompt another.                 *)
(*                                                                          *)
(* The loops of write_file and read_file copy piece by piece, each inside   *)
(* one block; At says where each byte goes, so the pieces do not show.      *)
(***************************************************************************)
EXTENDS Integers, Sequences, FiniteSets

CONSTANTS
    Names,        \* file names of legal length
    Bytes, Nul,   \* what a byte may hold; the NUL among them
    BlockSize,    \* BLOCK_SIZE: 512
    TotalBlocks,  \* TOTAL_BLOCKS: 2048
    MaxFiles,     \* MAX_FILES: 100
    IntMax,       \* the largest int
    Sizes,        \* bound: the sizes a CREATE asks for
    Offsets,      \* bound: the offsets of WRITE and READ
    Data,         \* bound: the texts a WRITE has between its quotes
    Lengths,      \* bound: the sizes a READ asks for
    None          \* no command, no name

ASSUME FileSystemAssumption ==
    /\ Nul \in Bytes /\ None \notin Names
    /\ BlockSize \in Nat \ {0} /\ TotalBlocks \in Nat \ {0}
    /\ MaxFiles \in Nat \ {0}
    /\ IntMax \in Nat
    /\ Sizes \subseteq Int /\ Offsets \subseteq Int /\ Lengths \subseteq Int
    /\ Data \subseteq Seq(Bytes \ {Nul})

VARIABLES
    table,       \* file_table
    freeBlocks,  \* free_blocks
    numFiles,    \* num_files
    disk,        \* the bytes of the disk, block after block
    line,        \* command_line, while parse_command is at it
    said         \* what it printed

fsVars == <<table, freeBlocks, numFiles, disk, line, said>>
diskVars == <<table, freeBlocks, numFiles, disk>>

Slots    == 0..(MaxFiles - 1)
Blocks   == 0..(TotalBlocks - 1)
DiskSize == BlockSize * TotalBlocks    \* 1 MB, also the limit of one file

NoEntry == [name |-> None, size |-> 0, start |-> -1, num |-> 0]

\* init_file_system; the disk itself is static memory, all zeros.
FsInit == /\ table = [i \in Slots |-> NoEntry]
          /\ freeBlocks = [b \in Blocks |-> TRUE]
          /\ numFiles = 0
          /\ disk = [a \in 0..(DiskSize - 1) |-> Nul]
          /\ line = None
          /\ said = [ended |-> FALSE]

-----------------------------------------------------------------------------
Smallest(S) == CHOOSE i \in S : \A j \in S : i <= j

\* find_file_entry_index
Used     == {i \in Slots : table[i].start # -1}
Found(n) == {i \in Used : table[i].name = n}
Entry(n) == table[Smallest(Found(n))]

\* allocate_blocks: the beginnings of the runs of r free blocks.
Runs(r) == {s \in Blocks : s + r <= TotalBlocks /\ \A b \in s..(s + r - 1) : freeBlocks[b]}

Rounded(size) == (size + BlockSize - 1) \div BlockSize

\* free_blocks_for_file: the blocks of a file.
Extent(f) == f.start..(f.start + f.num - 1)

\* The address of byte o of a file.
At(f, o) == (f.start + o \div BlockSize) * BlockSize + (o % BlockSize)

\* The bytes of a file.
Content(f) == [i \in 1..f.size |-> disk[At(f, i - 1)]]

\* A command, as parse_command takes it apart.
Take(command) == line = None /\ line' = command

Refuse == said' = [ok |-> FALSE] /\ UNCHANGED diskVars

-----------------------------------------------------------------------------
(* Slips *)

\* A WRITE that trusts the length of its text.
WriteOn(n, o, data) ==
    /\ Take([op |-> "WRITE", name |-> n, at |-> o, text |-> data])
    /\ LET f == Entry(n)
       IN  IF Found(n) # {} /\ o \in 0..f.size /\ data # <<>>
           THEN /\ disk' = [a \in DOMAIN disk |->
                               IF a - At(f, o) \in 0..(Len(data) - 1)
                               THEN data[a - At(f, o) + 1] ELSE disk[a]]
                /\ said' = [ok |-> TRUE]
                /\ UNCHANGED <<table, freeBlocks, numFiles>>
           ELSE Refuse

\* A DELETE that forgets the last block.
DeleteShort(n) ==
    /\ Take([op |-> "DELETE", name |-> n])
    /\ IF Found(n) = {}
       THEN Refuse
       ELSE LET f == Entry(n)
            IN  /\ freeBlocks' = [b \in Blocks |->
                       freeBlocks[b] \/ b \in f.start..(f.start + f.num - 2)]
                /\ table' = [table EXCEPT ![Smallest(Found(n))] = NoEntry]
                /\ numFiles' = numFiles - 1
                /\ said' = [ok |-> TRUE]
                /\ UNCHANGED disk

-----------------------------------------------------------------------------
(* Commands *)

\* create_file; the last ELSE is its "Error interno".
Create(n, size) ==
    /\ Take([op |-> "CREATE", name |-> n, size |-> size])
    /\ LET r == Rounded(size)
           s == Smallest(Runs(r))
           vacant == Slots \ Used
       IN  IF \/ size <= 0 \/ Found(n) # {} \/ numFiles >= MaxFiles
              \/ size > DiskSize \/ Runs(r) = {}
           THEN Refuse
           ELSE IF vacant # {}
           THEN /\ table' = [table EXCEPT ![Smallest(vacant)] =
                       [name |-> n, size |-> size, start |-> s, num |-> r]]
                /\ freeBlocks' = [b \in Blocks |->
                       freeBlocks[b] /\ b \notin s..(s + r - 1)]
                /\ numFiles' = numFiles + 1
                /\ said' = [ok |-> TRUE]
                /\ UNCHANGED disk
           ELSE said' = [internal |-> TRUE] /\ UNCHANGED diskVars

\* write_file
Write(n, o, data) ==
    /\ Take([op |-> "WRITE", name |-> n, at |-> o, text |-> data])
    /\ LET f == Entry(n)
           k == IF o + Len(data) > f.size THEN f.size - o ELSE Len(data)
       IN  IF Found(n) # {} /\ o \in 0..f.size /\ k > 0
           THEN /\ disk' = [a \in DOMAIN disk |->
                               IF \E i \in 1..k : a = At(f, o + i - 1)
                               THEN data[CHOOSE i \in 1..k : a = At(f, o + i - 1)]
                               ELSE disk[a]]
                /\ said' = [ok |-> TRUE]
                /\ UNCHANGED <<table, freeBlocks, numFiles>>
           ELSE Refuse

\* read_file; printf stops at the first NUL.
Read(n, o, k) ==
    /\ Take([op |-> "READ", name |-> n, at |-> o, size |-> k])
    /\ LET f == Entry(n)
           m == IF o + k > f.size THEN f.size - o ELSE k
       IN  IF Found(n) # {} /\ o \in 0..(f.size - 1) /\ k > 0
           THEN \E j \in 0..m :
                   /\ \A i \in 1..j : disk[At(f, o + i - 1)] # Nul
                   /\ j < m => disk[At(f, o + j)] = Nul
                   /\ said' = [text |-> [i \in 1..j |-> disk[At(f, o + i - 1)]]]
                   /\ UNCHANGED diskVars
           ELSE Refuse

\* The sum offset + size_to_read overflows: depending on the build and on the
\* memory there is, it is read as above, malloc fails, or the copy runs off the
\* end of the disk.
ReadWild(n, o, k) ==
    /\ Take([op |-> "READ", name |-> n, at |-> o, size |-> k])
    /\ Found(n) # {} /\ o \in 0..(Entry(n).size - 1)
    /\ o + k > IntMax
    /\ said' \in {[ok |-> FALSE], [ended |-> TRUE]}
    /\ UNCHANGED diskVars

\* delete_file
Delete(n) ==
    /\ Take([op |-> "DELETE", name |-> n])
    /\ IF Found(n) = {}
       THEN Refuse
       ELSE LET f == Entry(n)
            IN  /\ freeBlocks' = [b \in Blocks |->
                       freeBlocks[b] \/ b \in Extent(f)]
                /\ table' = [table EXCEPT ![Smallest(Found(n))] = NoEntry]
                /\ numFiles' = numFiles - 1
                /\ said' = [ok |-> TRUE]
                /\ UNCHANGED disk

\* list_files
List == /\ Take([op |-> "LIST"])
        /\ said' = [list |-> {<<table[i].name, table[i].size>> : i \in Used}]
        /\ UNCHANGED diskVars

Exit == /\ Take([op |-> "EXIT"])
        /\ said' = [ended |-> TRUE]
        /\ UNCHANGED diskVars

\* The loop of main.
Prompt == /\ line # None /\ said # [ended |-> TRUE]
          /\ line' = None /\ said' = [ended |-> FALSE]
          /\ UNCHANGED diskVars

FsNext == \/ Prompt \/ List \/ Exit
          \/ \E n \in Names :
                \/ \E size \in Sizes : Create(n, size)
                \/ \E o \in Offsets, data \in Data : Write(n, o, data)
                \/ \E o \in Offsets, k \in Lengths : Read(n, o, k) \/ ReadWild(n, o, k)
                \/ Delete(n)

FsSpec == FsInit /\ [][FsNext]_fsVars

-----------------------------------------------------------------------------
(* Properties *)

\* After any sequence of commands a block is taken exactly if one file has it,
\* no two files share one or a name, every file fits its blocks without one to
\* spare, and num_files, on which CREATE relies, has not drifted from the table.
BlocksAccounted ==
    /\ numFiles = Cardinality(Used)
    /\ \A b \in Blocks : freeBlocks[b] <=> \A i \in Used : b \notin Extent(table[i])
    /\ \A i, j \in Used : i # j => /\ table[i].name # table[j].name
                                   /\ Extent(table[i]) \cap Extent(table[j]) = {}
    /\ \A i \in Used : /\ Extent(table[i]) \subseteq Blocks
                       /\ table[i].size <= table[i].num * BlockSize
                       /\ (table[i].num - 1) * BlockSize < table[i].size

\* What is under a name; nothing if there is no such file.
TextOf(n) == IF Found(n) = {} THEN <<>> ELSE Content(Entry(n))

Store == INSTANCE FileStore WITH
            MaxSize <- DiskSize, files <- [n \in Names |-> TextOf(n)]

\* Every command answers what the texts under the names say and changes no
\* other text; "Error interno" is never answered; with no file left, the whole
\* disk can be had again.
ImplementsFileStore ==
    Store!Init /\ [][Store!Next(Sizes, Offsets, Data, Lengths)]_(Store!vars)
=============================================================================
