----------------------------- MODULE FileStore -----------------------------
(***************************************************************************)
(* What the simulator of tarea-4 promises its user: files are texts under  *)
(* names.  Blocks, the table and fragmentation do not show, except that a  *)
(* CREATE may be refused while other files are there and that a new file   *)
(* holds whatever its blocks held before.                                  *)
(***************************************************************************)
EXTENDS Integers, Sequences

CONSTANTS
    Names,    \* file names
    Bytes,    \* what a byte of the disk may hold
    Nul,      \* the byte that ends a C string
    MaxSize,  \* 1 MB
    IntMax,   \* the largest int
    None      \* no command

VARIABLES
    files,    \* files[n]: the bytes of n; a file that is not there has none
    line,     \* the command being answered
    said      \* the answer

vars == <<files, line, said>>

Done    == [ok |-> TRUE]
Refused == [ok |-> FALSE]
Gone    == [ended |-> TRUE]     \* the program has ended
Silence == [ended |-> FALSE]    \* nothing has been answered

Init == /\ files = [n \in Names |-> <<>>]
        /\ line = None /\ said = Silence

Take(command) == line = None /\ line' = command

\* The next prompt.
Prompt == /\ line # None /\ said # Gone
          /\ line' = None /\ said' = Silence
          /\ UNCHANGED files

Here(n) == files[n] # <<>>

Refuse == said' = Refused /\ UNCHANGED files

\* With nothing else on the disk there is room for every legal size.
Create(n, size) ==
    /\ Take([op |-> "CREATE", name |-> n, size |-> size])
    /\ \/ /\ ~Here(n) /\ size \in 1..MaxSize
          /\ \E new \in {files'[n]} : files' = [files EXCEPT ![n] = new]
          /\ files'[n] \in Seq(Bytes) /\ Len(files'[n]) = size
          /\ said' = Done
       \/ /\ size \notin 1..MaxSize \/ \E m \in Names : Here(m)
          /\ Refuse

\* A write stops at the end of the file.
Write(n, o, data) ==
    /\ Take([op |-> "WRITE", name |-> n, at |-> o, text |-> data])
    /\ IF o \in 0..(Len(files[n]) - 1) /\ data # <<>>
       THEN /\ files' = [files EXCEPT ![n] =
                  [i \in 1..Len(files[n]) |->
                      IF i - o \in 1..Len(data) THEN data[i - o] ELSE files[n][i]]]
            /\ said' = Done
       ELSE Refuse

\* A read stops at the end of the file, and what is shown at the first NUL.
Read(n, o, k) ==
    /\ Take([op |-> "READ", name |-> n, at |-> o, size |-> k])
    /\ \/ /\ o \in 0..(Len(files[n]) - 1) /\ k > 0
          /\ \E j \in 0..(Len(files[n]) - o) :
                /\ j <= k
                /\ \A i \in 1..j : files[n][o + i] # Nul
                /\ j < k /\ j < Len(files[n]) - o => files[n][o + j + 1] = Nul
                /\ said' = [text |-> [i \in 1..j |-> files[n][o + i]]]
          /\ UNCHANGED files
       \/ /\ \/ o \notin 0..(Len(files[n]) - 1) \/ k <= 0
             \/ o + k > IntMax
          /\ Refuse
       \/ /\ o + k > IntMax
          /\ said' = Gone /\ UNCHANGED files

Delete(n) ==
    /\ Take([op |-> "DELETE", name |-> n])
    /\ IF Here(n)
       THEN files' = [files EXCEPT ![n] = <<>>] /\ said' = Done
       ELSE Refuse

List == /\ Take([op |-> "LIST"])
        /\ said' = [list |-> {<<n, Len(files[n])>> : n \in {m \in Names : Here(m)}}]
        /\ UNCHANGED files

Exit == /\ Take([op |-> "EXIT"])
        /\ said' = Gone
        /\ UNCHANGED files

Next(Sizes, Offsets, Data, Lengths) ==
    \/ Prompt \/ List \/ Exit
    \/ \E n \in Names :
          \/ \E size \in Sizes : Create(n, size)
          \/ \E o \in Offsets, data \in Data : Write(n, o, data)
          \/ \E o \in Offsets, k \in Lengths : Read(n, o, k)
          \/ Delete(n)
=============================================================================
