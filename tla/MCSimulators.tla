---------------------------- MODULE MCSimulators ----------------------------
(* Instances of FileSystem and Allocator for TLC: two programs that have    *)
(* nothing to do with each other, of which a behaviour runs one.            *)
EXTENDS FileSystem, Allocator, TLC

VARIABLE program  \* the program that runs

ByteSet   == {"a", "b", "nul"}
SizeSet   == {-1, 1, 2, 3, 6, 7}
OffsetSet == {-1, 0, 1, 3}
Texts     == {<<>>, <<"a">>, <<"a", "b", "b">>}
LengthSet == {0, 2, 8}

Same == Permutations(Names) \union Permutations(Variables)

SimInit == /\ program \in {"tarea-3", "tarea-4"}
           /\ FsInit
           /\ AlInit /\ (program = "tarea-4" => algorithm = 1)

SimNext == \/ program = "tarea-4" /\ FsNext /\ UNCHANGED alVars /\ UNCHANGED program
           \/ program = "tarea-3" /\ AlNext /\ UNCHANGED fsVars /\ UNCHANGED program

SimSpec == SimInit /\ [][SimNext]_<<program, fsVars, alVars>>
=============================================================================
