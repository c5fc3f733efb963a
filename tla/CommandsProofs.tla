--------------------------- MODULE CommandsProofs ---------------------------
(***************************************************************************)
(* Theorems about Commands, for any number of workers, names and tasks.    *)
(***************************************************************************)
EXTENDS Commands, TLAPS

Labels == {"idle", "begin", "bad", "lock", "open", "write", "remove",
           "launch", "join", "ok", "failed", "unlock", "unlockFailed"}

TypeInv == /\ alive \in BOOLEAN /\ starts \in Nat
           /\ at \in [Calls -> Labels]
           /\ job \in [Calls -> Jobs \union {NoJob}]
           /\ mutex \in Calls \union {None}
           /\ there \in BOOLEAN
           /\ folder \in [Names -> Texts \union {Absent, Torn}]
           /\ told \in [Names -> Texts \union {Absent, Unsure}]
           /\ started \in [Calls -> Nat]
           /\ finished \in [Calls -> Nat]
           /\ wg \in [Calls -> Int]

\* Which command can stand where.
JobInv == \A c \in Calls :
    /\ at[c] = "idle" <=> job[c] = NoJob
    /\ at[c] \in {"open", "write"} => job[c].op = "createfile"
    /\ at[c] = "write" => job[c].name \in Names
    /\ at[c] = "remove" => job[c].op = "deletefile"
    /\ at[c] \in {"lock", "failed", "unlock", "unlockFailed"} => OnFiles(c)
    /\ at[c] \in {"launch", "join"} => job[c].op = "loadtest"

\* From Lock to Unlock a command of files has the mutex.
Inside(c) == \/ at[c] \in {"open", "write", "remove", "failed", "unlock", "unlockFailed"}
             \/ at[c] = "ok" /\ OnFiles(c)

MutexInv == \A c \in Calls : Inside(c) => mutex = c

\* Before the answer the file is as the answer will say, and while it is
\* written nothing is said of it.
DoneInv == \A c \in Calls, n \in Names :
    at[c] = "ok" /\ OnFiles(c) =>
       /\ job[c].op = "createfile" /\ job[c].name = n => folder[n] = job[c].text
       /\ job[c].op = "deletefile" /\ job[c].name = n => folder[n] = Absent

WriteInv == \A c \in Calls : at[c] = "write" => told[job[c].name] = Unsure

FileInv == TypeInv /\ JobInv /\ MutexInv /\ DoneInv /\ WriteInv /\ AcknowledgedIsThere

\* The WaitGroup counts the goroutines that have not ended.
TaskInv == \A c \in Calls :
    /\ finished[c] <= started[c]
    /\ wg[c] = started[c] - finished[c]
    /\ at[c] = "launch" => started[c] <= job[c].tasks
    /\ at[c] = "join" => started[c] = job[c].tasks
    /\ at[c] \notin {"launch", "join"} => finished[c] = started[c]
    /\ at[c] = "ok" /\ job[c].op = "loadtest" => finished[c] = job[c].tasks
    /\ at[c] \in {"idle", "begin", "bad", "lock", "open", "write", "remove",
                  "failed", "unlock", "unlockFailed"} => started[c] = 0

-----------------------------------------------------------------------------
\* What the parameters of a command are.
LEMMA JobFields ==
    ASSUME NEW j \in Jobs \union {NoJob}
    PROVE  /\ j.op \in {"createfile", "deletefile", "loadtest", "random", "other", "none"}
           /\ j.op = "none" <=> j = NoJob
           /\ j.op \in {"createfile", "deletefile"} => j.name \in Names \union {Empty}
           /\ j.op = "createfile" => j.text \in Texts
           /\ j.op = "loadtest" => j.tasks \in 1..MaxTasks
  BY DEF Jobs, NoJob

LEMMA InitFileInv == Init => FileInv
  BY CommandsAssumption
     DEF Init, FileInv, TypeInv, JobInv, MutexInv, DoneInv, WriteInv,
         AcknowledgedIsThere, Inside, OnFiles, Labels, NoJob

\* Everybody is gone after a panic; the files stay.
LEMMA DieFileInv == FileInv /\ Die => FileInv'
<1> SUFFICES ASSUME FileInv, Die PROVE FileInv'
  OBVIOUS
<1>1. TypeInv'
  <2>1. UNCHANGED <<starts, there, folder, told>>
    BY DEF Die, fileVars
  <2>2. /\ alive' \in BOOLEAN /\ mutex' \in Calls \union {None}
        /\ at' \in [Calls -> Labels] /\ job' \in [Calls -> Jobs \union {NoJob}]
    BY DEF Die, Labels
  <2>3. /\ started' \in [Calls -> Nat] /\ finished' \in [Calls -> Nat]
        /\ wg' \in [Calls -> Int]
    BY DEF Die
  <2> QED
    BY <2>1, <2>2, <2>3 DEF FileInv, TypeInv
<1>2. JobInv'
  <2>1. \A c \in Calls : at'[c] = "idle" /\ job'[c] = NoJob
    BY DEF Die
  <2> QED
    BY <2>1 DEF JobInv, OnFiles
<1>3. MutexInv' /\ DoneInv' /\ WriteInv'
  <2>1. \A c \in Calls : at'[c] = "idle"
    BY DEF Die
  <2> QED
    BY <2>1 DEF MutexInv, DoneInv, WriteInv, Inside, OnFiles
<1>4. AcknowledgedIsThere'
  BY DEF Die, fileVars, FileInv, AcknowledgedIsThere
<1> QED
  BY <1>1, <1>2, <1>3, <1>4 DEF FileInv

\* Every step keeps the types.
LEMMA NextTypeInv == FileInv /\ [Next]_vars => TypeInv'
<1> SUFFICES ASSUME FileInv, [Next]_vars PROVE TypeInv'
  OBVIOUS
<1> USE CommandsAssumption DEF FileInv, TypeInv, Labels, Goto, fileVars, taskVars
<1>1. ASSUME NEW c \in Calls, NEW j \in Jobs, Begin(c, j) PROVE TypeInv'
  BY <1>1 DEF Begin
<1>2. ASSUME NEW c \in Calls, Enter(c) PROVE TypeInv'
  <2>1. CASE Die
    BY <2>1, DieFileInv
  <2>2. CASE ~Die
    BY <1>2, <2>2 DEF Enter
  <2> QED
    BY <2>1, <2>2
<1>3. ASSUME NEW c \in Calls, Lock(c) PROVE TypeInv'
  BY <1>3 DEF Lock
<1>4. ASSUME NEW c \in Calls, Open(c) \/ OpenFails(c) PROVE TypeInv'
  BY <1>4 DEF Open, OpenFails
<1>5. ASSUME NEW c \in Calls, Put(c) PROVE TypeInv'
  <2>1. job[c].text \in Texts
    BY <1>5, JobFields DEF Put, JobInv
  <2> QED
    BY <1>5, <2>1 DEF Put
<1>6. ASSUME NEW c \in Calls, Remove(c) PROVE TypeInv'
  <2> DEFINE n == job[c].name
  <2>1. /\ there' \in BOOLEAN /\ folder' \in [Names -> Texts \union {Absent, Torn}]
        /\ told' \in [Names -> Texts \union {Absent, Unsure}]
    <3>1. CASE UNCHANGED fileVars
      BY <3>1
    <3>2. CASE /\ there' = (n # Empty)
               /\ folder' = [m \in Names |-> IF m = n THEN Absent ELSE folder[m]]
               /\ told' = [m \in Names |-> IF m = n THEN Unsure ELSE told[m]]
      <4> HIDE DEF n
      <4> QED
        BY <3>2
    <3> QED
      BY <1>6, <3>1, <3>2 DEF Remove
  <2>2. at' \in [Calls -> Labels] /\ UNCHANGED <<alive, starts, job, mutex, taskVars>>
    BY <1>6 DEF Remove
  <2> QED
    BY <2>1, <2>2
<1>7. ASSUME NEW c \in Calls, Answer(c) PROVE TypeInv'
  <2>1. OnFiles(c) /\ job[c].op = "createfile" => job[c].text \in Texts
    BY JobFields DEF OnFiles
  <2>2. told' \in [Names -> Texts \union {Absent, Unsure}]
    BY <1>7, <2>1 DEF Answer, OnFiles
  <2>3. at' \in [Calls -> Labels] /\ job' \in [Calls -> Jobs \union {NoJob}]
    BY <1>7 DEF Answer
  <2>4. started' \in [Calls -> Nat] /\ finished' \in [Calls -> Nat]
    BY <1>7 DEF Answer
  <2>5. UNCHANGED <<alive, starts, mutex, there, folder, wg>>
    BY <1>7 DEF Answer
  <2> QED
    BY <2>2, <2>3, <2>4, <2>5
<1>8. ASSUME NEW c \in Calls, Unlock(c) PROVE TypeInv'
  BY <1>8 DEF Unlock
<1>9. ASSUME NEW c \in Calls, Launch(c) PROVE TypeInv'
  BY <1>9 DEF Launch
<1>10. ASSUME NEW c \in Calls, Looped(c) \/ Join(c) PROVE TypeInv'
  BY <1>10 DEF Looped, Join
<1>11. ASSUME NEW c \in Calls, TaskEnds(c) PROVE TypeInv'
  BY <1>11 DEF TaskEnds
<1>12. CASE Restart
  BY <1>12 DEF Restart
<1>13. CASE UNCHANGED vars
  BY <1>13 DEF vars
<1> QED
  BY <1>1, <1>2, <1>3, <1>4, <1>5, <1>6, <1>7, <1>8, <1>9, <1>10, <1>11, <1>12,
     <1>13 DEF Next, Step

\* A handler goes through the code of its own command only.
LEMMA NextJobInv == FileInv /\ [Next]_vars => JobInv'
<1> SUFFICES ASSUME FileInv, [Next]_vars PROVE JobInv'
  OBVIOUS
<1> USE CommandsAssumption DEF FileInv, TypeInv, Goto, fileVars, taskVars
<1>1. ASSUME NEW c \in Calls, NEW j \in Jobs, Begin(c, j) PROVE JobInv'
  <2>1. j # NoJob
    BY DEF Jobs, NoJob
  <2> QED
    BY <1>1, <2>1 DEF Begin, JobInv, OnFiles
<1>2. ASSUME NEW c \in Calls, Enter(c) PROVE JobInv'
  <2>1. CASE Die
    BY <2>1, DieFileInv
  <2>2. CASE ~Die
    BY <1>2, <2>2 DEF Enter, JobInv, OnFiles
  <2> QED
    BY <2>1, <2>2
<1>3. ASSUME NEW c \in Calls, Lock(c) PROVE JobInv'
  BY <1>3 DEF Lock, JobInv, OnFiles
<1>4. ASSUME NEW c \in Calls, Open(c) \/ OpenFails(c) PROVE JobInv'
  <2>1. job[c].name \in Names \union {Empty}
    BY <1>4, JobFields DEF Open, OpenFails, JobInv
  <2> QED
    BY <1>4, <2>1 DEF Open, OpenFails, JobInv, OnFiles
<1>5. ASSUME NEW c \in Calls, Put(c) PROVE JobInv'
  BY <1>5 DEF Put, JobInv, OnFiles
<1>6. ASSUME NEW c \in Calls, Remove(c) PROVE JobInv'
  BY <1>6 DEF Remove, JobInv, OnFiles
<1>7. ASSUME NEW c \in Calls, Answer(c) PROVE JobInv'
  BY <1>7 DEF Answer, JobInv, OnFiles
<1>8. ASSUME NEW c \in Calls, Unlock(c) PROVE JobInv'
  BY <1>8 DEF Unlock, JobInv, OnFiles
<1>9. ASSUME NEW c \in Calls, Launch(c) PROVE JobInv'
  BY <1>9 DEF Launch, JobInv, OnFiles
<1>10. ASSUME NEW c \in Calls, Looped(c) \/ Join(c) PROVE JobInv'
  BY <1>10 DEF Looped, Join, JobInv, OnFiles
<1>11. ASSUME NEW c \in Calls, TaskEnds(c) PROVE JobInv'
  BY <1>11 DEF TaskEnds, JobInv, OnFiles
<1>12. CASE Restart \/ UNCHANGED vars
  BY <1>12 DEF Restart, vars, JobInv, OnFiles
<1> QED
  BY <1>1, <1>2, <1>3, <1>4, <1>5, <1>6, <1>7, <1>8, <1>9, <1>10, <1>11,
     <1>12 DEF Next, Step

\* Nobody gets between Lock and Unlock while another is there.
LEMMA NextMutexInv == FileInv /\ [Next]_vars => MutexInv'
<1> SUFFICES ASSUME FileInv, [Next]_vars PROVE MutexInv'
  OBVIOUS
<1> USE CommandsAssumption DEF FileInv, TypeInv, Goto, fileVars, taskVars
<1>1. ASSUME NEW c \in Calls, NEW j \in Jobs, Begin(c, j) PROVE MutexInv'
  <2>1. j # NoJob
    BY DEF Jobs, NoJob
  <2> QED
    BY <1>1, <2>1 DEF Begin, MutexInv, JobInv, Inside, OnFiles
<1>2. ASSUME NEW c \in Calls, Enter(c) PROVE MutexInv'
  <2>1. CASE Die
    BY <2>1, DieFileInv
  <2>2. CASE ~Die
    BY <1>2, <2>2 DEF Enter, MutexInv, JobInv, Inside, OnFiles
  <2> QED
    BY <2>1, <2>2
<1>3. ASSUME NEW c \in Calls, Lock(c) PROVE MutexInv'
  BY <1>3 DEF Lock, MutexInv, JobInv, Inside, OnFiles
<1>4. ASSUME NEW c \in Calls, Open(c) \/ OpenFails(c) PROVE MutexInv'
  BY <1>4 DEF Open, OpenFails, MutexInv, JobInv, Inside, OnFiles
<1>5. ASSUME NEW c \in Calls, Put(c) PROVE MutexInv'
  BY <1>5 DEF Put, MutexInv, JobInv, Inside, OnFiles
<1>6. ASSUME NEW c \in Calls, Remove(c) PROVE MutexInv'
  BY <1>6 DEF Remove, MutexInv, JobInv, Inside, OnFiles
<1>7. ASSUME NEW c \in Calls, Answer(c) PROVE MutexInv'
  BY <1>7 DEF Answer, MutexInv, JobInv, Inside, OnFiles
<1>8. ASSUME NEW c \in Calls, Unlock(c) PROVE MutexInv'
  BY <1>8 DEF Unlock, MutexInv, JobInv, Inside, OnFiles
<1>9. ASSUME NEW c \in Calls, Launch(c) PROVE MutexInv'
  BY <1>9 DEF Launch, MutexInv, JobInv, Inside, OnFiles
<1>10. ASSUME NEW c \in Calls, Looped(c) \/ Join(c) PROVE MutexInv'
  BY <1>10 DEF Looped, Join, MutexInv, JobInv, Inside, OnFiles
<1>11. ASSUME NEW c \in Calls, TaskEnds(c) PROVE MutexInv'
  BY <1>11 DEF TaskEnds, MutexInv, JobInv, Inside, OnFiles
<1>12. CASE Restart \/ UNCHANGED vars
  BY <1>12 DEF Restart, vars, MutexInv, JobInv, Inside, OnFiles
<1> QED
  BY <1>1, <1>2, <1>3, <1>4, <1>5, <1>6, <1>7, <1>8, <1>9, <1>10, <1>11,
     <1>12 DEF Next, Step

\* Only the holder of the mutex changes a file.
LEMMA NextDoneInv == FileInv /\ [Next]_vars => DoneInv'
<1> SUFFICES ASSUME FileInv, [Next]_vars PROVE DoneInv'
  OBVIOUS
<1> USE CommandsAssumption DEF FileInv, TypeInv, Goto, fileVars, taskVars
<1>1. ASSUME NEW c \in Calls, NEW j \in Jobs, Begin(c, j) PROVE DoneInv'
  <2>1. j # NoJob
    BY DEF Jobs, NoJob
  <2> QED
    BY <1>1, <2>1 DEF Begin, DoneInv, MutexInv, JobInv, Inside, OnFiles
<1>2. ASSUME NEW c \in Calls, Enter(c) PROVE DoneInv'
  <2>1. CASE Die
    BY <2>1, DieFileInv
  <2>2. CASE ~Die
    BY <1>2, <2>2 DEF Enter, DoneInv, MutexInv, JobInv, Inside, OnFiles
  <2> QED
    BY <2>1, <2>2
<1>3. ASSUME NEW c \in Calls, Lock(c) PROVE DoneInv'
  BY <1>3 DEF Lock, DoneInv, MutexInv, JobInv, Inside, OnFiles
<1>4. ASSUME NEW c \in Calls, Open(c) \/ OpenFails(c) PROVE DoneInv'
  BY <1>4 DEF Open, OpenFails, DoneInv, MutexInv, JobInv, Inside, OnFiles
<1>5. ASSUME NEW c \in Calls, Put(c) PROVE DoneInv'
  BY <1>5 DEF Put, DoneInv, MutexInv, JobInv, Inside, OnFiles
<1>6. ASSUME NEW c \in Calls, Remove(c) PROVE DoneInv'
  BY <1>6 DEF Remove, DoneInv, MutexInv, JobInv, Inside, OnFiles
<1>7. ASSUME NEW c \in Calls, Answer(c) PROVE DoneInv'
  BY <1>7 DEF Answer, DoneInv, MutexInv, JobInv, Inside, OnFiles
<1>8. ASSUME NEW c \in Calls, Unlock(c) PROVE DoneInv'
  BY <1>8 DEF Unlock, DoneInv, MutexInv, JobInv, Inside, OnFiles
<1>9. ASSUME NEW c \in Calls, Launch(c) PROVE DoneInv'
  BY <1>9 DEF Launch, DoneInv, MutexInv, JobInv, Inside, OnFiles
<1>10. ASSUME NEW c \in Calls, Looped(c) \/ Join(c) PROVE DoneInv'
  BY <1>10 DEF Looped, Join, DoneInv, MutexInv, JobInv, Inside, OnFiles
<1>11. ASSUME NEW c \in Calls, TaskEnds(c) PROVE DoneInv'
  BY <1>11 DEF TaskEnds, DoneInv, MutexInv, JobInv, Inside, OnFiles
<1>12. CASE Restart \/ UNCHANGED vars
  BY <1>12 DEF Restart, vars, DoneInv, MutexInv, JobInv, Inside, OnFiles
<1> QED
  BY <1>1, <1>2, <1>3, <1>4, <1>5, <1>6, <1>7, <1>8, <1>9, <1>10, <1>11,
     <1>12 DEF Next, Step

\* While a file is written nobody answers for it.
LEMMA NextWriteInv == FileInv /\ [Next]_vars => WriteInv'
<1> SUFFICES ASSUME FileInv, [Next]_vars PROVE WriteInv'
  OBVIOUS
<1> USE CommandsAssumption DEF FileInv, TypeInv, Goto, fileVars, taskVars
<1>1. ASSUME NEW c \in Calls, NEW j \in Jobs, Begin(c, j) PROVE WriteInv'
  <2>1. j # NoJob
    BY DEF Jobs, NoJob
  <2> QED
    BY <1>1, <2>1 DEF Begin, WriteInv, MutexInv, JobInv, Inside, OnFiles
<1>2. ASSUME NEW c \in Calls, Enter(c) PROVE WriteInv'
  <2>1. CASE Die
    BY <2>1, DieFileInv
  <2>2. CASE ~Die
    BY <1>2, <2>2 DEF Enter, WriteInv, MutexInv, JobInv, Inside, OnFiles
  <2> QED
    BY <2>1, <2>2
<1>3. ASSUME NEW c \in Calls, Lock(c) PROVE WriteInv'
  BY <1>3 DEF Lock, WriteInv, MutexInv, JobInv, Inside, OnFiles
<1>4. ASSUME NEW c \in Calls, Open(c) \/ OpenFails(c) PROVE WriteInv'
  <2>1. job[c].name \in Names \union {Empty}
    BY <1>4, JobFields DEF Open, OpenFails, JobInv
  <2> QED
    BY <1>4, <2>1 DEF Open, OpenFails, WriteInv, MutexInv, JobInv, Inside, OnFiles
<1>5. ASSUME NEW c \in Calls, Put(c) PROVE WriteInv'
  BY <1>5 DEF Put, WriteInv, MutexInv, JobInv, Inside, OnFiles
<1>6. ASSUME NEW c \in Calls, Remove(c) PROVE WriteInv'
  BY <1>6 DEF Remove, WriteInv, MutexInv, JobInv, Inside, OnFiles
<1>7. ASSUME NEW c \in Calls, Answer(c) PROVE WriteInv'
  BY <1>7 DEF Answer, WriteInv, MutexInv, JobInv, Inside, OnFiles
<1>8. ASSUME NEW c \in Calls, Unlock(c) PROVE WriteInv'
  BY <1>8 DEF Unlock, WriteInv, MutexInv, JobInv, Inside, OnFiles
<1>9. ASSUME NEW c \in Calls, Launch(c) PROVE WriteInv'
  BY <1>9 DEF Launch, WriteInv, MutexInv, JobInv, Inside, OnFiles
<1>10. ASSUME NEW c \in Calls, Looped(c) \/ Join(c) PROVE WriteInv'
  BY <1>10 DEF Looped, Join, WriteInv, MutexInv, JobInv, Inside, OnFiles
<1>11. ASSUME NEW c \in Calls, TaskEnds(c) PROVE WriteInv'
  BY <1>11 DEF TaskEnds, WriteInv, MutexInv, JobInv, Inside, OnFiles
<1>12. CASE Restart \/ UNCHANGED vars
  BY <1>12 DEF Restart, vars, WriteInv, MutexInv, JobInv, Inside, OnFiles
<1> QED
  BY <1>1, <1>2, <1>3, <1>4, <1>5, <1>6, <1>7, <1>8, <1>9, <1>10, <1>11,
     <1>12 DEF Next, Step

\* What was answered stays true until the file is opened or removed.
LEMMA NextAcknowledged == FileInv /\ [Next]_vars => AcknowledgedIsThere'
<1> SUFFICES ASSUME FileInv, [Next]_vars PROVE AcknowledgedIsThere'
  OBVIOUS
<1> USE CommandsAssumption DEF FileInv, TypeInv, Goto, fileVars, taskVars
<1>1. ASSUME NEW c \in Calls, NEW j \in Jobs, Begin(c, j) PROVE AcknowledgedIsThere'
  <2>1. j # NoJob
    BY DEF Jobs, NoJob
  <2> QED
    BY <1>1, <2>1 DEF Begin, AcknowledgedIsThere, DoneInv, MutexInv, JobInv, Inside, OnFiles
<1>2. ASSUME NEW c \in Calls, Enter(c) PROVE AcknowledgedIsThere'
  <2>1. CASE Die
    BY <2>1, DieFileInv
  <2>2. CASE ~Die
    BY <1>2, <2>2 DEF Enter, AcknowledgedIsThere, DoneInv, MutexInv, JobInv, Inside, OnFiles
  <2> QED
    BY <2>1, <2>2
<1>3. ASSUME NEW c \in Calls, Lock(c) PROVE AcknowledgedIsThere'
  BY <1>3 DEF Lock, AcknowledgedIsThere, DoneInv, MutexInv, JobInv, Inside, OnFiles
<1>4. ASSUME NEW c \in Calls, Open(c) \/ OpenFails(c) PROVE AcknowledgedIsThere'
  BY <1>4
  DEF Open, OpenFails, AcknowledgedIsThere, DoneInv, MutexInv, JobInv, Inside, OnFiles
<1>5. ASSUME NEW c \in Calls, Put(c) PROVE AcknowledgedIsThere'
  BY <1>5 DEF Put, AcknowledgedIsThere, WriteInv, DoneInv, MutexInv, JobInv, Inside, OnFiles
<1>6. ASSUME NEW c \in Calls, Remove(c) PROVE AcknowledgedIsThere'
  BY <1>6 DEF Remove, AcknowledgedIsThere, DoneInv, MutexInv, JobInv, Inside, OnFiles
<1>7. ASSUME NEW c \in Calls, Answer(c) PROVE AcknowledgedIsThere'
  BY <1>7 DEF Answer, AcknowledgedIsThere, DoneInv, MutexInv, JobInv, Inside, OnFiles
<1>8. ASSUME NEW c \in Calls, Unlock(c) PROVE AcknowledgedIsThere'
  BY <1>8 DEF Unlock, AcknowledgedIsThere, DoneInv, MutexInv, JobInv, Inside, OnFiles
<1>9. ASSUME NEW c \in Calls, Launch(c) PROVE AcknowledgedIsThere'
  BY <1>9 DEF Launch, AcknowledgedIsThere, DoneInv, MutexInv, JobInv, Inside, OnFiles
<1>10. ASSUME NEW c \in Calls, Looped(c) \/ Join(c) PROVE AcknowledgedIsThere'
  BY <1>10 DEF Looped, Join, AcknowledgedIsThere, DoneInv, MutexInv, JobInv, Inside, OnFiles
<1>11. ASSUME NEW c \in Calls, TaskEnds(c) PROVE AcknowledgedIsThere'
  BY <1>11 DEF TaskEnds, AcknowledgedIsThere, DoneInv, MutexInv, JobInv, Inside, OnFiles
<1>12. CASE Restart \/ UNCHANGED vars
  BY <1>12 DEF Restart, vars, AcknowledgedIsThere, DoneInv, MutexInv, JobInv, Inside, OnFiles
<1> QED
  BY <1>1, <1>2, <1>3, <1>4, <1>5, <1>6, <1>7, <1>8, <1>9, <1>10, <1>11,
     <1>12 DEF Next, Step

\* Who is answered 200 by createfile or deletefile finds in files/ what the
\* answer says until another command gets to the file: the mutex keeps the
\* others out, and a panic or a restart changes no file.
THEOREM Acknowledged == Spec => []AcknowledgedIsThere
<1>1. FileInv /\ [Next]_vars => FileInv'
  BY NextTypeInv, NextJobInv, NextMutexInv, NextDoneInv, NextWriteInv,
     NextAcknowledged DEF FileInv
<1>2. FileInv => AcknowledgedIsThere
  BY DEF FileInv
<1> QED
  BY InitFileInv, <1>1, <1>2, PTL DEF Spec

-----------------------------------------------------------------------------
LEMMA InitTaskInv == Init => TaskInv
<1> SUFFICES ASSUME Init, NEW c \in Calls PROVE TaskInv!(c)
  BY DEF TaskInv
<1>1. at[c] = "idle" /\ started[c] = 0 /\ finished[c] = 0 /\ wg[c] = 0
  BY DEF Init
<1> QED
  BY <1>1

\* The count goes with the goroutines, and is back at zero with an answer.
LEMMA NextTaskInv == FileInv /\ TaskInv /\ [Next]_vars => TaskInv'
<1> SUFFICES ASSUME FileInv, TaskInv, [Next]_vars PROVE TaskInv'
  OBVIOUS
<1> USE CommandsAssumption DEF FileInv, TypeInv, Goto, fileVars, taskVars
<1>1. ASSUME NEW c \in Calls, NEW j \in Jobs, Begin(c, j) PROVE TaskInv'
  BY <1>1 DEF Begin, TaskInv
<1>2. ASSUME NEW c \in Calls, Enter(c) PROVE TaskInv'
  <2>1. CASE Die
    BY <2>1 DEF Die, TaskInv
  <2>2. CASE ~Die
    <3>1. job[c].op = "loadtest" => job[c].tasks \in Nat
      BY JobFields
    <3>2. /\ at[c] = "begin"
          /\ \/ job[c].op # "loadtest" /\ \E l \in {"lock", "ok"} : Goto(c, l)
             \/ job[c].op = "loadtest" /\ Goto(c, "launch")
          /\ UNCHANGED <<job, started, finished, wg>>
      BY <1>2, <2>2 DEF Enter
    <3> QED
      BY <3>1, <3>2 DEF TaskInv
  <2> QED
    BY <2>1, <2>2
<1>3. ASSUME NEW c \in Calls, Lock(c) PROVE TaskInv'
  BY <1>3 DEF Lock, TaskInv
<1>4. ASSUME NEW c \in Calls, Open(c) \/ OpenFails(c) PROVE TaskInv'
  BY <1>4 DEF Open, OpenFails, TaskInv
<1>5. ASSUME NEW c \in Calls, Put(c) PROVE TaskInv'
  BY <1>5 DEF Put, JobInv, TaskInv
<1>6. ASSUME NEW c \in Calls, Remove(c) PROVE TaskInv'
  BY <1>6 DEF Remove, JobInv, TaskInv
<1>7. ASSUME NEW c \in Calls, Answer(c) PROVE TaskInv'
  BY <1>7 DEF Answer, TaskInv
<1>8. ASSUME NEW c \in Calls, Unlock(c) PROVE TaskInv'
  BY <1>8 DEF Unlock, TaskInv
<1>9. ASSUME NEW c \in Calls, Launch(c) PROVE TaskInv'
  <2>1. job[c].tasks \in Nat
    BY <1>9, JobFields DEF Launch, JobInv
  <2> QED
    BY <1>9, <2>1 DEF Launch, TaskInv
<1>10. ASSUME NEW c \in Calls, Looped(c) \/ Join(c) PROVE TaskInv'
  <2>1. job[c].tasks \in Nat
    BY <1>10, JobFields DEF Looped, Join, JobInv
  <2> QED
    BY <1>10, <2>1 DEF Looped, Join, TaskInv
<1>11. ASSUME NEW c \in Calls, TaskEnds(c) PROVE TaskInv'
  BY <1>11 DEF TaskEnds, TaskInv
<1>12. CASE Restart \/ UNCHANGED vars
  BY <1>12 DEF Restart, vars, TaskInv
<1> QED
  BY <1>1, <1>2, <1>3, <1>4, <1>5, <1>6, <1>7, <1>8, <1>9, <1>10, <1>11, <1>12
     DEF Next, Step

\* loadtest answers only after it has begun every task that was asked for and
\* every one of them has ended.
THEOREM Joined == Spec => []LoadtestJoins
<1>1. FileInv /\ TaskInv /\ [Next]_vars => (FileInv /\ TaskInv)'
  BY NextTypeInv, NextJobInv, NextMutexInv, NextDoneInv, NextWriteInv,
     NextAcknowledged, NextTaskInv DEF FileInv
<1>2. Init => FileInv /\ TaskInv
  BY InitFileInv, InitTaskInv
<1>3. FileInv /\ TaskInv => LoadtestJoins
  BY DEF TaskInv, LoadtestJoins
<1> QED
  BY <1>1, <1>2, <1>3, PTL DEF Spec

-----------------------------------------------------------------------------
\* FilesMutex belongs to the command that stands between its Lock and the end of
\* its defer, and to nobody when none does.
FilesMutexOwned == \A c \in Calls : mutex = c <=> Inside(c)

LEMMA NextFilesMutex ==
    FileInv /\ FilesMutexOwned /\ [Next]_vars => \A c \in Calls : mutex' = c => Inside(c)'
<1> SUFFICES ASSUME FileInv, FilesMutexOwned, [Next]_vars, NEW d \in Calls, mutex' = d
             PROVE  Inside(d)'
  OBVIOUS
<1> USE CommandsAssumption DEF FileInv, TypeInv, Goto, fileVars, taskVars
<1>1. ASSUME NEW c \in Calls, NEW j \in Jobs, Begin(c, j) PROVE Inside(d)'
  <2>1. d # c
    BY <1>1 DEF Begin, FilesMutexOwned, Inside
  <2> QED
    BY <1>1, <2>1 DEF Begin, FilesMutexOwned, Inside, OnFiles
<1>2. ASSUME NEW c \in Calls, Enter(c) PROVE Inside(d)'
  <2>1. ~Die
    BY DEF Die
  <2> QED
    BY <1>2, <2>1 DEF Enter, FilesMutexOwned, Inside, OnFiles
<1>3. ASSUME NEW c \in Calls, Lock(c) PROVE Inside(d)'
  BY <1>3 DEF Lock, Inside
<1>4. ASSUME NEW c \in Calls, Open(c) \/ OpenFails(c) PROVE Inside(d)'
  BY <1>4 DEF Open, OpenFails, FilesMutexOwned, JobInv, Inside, OnFiles
<1>5. ASSUME NEW c \in Calls, Put(c) PROVE Inside(d)'
  BY <1>5 DEF Put, FilesMutexOwned, JobInv, Inside, OnFiles
<1>6. ASSUME NEW c \in Calls, Remove(c) PROVE Inside(d)'
  BY <1>6 DEF Remove, FilesMutexOwned, JobInv, Inside, OnFiles
<1>7. ASSUME NEW c \in Calls, Answer(c) PROVE Inside(d)'
  BY <1>7 DEF Answer, FilesMutexOwned, JobInv, Inside, OnFiles
<1>8. ASSUME NEW c \in Calls, Unlock(c) PROVE Inside(d)'
  BY <1>8 DEF Unlock
<1>9. ASSUME NEW c \in Calls, Launch(c) PROVE Inside(d)'
  BY <1>9 DEF Launch, FilesMutexOwned, Inside, OnFiles
<1>10. ASSUME NEW c \in Calls, Looped(c) \/ Join(c) PROVE Inside(d)'
  BY <1>10 DEF Looped, Join, FilesMutexOwned, JobInv, Inside, OnFiles
<1>11. ASSUME NEW c \in Calls, TaskEnds(c) PROVE Inside(d)'
  BY <1>11 DEF TaskEnds, FilesMutexOwned, Inside, OnFiles
<1>12. CASE Restart \/ UNCHANGED vars
  BY <1>12 DEF Restart, vars, FilesMutexOwned, Inside, OnFiles
<1> QED
  BY <1>1, <1>2, <1>3, <1>4, <1>5, <1>6, <1>7, <1>8, <1>9, <1>10, <1>11,
     <1>12 DEF Next, Step

\* No way through createfile or deletefile leaves the files locked, those of an
\* error and those that a panic of somebody else cuts short included.
THEOREM MutexGivenBack == Spec => []FilesMutexOwned
<1>1. Init => FilesMutexOwned
  BY CommandsAssumption DEF Init, FilesMutexOwned, Inside
<1>2. FileInv /\ FilesMutexOwned /\ [Next]_vars => FilesMutexOwned'
  BY NextFilesMutex, NextMutexInv DEF FilesMutexOwned, MutexInv
<1>3. FileInv /\ [Next]_vars => FileInv'
  BY NextTypeInv, NextJobInv, NextMutexInv, NextDoneInv, NextWriteInv,
     NextAcknowledged DEF FileInv
<1> QED
  BY InitFileInv, <1>1, <1>2, <1>3, PTL DEF Spec
=============================================================================
