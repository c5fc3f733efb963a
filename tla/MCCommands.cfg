\* Two workers, one name and the empty one, two texts, loadtests of one or
\* two tasks, ints of three bits, one more start of the server.
CONSTANTS
    Calls = {c1, c2}
    Names = {n1}
    Empty = Empty
    Texts = {t1, t2}
    Absent = Absent
    Torn = Torn
    Unsure = Unsure
    None = None
    MaxTasks = 2
    IntMax = 3
    Limits <- LimitSet
    MaxStarts = 1
SPECIFICATION FairSpec
INVARIANTS
    AcknowledgedIsThere
    LoadtestJoins
PROPERTIES
    CommandsReturn
\* Nobody has to ask for a command.
CHECK_DEADLOCK FALSE
