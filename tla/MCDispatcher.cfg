\* Safety: two requests, two workers, one crash, replies cut short and clients
\* that leave; a queue with room for both tasks.
CONSTANTS
    N = 2
    Conns = {c1, c2}
    Health = Health
    None = None
    QCap = 2
    MaxFaults = 1
    MaxHangs = 0
    CanLose = TRUE
SPECIFICATION Spec
SYMMETRY Symmetry
INVARIANTS
    TypeOK
    LockOwner
    TaskInOnePlace
    ActiveCovers
    Outcomes
PROPERTIES
    ImplementsBoard
