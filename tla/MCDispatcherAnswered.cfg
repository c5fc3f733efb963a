\* A worker is found dead while its reply is on the way.
CONSTANTS
    N = 2
    Conns = {c1}
    Health = Health
    None = None
    QCap = 1
    MaxFaults = 1
    MaxHangs = 0
    CanLose = FALSE
SPECIFICATION Spec
INVARIANTS
    AnsweredTaskIsGone
