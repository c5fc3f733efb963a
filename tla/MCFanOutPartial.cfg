\* A chunk nobody takes: the count leaves it out.
CONSTANTS
    N = 2
    MaxUnits = 2
    Kinds = {"words"}
    Blanks = FALSE
    QCap = 2
    MaxFaults = 1
SPECIFICATION Spec
INVARIANTS
    TotalIsComplete
\* The job is over.
CHECK_DEADLOCK FALSE
