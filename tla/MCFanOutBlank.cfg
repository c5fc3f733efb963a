\* A chunk of one empty line: the worker and the dispatcher wait for each other.
CONSTANTS
    N = 2
    MaxUnits = 2
    Kinds = {"words"}
    Blanks = TRUE
    QCap = 2
    MaxFaults = 0
SPECIFICATION FairSpec
PROPERTIES
    JobIsAnswered
\* The job is over.
CHECK_DEADLOCK FALSE
