\* One handler and the health check, two workers that crash twice, come back,
\* or hang.
CONSTANTS
    N = 2
    Conns = {c1}
    Health = Health
    None = None
    QCap = 1
    MaxFaults = 2
    MaxHangs = 1
    CanLose = TRUE
SPECIFICATION FairSpec
PROPERTIES
    HangIsContained
    StatusConverges
    ChecksComeRound
\* The health check and the handler may both be held by a worker that hangs.
CHECK_DEADLOCK FALSE
