\* One worker that hangs.
CONSTANTS
    N = 2
    Conns = {c1}
    Health = Health
    None = None
    QCap = 1
    MaxFaults = 0
    MaxHangs = 1
    CanLose = FALSE
SPECIFICATION FairSpec
PROPERTIES
    HealthCheckIsPeriodic
\* A goroutine that is blocked for good is what this run is about.
CHECK_DEADLOCK FALSE
