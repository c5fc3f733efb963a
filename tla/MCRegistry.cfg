\* Two worker servers that try up to three times, two connections, one end of
\* the dispatcher, two lost answers or relaunches, one server that hangs.
CONSTANTS
    Workers = {w1, w2}
    Conns = {1, 2}
    None = None
    Nil = Nil
    MaxRetries = 3
    MaxCrashes = 1
    MaxLosses = 2
    MaxHangs = 1
SPECIFICATION FairSpec
INVARIANTS
    TypeOK
    OneEntryEach
PROPERTIES
    ForgottenForGood
    ImplementsMembership
    RetriesSuffice
    NewWorkerIsChecked
\* Everybody is registered or has given up and no worker is known.
CHECK_DEADLOCK FALSE
