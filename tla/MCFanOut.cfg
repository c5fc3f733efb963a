\* Two workers, jobs of up to three lines or iterations, two crashes or hangs, a text
\* without empty lines and queues with room.
CONSTANTS
    N = 2
    MaxUnits = 3
    Kinds = {"words", "pi"}
    Blanks = FALSE
    QCap = 2
    MaxFaults = 2
SPECIFICATION FairSpec
INVARIANTS
    ClosedAfterAll
    DepositsNeverBlock
    TotalOfLaunched
    CompleteIfNotSkipped
    PlanIsPartition
PROPERTIES
    JobIsAnswered
    ImplementsJob
\* The job is over.
CHECK_DEADLOCK FALSE
