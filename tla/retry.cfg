\* One worker; one submission and one session; two faults.
CONSTANTS
    None = None
    Worker = {w1}
    Submission = {a}
    Session = {s}
    RetryLimit = 2
    PollLimit = 1
    ListLimit = 1
    Base = 1
    MaxDelay = 2
    Timeout = 2
    MaxTime = 3
    MaxFaults = 2
SPECIFICATION FairSpec
INVARIANTS TypeOK SendsAreCounted DeadLetterJustified
PROPERTIES BackoffRespected OverdueRowEnds
