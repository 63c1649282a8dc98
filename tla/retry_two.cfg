\* Two workers, one submission, one fault.
CONSTANTS
    None = None
    Worker = {w1, w2}
    Submission = {a}
    Session = {}
    RetryLimit = 2
    PollLimit = 1
    ListLimit = 1
    Base = 1
    MaxDelay = 1
    Timeout = 2
    MaxTime = 3
    MaxFaults = 1
SPECIFICATION Spec
SYMMETRY Symmetry
INVARIANT CountsWithinLimit
