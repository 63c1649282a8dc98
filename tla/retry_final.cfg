\* One worker, one submission, one fault.
CONSTANTS
    None = None
    Worker = {w1}
    Submission = {a}
    Session = {}
    RetryLimit = 2
    PollLimit = 2
    ListLimit = 1
    Base = 1
    MaxDelay = 2
    Timeout = 3
    MaxTime = 4
    MaxFaults = 1
SPECIFICATION Spec
PROPERTIES TerminalIsTerminal
