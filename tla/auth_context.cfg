\* Two executions with two attempts each, two logins, three access tokens.
CONSTANTS
    None = None
    w1 = w1
    w2 = w2
    l1 = l1
    l2 = l2
    t1 = t1
    t2 = t2
    t3 = t3
    Execution = {w1, w2}
    Login = {l1, l2}
    Token = {t1, t2, t3}
    MaxAttempts = 2
    MaxStatusPolls = 1
    PollInterval = 1
    Timeout = 1
    MaxLate = 1
SPECIFICATION Spec
SYMMETRY Symmetry
INVARIANTS TypeOK RedeemedIsStoredOrLost TimeoutErrorUnheard
PROPERTIES MixedOnlyByLateUpdate RevokedContextStays
CHECK_DEADLOCK FALSE
