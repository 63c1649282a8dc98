\* Three requests of any kind, two logins, three access tokens.
CONSTANTS
    None = None
    c1 = c1
    c2 = c2
    c3 = c3
    l1 = l1
    l2 = l2
    t1 = t1
    t2 = t2
    t3 = t3
    Request = {c1, c2, c3}
    Login = {l1, l2}
    Token = {t1, t2, t3}
    MaxPolls = 2
SPECIFICATION Spec
SYMMETRY Symmetry
INVARIANTS TypeOK
PROPERTIES MixedOnlyByLostUpdate RevokedOnlyByRefresh LiveLoginForgottenOnlyByOverlap
CHECK_DEADLOCK FALSE
