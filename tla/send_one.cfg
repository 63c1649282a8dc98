\* One execution, two attempts per activity, one given-up call under way.
CONSTANTS
    w1 = w1
    i1 = i1
    None = None
    Client = {w1}
    Invoice = {i1}
    SessionRef = {s1, s2}
    DocRef = {d1, d2, d3}
    InvoiceOf <- SameInvoice
    MaxAttempts = 2
    MaxPolls = 1
    MaxLate = 1
SPECIFICATION FairSpec
INVARIANTS TypeOK RowReferencesMatch NoOpenSessionWhenPolling AuditTrail FinalStatusIsVerdict AtMostMaxAttempts
PROPERTIES FinalStatusStable EveryRunEnds ImplementsDelivery
CHECK_DEADLOCK FALSE
