\* Two executions and one reconciliation run, two attempts per activity.
CONSTANTS
    w1 = w1
    w2 = w2
    i1 = i1
    None = None
    Client = {w1, w2}
    Invoice = {i1}
    SessionRef = {s1}
    DocRef = {d1}
    InvoiceOf <- SameInvoice
    MaxAttempts = 2
    MaxPolls = 1
    MaxLate = 0
    Limit = 2
SPECIFICATION RSpec
SYMMETRY Symmetry
INVARIANTS RTypeOK ReconciledAcceptedIsAccepted ReconcileCounts
CHECK_DEADLOCK FALSE
