\* The staleness of the list.
CONSTANTS
    w1 = w1
    w2 = w2
    i1 = i1
    None = None
    Client = {w1}
    Invoice = {i1}
    SessionRef = {s1}
    DocRef = {d1}
    InvoiceOf <- SameInvoice
    MaxAttempts = 1
    MaxPolls = 1
    MaxLate = 0
    Limit = 1
SPECIFICATION RSpec
PROPERTIES ReconciledLocalState
CHECK_DEADLOCK FALSE
