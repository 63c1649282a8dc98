\* A submission, a poll and a resubmission over one session.
CONSTANTS
    None = None
    Client = {c1, c2, c3}
    Invoice = {c1, c2, c3}
    SessionRef = {s1}
    DocRef = {d1, d2}
    InvoiceOf <- OwnInvoice
SPECIFICATION Spec
SYMMETRY Symmetry
PROPERTIES ResubmitsFailedOrPending
CHECK_DEADLOCK FALSE
