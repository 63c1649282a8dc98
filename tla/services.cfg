\* Three requests of any kind over two sessions and two documents.
CONSTANTS
    None = None
    Client = {c1, c2, c3}
    Invoice = {c1, c2, c3}
    SessionRef = {s1, s2}
    DocRef = {d1, d2}
    InvoiceOf <- OwnInvoice
SPECIFICATION Spec
SYMMETRY Symmetry
INVARIANTS TypeOK EveryDocumentHasRow SentRowMatches VerdictRows ClosedRowIsClosed
PROPERTIES NeverReusableAgain RejectedOnlyByCopy ImplementsDelivery
CHECK_DEADLOCK FALSE
