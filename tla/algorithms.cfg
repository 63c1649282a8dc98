\* Every input is an initial state.
CONSTANTS
    None = None
SPECIFICATION Spec
INVARIANTS IdentifiersAreChecked InvoiceComesBack CallersAreToldTheTruth
