------------------------- MODULE MCInvoiceSubmission -------------------------
(* Instances of InvoiceSubmission for TLC: each request would submit an    *)
(* invoice of its own, so invoices are named by requests, and nothing      *)
(* orders requests, sessions or documents.                                 *)
EXTENDS InvoiceSubmission, TLC

OwnInvoice == [c \in Client |-> c]

Symmetry ==
    Permutations(Client) \cup Permutations(SessionRef) \cup Permutations(DocRef)
=============================================================================
