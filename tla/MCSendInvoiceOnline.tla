------------------------- MODULE MCSendInvoiceOnline -------------------------
(* SendInvoiceOnline for TLC.  Liveness is checked, so no symmetry.        *)
EXTENDS SendInvoiceOnline

CONSTANTS w1, i1

SameInvoice == [w \in Client |-> i1]
=============================================================================
