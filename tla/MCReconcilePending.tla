------------------------- MODULE MCReconcilePending -------------------------
(* Instances of ReconcilePending for TLC.                                  *)
EXTENDS ReconcilePending, TLC

CONSTANTS w1, w2, i1

SameInvoice == [w \in Client |-> i1]

(* The executions are alike: with one document reference no two copies of  *)
(* an invoice meet.                                                        *)
Symmetry == Permutations(Client)
=============================================================================
