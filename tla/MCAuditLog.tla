------------------------------ MODULE MCAuditLog ------------------------------
(* AuditLog on small instances. *)
EXTENDS AuditLog, TLC

CONSTANTS w1, w2, e1, e2, e3

SomeFilters == {[from |-> None, to |-> None]}

Symmetry == Permutations({w1, w2}) \cup Permutations({e1, e2, e3})
=============================================================================
