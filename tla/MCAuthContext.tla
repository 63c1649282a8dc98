---------------------------- MODULE MCAuthContext ----------------------------
(* AuthContext on small instances. *)
EXTENDS AuthContext, TLC

CONSTANTS w1, w2, l1, l2, t1, t2, t3

Symmetry == Permutations({w1, w2}) \cup Permutations({l1, l2})
            \cup Permutations({t1, t2, t3})
=============================================================================
