---------------------------- MODULE MCAuthService ----------------------------
(* AuthService on small instances. *)
EXTENDS AuthService, TLC

CONSTANTS c1, c2, c3, l1, l2, t1, t2, t3

Symmetry == Permutations({c1, c2, c3}) \cup Permutations({l1, l2})
            \cup Permutations({t1, t2, t3})
=============================================================================
