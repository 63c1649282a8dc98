---------------------------- MODULE MCRetryService ----------------------------
(* Instances of RetryService for TLC.                                      *)
EXTENDS RetryService, TLC

Symmetry == Permutations(Worker)
=============================================================================
