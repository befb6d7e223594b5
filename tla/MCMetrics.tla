------------------------------ MODULE MCMetrics ------------------------------
(***************************************************************************)
(* Metrics for TLC: the sessions are interchangeable.                      *)
(***************************************************************************)
EXTENDS Metrics, TLC

SessionSymmetry == Permutations(Sessions)
=============================================================================
