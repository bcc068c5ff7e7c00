----------------------------- MODULE MCMetrics -----------------------------
(* Small instances of Metrics. *)
EXTENDS Metrics, TLC

MCSymmetry == Permutations(Requests) \cup Permutations(Series)
============================================================================
