--------------------------- MODULE MCPostgresRows ---------------------------
(* Small instances of PostgresRows. *)
EXTENDS PostgresRows, TLC

Symmetry == Permutations(Calls) \cup Permutations(Signers)
=============================================================================
