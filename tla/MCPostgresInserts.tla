------------------------- MODULE MCPostgresInserts -------------------------
(* Small instances of PostgresInserts. *)
EXTENDS PostgresInserts, TLC

Symmetry == Permutations(Calls) \cup Permutations(Keys)
=============================================================================
