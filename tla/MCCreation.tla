----------------------------- MODULE MCCreation -----------------------------
(* Small instances of Creation. *)
EXTENDS CreationStore, TLC

(* A good body, one over the limit of 1, and one that cannot be built. *)
MCBodies ==
  {[amount |-> 1, complete |-> TRUE], [amount |-> 2, complete |-> TRUE],
   [amount |-> 1, complete |-> FALSE]}
MCGoodBodies == {[amount |-> 1, complete |-> TRUE]}

MCAllFaults == {"cancel", "store_error", "lost_ack", "chain_error", "crash"}

MCSymmetry == Permutations(Requests)
=============================================================================
