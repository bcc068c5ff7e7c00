--------------------------- MODULE MCWalletService ---------------------------
(* Small instances of WalletService for TLC. *)
EXTENDS WalletServiceGate, TLC

CONSTANTS t1, w1, alice, bob, carol, stranger

MCTxns == {t1}
MCWallets == {w1}
MCWalletOf == [t \in MCTxns |-> w1]
MCBitcoin == [t \in MCTxns |-> "bitcoin"]
MCEvm == [t \in MCTxns |-> "evm"]

MCAllowed == {alice, bob, carol}
MCAllFaults == {"cancel", "store_error", "lost_ack", "chain_error", "crash"}

MCSymmetry == Permutations(Requests) \cup Permutations(MCAllowed)
=============================================================================
