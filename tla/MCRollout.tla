------------------------------ MODULE MCRollout ------------------------------
(* A small instance of Rollout. *)
EXTENDS Rollout

CONSTANTS t1, w1, r1, r2, r3, alice, bob, carol

MCTxns == {t1}
MCWallets == {w1}
MCWalletOf == [t \in MCTxns |-> w1]
MCBitcoin == [t \in MCTxns |-> "bitcoin"]

(* Requests differ only in name, each has one call in its life, and no     *)
(* fairness makes one arrive.  So every behaviour is, up to the names of   *)
(* the requests, one in which their calls are in this order.               *)
Rank(c) ==
  CASE c.op = "broadcast" -> 4
    [] c.op = "cosign" /\ c.signer = None -> 0
    [] c.op = "cosign" /\ c.signer = alice -> 1
    [] c.op = "cosign" /\ c.signer = bob -> 2
    [] c.op = "cosign" /\ c.signer = carol -> 3

CallsInOrder ==
  \A pair \in {<<r1, r2>>, <<r2, r3>>, <<r1, r3>>} :
    call'[pair[1]] # None /\ call'[pair[2]] # None =>
      Rank(call'[pair[1]]) <= Rank(call'[pair[2]])
=============================================================================
