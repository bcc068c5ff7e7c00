-------------------------- MODULE WalletServiceGate --------------------------
(***************************************************************************)
(* WalletService implements QuorumGate.  Every stored row decides where    *)
(* its proposal stands; the handlers' copies, the faults and the audit log *)
(* are invisible.                                                          *)
(***************************************************************************)
EXTENDS WalletService

GateOf(t) ==
  IF ~Stored(t) THEN "absent"
  ELSE IF transactions[t].signedTransaction # None THEN "sealed"
  ELSE IF transactions[t].status = "proposed" THEN "open"
  ELSE "abandoned"

(* The refinement mapping. *)
gateBar == [t \in Txns |-> GateOf(t)]

approvalsBar ==
  [t \in Txns |-> IF GateOf(t) \in {"open", "sealed"} THEN transactions[t].approvals
                                                      ELSE {}]

sealedBar == [t \in Txns |-> IF Stored(t) THEN transactions[t].signedTransaction ELSE None]

Gate == INSTANCE QuorumGate WITH
  Approvers <- {s \in Signers : signerAllowed(s)},
  gate <- gateBar,
  approvals <- approvalsBar,
  sealed <- sealedBar,
  published <- accepted

(* Whatever requests, crashes and lost answers do to the rows, CoSign and  *)
(* Broadcast only ever approve, seal, abandon or publish a proposal.       *)
ImplementsGate == Gate!GateSpec
=============================================================================
