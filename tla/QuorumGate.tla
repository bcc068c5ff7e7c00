----------------------------- MODULE QuorumGate -----------------------------
(***************************************************************************)
(* What the custody service promises, without requests, copies, faults or  *)
(* an audit log: a proposal collects approvals while it is open; with a    *)
(* quorum it is either sealed with one payload or abandoned; only sealed   *)
(* payloads are published; nothing is ever undone.                         *)
(***************************************************************************)
CONSTANTS
  Txns,        \* proposals
  Approvers,   \* the signers whose approval counts
  Payload,     \* signed transactions, each with the field tx
  None

VARIABLES
  gate,        \* where each proposal is
  approvals,   \* who has approved it; forgotten when it is abandoned
  sealed,      \* the payload it is sealed with
  published    \* payloads given to the chain

gateVars == <<gate, approvals, sealed, published>>

GateInit ==
  /\ gate \in [Txns -> {"absent", "open"}]
  /\ approvals = [t \in Txns |-> {}]
  /\ sealed = [t \in Txns |-> None]
  /\ published = {}

HasQuorum(t) == \E a, b \in approvals[t] : a # b

Approve(t, s) ==
  /\ gate[t] = "open"
  /\ s \notin approvals[t]
  /\ approvals' = [approvals EXCEPT ![t] = @ \cup {s}]
  /\ UNCHANGED <<gate, sealed, published>>

Seal(t, p) ==
  /\ gate[t] = "open" /\ HasQuorum(t)
  /\ p.tx = t
  /\ gate' = [gate EXCEPT ![t] = "sealed"]
  /\ sealed' = [sealed EXCEPT ![t] = p]
  /\ UNCHANGED <<approvals, published>>

Abandon(t) ==
  /\ gate[t] = "open" /\ HasQuorum(t)
  /\ gate' = [gate EXCEPT ![t] = "abandoned"]
  /\ approvals' = [approvals EXCEPT ![t] = {}]
  /\ UNCHANGED <<sealed, published>>

Publish(t) ==
  /\ gate[t] = "sealed"
  /\ published' = published \cup {sealed[t]}
  /\ UNCHANGED <<gate, approvals, sealed>>

GateNext ==
  \E t \in Txns :
    \/ \E s \in Approvers : Approve(t, s)
    \/ \E p \in Payload : Seal(t, p)
    \/ Abandon(t)
    \/ Publish(t)

GateSpec == GateInit /\ [][GateNext]_gateVars
=============================================================================
