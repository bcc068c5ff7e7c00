---------------------------- MODULE CustodyStore ----------------------------
(***************************************************************************)
(* The part of wallet.Store that a stored proposal lives in, one atomic    *)
(* step per method.  MemoryStore holds its mutex for the whole method;     *)
(* PostgresStore runs each of these methods as one SQL statement or as one *)
(* transaction that locks the proposal's row, so both are atomic here.     *)
(*                                                                         *)
(* A row keeps the fields that the service reads or writes back.  The      *)
(* immutable ones (wallet, chain, request) belong to the transaction ID.   *)
(* Timestamps, traces and metadata are left out.                           *)
(***************************************************************************)
EXTENDS FiniteSets

CONSTANTS
  Txns,      \* transaction IDs
  Signers,   \* signer IDs
  Requests,  \* HTTP requests; also the source of fresh IDs and of randomness
  None       \* Go's zero value: no row, empty string

VARIABLES
  transactions,  \* transaction ID -> stored proposal, or None
  auditEvents    \* the audit events appended so far

store == <<transactions, auditEvents>>

-----------------------------------------------------------------------------
TransactionStatus == {"proposed", "signed", "broadcast", "failed"}

AuditEventType ==
  {"transaction.approved", "transaction.signed", "transaction.broadcast",
   "transaction.failed"}

(* A signed transaction is identified by what was signed and by the        *)
(* randomness that went into it: a Bitcoin signature draws from            *)
(* rand.Reader and embeds the time, an EVM one is deterministic.           *)
Payload == [tx : Txns, entropy : Requests \cup {None}]

(* Broadcast hashes are digests of the payload that was submitted. *)
Hash(p) == [digest |-> p]

TransactionProposal ==
  [status            : TransactionStatus,
   approvals         : SUBSET Signers,
   signedTransaction : Payload \cup {None},
   broadcastHash     : {Hash(p) : p \in Payload} \cup {None},
   error             : {"sign", "broadcast", None}]

(* The event ID is fresh for every event; a request appends at most one    *)
(* event of a type, so the request identifies it.                          *)
AuditEvent ==
  [id : Requests, type : AuditEventType, resourceID : Txns,
   actor : Signers \cup {None}]

ApprovalsCount(p) == Cardinality(p.approvals)

(* None is a value of its own. *)
ASSUME NoneAssumption ==
  /\ None \notin Txns \cup Signers \cup Requests
  /\ None \notin Payload
  /\ None \notin TransactionProposal
  /\ None \notin {Hash(p) : p \in Payload}
  /\ None \notin {"sign", "broadcast"}

-----------------------------------------------------------------------------
(* A proposal as ProposeTransaction stores it. *)
NewProposal ==
  [status |-> "proposed", approvals |-> {}, signedTransaction |-> None,
   broadcastHash |-> None, error |-> None]

Stored(t) == transactions[t] # None

(* UpdateTransaction replaces the whole row with the caller's copy: it     *)
(* looks at nothing in the row it replaces.                                *)
UpdateTransaction(t, p) ==
  /\ Stored(t)
  /\ transactions' = [transactions EXCEPT ![t] = p]

(* AddApproval is refused once the row has left "proposed" and for a       *)
(* signer who has approved already.                                        *)
ApprovableTwice(t, s) == Stored(t) /\ transactions[t].status = "proposed"

Approvable(t, s) ==
  /\ Stored(t)
  /\ transactions[t].status = "proposed"
  /\ s \notin transactions[t].approvals

AddApprovalReopens(t, s) ==
  /\ Stored(t)
  /\ s \notin transactions[t].approvals
  /\ transactions' = [transactions EXCEPT
       ![t] = [@ EXCEPT !.status = "proposed", !.approvals = @ \cup {s}]]

AddApproval(t, s) ==
  /\ Approvable(t, s)
  /\ transactions' = [transactions EXCEPT ![t].approvals = @ \cup {s}]

(* MarkTransactionSigned changes a proposed row; any other row it returns  *)
(* unchanged, with signed = false.                                         *)
MarkTransactionSignedUnchecked(t, payload) ==
  /\ Stored(t)
  /\ transactions' = [transactions EXCEPT
       ![t] = [@ EXCEPT !.status = "signed", !.signedTransaction = payload]]

MarkTransactionSigned(t, payload) ==
  /\ Stored(t)
  /\ transactions[t].status = "proposed"
  /\ transactions' = [transactions EXCEPT
       ![t] = [@ EXCEPT !.status = "signed", !.signedTransaction = payload]]

AppendAuditEvent(e) == auditEvents' = auditEvents \cup {e}

StoreTypeOK ==
  /\ transactions \in [Txns -> TransactionProposal \cup {None}]
  /\ auditEvents \in SUBSET AuditEvent
=============================================================================
