---------------------------- MODULE WalletService ----------------------------
(***************************************************************************)
(* wallet.Service from the stored proposal to the chain: CoSign and        *)
(* Broadcast, with the signing backend and the chain adapters they call.   *)
(*                                                                         *)
(* Every HTTP request runs its handler in a goroutine of its own.  A       *)
(* handler is a sequence of calls on the store, the signer or the chain;   *)
(* each call is one step, and the steps of all requests interleave.        *)
(* Between two calls a handler holds a copy of the proposal, which may be  *)
(* stale when it is written back.                                          *)
(*                                                                         *)
(* The store survives a crash (PostgresStore); the signer's wallet         *)
(* material and the handlers in flight do not.  MemoryStore is the case    *)
(* Faults \subseteq {"cancel"}.                                            *)
(***************************************************************************)
EXTENDS CustodyStore, Naturals

CONSTANTS
  Wallets,         \* wallet IDs
  WalletOf,        \* proposal.WalletID
  ChainOf,         \* proposal.Chain
  EvmRpc,          \* whether the EVM adapter has an RPC URL
  Unsignable,      \* EVM proposals with a fee or data the signer cannot parse
  AllowedSigners,  \* policy.AllowedSigners
  Faults           \* the faults of the environment that may happen

ASSUME ServiceAssumption ==
  /\ WalletOf \in [Txns -> Wallets]
  /\ ChainOf \in [Txns -> {"bitcoin", "evm"}]
  /\ EvmRpc \in BOOLEAN
  /\ Unsignable \subseteq {t \in Txns : ChainOf[t] = "evm"}
  /\ AllowedSigners \subseteq Signers
  /\ Faults \subseteq {"cancel", "store_error", "lost_ack", "chain_error", "crash"}

VARIABLES
  records,    \* wallets whose key the signing backend holds, in memory
  accepted,   \* payloads the chain has accepted for broadcast
  pc,         \* the call each handler makes next
  ctx,        \* whether each request's context is still live
  call,       \* the arguments of each request
  proposal,   \* each handler's copy of the proposal
  signature,  \* the signed transaction a handler got from the signer
  reply       \* the status each request was answered with, by its name in net/http

locals == <<ctx, proposal, signature>>
handlers == <<pc, ctx, call, proposal, signature, reply>>
vars == <<transactions, auditEvents, records, accepted, handlers>>

-----------------------------------------------------------------------------
CoSignPC ==
  {"add_approval", "audit_approved", "sign", "mark_signed", "audit_signed"}
BroadcastPC == {"get_transaction", "submit", "store_broadcast", "audit_broadcast"}
FailPC == {"fail_transaction", "audit_failed"}
InFlightPC == CoSignPC \cup BroadcastPC \cup FailPC

(* Calls whose error the handler returns to the client at once.  The       *)
(* errors of the two calls in FailPC are discarded.                        *)
AbortingPC == (CoSignPC \cup BroadcastPC) \ {"sign", "submit"}

Call ==
  [op : {"cosign", "broadcast"}, tx : Txns, signer : Signers \cup {None}]

InFlight(r) == pc[r] \in InFlightPC

TypeOK ==
  /\ StoreTypeOK
  /\ records \in SUBSET Wallets
  /\ accepted \in SUBSET Payload
  /\ pc \in [Requests -> {"idle", "done"} \cup InFlightPC]
  /\ ctx \in [Requests -> {"live", "cancelled"}]
  /\ call \in [Requests -> Call \cup {None}]
  /\ proposal \in [Requests -> TransactionProposal \cup {None}]
  /\ signature \in [Requests -> Payload \cup {None}]
  /\ reply \in [Requests -> {"none", "OK", "BadRequest", "Forbidden", "NotFound", "InternalServerError"}]

(* Proposals are in the store as ProposeTransaction leaves them, or not    *)
(* there at all; every wallet was created by the running process.          *)
Init ==
  /\ transactions \in [Txns -> {NewProposal, None}]
  /\ auditEvents = {}
  /\ records = Wallets
  /\ accepted = {}
  /\ pc = [r \in Requests |-> "idle"]
  /\ ctx = [r \in Requests |-> "live"]
  /\ call = [r \in Requests |-> None]
  /\ proposal = [r \in Requests |-> None]
  /\ signature = [r \in Requests |-> None]
  /\ reply = [r \in Requests |-> "none"]

-----------------------------------------------------------------------------
(* Control of a handler. *)

Goto(r, label) ==
  /\ pc' = [pc EXCEPT ![r] = label]
  /\ UNCHANGED <<call, reply>>

(* The handler returns and its locals go out of scope. *)
Answer(r, status) ==
  /\ pc' = [pc EXCEPT ![r] = "done"]
  /\ reply' = [reply EXCEPT ![r] = status]
  /\ ctx' = [ctx EXCEPT ![r] = "live"]
  /\ proposal' = [proposal EXCEPT ![r] = None]
  /\ signature' = [signature EXCEPT ![r] = None]
  /\ UNCHANGED call

(* A call that takes effect may still be reported as an error: the         *)
(* connection breaks, or the context is cancelled, after the commit.       *)
Acked == IF "lost_ack" \in Faults THEN BOOLEAN ELSE {TRUE}

(* Every method of the store, the signer and the adapters fails on a       *)
(* cancelled context; with PostgresStore a call may also fail by itself.   *)
MayFail(r) == ctx[r] = "cancelled" \/ "store_error" \in Faults

AtCall(r, label) == pc[r] = label /\ ctx[r] = "live"

(* The event a handler appends, and appending it. *)
EventOf(r, type) ==
  [id |-> r, type |-> type, resourceID |-> call[r].tx,
   actor |-> IF type = "transaction.approved" THEN call[r].signer ELSE None]

appendAudit(r, type) == AppendAuditEvent(EventOf(r, type))

-----------------------------------------------------------------------------
(* CoSign. *)

signerAllowed(s) == AllowedSigners = {} \/ s \in AllowedSigners

(* A request to co-sign arrives; the policy checks need no call. *)
CoSign(r, t, s) ==
  /\ pc[r] = "idle"
  /\ call' = [call EXCEPT ![r] = [op |-> "cosign", tx |-> t, signer |-> s]]
  /\ \/ /\ s # None /\ signerAllowed(s)
        /\ pc' = [pc EXCEPT ![r] = "add_approval"]
        /\ UNCHANGED reply
     \/ /\ s = None \/ ~signerAllowed(s)
        /\ pc' = [pc EXCEPT ![r] = "done"]
        /\ reply' = [reply EXCEPT ![r] = IF s = None THEN "InternalServerError" ELSE "Forbidden"]
  /\ UNCHANGED <<store, records, accepted, locals>>

ApprovalRefused(r) ==
  /\ AtCall(r, "add_approval")
  /\ ~Approvable(call[r].tx, call[r].signer)
  /\ Answer(r, IF Stored(call[r].tx) THEN "BadRequest" ELSE "NotFound")
  /\ UNCHANGED <<store, records, accepted>>

(* AddApproval commits; the handler keeps the returned row. *)
ApprovalStored(r) ==
  /\ AtCall(r, "add_approval")
  /\ AddApproval(call[r].tx, call[r].signer)
  /\ \/ /\ Goto(r, "audit_approved")
        /\ proposal' = [proposal EXCEPT ![r] = transactions'[call[r].tx]]
        /\ UNCHANGED <<ctx, signature>>
     \/ FALSE \in Acked /\ Answer(r, "InternalServerError")
  /\ UNCHANGED <<auditEvents, records, accepted>>

(* The number of approvals at which CoSign asks for a signature. *)
CoSignQuorumOne == 1
CoSignQuorumAll == 3

CoSignQuorum == 2

QuorumReached(p) == p.status = "proposed" /\ ApprovalsCount(p) >= CoSignQuorum

(* The approval is audited; only then does the handler look at the quorum. *)
ApprovalAwaitsQuorum(r) ==
  /\ AtCall(r, "audit_approved")
  /\ QuorumReached(transactions[call[r].tx])
  /\ appendAudit(r, "transaction.approved")
  /\ Goto(r, "sign")
  /\ UNCHANGED <<transactions, records, accepted, locals>>

ApprovalAudited(r) ==
  /\ AtCall(r, "audit_approved")
  /\ appendAudit(r, "transaction.approved")
  /\ \/ QuorumReached(proposal[r]) /\ Goto(r, "sign") /\ UNCHANGED locals
     \/ ~QuorumReached(proposal[r]) /\ Answer(r, "OK")
     \/ FALSE \in Acked /\ Answer(r, "InternalServerError")
  /\ UNCHANGED <<transactions, records, accepted>>

(* The demo signing backend. *)
quorumThreshold == 2

CanSign(p, t) ==
  /\ ApprovalsCount(p) >= quorumThreshold
  /\ WalletOf[t] \in records
  /\ t \notin Unsignable

(* An EVM signature is a function of the proposal. *)
signEVMTransaction(t) == [tx |-> t, entropy |-> None]

SignTransaction(r) ==
  LET t == call[r].tx IN
  /\ AtCall(r, "sign")
  /\ CanSign(proposal[r], t)
  /\ signature' = [signature EXCEPT ![r] =
       IF ChainOf[t] = "evm" THEN signEVMTransaction(t) ELSE [tx |-> t, entropy |-> r]]
  /\ Goto(r, "mark_signed")
  /\ UNCHANGED <<store, records, accepted, ctx, proposal>>

SignFails(r) ==
  /\ pc[r] = "sign"
  /\ ctx[r] = "cancelled" \/ ~CanSign(proposal[r], call[r].tx)
  /\ Goto(r, "fail_transaction")
  /\ UNCHANGED <<store, records, accepted, locals>>

SignatureStored(r) ==
  /\ AtCall(r, "mark_signed")
  /\ MarkTransactionSigned(call[r].tx, signature[r])
  /\ \/ Goto(r, "audit_signed") /\ UNCHANGED locals
     \/ FALSE \in Acked /\ Answer(r, "InternalServerError")
  /\ UNCHANGED <<auditEvents, records, accepted>>

(* Another request signed or failed the proposal first; its row is the     *)
(* answer and this signature is dropped.                                   *)
SignatureDropped(r) ==
  /\ AtCall(r, "mark_signed")
  /\ transactions[call[r].tx].status # "proposed"
  /\ Answer(r, "OK")
  /\ UNCHANGED <<store, records, accepted>>

SignatureAudited(r) ==
  /\ AtCall(r, "audit_signed")
  /\ appendAudit(r, "transaction.signed")
  /\ \/ Answer(r, "OK")
     \/ FALSE \in Acked /\ Answer(r, "InternalServerError")
  /\ UNCHANGED <<transactions, records, accepted>>

-----------------------------------------------------------------------------
(* Broadcast. *)

Broadcast(r, t) ==
  /\ pc[r] = "idle"
  /\ call' = [call EXCEPT ![r] = [op |-> "broadcast", tx |-> t, signer |-> None]]
  /\ pc' = [pc EXCEPT ![r] = "get_transaction"]
  /\ UNCHANGED <<store, records, accepted, locals, reply>>

Broadcastable(p) == p.status = "signed" /\ p.signedTransaction # None

GetTransaction(r) ==
  LET t == call[r].tx IN
  /\ AtCall(r, "get_transaction")
  /\ \/ /\ Stored(t) /\ Broadcastable(transactions[t])
        /\ proposal' = [proposal EXCEPT ![r] = transactions[t]]
        /\ Goto(r, "submit")
        /\ UNCHANGED <<ctx, signature>>
     \/ Stored(t) /\ ~Broadcastable(transactions[t]) /\ Answer(r, "BadRequest")
     \/ ~Stored(t) /\ Answer(r, "NotFound")
  /\ UNCHANGED <<store, records, accepted>>

UsesRpc(t) == ChainOf[t] = "evm" /\ EvmRpc

(* The adapter reports that the chain took the payload.  The Bitcoin and   *)
(* the local EVM adapter only compute a hash; over RPC a node refuses a    *)
(* transaction that it knows already.                                      *)
ChainAccepts(r) ==
  LET payload == proposal[r].signedTransaction IN
  /\ AtCall(r, "submit")
  /\ UsesRpc(call[r].tx) => payload \notin accepted
  /\ accepted' = accepted \cup {payload}
  /\ Goto(r, "store_broadcast")
  /\ UNCHANGED <<store, records, locals>>

(* The adapter reports an error and the chain did not take the payload     *)
(* from this call.                                                         *)
ChainErrorIgnored(r) ==
  /\ AtCall(r, "submit")
  /\ UsesRpc(call[r].tx) /\ "chain_error" \in Faults
  /\ Goto(r, "store_broadcast")
  /\ UNCHANGED <<store, records, accepted, locals>>

ChainRefuses(r) ==
  /\ pc[r] = "submit"
  /\ \/ ctx[r] = "cancelled"
     \/ /\ UsesRpc(call[r].tx)
        /\ "chain_error" \in Faults \/ proposal[r].signedTransaction \in accepted
  /\ Goto(r, "fail_transaction")
  /\ UNCHANGED <<store, records, accepted, locals>>

(* The node took the transaction but the RPC call reports an error. *)
ChainAnswerLost(r) ==
  /\ AtCall(r, "submit")
  /\ UsesRpc(call[r].tx) /\ FALSE \in Acked
  /\ accepted' = accepted \cup {proposal[r].signedTransaction}
  /\ Goto(r, "fail_transaction")
  /\ UNCHANGED <<store, records, locals>>

(* The copy read by GetTransaction is written back as broadcast. *)
BroadcastCopyUnhashed(r) ==
  [proposal[r] EXCEPT !.status = "broadcast",
                      !.broadcastHash = proposal[r].signedTransaction]

BroadcastCopy(r) ==
  [proposal[r] EXCEPT !.status = "broadcast",
                      !.broadcastHash = Hash(proposal[r].signedTransaction)]

BroadcastStored(r) ==
  /\ AtCall(r, "store_broadcast")
  /\ UpdateTransaction(call[r].tx, BroadcastCopy(r))
  /\ \/ Goto(r, "audit_broadcast") /\ UNCHANGED locals
     \/ FALSE \in Acked /\ Answer(r, "InternalServerError")
  /\ UNCHANGED <<auditEvents, records, accepted>>

BroadcastAudited(r) ==
  /\ AtCall(r, "audit_broadcast")
  /\ appendAudit(r, "transaction.broadcast")
  /\ \/ Answer(r, "OK")
     \/ FALSE \in Acked /\ Answer(r, "InternalServerError")
  /\ UNCHANGED <<transactions, records, accepted>>

-----------------------------------------------------------------------------
(* Failure of a signing or broadcast call: failTransaction writes the      *)
(* handler's copy back as failed, then the failure is audited.  Errors of  *)
(* both calls are discarded and the client gets the original error.        *)

FailedCopy(r) ==
  [proposal[r] EXCEPT
     !.status = "failed",
     !.error = IF call[r].op = "cosign" THEN "sign" ELSE "broadcast"]

failTransactionDetached(r) ==
  /\ pc[r] = "fail_transaction"
  /\ UpdateTransaction(call[r].tx, FailedCopy(r))
  /\ Goto(r, "audit_failed")
  /\ UNCHANGED <<auditEvents, records, accepted, locals>>

failTransaction(r) ==
  /\ pc[r] = "fail_transaction"
  /\ \/ ctx[r] = "live" /\ UpdateTransaction(call[r].tx, FailedCopy(r))
     \/ MayFail(r) /\ UNCHANGED transactions
  /\ Goto(r, "audit_failed")
  /\ UNCHANGED <<auditEvents, records, accepted, locals>>

FailureAudited(r) ==
  /\ pc[r] = "audit_failed"
  /\ \/ ctx[r] = "live" /\ appendAudit(r, "transaction.failed")
     \/ MayFail(r) /\ UNCHANGED auditEvents
  /\ Answer(r, "InternalServerError")
  /\ UNCHANGED <<transactions, records, accepted>>

-----------------------------------------------------------------------------
(* The environment. *)

(* A store call fails without effect and the handler returns the error. *)
AuditErrorIgnored(r) ==
  /\ pc[r] \in AbortingPC
  /\ MayFail(r)
  /\ Answer(r, IF pc[r] \in {"audit_approved", "audit_signed", "audit_broadcast"}
               THEN "OK" ELSE "InternalServerError")
  /\ UNCHANGED <<store, records, accepted>>

StoreCallFails(r) ==
  /\ pc[r] \in AbortingPC
  /\ MayFail(r)
  /\ Answer(r, "InternalServerError")
  /\ UNCHANGED <<store, records, accepted>>

(* The client goes away; net/http cancels the request's context. *)
Cancel(r) ==
  /\ "cancel" \in Faults
  /\ InFlight(r)
  /\ ctx[r] = "live"
  /\ ctx' = [ctx EXCEPT ![r] = "cancelled"]
  /\ UNCHANGED <<store, records, accepted, pc, call, proposal, signature, reply>>

(* The process stops and a new one starts: handlers in flight are gone,    *)
(* and so is the wallet material, which only ever was in memory.           *)
Crash ==
  /\ "crash" \in Faults
  /\ records' = {}
  /\ pc' = [r \in Requests |-> IF InFlight(r) THEN "done" ELSE pc[r]]
  /\ ctx' = [r \in Requests |-> "live"]
  /\ proposal' = [r \in Requests |-> None]
  /\ signature' = [r \in Requests |-> None]
  /\ UNCHANGED <<store, accepted, call, reply>>

-----------------------------------------------------------------------------
CoSignStep(r) ==
  \/ ApprovalRefused(r) \/ ApprovalStored(r) \/ ApprovalAudited(r)
  \/ SignTransaction(r) \/ SignFails(r)
  \/ SignatureStored(r) \/ SignatureDropped(r) \/ SignatureAudited(r)

BroadcastStep(r) ==
  \/ GetTransaction(r)
  \/ ChainAccepts(r) \/ ChainRefuses(r) \/ ChainAnswerLost(r)
  \/ BroadcastStored(r) \/ BroadcastAudited(r)

(* A handler's next call, whatever its outcome. *)
HandlerStep(r) ==
  \/ CoSignStep(r) \/ BroadcastStep(r)
  \/ failTransaction(r) \/ FailureAudited(r) \/ StoreCallFails(r)

Next ==
  \/ \E r \in Requests :
       \/ \E t \in Txns, s \in Signers \cup {None} : CoSign(r, t, s)
       \/ \E t \in Txns : Broadcast(r, t)
       \/ HandlerStep(r)
       \/ Cancel(r)
  \/ Crash

Spec == Init /\ [][Next]_vars

(* The Go scheduler runs every goroutine, and every call of a handler      *)
(* returns, with or without an error.  Clients owe nothing.                *)
FairSpec == Spec /\ \A r \in Requests : WF_vars(HandlerStep(r))

-----------------------------------------------------------------------------
(* Safety. *)

(* A proposal leaves "proposed" only with two approvals by signers the     *)
(* policy allows, and still has them afterwards, although CoSign and       *)
(* Broadcast write whole stale copies of the row back.                     *)
ClosedWithQuorum ==
  \A t \in Txns : Stored(t) /\ transactions[t].status # "proposed" =>
    /\ ApprovalsCount(transactions[t]) >= 2
    /\ \A s \in transactions[t].approvals : signerAllowed(s)

(* Several co-signers may each obtain a signature of the same proposal.    *)
(* Whatever reaches the chain is the one that the store holds, so no       *)
(* proposal is paid out by two different payloads.                         *)
OnePayloadOnChain ==
  \A p \in accepted :
    Stored(p.tx) /\ transactions[p.tx].signedTransaction = p

(* A row says "broadcast" only when the chain accepted its payload, and    *)
(* its hash is the hash of that payload.                                   *)
BroadcastWasAccepted ==
  \A t \in Txns : Stored(t) /\ transactions[t].status = "broadcast" =>
    /\ transactions[t].signedTransaction \in accepted
    /\ transactions[t].broadcastHash = Hash(transactions[t].signedTransaction)

(* An approval by a signer, and the signing of a proposal, are audited at  *)
(* most once, however many requests race or are retried.                   *)
AuditedOnce ==
  \A e, f \in auditEvents :
    /\ e.type \in {"transaction.approved", "transaction.signed"}
    /\ e.type = f.type /\ e.resourceID = f.resourceID /\ e.actor = f.actor
    => e.id = f.id

(* The audit log claims nothing that did not happen: a "signed" event has  *)
(* a stored payload behind it and a "broadcast" event an accepted one.     *)
AuditIsTrue ==
  \A e \in auditEvents :
    /\ e.type = "transaction.approved" => signerAllowed(e.actor)
    /\ e.type = "transaction.signed" =>
         transactions[e.resourceID].signedTransaction # None
    /\ e.type = "transaction.broadcast" =>
         transactions[e.resourceID].signedTransaction \in accepted

(* A client that is answered 200 can rely on the audit log: the approval,  *)
(* or the broadcast, that its request made is in it.                       *)
AcknowledgedIsAudited ==
  \A r \in Requests : reply[r] = "OK" =>
    \E e \in auditEvents :
      /\ e.id = r /\ e.resourceID = call[r].tx
      /\ e.type = IF call[r].op = "cosign" THEN "transaction.approved"
                                           ELSE "transaction.broadcast"

(* A signed payload is never replaced or erased: a co-signer whose own     *)
(* signing attempt failed writes back a copy from before the signature,    *)
(* yet never over a row that has one.                                      *)
PayloadIsKept ==
  [][\A t \in Txns : Stored(t) /\ transactions[t].signedTransaction # None =>
       transactions'[t].signedTransaction = transactions[t].signedTransaction]_vars

(* A decided proposal is never open again, and only an open one is signed. *)
NeverReopened ==
  [][\A t \in Txns : Stored(t) /\ transactions'[t].status # transactions[t].status =>
       /\ transactions'[t].status # "proposed"
       /\ transactions'[t].status = "signed" => transactions[t].status = "proposed"]_vars

(* An approval that AddApproval has recorded stays recorded: concurrent    *)
(* approvals are all preserved.  Only a failure to sign, which writes back *)
(* a copy from before the third approval, may drop it, and only from a     *)
(* proposal that was never signed: what stands behind a payload is kept,   *)
(* also by a broadcast that fails and by a co-signer that gives up.        *)
ApprovalsAreKept ==
  [][\A t \in Txns :
       /\ Stored(t)
       /\ transactions'[t].status = "failed" => transactions[t].signedTransaction # None
       => transactions[t].approvals \subseteq transactions'[t].approvals]_vars

(* "failed" means that signing or broadcasting failed, so the chain has    *)
(* not accepted the transaction.                                           *)
FailedOffChain(t) ==
  Stored(t) /\ transactions[t].status = "failed" => \A p \in accepted : p.tx # t

FailedIsNotOnChain == \A t \in Txns : FailedOffChain(t)

(* Every custody state transition appends an audit event: with no handler  *)
(* in flight, each approval and each status reached has its event.         *)
Audited(t, type, actor) ==
  \E e \in auditEvents : e.resourceID = t /\ e.type = type /\ e.actor = actor

EveryTransitionIsAudited ==
  (\A r \in Requests : ~InFlight(r)) =>
    \A t \in Txns : Stored(t) =>
      /\ \A s \in transactions[t].approvals : Audited(t, "transaction.approved", s)
      /\ transactions[t].status # "proposed" =>
           Audited(t, CASE transactions[t].status = "signed" -> "transaction.signed"
                        [] transactions[t].status = "broadcast" -> "transaction.broadcast"
                        [] transactions[t].status = "failed" -> "transaction.failed", None)

-----------------------------------------------------------------------------
(* Liveness, under FairSpec. *)

Undecided(t) ==
  /\ Stored(t) /\ transactions[t].status = "proposed"
  /\ ApprovalsCount(transactions[t]) >= 2

(* Co-signing signs after two unique approvals: a proposal that has them   *)
(* does not stay "waiting for quorum".                                     *)
QuorumIsActedOn == \A t \in Txns : Undecided(t) ~> ~Undecided(t)

(* Every request is answered, or lost in a crash. *)
EveryRequestEnds == \A r \in Requests : InFlight(r) ~> pc[r] = "done"
-----------------------------------------------------------------------------
(* The inductive invariant: what a handler's copy still says about the     *)
(* row, and what a row says about the chain.                               *)

Signable(t) == WalletOf[t] \in records /\ t \notin Unsignable

Failing(r, op) == pc[r] = "fail_transaction" /\ call[r].op = op

(* Handlers holding the row that AddApproval, or GetTransaction, returned. *)
HoldsOpenCopy(r) ==
  pc[r] \in {"audit_approved", "sign", "mark_signed"} \/ Failing(r, "cosign")

HoldsSignedCopy(r) ==
  pc[r] \in {"submit", "store_broadcast"} \/ Failing(r, "broadcast")

ApprovalsOK(A) == IsFiniteSet(A) /\ \A s \in A : signerAllowed(s)

CallInv(r) ==
  /\ InFlight(r) => call[r] \in Call
  /\ pc[r] \in CoSignPC => /\ call[r].op = "cosign"
                          /\ call[r].signer \in Signers
                          /\ signerAllowed(call[r].signer)
  /\ pc[r] \in BroadcastPC => call[r].op = "broadcast"

(* While the row is open it has every approval of the copy.  A failure to  *)
(* sign that can still be written is about a key that is gone, or about a  *)
(* proposal that cannot be signed, so nobody else has signed it either.    *)
OpenCopyInv(r) ==
  LET t == call[r].tx
      p == proposal[r]
  IN  HoldsOpenCopy(r) =>
        /\ Stored(t)
        /\ p \in TransactionProposal
        /\ p.status = "proposed" /\ p.signedTransaction = None
        /\ ApprovalsOK(p.approvals)
        /\ transactions[t].status = "proposed" =>
             p.approvals \subseteq transactions[t].approvals
        /\ pc[r] # "audit_approved" => ApprovalsCount(p) >= 2
        /\ pc[r] = "mark_signed" =>
             Signable(t) /\ signature[r] \in Payload /\ signature[r].tx = t
        /\ pc[r] \in {"audit_approved", "sign"} =>
             (transactions[t].signedTransaction # None => Signable(t))
        /\ pc[r] = "fail_transaction" /\ ctx[r] = "live" =>
             ~Signable(t) /\ transactions[t].signedTransaction = None

(* A copy taken for broadcasting agrees with the row for good. *)
SignedCopyInv(r) ==
  LET t == call[r].tx
      p == proposal[r]
  IN  HoldsSignedCopy(r) =>
        /\ Stored(t)
        /\ p \in TransactionProposal
        /\ p.status = "signed" /\ p.signedTransaction # None
        /\ p.signedTransaction = transactions[t].signedTransaction
        /\ p.approvals = transactions[t].approvals
        /\ pc[r] = "store_broadcast" => p.signedTransaction \in accepted

RowInv(t) ==
  LET row == transactions[t]
  IN  Stored(t) =>
        /\ ApprovalsOK(row.approvals)
        /\ row.status = "proposed" => row.signedTransaction = None
        /\ row.status # "proposed" => ApprovalsCount(row) >= 2
        /\ row.status \in {"signed", "broadcast"} => row.signedTransaction # None
        /\ row.signedTransaction # None => row.signedTransaction.tx = t
        /\ row.status = "broadcast" =>
             /\ row.signedTransaction \in accepted
             /\ row.broadcastHash = Hash(row.signedTransaction)

(* Every copy a handler holds may be written back without breaking a row:  *)
(* the strengthening from which the safety properties above follow.        *)
IndInv ==
  /\ TypeOK
  /\ \A r \in Requests : CallInv(r) /\ OpenCopyInv(r) /\ SignedCopyInv(r)
  /\ \A t \in Txns : RowInv(t)
  /\ OnePayloadOnChain

-----------------------------------------------------------------------------
(* The inductive invariant of the audit log: what a handler has appended,  *)
(* or is about to, and what the row still says of it.                      *)

Did(r, type) == \E e \in auditEvents : e.id = r /\ e.type = type

HasApproved(r) == pc[r] = "audit_approved" \/ Did(r, "transaction.approved")
HasSigned(r) == pc[r] = "audit_signed" \/ Did(r, "transaction.signed")
HasBroadcast(r) == pc[r] = "audit_broadcast" \/ Did(r, "transaction.broadcast")

(* An approval that was stored stays in the row for as long as it is open; *)
(* a payload that was stored stays for good.                               *)
ClaimInv(r) ==
  LET t == call[r].tx
      row == transactions[t]
  IN  /\ HasApproved(r) =>
           /\ t \in Txns /\ Stored(t) /\ signerAllowed(call[r].signer)
           /\ row.status = "proposed" => call[r].signer \in row.approvals
      /\ HasSigned(r) => t \in Txns /\ Stored(t) /\ row.signedTransaction # None
      /\ HasBroadcast(r) =>
           /\ t \in Txns /\ Stored(t) /\ row.signedTransaction # None
           /\ row.signedTransaction \in accepted

(* CoSign goes on from the quorum, and answers 200, with its approval      *)
(* audited.                                                                *)
AckInv(r) ==
  /\ pc[r] \in {"sign", "mark_signed", "audit_signed"} => Did(r, "transaction.approved")
  /\ reply[r] = "OK" =>
       /\ pc[r] = "done"
       /\ Did(r, IF call[r].op = "cosign" THEN "transaction.approved"
                                          ELSE "transaction.broadcast")

(* No two requests have stored the same approval, or signed the same       *)
(* proposal.                                                               *)
ClaimedOnce(r, q) ==
  /\ /\ HasApproved(r) /\ HasApproved(q)
     /\ call[r].tx = call[q].tx /\ call[r].signer = call[q].signer
     => r = q
  /\ HasSigned(r) /\ HasSigned(q) /\ call[r].tx = call[q].tx => r = q

AuditInv ==
  /\ \A e \in auditEvents : pc[e.id] # "idle" /\ e = EventOf(e.id, e.type)
  /\ \A r \in Requests : ClaimInv(r) /\ AckInv(r)
  /\ \A r, q \in Requests : ClaimedOnce(r, q)

(* Rows, copies, chain and audit log are consistent. *)
SafetyInv == IndInv /\ AuditInv

(* Without a node only a cancelled request fails to broadcast, and its     *)
(* failure is never stored; what is stored as failed has no payload.       *)
OffChainInv ==
  /\ \A t \in Txns :
       ~UsesRpc(t) /\ Stored(t) /\ transactions[t].status = "failed" =>
         transactions[t].signedTransaction = None
  /\ \A r \in Requests :
       Failing(r, "broadcast") /\ ~UsesRpc(call[r].tx) => ctx[r] = "cancelled"

(* Row may replace the stored row of t. *)
LegalWrite(t, row) ==
  LET old == transactions[t]
  IN  /\ t \in Txns /\ Stored(t)
      /\ row \in TransactionProposal
      /\ ApprovalsOK(row.approvals)
      /\ row.status = "proposed" =>
           /\ old.status = "proposed"
           /\ row.signedTransaction = None
      /\ row.status = "signed" => old.status = "proposed"
      /\ row.status # "failed" => old.approvals \subseteq row.approvals
      /\ row.status # "proposed" => ApprovalsCount(row) >= 2
      /\ row.status \in {"signed", "broadcast"} => row.signedTransaction # None
      /\ row.signedTransaction # None =>
           /\ row.signedTransaction.tx = t
           /\ old.signedTransaction = None => Signable(t)
      /\ old.signedTransaction # None =>
           /\ row.signedTransaction = old.signedTransaction
           /\ row.approvals = old.approvals
      /\ row.status = "broadcast" =>
           /\ row.signedTransaction \in accepted
           /\ row.broadcastHash = Hash(row.signedTransaction)

(* A step leaves the rows alone or writes one of them legally. *)
RowsKept ==
  \/ UNCHANGED transactions
  \/ \E t \in Txns : \E row \in TransactionProposal :
       LegalWrite(t, row) /\ transactions' = [transactions EXCEPT ![t] = row]
=============================================================================
