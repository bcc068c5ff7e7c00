------------------------ MODULE WalletServiceProofs -------------------------
(***************************************************************************)
(* Safety of WalletService, for any number of proposals, signers, wallets  *)
(* and requests and any choice of faults: the invariance of IndInv and of  *)
(* AuditInv, what follows from them, and that WalletService implements     *)
(* QuorumGate.  Only the steps that write a row or publish a payload are   *)
(* visible to QuorumGate; IndInv tells which of its actions they are.      *)
(***************************************************************************)
EXTENDS WalletServiceSteps, FiniteSetTheorems

-----------------------------------------------------------------------------
(* The writes of CoSign. *)

(* AddApproval extends an open row. *)
LEMMA ApprovalIsLegal ==
  ASSUME IndInv, NEW t \in Txns, NEW s \in Signers, signerAllowed(s), AddApproval(t, s)
  PROVE  LET row == [transactions[t] EXCEPT !.approvals = @ \cup {s}]
         IN  /\ LegalWrite(t, row)
             /\ transactions' = [transactions EXCEPT ![t] = row]
             /\ row \in TransactionProposal
             /\ row.status = "proposed" /\ row.signedTransaction = None
             /\ ApprovalsOK(row.approvals)
<1> DEFINE row == [transactions[t] EXCEPT !.approvals = @ \cup {s}]
<1>1. /\ Stored(t) /\ transactions[t] \in TransactionProposal
      /\ transactions[t].status = "proposed" /\ RowInv(t)
      /\ transactions' = [transactions EXCEPT ![t] = row]
  BY StoredRow, Zenon DEF AddApproval, Approvable, IndInv
<1>2. /\ row \in TransactionProposal
      /\ row.approvals = transactions[t].approvals \cup {s}
      /\ row.status = "proposed"
      /\ row.signedTransaction = transactions[t].signedTransaction
  BY <1>1, Zenon DEF TransactionProposal
<1>3. transactions[t].signedTransaction = None /\ ApprovalsOK(transactions[t].approvals)
  BY <1>1, Zenon DEF RowInv
<1>4. ApprovalsOK(row.approvals)
  BY <1>2, <1>3, FS_AddElement, Zenon DEF ApprovalsOK
<1> HIDE DEF row
<1>5. LegalWrite(t, row)
  BY <1>1, <1>2, <1>3, <1>4, Zenon DEF LegalWrite
<1> QED BY <1>1, <1>2, <1>3, <1>4, <1>5, Zenon DEF row

(* MarkTransactionSigned finds the quorum in the row, not only in the      *)
(* handler's copy.                                                         *)
LEMMA SignatureIsLegal ==
  ASSUME IndInv, NEW r \in Requests, pc[r] = "mark_signed",
         MarkTransactionSigned(call[r].tx, signature[r])
  PROVE  LET t == call[r].tx
             row == [transactions[t] EXCEPT !.status = "signed",
                                            !.signedTransaction = signature[r]]
         IN  /\ t \in Txns
             /\ LegalWrite(t, row)
             /\ transactions' = [transactions EXCEPT ![t] = row]
<1> DEFINE t == call[r].tx
           row == [transactions[t] EXCEPT !.status = "signed",
                                          !.signedTransaction = signature[r]]
<1>1. CallInv(r) /\ OpenCopyInv(r)
  BY Zenon DEF IndInv
<1>2. /\ t \in Txns /\ Signable(t)
      /\ signature[r] \in Payload /\ signature[r].tx = t /\ signature[r] # None
      /\ ApprovalsCount(proposal[r]) >= 2
      /\ transactions[t].status = "proposed" =>
           proposal[r].approvals \subseteq transactions[t].approvals
  BY <1>1, NoneAssumption, Zenon DEF CallInv, InFlight, InFlightPC, CoSignPC, Call,
     OpenCopyInv, HoldsOpenCopy
<1>3. /\ Stored(t) /\ transactions[t] \in TransactionProposal
      /\ transactions[t].status = "proposed" /\ RowInv(t)
      /\ transactions' = [transactions EXCEPT ![t] = row]
  BY <1>2, StoredRow, Zenon DEF MarkTransactionSigned, IndInv
<1>4. /\ row \in TransactionProposal
      /\ row.status = "signed" /\ row.signedTransaction = signature[r]
      /\ row.approvals = transactions[t].approvals
  BY <1>2, <1>3, Zenon DEF TransactionProposal, TransactionStatus
<1>5. /\ ApprovalsOK(transactions[t].approvals)
      /\ transactions[t].signedTransaction = None
  BY <1>3, Zenon DEF RowInv
<1>6. ApprovalsCount(transactions[t]) >= 2
  <2>1. /\ IsFiniteSet(transactions[t].approvals)
        /\ proposal[r].approvals \in SUBSET transactions[t].approvals
    BY <1>2, <1>3, <1>5, Zenon DEF ApprovalsOK
  <2>2. Cardinality(proposal[r].approvals) <= Cardinality(transactions[t].approvals)
    BY <2>1, FS_Subset, Zenon
  <2>3. /\ Cardinality(proposal[r].approvals) \in Nat
        /\ Cardinality(transactions[t].approvals) \in Nat
    BY <2>1, FS_Subset, FS_CardinalityType, Zenon
  <2>4. Cardinality(proposal[r].approvals) >= 2
    BY <1>2, Zenon DEF ApprovalsCount
  <2>5. Cardinality(transactions[t].approvals) >= 2
    BY <2>2, <2>3, <2>4
  <2> QED BY <2>5, Zenon DEF ApprovalsCount
<1> HIDE DEF row
<1>7. LegalWrite(t, row)
  BY <1>2, <1>3, <1>4, <1>5, <1>6, Zenon DEF LegalWrite, ApprovalsCount
<1> QED BY <1>2, <1>3, <1>7, Zenon DEF row

-----------------------------------------------------------------------------
(* The invariant and what follows from it. *)

(* Initially no handler holds a copy. *)
LEMMA InitInv == Init => IndInv
<1> SUFFICES ASSUME Init PROVE IndInv
  OBVIOUS
<1>1. NewProposal \in TransactionProposal /\ NewProposal # None
  BY NoneAssumption DEF NewProposal, TransactionProposal, TransactionStatus
<1>2. TypeOK
  BY <1>1, ZenonT(60) DEF Init, TypeOK, StoreTypeOK
<1>3. ASSUME NEW r \in Requests PROVE CallInv(r) /\ OpenCopyInv(r) /\ SignedCopyInv(r)
  BY Zenon DEF Init, CallInv, InFlight, InFlightPC, CoSignPC, BroadcastPC, FailPC,
         OpenCopyInv, SignedCopyInv, HoldsOpenCopy, HoldsSignedCopy, Failing
<1>4. ASSUME NEW t \in Txns PROVE RowInv(t)
  <2>1. transactions[t] = NewProposal \/ transactions[t] = None
    BY Zenon DEF Init
  <2>2. IsFiniteSet({})
    BY FS_EmptySet, Zenon
  <2> QED
    BY <2>1, <2>2 DEF RowInv, Stored, NewProposal, ApprovalsOK
<1>5. OnePayloadOnChain
  BY Zenon DEF Init, OnePayloadOnChain
<1> QED BY <1>2, <1>3, <1>4, <1>5, Zenon DEF IndInv

(* Every step preserves the invariant. *)
LEMMA NextInv ==
  ASSUME IndInv, [Next]_vars
  PROVE  IndInv'
<1>1. CASE UNCHANGED vars
  BY <1>1, StutterInv, Zenon
<1>2. CASE Crash
  BY <1>2, CrashInv, Zenon
<1>3. ASSUME NEW r \in Requests, NEW t \in Txns, NEW s \in Signers \cup {None},
             CoSign(r, t, s)
      PROVE  IndInv'
  BY <1>3, CoSignInv, Zenon
<1>4. ASSUME NEW r \in Requests, NEW t \in Txns, Broadcast(r, t)
      PROVE  IndInv'
  BY <1>4, BroadcastInv, Zenon
<1>5. ASSUME NEW r \in Requests, CoSignStep(r)
      PROVE  IndInv'
  <2>1. CASE ApprovalStored(r)
    <3>1. pc[r] = "add_approval" /\ AddApproval(call[r].tx, call[r].signer)
      BY <2>1, Zenon DEF ApprovalStored, AtCall
    <3>2. /\ call[r].tx \in Txns /\ call[r].signer \in Signers
          /\ signerAllowed(call[r].signer)
      BY <3>1, Zenon DEF IndInv, CallInv, InFlight, InFlightPC, CoSignPC, Call
    <3> QED BY <2>1, <3>1, <3>2, ApprovalIsLegal, ApprovalStoredInv, Zenon
  <2>2. CASE SignatureStored(r)
    BY <2>2, SignatureIsLegal, SignatureStoredInv, Zenon DEF SignatureStored, AtCall
  <2> QED
    BY <1>5, <2>1, <2>2, ApprovalRefusedInv, ApprovalAuditedInv, SignTransactionInv,
       SignFailsInv, SignatureDroppedInv, SignatureAuditedInv, Zenon
       DEF CoSignStep
<1>6. ASSUME NEW r \in Requests, BroadcastStep(r)
      PROVE  IndInv'
  BY <1>6, GetTransactionInv, ChainAcceptsInv, ChainRefusesInv, ChainAnswerLostInv,
     BroadcastStoredInv, BroadcastAuditedInv, Zenon
     DEF BroadcastStep
<1>7. ASSUME NEW r \in Requests,
             failTransaction(r) \/ FailureAudited(r) \/ StoreCallFails(r) \/ Cancel(r)
      PROVE  IndInv'
  BY <1>7, failTransactionInv, FailureAuditedInv, StoreCallFailsInv, CancelInv, Zenon
<1> QED
  BY <1>1, <1>2, <1>3, <1>4, <1>5, <1>6, <1>7, Zenon DEF Next, HandlerStep

(* IndInv holds in every reachable state: every copy that CoSign or        *)
(* Broadcast may still write back is a legal replacement of its row.       *)
THEOREM Invariance == Spec => []IndInv
<1>1. Init => IndInv
  BY InitInv, Zenon
<1>2. IndInv /\ [Next]_vars => IndInv'
  BY NextInv, Zenon
<1> QED BY <1>1, <1>2, PTL DEF Spec

(* The state of the store and of the handlers is always well typed. *)
THEOREM TypeCorrect == Spec => []TypeOK
<1>1. IndInv => TypeOK
  BY Zenon DEF IndInv
<1> QED BY <1>1, Invariance, PTL

(* No proposal is signed, broadcast or failed without two approvals by     *)
(* allowed signers in its row: CoSign and Broadcast, with their stale      *)
(* writes, never lose the quorum.                                          *)
THEOREM QuorumHolds == Spec => []ClosedWithQuorum
<1>1. IndInv => ClosedWithQuorum
  BY Zenon DEF IndInv, ClosedWithQuorum, RowInv, ApprovalsOK
<1> QED BY <1>1, Invariance, PTL

(* Of the signatures that racing co-signers make of a proposal, Broadcast  *)
(* gives the chain only the stored one.                                    *)
THEOREM SinglePayload == Spec => []OnePayloadOnChain
<1>1. IndInv => OnePayloadOnChain
  BY Zenon DEF IndInv
<1> QED BY <1>1, Invariance, PTL

(* Broadcast writes the status "broadcast" and a hash only for a payload   *)
(* that the chain accepted.                                                *)
THEOREM BroadcastHolds == Spec => []BroadcastWasAccepted
<1>1. IndInv => BroadcastWasAccepted
  BY Zenon DEF IndInv, BroadcastWasAccepted, RowInv
<1> QED BY <1>1, Invariance, PTL

(* The four actions that write a row are the ones shown legal above. *)
LEMMA RowsChangeLegally ==
  ASSUME IndInv, [Next]_vars
  PROVE  RowsKept
<1>1. ASSUME NEW r \in Requests, ApprovalStored(r) PROVE RowsKept
  <2>1. pc[r] = "add_approval" /\ AddApproval(call[r].tx, call[r].signer)
    BY <1>1, Zenon DEF ApprovalStored, AtCall
  <2>2. /\ call[r].tx \in Txns /\ call[r].signer \in Signers
        /\ signerAllowed(call[r].signer)
    BY <2>1, Zenon DEF IndInv, CallInv, InFlight, InFlightPC, CoSignPC, Call
  <2>3. PICK row \in TransactionProposal :
          /\ LegalWrite(call[r].tx, row)
          /\ transactions' = [transactions EXCEPT ![call[r].tx] = row]
    BY <2>1, <2>2, ApprovalIsLegal, Zenon
  <2> QED BY <2>2, <2>3, Zenon DEF RowsKept
<1>2. ASSUME NEW r \in Requests, SignatureStored(r) PROVE RowsKept
  BY <1>2, SignatureIsLegal, ZenonT(60) DEF SignatureStored, AtCall, LegalWrite, RowsKept
<1>3. ASSUME NEW r \in Requests, BroadcastStored(r) PROVE RowsKept
  BY <1>3, BroadcastIsLegal, Zenon
     DEF BroadcastStored, AtCall, UpdateTransaction, LegalWrite, RowsKept
<1>4. ASSUME NEW r \in Requests, failTransaction(r) PROVE RowsKept
  BY <1>4, FailureIsLegal, Zenon
     DEF failTransaction, UpdateTransaction, LegalWrite, RowsKept
<1>5. CASE UNCHANGED vars
  BY <1>5, Zenon DEF vars, RowsKept
<1>6. CASE Crash
  BY <1>6, Zenon DEF Crash, store, RowsKept
<1>7. ASSUME NEW r \in Requests,
             \/ \E t \in Txns, s \in Signers \cup {None} : CoSign(r, t, s)
             \/ \E t \in Txns : Broadcast(r, t)
             \/ Cancel(r) \/ StoreCallFails(r) \/ FailureAudited(r)
      PROVE  RowsKept
  BY <1>7, Zenon
     DEF CoSign, Broadcast, Cancel, StoreCallFails, FailureAudited, store, RowsKept
<1>8. ASSUME NEW r \in Requests, CoSignStep(r) PROVE RowsKept
  BY <1>1, <1>2, <1>8, Zenon
     DEF CoSignStep, ApprovalRefused, ApprovalAudited, SignTransaction, SignFails,
         SignatureDropped, SignatureAudited, store, RowsKept
<1>9. ASSUME NEW r \in Requests, BroadcastStep(r) PROVE RowsKept
  BY <1>3, <1>9, Zenon
     DEF BroadcastStep, GetTransaction, ChainAccepts, ChainRefuses, ChainAnswerLost,
         BroadcastAudited, store, RowsKept
<1> QED BY <1>4, <1>5, <1>6, <1>7, <1>8, <1>9, Zenon DEF Next, HandlerStep

(* No step replaces or erases a signed payload; in particular a co-signer  *)
(* whose signing attempt failed never overwrites another one's signature.  *)
THEOREM PayloadKept == Spec => PayloadIsKept
<1>1. IndInv /\ [Next]_vars =>
        \A t \in Txns : Stored(t) /\ transactions[t].signedTransaction # None =>
          transactions'[t].signedTransaction = transactions[t].signedTransaction
  <2> SUFFICES ASSUME IndInv, [Next]_vars, NEW t \in Txns,
                      Stored(t), transactions[t].signedTransaction # None
               PROVE  transactions'[t].signedTransaction = transactions[t].signedTransaction
    OBVIOUS
  <2>1. RowsKept /\ transactions \in [Txns -> TransactionProposal \cup {None}]
    BY RowsChangeLegally, ZenonT(60) DEF IndInv, TypeOK, StoreTypeOK
  <2> QED BY <2>1, Zenon DEF RowsKept, LegalWrite
<1> QED BY <1>1, Invariance, PTL DEF Spec, PayloadIsKept

(* A proposal that was signed, broadcast or failed is never open again,    *)
(* and none but an open one is signed.                                     *)
THEOREM DecisionsAreFinal == Spec => NeverReopened
<1>1. IndInv /\ [Next]_vars =>
        \A t \in Txns : Stored(t) /\ transactions'[t].status # transactions[t].status =>
          /\ transactions'[t].status # "proposed"
          /\ transactions'[t].status = "signed" => transactions[t].status = "proposed"
  <2> SUFFICES ASSUME IndInv, [Next]_vars, NEW t \in Txns,
                      Stored(t), transactions'[t].status # transactions[t].status
               PROVE  /\ transactions'[t].status # "proposed"
                      /\ transactions'[t].status = "signed" =>
                           transactions[t].status = "proposed"
    OBVIOUS
  <2>1. RowsKept /\ transactions \in [Txns -> TransactionProposal \cup {None}]
    BY RowsChangeLegally DEF IndInv, TypeOK, StoreTypeOK
  <2> QED BY <2>1, Zenon DEF RowsKept, LegalWrite
<1> QED BY <1>1, Invariance, PTL DEF Spec, NeverReopened

(* An approval that AddApproval has recorded is dropped by nothing but the *)
(* copy that failTransaction writes over a proposal that was never signed. *)
THEOREM ApprovalsKept == Spec => ApprovalsAreKept
<1>1. IndInv /\ [Next]_vars =>
        \A t \in Txns :
          /\ Stored(t)
          /\ transactions'[t].status = "failed" => transactions[t].signedTransaction # None
          => transactions[t].approvals \subseteq transactions'[t].approvals
  <2> SUFFICES ASSUME IndInv, [Next]_vars, NEW t \in Txns, Stored(t),
                      transactions'[t].status = "failed" =>
                        transactions[t].signedTransaction # None
               PROVE  transactions[t].approvals \subseteq transactions'[t].approvals
    OBVIOUS
  <2>1. RowsKept /\ transactions \in [Txns -> TransactionProposal \cup {None}]
    BY RowsChangeLegally, ZenonT(60) DEF IndInv, TypeOK, StoreTypeOK
  <2> QED BY <2>1, Zenon DEF RowsKept, LegalWrite
<1> QED BY <1>1, Invariance, PTL DEF Spec, ApprovalsAreKept

-----------------------------------------------------------------------------
(* The audit log. *)

(* What the handlers have appended to the audit log, or are about to,      *)
(* agrees with the rows and the chain in every reachable state.            *)
THEOREM AuditInvariance == Spec => []SafetyInv
<1>1. Init => AuditInv
  BY DEF Init, AuditInv, ClaimInv, AckInv, ClaimedOnce, HasApproved, HasSigned,
         HasBroadcast, Did
<1>2. IndInv /\ AuditInv /\ [Next]_vars => AuditInv'
  BY NextAudit, RowsChangeLegally, Zenon
<1>3. IndInv /\ AuditInv => SafetyInv
  BY Zenon DEF SafetyInv
<1> QED BY <1>1, <1>2, <1>3, Invariance, PTL DEF Spec

(* CoSign appends one event for an approval by a signer and one for the    *)
(* signing of a proposal, however many requests race or are retried.       *)
THEOREM EventsAreUnique == Spec => []AuditedOnce
<1>1. SafetyInv => AuditedOnce
  <2> SUFFICES ASSUME SafetyInv, NEW e \in auditEvents, NEW f \in auditEvents,
                      e.type \in {"transaction.approved", "transaction.signed"},
                      e.type = f.type, e.resourceID = f.resourceID, e.actor = f.actor
               PROVE  e.id = f.id
    BY Zenon DEF AuditedOnce
  <2>1. e.id \in Requests /\ f.id \in Requests
    BY DEF SafetyInv, IndInv, TypeOK, StoreTypeOK, AuditEvent
  <2>2. /\ call[e.id].tx = call[f.id].tx
        /\ e.type = "transaction.approved" => call[e.id].signer = call[f.id].signer
    BY DEF SafetyInv, AuditInv, EventOf
  <2>3. Did(e.id, e.type) /\ Did(f.id, e.type)
    BY Zenon DEF Did
  <2> QED BY <2>1, <2>2, <2>3, Zenon
             DEF SafetyInv, AuditInv, ClaimedOnce, HasApproved, HasSigned
<1> QED BY <1>1, AuditInvariance, PTL

(* The audit log records no approval that the policy forbids, no signature *)
(* that is not stored and no broadcast that the chain did not accept.      *)
THEOREM EventsAreTrue == Spec => []AuditIsTrue
<1>1. SafetyInv => AuditIsTrue
  <2> SUFFICES ASSUME SafetyInv, NEW e \in auditEvents
               PROVE  /\ e.type = "transaction.approved" => signerAllowed(e.actor)
                      /\ e.type = "transaction.signed" =>
                           transactions[e.resourceID].signedTransaction # None
                      /\ e.type = "transaction.broadcast" =>
                           transactions[e.resourceID].signedTransaction \in accepted
    BY Zenon DEF AuditIsTrue
  <2>1. e.id \in Requests /\ e = EventOf(e.id, e.type) /\ ClaimInv(e.id)
    BY DEF SafetyInv, AuditInv, IndInv, TypeOK, StoreTypeOK, AuditEvent
  <2>2. /\ e.resourceID = call[e.id].tx
        /\ e.type = "transaction.approved" => e.actor = call[e.id].signer
    BY <2>1 DEF EventOf
  <2>3. Did(e.id, e.type)
    BY Zenon DEF Did
  <2> QED BY <2>1, <2>2, <2>3, Zenon DEF ClaimInv, HasApproved, HasSigned, HasBroadcast
<1> QED BY <1>1, AuditInvariance, PTL

(* CoSign and Broadcast answer 200 only when the approval, or the          *)
(* broadcast, of the request is in the audit log.                          *)
THEOREM AnswersAreAudited == Spec => []AcknowledgedIsAudited
<1>1. SafetyInv => AcknowledgedIsAudited
  <2> SUFFICES ASSUME SafetyInv, NEW r \in Requests, reply[r] = "OK"
               PROVE  \E e \in auditEvents :
                        /\ e.id = r /\ e.resourceID = call[r].tx
                        /\ e.type = IF call[r].op = "cosign" THEN "transaction.approved"
                                                             ELSE "transaction.broadcast"
    BY Zenon DEF AcknowledgedIsAudited
  <2>1. PICK e \in auditEvents :
          /\ e.id = r
          /\ e.type = IF call[r].op = "cosign" THEN "transaction.approved"
                                               ELSE "transaction.broadcast"
    BY DEF SafetyInv, AuditInv, AckInv, Did
  <2>2. e.resourceID = call[e.id].tx
    BY DEF SafetyInv, AuditInv, EventOf
  <2> QED BY <2>1, <2>2, Zenon
<1> QED BY <1>1, AuditInvariance, PTL

-----------------------------------------------------------------------------
(* Failures without a node. *)

(* What a write must not do: store a payload in a failed row. *)
LEMMA WriteKeepsOffChain ==
  ASSUME IndInv, OffChainInv, NEW t, NEW row,
         transactions' = [transactions EXCEPT ![t] = row],
         ~UsesRpc(t) /\ row.status = "failed" => row.signedTransaction = None,
         NEW u \in Txns, ~UsesRpc(u), Stored(u)', transactions'[u].status = "failed"
  PROVE  transactions'[u].signedTransaction = None
<1>1. transactions \in [Txns -> TransactionProposal \cup {None}]
  BY ZenonT(60) DEF IndInv, TypeOK, StoreTypeOK
<1>2. CASE u = t
  BY <1>1, <1>2, Zenon
<1>3. CASE u # t
  <2>1. transactions'[u] = transactions[u]
    BY <1>1, <1>3, Zenon
  <2> QED BY <2>1, Zenon DEF OffChainInv, Stored
<1> QED BY <1>2, <1>3

(* Only a co-signer without a payload stores a failure. *)
LEMMA FailuresHaveNoPayload ==
  ASSUME IndInv, OffChainInv, [Next]_vars,
         NEW u \in Txns, ~UsesRpc(u), Stored(u)', transactions'[u].status = "failed"
  PROVE  transactions'[u].signedTransaction = None
<1> DEFINE Goal == transactions'[u].signedTransaction = None
<1>1. ASSUME UNCHANGED transactions PROVE Goal
  BY <1>1, Zenon DEF OffChainInv, Stored
<1>2. ASSUME NEW r \in Requests, ApprovalStored(r) PROVE Goal
  <2> DEFINE t == call[r].tx
             row == [transactions[t] EXCEPT !.approvals = @ \cup {call[r].signer}]
  <2>1. pc[r] = "add_approval" /\ AddApproval(t, call[r].signer)
    BY <1>2, Zenon DEF ApprovalStored, AtCall
  <2>2. t \in Txns /\ call[r].signer \in Signers /\ signerAllowed(call[r].signer)
    BY <2>1, Zenon DEF IndInv, CallInv, InFlight, InFlightPC, CoSignPC, Call
  <2>3. transactions' = [transactions EXCEPT ![t] = row] /\ row.status = "proposed"
    BY <2>1, <2>2, ApprovalIsLegal, Zenon
  <2>4. row.status # "failed"
    BY <2>3
  <2> HIDE DEF row
  <2> QED BY <2>3, <2>4, WriteKeepsOffChain, Zenon
<1>3. ASSUME NEW r \in Requests, SignatureStored(r) PROVE Goal
  <2> DEFINE t == call[r].tx
             row == [transactions[t] EXCEPT !.status = "signed",
                                            !.signedTransaction = signature[r]]
  <2>1. pc[r] = "mark_signed" /\ MarkTransactionSigned(t, signature[r])
    BY <1>3, Zenon DEF SignatureStored, AtCall
  <2>2. t \in Txns /\ transactions' = [transactions EXCEPT ![t] = row]
    BY <2>1, SignatureIsLegal, Zenon
  <2>3. transactions[t] \in TransactionProposal
    BY <2>1, <2>2, StoredRow, Zenon DEF MarkTransactionSigned, IndInv
  <2>4. row.status = "signed"
    BY <2>3, Zenon DEF TransactionProposal
  <2>5. row.status # "failed"
    BY <2>4
  <2> HIDE DEF row
  <2> QED BY <2>2, <2>5, WriteKeepsOffChain, Zenon
<1>4. ASSUME NEW r \in Requests, BroadcastStored(r) PROVE Goal
  <2>1. pc[r] = "store_broadcast" /\ UpdateTransaction(call[r].tx, BroadcastCopy(r))
    BY <1>4, Zenon DEF BroadcastStored, AtCall
  <2>2. proposal[r] \in TransactionProposal
    BY <2>1, Zenon DEF IndInv, SignedCopyInv, HoldsSignedCopy
  <2>3. BroadcastCopy(r).status = "broadcast"
    BY <2>2, Zenon DEF BroadcastCopy, TransactionProposal
  <2>4. BroadcastCopy(r).status # "failed"
    BY <2>3
  <2> QED BY <2>1, <2>4, WriteKeepsOffChain, Zenon DEF UpdateTransaction
<1>5. ASSUME NEW r \in Requests, failTransaction(r) PROVE Goal
  <2>1. CASE ctx[r] = "live" /\ UpdateTransaction(call[r].tx, FailedCopy(r))
    <3>1. pc[r] = "fail_transaction" /\ CallInv(r) /\ OpenCopyInv(r) /\ SignedCopyInv(r)
      BY <1>5, Zenon DEF failTransaction, IndInv
    <3>2. call[r].op \in {"cosign", "broadcast"}
      BY <3>1, Zenon DEF CallInv, InFlight, InFlightPC, FailPC, Call
    <3>3. CASE call[r].op = "cosign"
      <4>1. proposal[r] \in TransactionProposal /\ proposal[r].signedTransaction = None
        BY <3>1, <3>3, Zenon DEF OpenCopyInv, HoldsOpenCopy, Failing
      <4>2. FailedCopy(r).signedTransaction = None
        BY <4>1, Zenon DEF FailedCopy, TransactionProposal
      <4> QED BY <2>1, <4>2, WriteKeepsOffChain, Zenon DEF UpdateTransaction
    <3>4. CASE call[r].op = "broadcast"
      <4>1. ctx[r] # "cancelled"
        BY <2>1
      <4>2. UsesRpc(call[r].tx)
        BY <3>1, <3>4, <4>1, Zenon DEF OffChainInv, Failing
      <4> QED BY <2>1, <4>2, WriteKeepsOffChain, Zenon DEF UpdateTransaction
    <3> QED BY <3>2, <3>3, <3>4, Zenon
  <2>2. CASE UNCHANGED transactions
    BY <1>1, <2>2, Zenon
  <2> QED BY <1>5, <2>1, <2>2, Zenon DEF failTransaction
<1>6. CASE UNCHANGED vars \/ Crash
  BY <1>1, <1>6, Zenon DEF vars, Crash, store
<1>7. ASSUME NEW r \in Requests,
             \/ \E t \in Txns, s \in Signers \cup {None} : CoSign(r, t, s)
             \/ \E t \in Txns : Broadcast(r, t)
             \/ Cancel(r) \/ StoreCallFails(r) \/ FailureAudited(r)
      PROVE  Goal
  BY <1>1, <1>7, Zenon DEF CoSign, Broadcast, Cancel, StoreCallFails, FailureAudited, store
<1>8. ASSUME NEW r \in Requests, CoSignStep(r) PROVE Goal
  BY <1>1, <1>2, <1>3, <1>8, Zenon
     DEF CoSignStep, ApprovalRefused, ApprovalAudited, SignTransaction, SignFails,
         SignatureDropped, SignatureAudited, store
<1>9. ASSUME NEW r \in Requests, BroadcastStep(r) PROVE Goal
  BY <1>1, <1>4, <1>9, Zenon
     DEF BroadcastStep, GetTransaction, ChainAccepts, ChainRefuses, ChainAnswerLost,
         BroadcastAudited, store
<1> QED BY <1>5, <1>6, <1>7, <1>8, <1>9, Zenon DEF Next, HandlerStep

(* Without a node, a broadcast fails only on a cancelled context. *)
LEMMA FailingIsCancelled ==
  ASSUME IndInv, OffChainInv, [Next]_vars,
         NEW q \in Requests, Failing(q, "broadcast")', ~UsesRpc(call[q].tx)'
  PROVE  ctx'[q] = "cancelled"
<1> DEFINE Goal == ctx'[q] = "cancelled"
<1>1. /\ pc \in [Requests -> {"idle", "done"} \cup InFlightPC]
      /\ ctx \in [Requests -> {"live", "cancelled"}]
      /\ call \in [Requests -> Call \cup {None}]
  BY ZenonT(60) DEF IndInv, TypeOK
<1>2. pc'[q] = "fail_transaction" /\ call'[q].op = "broadcast"
  BY Zenon DEF Failing
<1>3. ASSUME pc'[q] = pc[q], call'[q] = call[q], ctx'[q] = ctx[q] PROVE Goal
  <2>1. Failing(q, "broadcast") /\ ~UsesRpc(call[q].tx)
    BY <1>2, <1>3, Zenon DEF Failing, UsesRpc
  <2> QED BY <1>3, <2>1, Zenon DEF OffChainInv
<1>4. ASSUME NEW r \in Requests, NEW label, label # "fail_transaction", Goto(r, label),
             UNCHANGED ctx
      PROVE  Goal
  <2>1. CASE q = r
    BY <1>1, <1>2, <1>4, <2>1, Zenon DEF Goto
  <2>2. CASE q # r
    BY <1>1, <1>3, <1>4, <2>2, Zenon DEF Goto
  <2> QED BY <2>1, <2>2
<1>5. ASSUME NEW r \in Requests, NEW status, Answer(r, status) PROVE Goal
  <2>1. CASE q = r
    <3>1. pc'[q] = "done"
      BY <1>1, <1>5, <2>1, Zenon DEF Answer
    <3> QED BY <1>2, <3>1
  <2>2. CASE q # r
    BY <1>1, <1>3, <1>5, <2>2, Zenon DEF Answer
  <2> QED BY <2>1, <2>2
<1>6. ASSUME NEW r \in Requests, Goto(r, "fail_transaction"), UNCHANGED ctx,
             \/ call[r].op # "broadcast"
             \/ UsesRpc(call[r].tx)
             \/ ctx[r] = "cancelled"
      PROVE  Goal
  <2>1. CASE q = r
    BY <1>2, <1>6, <2>1, Zenon DEF Goto, UsesRpc
  <2>2. CASE q # r
    BY <1>1, <1>3, <1>6, <2>2, Zenon DEF Goto
  <2> QED BY <2>1, <2>2
<1>7. \A label \in (CoSignPC \cup BroadcastPC) \cup {"audit_failed"} : label # "fail_transaction"
  BY DEF CoSignPC, BroadcastPC
<1>8. ASSUME NEW r \in Requests, NEW t, NEW s, CoSign(r, t, s) PROVE Goal
  <2>1. CASE q = r
    <3>1. pc'[q] \in {"add_approval", "done"}
      BY <1>1, <1>8, <2>1, Zenon DEF CoSign
    <3> QED BY <1>2, <3>1
  <2>2. CASE q # r
    BY <1>1, <1>3, <1>8, <2>2, ZenonT(60) DEF CoSign, locals
  <2> QED BY <2>1, <2>2
<1>9. ASSUME NEW r \in Requests, NEW t, Broadcast(r, t) PROVE Goal
  <2>1. CASE q = r
    <3>1. pc'[q] = "get_transaction"
      BY <1>1, <1>9, <2>1, Zenon DEF Broadcast
    <3> QED BY <1>2, <3>1
  <2>2. CASE q # r
    BY <1>1, <1>3, <1>9, <2>2, Zenon DEF Broadcast, locals
  <2> QED BY <2>1, <2>2
<1>10. ASSUME NEW r \in Requests, Cancel(r) PROVE Goal
  <2>1. CASE q = r
    BY <1>1, <1>10, <2>1, Zenon DEF Cancel
  <2>2. CASE q # r
    BY <1>1, <1>3, <1>10, <2>2, Zenon DEF Cancel
  <2> QED BY <2>1, <2>2
<1>11. CASE Crash
  <2>1. pc'[q] = (IF InFlight(q) THEN "done" ELSE pc[q])
    BY <1>11, Zenon DEF Crash
  <2>2. pc'[q] # "fail_transaction"
    BY <2>1 DEF InFlight, InFlightPC, FailPC
  <2> QED BY <1>2, <2>2
<1>12. CASE UNCHANGED vars
  BY <1>3, <1>12, Zenon DEF vars, handlers
<1>13. ASSUME NEW r \in Requests, SignFails(r) PROVE Goal
  <2>1. pc[r] = "sign" /\ Goto(r, "fail_transaction") /\ UNCHANGED ctx
    BY <1>13, Zenon DEF SignFails, locals
  <2>2. call[r].op = "cosign"
    BY <2>1, Zenon DEF IndInv, CallInv, CoSignPC
  <2>3. call[r].op # "broadcast"
    BY <2>2
  <2> QED BY <1>6, <2>1, <2>3, Zenon
<1>14. ASSUME NEW r \in Requests, CoSignStep(r) PROVE Goal
  BY <1>4, <1>5, <1>7, <1>13, <1>14, ZenonT(60)
     DEF CoSignStep, ApprovalRefused, ApprovalStored, ApprovalAudited, SignTransaction,
         SignatureStored, SignatureDropped, SignatureAudited, locals, CoSignPC
<1>15. ASSUME NEW r \in Requests, ChainRefuses(r) \/ ChainAnswerLost(r) PROVE Goal
  BY <1>6, <1>15, Zenon DEF ChainRefuses, ChainAnswerLost, locals
<1>16. ASSUME NEW r \in Requests, BroadcastStep(r) PROVE Goal
  BY <1>4, <1>5, <1>7, <1>15, <1>16, ZenonT(60)
     DEF BroadcastStep, GetTransaction, ChainAccepts, BroadcastStored, BroadcastAudited,
         locals, BroadcastPC
<1>17. ASSUME NEW r \in Requests, failTransaction(r) \/ FailureAudited(r) \/ StoreCallFails(r)
       PROVE  Goal
  BY <1>4, <1>5, <1>7, <1>17, ZenonT(60) DEF failTransaction, FailureAudited, StoreCallFails, locals
<1> QED BY <1>8, <1>9, <1>10, <1>11, <1>12, <1>14, <1>16, <1>17, Zenon DEF Next, HandlerStep

(* A Bitcoin proposal, or an EVM one without a node, that is stored as     *)
(* failed was never on the chain, also beside EVM proposals that go to a   *)
(* node: a broadcast that fails then had its context cancelled, on which   *)
(* failTransaction writes nothing.                                         *)
THEOREM LocalFailures == Spec => [](\A t \in Txns : ~UsesRpc(t) => FailedOffChain(t))
<1>1. Init => OffChainInv
  <2> SUFFICES ASSUME Init PROVE OffChainInv
    OBVIOUS
  <2>1. ASSUME NEW t \in Txns, Stored(t) PROVE transactions[t].status # "failed"
    BY <2>1 DEF Init, Stored, NewProposal
  <2>2. ASSUME NEW r \in Requests PROVE pc[r] # "fail_transaction"
    BY DEF Init
  <2> QED BY <2>1, <2>2, Zenon DEF OffChainInv, Failing
<1>2. IndInv /\ OffChainInv /\ [Next]_vars => OffChainInv'
  <2> SUFFICES ASSUME IndInv, OffChainInv, [Next]_vars PROVE OffChainInv'
    OBVIOUS
  <2>1. \A t \in Txns : UsesRpc(t)' = UsesRpc(t)
    BY Zenon DEF UsesRpc
  <2> QED BY <2>1, FailuresHaveNoPayload, FailingIsCancelled, Zenon DEF OffChainInv
<1>3. IndInv /\ OffChainInv => \A t \in Txns : ~UsesRpc(t) => FailedOffChain(t)
  <2> SUFFICES ASSUME IndInv, OffChainInv, NEW t \in Txns, ~UsesRpc(t), Stored(t),
                      transactions[t].status = "failed", NEW p \in accepted, p.tx = t
               PROVE  FALSE
    BY Zenon DEF FailedOffChain
  <2>1. transactions[t].signedTransaction = p
    BY Zenon DEF IndInv, OnePayloadOnChain
  <2>2. p \in Payload
    BY ZenonT(60) DEF IndInv, TypeOK
  <2> QED BY <2>1, <2>2, NoneAssumption, Zenon DEF OffChainInv
<1> QED BY <1>1, <1>2, <1>3, Invariance, PTL DEF Spec

(* So a deployment without a node keeps what "failed" promises. *)
THEOREM FailedStaysOffChain ==
  ASSUME \A t \in Txns : ~UsesRpc(t)
  PROVE  Spec => []FailedIsNotOnChain
<1>1. (\A t \in Txns : ~UsesRpc(t) => FailedOffChain(t)) => FailedIsNotOnChain
  BY Zenon DEF FailedIsNotOnChain
<1> QED BY <1>1, LocalFailures, PTL

-----------------------------------------------------------------------------
(* The refinement of QuorumGate. *)

(* Storing an approval approves an open proposal. *)
LEMMA ApproveStep ==
  ASSUME IndInv, NEW r \in Requests, ApprovalStored(r)
  PROVE  Gate!GateNext
<1> DEFINE t == call[r].tx
           s == call[r].signer
           row == [transactions[t] EXCEPT !.approvals = @ \cup {s}]
<1>1. /\ TypeOK /\ pc[r] = "add_approval" /\ AddApproval(t, s) /\ UNCHANGED accepted
  BY Zenon DEF ApprovalStored, AtCall, IndInv
<1>2. t \in Txns /\ s \in Signers /\ signerAllowed(s)
  BY <1>1, Zenon DEF IndInv, CallInv, InFlight, InFlightPC, CoSignPC, Call
<1>3. /\ transactions' = [transactions EXCEPT ![t] = row]
      /\ row \in TransactionProposal
      /\ row.status = "proposed" /\ row.signedTransaction = None
  BY <1>1, <1>2, ApprovalIsLegal, Zenon
<1>4. /\ Stored(t) /\ transactions[t] \in TransactionProposal
      /\ transactions[t].status = "proposed" /\ transactions[t].signedTransaction = None
      /\ s \notin transactions[t].approvals
      /\ row.approvals = transactions[t].approvals \cup {s}
  <2>1. Stored(t) /\ transactions[t] \in TransactionProposal /\ RowInv(t)
    BY <1>1, <1>2, StoredRow, Zenon DEF AddApproval, Approvable, IndInv
  <2> QED BY <1>1, <2>1, Zenon DEF AddApproval, Approvable, RowInv, TransactionProposal
<1> HIDE DEF row
<1>5. /\ gateBar[t] = "open" /\ approvalsBar[t] = transactions[t].approvals
      /\ sealedBar[t] = None
  BY <1>2, <1>4, Zenon DEF gateBar, approvalsBar, sealedBar, GateOf
<1>6. /\ gateBar' = [gateBar EXCEPT ![t] = "open"]
      /\ sealedBar' = [sealedBar EXCEPT ![t] = None]
      /\ approvalsBar' = [approvalsBar EXCEPT ![t] = row.approvals]
  BY <1>1, <1>2, <1>3, MapWrite, Zenon
<1>7. /\ gateBar' = gateBar /\ sealedBar' = sealedBar
      /\ approvalsBar' = [approvalsBar EXCEPT ![t] = approvalsBar[t] \cup {s}]
  BY <1>4, <1>5, <1>6, Zenon DEF gateBar, sealedBar
<1>8. Gate!Approve(t, s)
  BY <1>1, <1>4, <1>5, <1>7, Zenon DEF Gate!Approve
<1> QED BY <1>2, <1>8, Zenon DEF Gate!GateNext

(* Two approvals are two different signers. *)
LEMMA TwoApprovers ==
  ASSUME NEW A, IsFiniteSet(A), Cardinality(A) >= 2
  PROVE  \E a, b \in A : a # b
<1>1. A # {}
  BY FS_EmptySet
<1>2. PICK a \in A : TRUE
  BY <1>1, Zenon
<1>3. ASSUME \A b \in A : b = a PROVE FALSE
  <2>1. A = {a}
    BY <1>2, <1>3, Zenon
  <2> QED BY <2>1, FS_Singleton
<1> QED BY <1>2, <1>3, Zenon

(* Storing a signature seals the proposal. *)
LEMMA SealStep ==
  ASSUME IndInv, NEW r \in Requests, SignatureStored(r)
  PROVE  Gate!GateNext
<1> DEFINE t == call[r].tx
           row == [transactions[t] EXCEPT !.status = "signed",
                                          !.signedTransaction = signature[r]]
<1>1. /\ TypeOK /\ pc[r] = "mark_signed" /\ UNCHANGED accepted
      /\ MarkTransactionSigned(t, signature[r])
  BY Zenon DEF SignatureStored, AtCall, IndInv
<1>2. /\ t \in Txns /\ LegalWrite(t, row)
      /\ transactions' = [transactions EXCEPT ![t] = row]
  BY <1>1, SignatureIsLegal, Zenon
<1>3. signature[r] \in Payload /\ signature[r].tx = t /\ signature[r] # None
  BY <1>1, NoneAssumption, Zenon DEF IndInv, OpenCopyInv, HoldsOpenCopy
<1>4. /\ Stored(t) /\ transactions[t] \in TransactionProposal
      /\ transactions[t].status = "proposed" /\ transactions[t].signedTransaction = None
  BY <1>1, <1>2, StoredRow, Zenon DEF MarkTransactionSigned, IndInv, RowInv
<1>5. /\ row \in TransactionProposal /\ row.status = "signed"
      /\ row.signedTransaction = signature[r]
      /\ row.approvals = transactions[t].approvals
  BY <1>3, <1>4, Zenon DEF TransactionProposal, TransactionStatus
<1> HIDE DEF row
<1>6. \E a, b \in transactions[t].approvals : a # b
  BY <1>2, <1>5, TwoApprovers, Zenon DEF LegalWrite, ApprovalsCount, ApprovalsOK
<1>7. /\ gateBar[t] = "open" /\ approvalsBar[t] = transactions[t].approvals
  BY <1>2, <1>4, Zenon DEF gateBar, approvalsBar, GateOf
<1>8. /\ gateBar' = [gateBar EXCEPT ![t] = "sealed"]
      /\ sealedBar' = [sealedBar EXCEPT ![t] = signature[r]]
      /\ approvalsBar' = [approvalsBar EXCEPT ![t] = approvalsBar[t]]
  <2>1. /\ gateBar' = [gateBar EXCEPT ![t] = "sealed"]
        /\ sealedBar' = [sealedBar EXCEPT ![t] = row.signedTransaction]
        /\ approvalsBar' = [approvalsBar EXCEPT ![t] = row.approvals]
    BY <1>1, <1>2, <1>3, <1>5, MapWrite, Zenon
  <2> QED BY <1>5, <1>7, <2>1, Zenon
<1>9. approvalsBar' = approvalsBar
  BY <1>8, Zenon DEF approvalsBar
<1>10. Gate!Seal(t, signature[r])
  BY <1>1, <1>3, <1>6, <1>7, <1>8, <1>9, Zenon DEF Gate!Seal, Gate!HasQuorum
<1> QED BY <1>2, <1>3, <1>10, Zenon DEF Gate!GateNext

(* A copy taken for broadcasting is written back unseen, whatever status   *)
(* it is given.                                                            *)
LEMMA BroadcastWriteStutters ==
  ASSUME IndInv, NEW r \in Requests, HoldsSignedCopy(r),
         NEW row \in TransactionProposal,
         row.signedTransaction = proposal[r].signedTransaction,
         row.approvals = proposal[r].approvals,
         transactions' = [transactions EXCEPT ![call[r].tx] = row], UNCHANGED accepted
  PROVE  UNCHANGED Gate!gateVars
<1> DEFINE t == call[r].tx
<1>1. TypeOK /\ CallInv(r) /\ SignedCopyInv(r)
  BY Zenon DEF IndInv
<1>2. t \in Txns
  BY <1>1, Zenon
     DEF CallInv, InFlight, InFlightPC, BroadcastPC, FailPC, Call, HoldsSignedCopy, Failing
<1>3. /\ Stored(t) /\ row.signedTransaction # None
      /\ row.signedTransaction = transactions[t].signedTransaction
      /\ row.approvals = transactions[t].approvals
  BY <1>1, Zenon DEF SignedCopyInv
<1> QED BY <1>1, <1>2, <1>3, MapRewrite, Zenon

(* In particular when it is written back as broadcast. *)
LEMMA BroadcastStoredStutters ==
  ASSUME IndInv, NEW r \in Requests, BroadcastStored(r)
  PROVE  UNCHANGED Gate!gateVars
<1>1. /\ pc[r] = "store_broadcast" /\ UNCHANGED accepted
      /\ transactions' = [transactions EXCEPT ![call[r].tx] = BroadcastCopy(r)]
  BY Zenon DEF BroadcastStored, AtCall, UpdateTransaction
<1>2. HoldsSignedCopy(r) /\ proposal[r] \in TransactionProposal
  BY <1>1, Zenon DEF HoldsSignedCopy, IndInv, SignedCopyInv
<1>3. /\ BroadcastCopy(r) \in TransactionProposal
      /\ BroadcastCopy(r).signedTransaction = proposal[r].signedTransaction
      /\ BroadcastCopy(r).approvals = proposal[r].approvals
  <2>1. BroadcastCopy(r) \in TransactionProposal
    BY <1>1, BroadcastIsLegal, Zenon DEF LegalWrite
  <2> QED BY <1>2, <2>1, Zenon DEF BroadcastCopy, TransactionProposal
<1> QED BY <1>1, <1>2, <1>3, BroadcastWriteStutters, Zenon

(* A failed signing attempt abandons an open proposal; on one that was     *)
(* abandoned already it changes nothing.                                   *)
LEMMA FailStep ==
  ASSUME IndInv, NEW r \in Requests, failTransaction(r)
  PROVE  Gate!GateNext \/ UNCHANGED Gate!gateVars
<1> DEFINE t == call[r].tx
           row == FailedCopy(r)
<1>1. /\ TypeOK /\ CallInv(r) /\ OpenCopyInv(r)
      /\ pc[r] = "fail_transaction" /\ UNCHANGED accepted
  BY Zenon DEF failTransaction, IndInv
<1>2. CASE UNCHANGED transactions
  BY <1>1, <1>2, MapStutter, Zenon
<1>3. CASE ctx[r] = "live" /\ UpdateTransaction(t, row)
  <2>1. /\ t \in Txns /\ LegalWrite(t, row)
        /\ transactions' = [transactions EXCEPT ![t] = row]
    BY <1>1, <1>3, FailureIsLegal, Zenon DEF UpdateTransaction
  <2>2. call[r].op \in {"cosign", "broadcast"} /\ proposal[r] \in TransactionProposal
    <3>1. call[r].op \in {"cosign", "broadcast"}
      BY <1>1, Zenon DEF CallInv, InFlight, InFlightPC, FailPC, Call
    <3> QED BY <1>1, <3>1, Zenon DEF IndInv, OpenCopyInv, HoldsOpenCopy, SignedCopyInv,
                              HoldsSignedCopy, Failing
  <2>3. /\ row \in TransactionProposal /\ row.status = "failed"
        /\ row.signedTransaction = proposal[r].signedTransaction
        /\ row.approvals = proposal[r].approvals
    BY <2>1, <2>2, Zenon DEF LegalWrite, FailedCopy, TransactionProposal
  <2> HIDE DEF row
  <2>4. CASE call[r].op = "broadcast"
    BY <1>1, <2>1, <2>3, <2>4, BroadcastWriteStutters, Zenon DEF HoldsSignedCopy, Failing
  <2>5. CASE call[r].op = "cosign"
    <3>1. /\ Stored(t) /\ row.signedTransaction = None
          /\ transactions[t].signedTransaction = None
          /\ ApprovalsCount(proposal[r]) >= 2
          /\ transactions[t].status = "proposed" =>
               proposal[r].approvals \subseteq transactions[t].approvals
      BY <1>1, <1>3, <2>3, <2>5, Zenon DEF OpenCopyInv, HoldsOpenCopy, Failing
    <3>2. CASE transactions[t].status # "proposed"
      BY <1>1, <2>1, <2>3, <3>1, <3>2, MapRewrite, Zenon
    <3>3. CASE transactions[t].status = "proposed"
      <4>1. \E a, b \in transactions[t].approvals : a # b
        <5>1. /\ IsFiniteSet(transactions[t].approvals)
              /\ proposal[r].approvals \in SUBSET transactions[t].approvals
          BY <2>1, <3>1, <3>3, Zenon DEF IndInv, RowInv, ApprovalsOK
        <5>2. /\ Cardinality(proposal[r].approvals) <= Cardinality(transactions[t].approvals)
              /\ Cardinality(proposal[r].approvals) \in Nat
              /\ Cardinality(transactions[t].approvals) \in Nat
          BY <5>1, FS_Subset, FS_CardinalityType, Zenon
        <5>3. Cardinality(transactions[t].approvals) >= 2
          BY <3>1, <5>2 DEF ApprovalsCount
        <5> QED BY <5>1, <5>3, TwoApprovers
      <4>2. /\ gateBar[t] = "open" /\ approvalsBar[t] = transactions[t].approvals
            /\ sealedBar[t] = None
        BY <2>1, <3>1, <3>3, Zenon DEF gateBar, approvalsBar, sealedBar, GateOf
      <4>3. /\ gateBar' = [gateBar EXCEPT ![t] = "abandoned"]
            /\ sealedBar' = [sealedBar EXCEPT ![t] = sealedBar[t]]
            /\ approvalsBar' = [approvalsBar EXCEPT ![t] = {}]
        BY <1>1, <2>1, <2>3, <3>1, <4>2, MapWrite, Zenon
      <4>4. sealedBar' = sealedBar
        BY <4>3, Zenon DEF sealedBar
      <4>5. Gate!Abandon(t)
        BY <1>1, <4>1, <4>2, <4>3, <4>4, Zenon DEF Gate!Abandon, Gate!HasQuorum
      <4> QED BY <2>1, <4>5, Zenon DEF Gate!GateNext
    <3> QED BY <3>2, <3>3, Zenon
  <2> QED BY <2>2, <2>4, <2>5, Zenon
<1> QED BY <1>2, <1>3, Zenon DEF failTransaction

(* The chain takes only what its proposal is sealed with. *)
LEMMA PublishStep ==
  ASSUME IndInv, NEW r \in Requests, pc[r] = "submit", UNCHANGED transactions,
         accepted' = accepted \cup {proposal[r].signedTransaction}
  PROVE  Gate!GateNext
<1> DEFINE t == call[r].tx
<1>1. /\ t \in Txns /\ Stored(t)
      /\ proposal[r].signedTransaction # None
      /\ transactions[t].signedTransaction = proposal[r].signedTransaction
  BY SubmittedPayload, Zenon
<1>2. gateBar[t] = "sealed" /\ sealedBar[t] = proposal[r].signedTransaction
  BY <1>1, Zenon DEF gateBar, sealedBar, GateOf
<1>3. UNCHANGED <<gateBar, approvalsBar, sealedBar>>
  BY Zenon DEF gateBar, approvalsBar, sealedBar, GateOf, Stored
<1>4. Gate!Publish(t)
  BY <1>2, <1>3, Zenon DEF Gate!Publish
<1> QED BY <1>1, <1>4, Zenon DEF Gate!GateNext

(* Every step of the service is a step of the gate, or invisible. *)
LEMMA GateStep ==
  ASSUME IndInv, [Next]_vars
  PROVE  [Gate!GateNext]_(Gate!gateVars)
<1> DEFINE Goal == Gate!GateNext \/ UNCHANGED Gate!gateVars
<1>1. CASE UNCHANGED vars
  BY <1>1, MapStutter, Zenon DEF vars
<1>2. CASE Crash
  BY <1>2, MapStutter, Zenon DEF Crash, store
<1>3. ASSUME NEW r \in Requests,
             \/ \E t \in Txns, s \in Signers \cup {None} : CoSign(r, t, s)
             \/ \E t \in Txns : Broadcast(r, t)
             \/ Cancel(r) \/ StoreCallFails(r) \/ FailureAudited(r)
      PROVE  Goal
  <2>1. UNCHANGED <<transactions, accepted>>
    BY <1>3, Zenon DEF CoSign, Broadcast, Cancel, StoreCallFails, FailureAudited, store
  <2> QED BY <2>1, MapStutter, Zenon
<1>4. ASSUME NEW r \in Requests, CoSignStep(r) PROVE Goal
  <2>1. CASE ApprovalStored(r) \/ SignatureStored(r)
    BY <2>1, ApproveStep, SealStep, Zenon
  <2>2. CASE ~(ApprovalStored(r) \/ SignatureStored(r))
    <3>1. UNCHANGED <<transactions, accepted>>
      BY <1>4, <2>2, Zenon DEF CoSignStep, ApprovalRefused, ApprovalAudited, SignTransaction,
         SignFails, SignatureDropped, SignatureAudited, store
    <3> QED BY <3>1, MapStutter, Zenon
  <2> QED BY <2>1, <2>2, Zenon
<1>5. ASSUME NEW r \in Requests, BroadcastStep(r) PROVE Goal
  <2>1. CASE BroadcastStored(r)
    BY <2>1, BroadcastStoredStutters, Zenon
  <2>2. CASE ChainAccepts(r) \/ ChainAnswerLost(r)
    BY <2>2, PublishStep, Zenon DEF ChainAccepts, ChainAnswerLost, AtCall, store
  <2>3. CASE GetTransaction(r) \/ ChainRefuses(r) \/ BroadcastAudited(r)
    <3>1. UNCHANGED <<transactions, accepted>>
      BY <2>3, Zenon DEF GetTransaction, ChainRefuses, BroadcastAudited, store
    <3> QED BY <3>1, MapStutter, Zenon
  <2> QED BY <1>5, <2>1, <2>2, <2>3, Zenon DEF BroadcastStep
<1>6. ASSUME NEW r \in Requests, failTransaction(r) PROVE Goal
  BY <1>6, FailStep, Zenon
<1> QED BY <1>1, <1>2, <1>3, <1>4, <1>5, <1>6, Zenon DEF Next, HandlerStep

(* The service starts where the gate does. *)
LEMMA GateStart ==
  ASSUME Init
  PROVE  Gate!GateInit
<1>1. NewProposal # None
  BY NoneAssumption DEF NewProposal, TransactionProposal, TransactionStatus
<1>2. \A t \in Txns : transactions[t] \in {NewProposal, None}
  BY Zenon DEF Init
<1>3. gateBar \in [Txns -> {"absent", "open"}]
  BY <1>1, <1>2 DEF gateBar, GateOf, Stored, NewProposal
<1>4. approvalsBar = [t \in Txns |-> {}] /\ sealedBar = [t \in Txns |-> None]
  BY <1>1, <1>2 DEF approvalsBar, sealedBar, GateOf, Stored, NewProposal
<1> QED BY <1>3, <1>4, Zenon DEF Init, Gate!GateInit

(* The service implements the quorum gate: whatever requests, stale        *)
(* copies, crashes and lost answers do, CoSign and Broadcast only ever     *)
(* approve, seal, abandon or publish a proposal.                           *)
THEOREM Refinement == Spec => ImplementsGate
<1>1. Init => Gate!GateInit
  BY GateStart, Zenon
<1>2. IndInv /\ [Next]_vars => [Gate!GateNext]_(Gate!gateVars)
  BY GateStep, Zenon
<1> QED BY <1>1, <1>2, Invariance, PTL DEF Spec, ImplementsGate, Gate!GateSpec
=============================================================================
