------------------------- MODULE WalletServiceSteps -------------------------
(***************************************************************************)
(* How the steps of WalletService preserve IndInv and AuditInv.            *)
(*                                                                         *)
(* Handlers write whole copies of a row back, so what has to be shown for  *)
(* IndInv is that every copy that can be written is a legal replacement of *)
(* the row as it is by then (LegalWrite).  WriteKeepsRows and              *)
(* WriteKeepsHandler show that a legal write preserves IndInv, whichever   *)
(* action makes it; the lemmas after them are about steps that write no    *)
(* row and, action by action, about what the handlers write back.          *)
(*                                                                         *)
(* AuditInv relates the audit log to the rows, to the chain and to what    *)
(* the handlers are about to append.  A handler claims something, an       *)
(* approval, a signature or a broadcast, when the store takes its write,   *)
(* and appends the event for it in a later call: until then its claim is   *)
(* in its control state.  A step that claims nothing new keeps what was    *)
(* claimed, because no row may be replaced so that a claim about it        *)
(* becomes false (RowsKept); a step that claims something is shown to be   *)
(* the first to claim it.                                                  *)
(***************************************************************************)
EXTENDS WalletServiceGate, TLAPS

HandlerInv(r) == CallInv(r) /\ OpenCopyInv(r) /\ SignedCopyInv(r)

(* What the typing of the handlers' state consists of. *)
HandlersTypeOK ==
  /\ pc \in [Requests -> {"idle", "done"} \cup InFlightPC]
  /\ ctx \in [Requests -> {"live", "cancelled"}]
  /\ call \in [Requests -> Call \cup {None}]
  /\ proposal \in [Requests -> TransactionProposal \cup {None}]
  /\ signature \in [Requests -> Payload \cup {None}]
  /\ reply \in [Requests -> {"none", "OK", "BadRequest", "Forbidden", "NotFound", "InternalServerError"}]

(* Only request r moves. *)
OthersUnchanged(r) ==
  \A q \in Requests : q # r =>
    /\ pc'[q] = pc[q] /\ ctx'[q] = ctx[q] /\ call'[q] = call[q]
    /\ proposal'[q] = proposal[q] /\ signature'[q] = signature[q]

-----------------------------------------------------------------------------
(* Rows. *)

(* A stored row has the type of a proposal. *)
LEMMA StoredRow ==
  ASSUME TypeOK, NEW t \in Txns, Stored(t)
  PROVE  transactions[t] \in TransactionProposal
  BY DEF TypeOK, StoreTypeOK, Stored

(* A legal write leaves every row, and the chain, in order. *)
LEMMA WriteKeepsRows ==
  ASSUME IndInv, NEW t \in Txns, NEW row, LegalWrite(t, row),
         transactions' = [transactions EXCEPT ![t] = row],
         UNCHANGED accepted
  PROVE  /\ transactions' \in [Txns -> TransactionProposal \cup {None}]
         /\ \A u \in Txns : RowInv(u)'
         /\ OnePayloadOnChain'
<1>1. /\ transactions \in [Txns -> TransactionProposal \cup {None}]
      /\ accepted \in SUBSET Payload
  BY ZenonT(60) DEF IndInv, TypeOK, StoreTypeOK
<1>2. /\ transactions'[t] = row
      /\ row # None /\ row \in TransactionProposal
      /\ \A u \in Txns : u # t => transactions'[u] = transactions[u]
  BY <1>1, NoneAssumption, Zenon DEF LegalWrite
<1>3. transactions' \in [Txns -> TransactionProposal \cup {None}]
  BY <1>1, <1>2, Zenon
<1>4. RowInv(t)'
  BY <1>2 DEF LegalWrite, RowInv, Stored, ApprovalsOK, signerAllowed, ApprovalsCount
<1>5. ASSUME NEW u \in Txns, u # t PROVE RowInv(u)'
  BY <1>2, <1>5 DEF IndInv, RowInv, Stored, ApprovalsOK, signerAllowed, ApprovalsCount
<1>6. OnePayloadOnChain'
  <2> SUFFICES ASSUME NEW p \in accepted
               PROVE  Stored(p.tx)' /\ transactions'[p.tx].signedTransaction = p
    BY Zenon DEF OnePayloadOnChain
  <2>1. /\ p \in Payload /\ p.tx \in Txns /\ p # None
        /\ Stored(p.tx) /\ transactions[p.tx].signedTransaction = p
    BY <1>1, NoneAssumption, Zenon DEF IndInv, OnePayloadOnChain, Payload
  <2>2. CASE p.tx = t
    BY <1>2, <2>1, <2>2, Zenon DEF LegalWrite, Stored
  <2>3. CASE p.tx # t
    BY <1>2, <2>1, <2>3, Zenon DEF Stored
  <2> QED BY <2>2, <2>3, Zenon
<1> QED BY <1>3, <1>4, <1>5, <1>6, Zenon

(* A request that does not move keeps its invariant when another one       *)
(* writes a row.                                                           *)
LEMMA WriteKeepsHandler ==
  ASSUME IndInv, NEW t \in Txns, NEW row, LegalWrite(t, row),
         transactions' = [transactions EXCEPT ![t] = row],
         UNCHANGED <<accepted, records>>,
         NEW r \in Requests, OthersUnchanged(r),
         NEW q \in Requests, q # r
  PROVE  HandlerInv(q)'
<1>1. /\ transactions \in [Txns -> TransactionProposal \cup {None}]
      /\ CallInv(q) /\ OpenCopyInv(q) /\ SignedCopyInv(q)
  BY DEF IndInv, TypeOK, StoreTypeOK
<1>2. /\ transactions'[t] = row
      /\ row # None /\ row \in TransactionProposal
      /\ \A u \in Txns : u # t => transactions'[u] = transactions[u]
  BY <1>1, NoneAssumption, Zenon DEF LegalWrite
<1>3. /\ pc'[q] = pc[q] /\ ctx'[q] = ctx[q] /\ call'[q] = call[q]
      /\ proposal'[q] = proposal[q] /\ signature'[q] = signature[q]
  BY Zenon DEF OthersUnchanged
<1>4. CallInv(q)'
  BY <1>1, <1>3, Zenon DEF CallInv, InFlight, signerAllowed
<1>5. HoldsOpenCopy(q) \/ HoldsSignedCopy(q) => call[q].tx \in Txns
  BY <1>1, Zenon
     DEF CallInv, HoldsOpenCopy, HoldsSignedCopy, Failing, InFlight, InFlightPC,
              CoSignPC, BroadcastPC, FailPC, Call
<1>6. RowInv(t)
  BY Zenon DEF IndInv
<1>7. OpenCopyInv(q)'
  <2> SUFFICES ASSUME HoldsOpenCopy(q) PROVE OpenCopyInv(q)'
    BY <1>3, Zenon DEF OpenCopyInv, HoldsOpenCopy, Failing
  <2>1. CASE call[q].tx = t
    BY <1>1, <1>2, <1>3, <2>1, Zenon
       DEF OpenCopyInv, HoldsOpenCopy, Failing, LegalWrite, Stored, ApprovalsOK,
           signerAllowed, ApprovalsCount, Signable
  <2>2. CASE call[q].tx # t
    BY <1>1, <1>2, <1>3, <1>5, <2>2, Zenon
       DEF OpenCopyInv, HoldsOpenCopy, Failing, Stored, ApprovalsOK,
           signerAllowed, ApprovalsCount, Signable
  <2> QED BY <2>1, <2>2, Zenon
<1>8. SignedCopyInv(q)'
  <2> SUFFICES ASSUME HoldsSignedCopy(q) PROVE SignedCopyInv(q)'
    BY <1>3, Zenon DEF SignedCopyInv, HoldsSignedCopy, Failing
  <2>1. CASE call[q].tx = t
    BY <1>1, <1>2, <1>3, <2>1, Zenon
       DEF SignedCopyInv, HoldsSignedCopy, Failing, LegalWrite, Stored
  <2>2. CASE call[q].tx # t
    BY <1>1, <1>2, <1>3, <1>5, <2>2, Zenon
       DEF SignedCopyInv, HoldsSignedCopy, Failing, Stored
  <2> QED BY <2>1, <2>2, Zenon
<1> QED BY <1>4, <1>7, <1>8, Zenon DEF HandlerInv

(* A step that makes one legal write preserves the invariant. *)
LEMMA WriteStep ==
  ASSUME IndInv, NEW t \in Txns, NEW row, LegalWrite(t, row),
         transactions' = [transactions EXCEPT ![t] = row],
         UNCHANGED <<auditEvents, accepted, records>>,
         NEW r \in Requests, OthersUnchanged(r), HandlersTypeOK', HandlerInv(r)'
  PROVE  IndInv'
<1>1. /\ transactions' \in [Txns -> TransactionProposal \cup {None}]
      /\ \A u \in Txns : RowInv(u)'
      /\ OnePayloadOnChain'
  BY WriteKeepsRows, Zenon
<1>2. \A q \in Requests : HandlerInv(q)'
  BY WriteKeepsHandler, Zenon
<1>3. TypeOK'
  BY <1>1 DEF IndInv, TypeOK, StoreTypeOK, HandlersTypeOK
<1> QED BY <1>1, <1>2, <1>3, Zenon DEF IndInv, HandlerInv

(* So does a step that writes no row and moves only request r. *)
LEMMA QuietStep ==
  ASSUME IndInv,
         UNCHANGED <<transactions, records>>, auditEvents' \in SUBSET AuditEvent,
         accepted \subseteq accepted', accepted' \in SUBSET Payload, OnePayloadOnChain',
         NEW r \in Requests, OthersUnchanged(r), HandlersTypeOK', HandlerInv(r)'
  PROVE  IndInv'
<1>1. TypeOK'
  BY DEF IndInv, TypeOK, StoreTypeOK, HandlersTypeOK
<1>2. ASSUME NEW t \in Txns PROVE RowInv(t)'
  BY Zenon DEF IndInv, RowInv, Stored, ApprovalsOK, signerAllowed, ApprovalsCount
<1>3. ASSUME NEW q \in Requests, q # r PROVE HandlerInv(q)'
  <2>1. /\ pc'[q] = pc[q] /\ ctx'[q] = ctx[q] /\ call'[q] = call[q]
        /\ proposal'[q] = proposal[q] /\ signature'[q] = signature[q]
    BY <1>3, Zenon DEF OthersUnchanged
  <2>2. CallInv(q) /\ OpenCopyInv(q) /\ SignedCopyInv(q)
    BY Zenon DEF IndInv
  <2>3. CallInv(q)'
    BY <2>1, <2>2, Zenon DEF CallInv, InFlight, signerAllowed
  <2>4. OpenCopyInv(q)'
    BY <2>1, <2>2, Zenon DEF OpenCopyInv, HoldsOpenCopy, Failing, Stored, ApprovalsOK,
                      signerAllowed, ApprovalsCount, Signable
  <2>5. SignedCopyInv(q)'
    BY <2>1, <2>2, Zenon DEF SignedCopyInv, HoldsSignedCopy, Failing, Stored
  <2> QED BY <2>3, <2>4, <2>5, Zenon DEF HandlerInv
<1> QED BY <1>1, <1>2, <1>3, Zenon DEF IndInv, HandlerInv

-----------------------------------------------------------------------------
(* Handlers. *)

(* A request that has ended has nothing to keep. *)
LEMMA EndedHandler ==
  ASSUME NEW r \in Requests, pc'[r] = "done"
  PROVE  HandlerInv(r)'
  BY Zenon DEF HandlerInv, CallInv, InFlight, InFlightPC, CoSignPC, BroadcastPC, FailPC,
         OpenCopyInv, SignedCopyInv, HoldsOpenCopy, HoldsSignedCopy, Failing

(* Answering a request ends its handler and leaves the others alone. *)
LEMMA AnswerStep ==
  ASSUME TypeOK, NEW r \in Requests,
         NEW c \in {"OK", "BadRequest", "Forbidden", "NotFound", "InternalServerError"}, Answer(r, c)
  PROVE  HandlersTypeOK' /\ OthersUnchanged(r) /\ HandlerInv(r)'
<1>1. HandlersTypeOK' /\ OthersUnchanged(r) /\ pc'[r] = "done"
  BY DEF TypeOK, Answer, HandlersTypeOK, OthersUnchanged
<1> QED BY <1>1, EndedHandler

(* Moving on leaves the other handlers alone. *)
LEMMA GotoStep ==
  ASSUME TypeOK, NEW r \in Requests, NEW l \in InFlightPC, Goto(r, l),
         \A q \in Requests : q # r =>
           ctx'[q] = ctx[q] /\ proposal'[q] = proposal[q] /\ signature'[q] = signature[q],
         ctx' \in [Requests -> {"live", "cancelled"}],
         proposal' \in [Requests -> TransactionProposal \cup {None}],
         signature' \in [Requests -> Payload \cup {None}]
  PROVE  /\ HandlersTypeOK' /\ OthersUnchanged(r)
         /\ pc'[r] = l /\ call' = call
<1>1. /\ pc' = [pc EXCEPT ![r] = l] /\ call' = call /\ reply' = reply
      /\ pc \in [Requests -> {"idle", "done"} \cup InFlightPC]
      /\ call \in [Requests -> Call \cup {None}]
      /\ reply \in [Requests -> {"none", "OK", "BadRequest", "Forbidden", "NotFound", "InternalServerError"}]
  BY DEF Goto, TypeOK
<1>2. HandlersTypeOK'
  BY <1>1 DEF HandlersTypeOK
<1> QED BY <1>1, <1>2 DEF OthersUnchanged

(* Moving on without touching any local. *)
LEMMA GotoOnly ==
  ASSUME TypeOK, NEW r \in Requests, NEW l \in InFlightPC, Goto(r, l), UNCHANGED locals
  PROVE  /\ HandlersTypeOK' /\ OthersUnchanged(r)
         /\ pc'[r] = l /\ call' = call
<1>1. ctx' = ctx /\ proposal' = proposal /\ signature' = signature
  BY Zenon DEF locals
<1>2. /\ ctx \in [Requests -> {"live", "cancelled"}]
      /\ proposal \in [Requests -> TransactionProposal \cup {None}]
      /\ signature \in [Requests -> Payload \cup {None}]
  BY DEF TypeOK
<1> QED BY <1>1, <1>2, GotoStep, Zenon

(* A step that leaves rows and chain alone keeps them consistent. *)
LEMMA Quiet ==
  ASSUME IndInv, UNCHANGED <<transactions, accepted>>
  PROVE  /\ accepted \subseteq accepted'
         /\ accepted' \in SUBSET Payload
         /\ OnePayloadOnChain'
  BY DEF IndInv, TypeOK, OnePayloadOnChain, Stored

(* The event a handler appends is well typed. *)
LEMMA AppendStep ==
  ASSUME IndInv, NEW r \in Requests, InFlight(r), NEW type \in AuditEventType,
         appendAudit(r, type)
  PROVE  auditEvents' \in SUBSET AuditEvent
<1>1. call[r] \in Call
  BY Zenon DEF IndInv, CallInv
<1>2. [id |-> r, type |-> type, resourceID |-> call[r].tx,
       actor |-> IF type = "transaction.approved" THEN call[r].signer ELSE None]
      \in AuditEvent
  BY <1>1, Zenon DEF Call, AuditEvent
<1> QED
  BY <1>2 DEF IndInv, TypeOK, StoreTypeOK, appendAudit, EventOf, AppendAuditEvent

(* A failed call that ends the handler, and any other step in which the    *)
(* handler returns without writing a row.                                  *)
LEMMA QuietAnswer ==
  ASSUME IndInv, NEW r \in Requests,
         NEW c \in {"OK", "BadRequest", "Forbidden", "NotFound", "InternalServerError"}, Answer(r, c),
         UNCHANGED <<transactions, records, accepted>>,
         auditEvents' \in SUBSET AuditEvent
  PROVE  IndInv'
<1>1. TypeOK
  BY DEF IndInv
<1> QED BY <1>1, AnswerStep, Quiet, QuietStep

-----------------------------------------------------------------------------
(* The actions that are not of one handler. *)

(* So does a step that changes nothing. *)
LEMMA StutterInv ==
  ASSUME IndInv, UNCHANGED vars
  PROVE  IndInv'
<1>1. /\ UNCHANGED <<transactions, auditEvents, records, accepted>>
      /\ UNCHANGED <<pc, ctx, call, proposal, signature, reply>>
  BY Zenon DEF vars, handlers
<1>2. TypeOK' /\ OnePayloadOnChain'
  BY <1>1, ZenonT(60) DEF IndInv, TypeOK, StoreTypeOK, OnePayloadOnChain, Stored
<1>3. ASSUME NEW r \in Requests
      PROVE  CallInv(r)' /\ OpenCopyInv(r)' /\ SignedCopyInv(r)'
  <2>1. CallInv(r) /\ OpenCopyInv(r) /\ SignedCopyInv(r)
    BY Zenon DEF IndInv
  <2>2. CallInv(r)'
    BY <1>1, <2>1, Zenon DEF CallInv, InFlight, signerAllowed
  <2>3. OpenCopyInv(r)'
    BY <1>1, <2>1, Zenon DEF OpenCopyInv, HoldsOpenCopy, Failing, Stored, ApprovalsOK,
                      signerAllowed, ApprovalsCount, Signable
  <2>4. SignedCopyInv(r)'
    BY <1>1, <2>1, Zenon DEF SignedCopyInv, HoldsSignedCopy, Failing, Stored
  <2> QED BY <2>2, <2>3, <2>4, Zenon
<1>4. ASSUME NEW t \in Txns PROVE RowInv(t)'
  BY <1>1, Zenon DEF IndInv, RowInv, Stored, ApprovalsOK, signerAllowed, ApprovalsCount
<1> QED BY <1>2, <1>3, <1>4, Zenon DEF IndInv

(* A store call fails and the handler gives up. *)
LEMMA StoreCallFailsInv ==
  ASSUME IndInv, NEW r \in Requests, StoreCallFails(r)
  PROVE  IndInv'
  BY QuietAnswer DEF StoreCallFails, store, IndInv, TypeOK, StoreTypeOK

(* A cancelled context only takes away what a handler may do. *)
LEMMA CancelInv ==
  ASSUME IndInv, NEW r \in Requests, Cancel(r)
  PROVE  IndInv'
<1>1. /\ TypeOK /\ CallInv(r) /\ OpenCopyInv(r) /\ SignedCopyInv(r)
      /\ ctx' = [ctx EXCEPT ![r] = "cancelled"]
      /\ UNCHANGED <<transactions, auditEvents, records, accepted>>
      /\ UNCHANGED <<pc, call, proposal, signature, reply>>
  BY Zenon DEF Cancel, store, IndInv
<1>2. HandlersTypeOK' /\ OthersUnchanged(r) /\ ctx'[r] = "cancelled"
  BY <1>1 DEF TypeOK, HandlersTypeOK, OthersUnchanged
<1>3. HandlerInv(r)'
  <2>1. CallInv(r)'
    BY <1>1, Zenon DEF CallInv, InFlight, signerAllowed
  <2>2. OpenCopyInv(r)'
    BY <1>1, <1>2, Zenon DEF OpenCopyInv, HoldsOpenCopy, Failing, Stored, ApprovalsOK,
                      signerAllowed, ApprovalsCount, Signable
  <2>3. SignedCopyInv(r)'
    BY <1>1, Zenon DEF SignedCopyInv, HoldsSignedCopy, Failing, Stored
  <2> QED BY <2>1, <2>2, <2>3, Zenon DEF HandlerInv
<1>4. auditEvents' \in SUBSET AuditEvent
  BY <1>1 DEF TypeOK, StoreTypeOK
<1> QED BY <1>1, <1>2, <1>3, <1>4, Quiet, QuietStep, Zenon

(* A restart ends all handlers and keeps the rows. *)
LEMMA CrashInv ==
  ASSUME IndInv, Crash
  PROVE  IndInv'
<1>1. /\ UNCHANGED <<transactions, auditEvents, accepted>>
      /\ records' = {}
      /\ pc' = [r \in Requests |-> IF InFlight(r) THEN "done" ELSE pc[r]]
      /\ ctx' = [r \in Requests |-> "live"]
      /\ proposal' = [r \in Requests |-> None]
      /\ signature' = [r \in Requests |-> None]
      /\ UNCHANGED <<call, reply>>
  BY Zenon DEF Crash, store
<1>2. TypeOK'
  BY <1>1 DEF IndInv, TypeOK, StoreTypeOK
<1>3. ASSUME NEW r \in Requests PROVE CallInv(r)' /\ OpenCopyInv(r)' /\ SignedCopyInv(r)'
  BY <1>1 DEF IndInv, TypeOK, CallInv, InFlight, InFlightPC, CoSignPC, BroadcastPC, FailPC,
     OpenCopyInv, SignedCopyInv, HoldsOpenCopy, HoldsSignedCopy, Failing
<1>4. ASSUME NEW t \in Txns PROVE RowInv(t)'
  BY <1>1, Zenon DEF IndInv, RowInv, Stored, ApprovalsOK, signerAllowed, ApprovalsCount
<1>5. OnePayloadOnChain'
  BY <1>1, Zenon DEF IndInv, OnePayloadOnChain, Stored
<1> QED BY <1>2, <1>3, <1>4, <1>5, Zenon DEF IndInv

-----------------------------------------------------------------------------
(* The actions of CoSign. *)

(* A co-sign request starts, or is refused by the policy. *)
LEMMA CoSignInv ==
  ASSUME IndInv, NEW r \in Requests, NEW t \in Txns, NEW s \in Signers \cup {None},
         CoSign(r, t, s)
  PROVE  IndInv'
<1>1. TypeOK
  BY Zenon DEF IndInv
<1>2. /\ UNCHANGED <<transactions, auditEvents, records, accepted>>
      /\ ctx' = ctx /\ proposal' = proposal /\ signature' = signature
      /\ call' = [call EXCEPT ![r] = [op |-> "cosign", tx |-> t, signer |-> s]]
  BY Zenon DEF CoSign, store, locals
<1>3. [op |-> "cosign", tx |-> t, signer |-> s] \in Call
  BY Zenon DEF Call
<1>4. call' \in [Requests -> Call \cup {None}]
  BY <1>1, <1>2, <1>3 DEF TypeOK
<1>5. CASE /\ s # None /\ signerAllowed(s)
           /\ pc' = [pc EXCEPT ![r] = "add_approval"]
           /\ UNCHANGED reply
  <2>1. HandlersTypeOK' /\ OthersUnchanged(r)
    BY <1>1, <1>2, <1>4, <1>5
       DEF TypeOK, HandlersTypeOK, OthersUnchanged, InFlightPC, CoSignPC
  <2>2. /\ pc'[r] = "add_approval"
        /\ call'[r] = [op |-> "cosign", tx |-> t, signer |-> s]
    BY <1>1, <1>2, <1>5 DEF TypeOK
  <2>3. HandlerInv(r)'
    BY <1>3, <1>5, <2>2
       DEF HandlerInv, CallInv, InFlight, BroadcastPC, OpenCopyInv, SignedCopyInv,
           HoldsOpenCopy, HoldsSignedCopy, Failing, signerAllowed
  <2> QED
    BY <1>2, <2>1, <2>3, Quiet, QuietStep DEF IndInv, TypeOK, StoreTypeOK
<1>6. CASE /\ pc' = [pc EXCEPT ![r] = "done"]
           /\ reply' = [reply EXCEPT ![r] = IF s = None THEN "InternalServerError" ELSE "Forbidden"]
  <2>1. HandlersTypeOK' /\ OthersUnchanged(r) /\ pc'[r] = "done"
    BY <1>1, <1>2, <1>4, <1>6 DEF TypeOK, HandlersTypeOK, OthersUnchanged
  <2> QED
    BY <1>2, <2>1, EndedHandler, Quiet, QuietStep, ZenonT(60) DEF IndInv, TypeOK, StoreTypeOK
<1> QED BY <1>5, <1>6, Zenon DEF CoSign

(* The store refuses an approval. *)
LEMMA ApprovalRefusedInv ==
  ASSUME IndInv, NEW r \in Requests, ApprovalRefused(r)
  PROVE  IndInv'
<1>1. /\ Answer(r, "BadRequest") \/ Answer(r, "NotFound")
      /\ UNCHANGED <<transactions, auditEvents, records, accepted>>
  BY Zenon DEF ApprovalRefused, store
<1> QED BY <1>1, QuietAnswer DEF IndInv, TypeOK, StoreTypeOK

(* The store takes an approval and the handler keeps the row. *)
LEMMA ApprovalStoredInv ==
  ASSUME IndInv, NEW r \in Requests, ApprovalStored(r),
         LegalWrite(call[r].tx, [transactions[call[r].tx] EXCEPT
                                   !.approvals = @ \cup {call[r].signer}])
  PROVE  IndInv'
<1> DEFINE t == call[r].tx
           s == call[r].signer
           row == [transactions[t] EXCEPT !.approvals = @ \cup {s}]
<1>1. /\ TypeOK /\ pc[r] = "add_approval" /\ ctx[r] = "live"
      /\ AddApproval(t, s)
      /\ UNCHANGED <<auditEvents, records, accepted>>
  BY Zenon DEF ApprovalStored, AtCall, IndInv
<1>2. /\ call[r] \in Call /\ t \in Txns
      /\ s \in Signers /\ signerAllowed(s) /\ call[r].op = "cosign"
  BY <1>1, Zenon DEF IndInv, CallInv, InFlight, InFlightPC, CoSignPC, Call
<1>3. /\ LegalWrite(t, row)
      /\ transactions' = [transactions EXCEPT ![t] = row]
      /\ row \in TransactionProposal
      /\ row.status = "proposed" /\ row.signedTransaction = None
      /\ ApprovalsOK(row.approvals)
  <2>1. transactions[t] \in TransactionProposal /\ transactions[t].status = "proposed"
    BY <1>1, <1>2, StoredRow DEF AddApproval, Approvable
  <2>2. row.status = "proposed"
    BY <2>1 DEF TransactionProposal
  <2> QED BY <1>1, <2>2, Zenon DEF LegalWrite, AddApproval
<1> HIDE DEF row
<1>4. CASE Answer(r, "InternalServerError")
  <2>1. HandlersTypeOK' /\ OthersUnchanged(r) /\ HandlerInv(r)'
    BY <1>1, <1>4, AnswerStep
  <2> QED BY <1>1, <1>2, <1>3, <2>1, WriteStep, Zenon
<1>5. CASE /\ Goto(r, "audit_approved")
           /\ proposal' = [proposal EXCEPT ![r] = transactions'[t]]
           /\ UNCHANGED <<ctx, signature>>
  <2>1. transactions'[t] = row
    BY <1>1, <1>2, <1>3 DEF TypeOK, StoreTypeOK
  <2>2. proposal' = [proposal EXCEPT ![r] = row]
    BY <1>5, <2>1, Zenon
  <2>a. proposal' \in [Requests -> TransactionProposal \cup {None}]
    BY <1>1, <1>3, <2>2, ZenonT(60) DEF TypeOK
  <2>3. /\ HandlersTypeOK' /\ OthersUnchanged(r)
        /\ pc'[r] = "audit_approved" /\ call' = call
    <3>1. "audit_approved" \in InFlightPC
      BY Zenon DEF InFlightPC, CoSignPC
    <3>2. /\ ctx' \in [Requests -> {"live", "cancelled"}]
          /\ signature' \in [Requests -> Payload \cup {None}]
          /\ \A q \in Requests : q # r =>
               ctx'[q] = ctx[q] /\ proposal'[q] = proposal[q] /\ signature'[q] = signature[q]
      BY <1>1, <1>5, <2>2 DEF TypeOK
    <3> QED BY <1>1, <1>5, <2>a, <3>1, <3>2, GotoStep, Zenon
  <2>4. proposal'[r] = row
    BY <1>1, <2>2 DEF TypeOK
  <2>5. CallInv(r)'
    BY <1>2, <2>3, Zenon DEF CallInv, InFlight, BroadcastPC, signerAllowed
  <2>6. OpenCopyInv(r)' /\ SignedCopyInv(r)'
    <3>1. row # None
      BY <1>3, NoneAssumption, Zenon
    <3> QED
      BY <1>2, <1>3, <2>1, <2>3, <2>4, <3>1, Zenon
         DEF OpenCopyInv, SignedCopyInv, HoldsOpenCopy, HoldsSignedCopy, Failing, Stored,
             ApprovalsOK, signerAllowed
  <2> QED
    BY <1>1, <1>2, <1>3, <2>3, <2>5, <2>6, WriteStep, Zenon DEF HandlerInv
<1> QED BY <1>4, <1>5, ZenonT(60) DEF ApprovalStored

(* Only a copy with a quorum goes on to the signer. *)
LEMMA ApprovalAuditedInv ==
  ASSUME IndInv, NEW r \in Requests, ApprovalAudited(r)
  PROVE  IndInv'
<1>1. /\ TypeOK /\ pc[r] = "audit_approved"
      /\ appendAudit(r, "transaction.approved")
      /\ UNCHANGED <<transactions, records, accepted>>
  BY Zenon DEF ApprovalAudited, AtCall, IndInv
<1>2. auditEvents' \in SUBSET AuditEvent
  BY <1>1, AppendStep, Zenon DEF InFlight, InFlightPC, CoSignPC, AuditEventType
<1>3. CASE Answer(r, "OK") \/ Answer(r, "InternalServerError")
  BY <1>1, <1>2, <1>3, QuietAnswer
<1>4. CASE QuorumReached(proposal[r]) /\ Goto(r, "sign") /\ UNCHANGED locals
  <2>1. /\ HandlersTypeOK' /\ OthersUnchanged(r)
        /\ pc'[r] = "sign" /\ call' = call
    BY <1>1, <1>4, GotoOnly, Zenon DEF InFlightPC, CoSignPC
  <2>2. ctx' = ctx /\ proposal' = proposal /\ signature' = signature
    BY <1>4, Zenon DEF locals
  <2>3. CallInv(r) /\ OpenCopyInv(r)
    BY Zenon DEF IndInv
  <2>4. CallInv(r)' /\ SignedCopyInv(r)'
    BY <1>1, <2>1, <2>3, Zenon DEF CallInv, InFlight, InFlightPC, CoSignPC, BroadcastPC,
       signerAllowed, SignedCopyInv, HoldsSignedCopy, Failing
  <2>5. OpenCopyInv(r)'
    BY <1>1, <1>4, <2>1, <2>2, <2>3, Zenon
       DEF OpenCopyInv, HoldsOpenCopy, Failing, Stored, ApprovalsOK, signerAllowed,
           ApprovalsCount, Signable, QuorumReached, CoSignQuorum
  <2> QED
    BY <1>1, <1>2, <2>1, <2>4, <2>5, Quiet, QuietStep, Zenon DEF HandlerInv
<1> QED BY <1>3, <1>4, ZenonT(60) DEF ApprovalAudited

(* The signer signs what the handler was asked for. *)
LEMMA SignTransactionInv ==
  ASSUME IndInv, NEW r \in Requests, SignTransaction(r)
  PROVE  IndInv'
<1> DEFINE t == call[r].tx
           sig == IF ChainOf[t] = "evm" THEN signEVMTransaction(t)
                                        ELSE [tx |-> t, entropy |-> r]
<1>1. /\ TypeOK /\ pc[r] = "sign" /\ CanSign(proposal[r], t)
      /\ signature' = [signature EXCEPT ![r] = sig]
      /\ Goto(r, "mark_signed")
      /\ UNCHANGED <<transactions, auditEvents, records, accepted, ctx, proposal>>
  BY Zenon DEF SignTransaction, AtCall, IndInv, store
<1>2. CallInv(r) /\ OpenCopyInv(r)
  BY Zenon DEF IndInv
<1>3. t \in Txns
  BY <1>1, <1>2, Zenon DEF CallInv, InFlight, InFlightPC, CoSignPC, Call
<1>4. sig \in Payload /\ sig.tx = t
  BY <1>3, Zenon DEF Payload, signEVMTransaction
<1> HIDE DEF sig
<1>5. signature' \in [Requests -> Payload \cup {None}] /\ signature'[r] = sig
  BY <1>1, <1>4 DEF TypeOK
<1>6. /\ HandlersTypeOK' /\ OthersUnchanged(r)
      /\ pc'[r] = "mark_signed" /\ call' = call
  <2>1. "mark_signed" \in InFlightPC
    BY Zenon DEF InFlightPC, CoSignPC
  <2>2. /\ ctx' \in [Requests -> {"live", "cancelled"}]
        /\ proposal' \in [Requests -> TransactionProposal \cup {None}]
        /\ \A q \in Requests : q # r =>
             ctx'[q] = ctx[q] /\ proposal'[q] = proposal[q] /\ signature'[q] = signature[q]
    BY <1>1 DEF TypeOK
  <2> QED BY <1>1, <1>5, <2>1, <2>2, GotoStep, Zenon
<1>7. CallInv(r)' /\ SignedCopyInv(r)'
  BY <1>1, <1>2, <1>6, Zenon DEF CallInv, InFlight, InFlightPC, CoSignPC, BroadcastPC,
     signerAllowed, SignedCopyInv, HoldsSignedCopy, Failing
<1>8. OpenCopyInv(r)'
  BY <1>1, <1>2, <1>4, <1>5, <1>6, Zenon
     DEF OpenCopyInv, HoldsOpenCopy, Failing, Stored, ApprovalsOK, signerAllowed,
         ApprovalsCount, Signable, CanSign
<1>9. auditEvents' \in SUBSET AuditEvent
  BY <1>1, ZenonT(60) DEF TypeOK, StoreTypeOK
<1> QED
  BY <1>1, <1>6, <1>7, <1>8, <1>9, Quiet, QuietStep, Zenon DEF HandlerInv

(* The signer refuses a live request only when it lacks the key or cannot  *)
(* parse the proposal, because the quorum is there.                        *)
LEMMA SignFailsInv ==
  ASSUME IndInv, NEW r \in Requests, SignFails(r)
  PROVE  IndInv'
<1>1. /\ TypeOK /\ pc[r] = "sign"
      /\ ctx[r] = "cancelled" \/ ~CanSign(proposal[r], call[r].tx)
      /\ Goto(r, "fail_transaction") /\ UNCHANGED locals
      /\ UNCHANGED <<transactions, auditEvents, records, accepted>>
  BY Zenon DEF SignFails, IndInv, store
<1>2. CallInv(r) /\ OpenCopyInv(r)
  BY Zenon DEF IndInv
<1>3. /\ HandlersTypeOK' /\ OthersUnchanged(r)
      /\ pc'[r] = "fail_transaction" /\ call' = call
  BY <1>1, GotoOnly, Zenon DEF InFlightPC, FailPC
<1>4. ctx' = ctx /\ proposal' = proposal /\ signature' = signature
  BY <1>1, Zenon DEF locals
<1>5. call[r].op = "cosign"
  BY <1>1, <1>2, Zenon DEF CallInv, CoSignPC
<1>6. CallInv(r)' /\ SignedCopyInv(r)'
  BY <1>1, <1>2, <1>3, <1>5, Zenon
     DEF CallInv, InFlight, InFlightPC, CoSignPC, BroadcastPC,
     signerAllowed, SignedCopyInv, HoldsSignedCopy, Failing
<1>7. ctx[r] = "live" => ~Signable(call[r].tx)
  BY <1>1, <1>2, Zenon DEF OpenCopyInv, HoldsOpenCopy, CanSign, Signable, quorumThreshold
<1>8. OpenCopyInv(r)'
  BY <1>1, <1>2, <1>3, <1>4, <1>7, Zenon
     DEF OpenCopyInv, HoldsOpenCopy, Failing, Stored, ApprovalsOK, signerAllowed,
         ApprovalsCount, Signable
<1>9. auditEvents' \in SUBSET AuditEvent
  BY <1>1, ZenonT(60) DEF TypeOK, StoreTypeOK
<1> QED
  BY <1>1, <1>3, <1>6, <1>8, <1>9, Quiet, QuietStep, Zenon DEF HandlerInv

(* The store takes a signature. *)
LEMMA SignatureStoredInv ==
  ASSUME IndInv, NEW r \in Requests, SignatureStored(r),
         LegalWrite(call[r].tx, [transactions[call[r].tx] EXCEPT
                                   !.status = "signed", !.signedTransaction = signature[r]])
  PROVE  IndInv'
<1> DEFINE t == call[r].tx
           row == [transactions[t] EXCEPT !.status = "signed",
                                          !.signedTransaction = signature[r]]
<1>1. /\ TypeOK /\ pc[r] = "mark_signed"
      /\ MarkTransactionSigned(t, signature[r])
      /\ UNCHANGED <<auditEvents, records, accepted>>
  BY Zenon DEF SignatureStored, AtCall, IndInv
<1>2. /\ t \in Txns
      /\ LegalWrite(t, row)
      /\ transactions' = [transactions EXCEPT ![t] = row]
  BY <1>1, Zenon DEF MarkTransactionSigned, LegalWrite
<1> HIDE DEF row
<1>3. HandlersTypeOK' /\ OthersUnchanged(r) /\ HandlerInv(r)'
  <2>1. CASE Answer(r, "InternalServerError")
    BY <1>1, <2>1, AnswerStep
  <2>2. CASE Goto(r, "audit_signed") /\ UNCHANGED locals
    <3>1. /\ HandlersTypeOK' /\ OthersUnchanged(r)
          /\ pc'[r] = "audit_signed" /\ call' = call
      BY <1>1, <2>2, GotoOnly, Zenon DEF InFlightPC, CoSignPC
    <3>2. CallInv(r)
      BY Zenon DEF IndInv
    <3>3. HandlerInv(r)'
      BY <1>1, <3>1, <3>2, Zenon
         DEF HandlerInv, CallInv, InFlight, InFlightPC, CoSignPC, BroadcastPC, signerAllowed,
             OpenCopyInv, HoldsOpenCopy, SignedCopyInv, HoldsSignedCopy, Failing
    <3> QED BY <3>1, <3>3, Zenon
  <2> QED BY <2>1, <2>2, Zenon DEF SignatureStored
<1> QED BY <1>1, <1>2, <1>3, WriteStep, Zenon

(* A signature that comes too late is dropped. *)
LEMMA SignatureDroppedInv ==
  ASSUME IndInv, NEW r \in Requests, SignatureDropped(r)
  PROVE  IndInv'
  BY QuietAnswer DEF SignatureDropped, store, IndInv, TypeOK, StoreTypeOK

(* The signing is audited. *)
LEMMA SignatureAuditedInv ==
  ASSUME IndInv, NEW r \in Requests, SignatureAudited(r)
  PROVE  IndInv'
<1>1. /\ pc[r] = "audit_signed" /\ appendAudit(r, "transaction.signed")
      /\ UNCHANGED <<transactions, records, accepted>>
      /\ Answer(r, "OK") \/ Answer(r, "InternalServerError")
  BY ZenonT(60) DEF SignatureAudited, AtCall
<1>2. auditEvents' \in SUBSET AuditEvent
  BY <1>1, AppendStep, Zenon DEF InFlight, InFlightPC, CoSignPC, AuditEventType
<1> QED BY <1>1, <1>2, QuietAnswer

-----------------------------------------------------------------------------
(* The actions of Broadcast. *)

(* A broadcast request starts. *)
LEMMA BroadcastInv ==
  ASSUME IndInv, NEW r \in Requests, NEW t \in Txns, Broadcast(r, t)
  PROVE  IndInv'
<1> DEFINE c == [op |-> "broadcast", tx |-> t, signer |-> None]
<1>1. /\ TypeOK
      /\ UNCHANGED <<transactions, auditEvents, records, accepted>>
      /\ ctx' = ctx /\ proposal' = proposal /\ signature' = signature /\ reply' = reply
      /\ call' = [call EXCEPT ![r] = c]
      /\ pc' = [pc EXCEPT ![r] = "get_transaction"]
  BY Zenon DEF Broadcast, store, locals, IndInv
<1>2. c \in Call /\ c.op = "broadcast"
  BY Zenon DEF Call
<1> HIDE DEF c
<1>3. /\ HandlersTypeOK' /\ OthersUnchanged(r)
      /\ pc'[r] = "get_transaction" /\ call'[r] = c
  BY <1>1, <1>2 DEF TypeOK, HandlersTypeOK, OthersUnchanged, InFlightPC, BroadcastPC
<1>4. HandlerInv(r)'
  BY <1>2, <1>3, Zenon
     DEF HandlerInv, CallInv, InFlight, CoSignPC, BroadcastPC, OpenCopyInv, SignedCopyInv,
         HoldsOpenCopy, HoldsSignedCopy, Failing
<1>5. auditEvents' \in SUBSET AuditEvent
  BY <1>1, ZenonT(60) DEF TypeOK, StoreTypeOK
<1> QED BY <1>1, <1>3, <1>4, <1>5, Quiet, QuietStep, Zenon

(* Broadcast keeps a copy of a signed row, or refuses. *)
LEMMA GetTransactionInv ==
  ASSUME IndInv, NEW r \in Requests, GetTransaction(r)
  PROVE  IndInv'
<1> DEFINE t == call[r].tx
<1>1. /\ TypeOK /\ pc[r] = "get_transaction" /\ CallInv(r)
      /\ UNCHANGED <<transactions, auditEvents, records, accepted>>
  BY Zenon DEF GetTransaction, AtCall, IndInv, store
<1>2. auditEvents' \in SUBSET AuditEvent
  BY <1>1, ZenonT(60) DEF TypeOK, StoreTypeOK
<1>3. CASE Answer(r, "BadRequest") \/ Answer(r, "NotFound")
  BY <1>1, <1>2, <1>3, QuietAnswer
<1>4. CASE /\ Stored(t) /\ Broadcastable(transactions[t])
           /\ proposal' = [proposal EXCEPT ![r] = transactions[t]]
           /\ Goto(r, "submit")
           /\ UNCHANGED <<ctx, signature>>
  <2>1. t \in Txns /\ call[r].op = "broadcast"
    BY <1>1, Zenon DEF CallInv, InFlight, InFlightPC, BroadcastPC, Call
  <2>2. transactions[t] \in TransactionProposal
    BY <1>1, <1>4, <2>1, StoredRow, Zenon
  <2>3. /\ proposal' \in [Requests -> TransactionProposal \cup {None}]
        /\ proposal'[r] = transactions[t]
    BY <1>1, <1>4, <2>2 DEF TypeOK
  <2>4. /\ HandlersTypeOK' /\ OthersUnchanged(r)
        /\ pc'[r] = "submit" /\ call' = call
    <3>1. "submit" \in InFlightPC
      BY Zenon DEF InFlightPC, BroadcastPC
    <3>2. /\ ctx' \in [Requests -> {"live", "cancelled"}]
          /\ signature' \in [Requests -> Payload \cup {None}]
          /\ \A q \in Requests : q # r =>
               ctx'[q] = ctx[q] /\ proposal'[q] = proposal[q] /\ signature'[q] = signature[q]
      BY <1>1, <1>4 DEF TypeOK
    <3> QED BY <1>1, <1>4, <2>3, <3>1, <3>2, GotoStep, Zenon
  <2>5. HandlerInv(r)'
    BY <1>1, <1>4, <2>1, <2>2, <2>3, <2>4, Zenon
       DEF HandlerInv, CallInv, InFlight, InFlightPC, CoSignPC, BroadcastPC, OpenCopyInv,
           SignedCopyInv, HoldsOpenCopy, HoldsSignedCopy, Failing, Broadcastable, Stored
  <2> QED BY <1>1, <1>2, <2>4, <2>5, Quiet, QuietStep, Zenon
<1> QED BY <1>3, <1>4, ZenonT(60) DEF GetTransaction

(* What a handler submits is the payload of the row. *)
LEMMA SubmittedPayload ==
  ASSUME IndInv, NEW r \in Requests, pc[r] = "submit"
  PROVE  LET t == call[r].tx
             payload == proposal[r].signedTransaction
         IN  /\ t \in Txns /\ Stored(t) /\ call[r].op = "broadcast"
             /\ payload \in Payload /\ payload # None
             /\ payload.tx = t /\ transactions[t].signedTransaction = payload
<1>1. CallInv(r) /\ SignedCopyInv(r)
  BY Zenon DEF IndInv
<1>2. call[r].tx \in Txns /\ call[r].op = "broadcast"
  BY <1>1, Zenon DEF CallInv, InFlight, InFlightPC, BroadcastPC, Call
<1>3. /\ Stored(call[r].tx) /\ proposal[r] \in TransactionProposal
      /\ proposal[r].signedTransaction # None
      /\ proposal[r].signedTransaction = transactions[call[r].tx].signedTransaction
  BY <1>1, Zenon DEF SignedCopyInv, HoldsSignedCopy
<1>4. RowInv(call[r].tx)
  BY <1>2, Zenon DEF IndInv
<1> QED BY <1>2, <1>3, <1>4, Zenon DEF RowInv, TransactionProposal

(* Publishing the payload of a row keeps one payload per proposal. *)
LEMMA PublishKeepsChain ==
  ASSUME IndInv, NEW r \in Requests, pc[r] = "submit",
         accepted' = accepted \cup {proposal[r].signedTransaction},
         UNCHANGED transactions
  PROVE  /\ accepted \subseteq accepted'
         /\ accepted' \in SUBSET Payload
         /\ OnePayloadOnChain'
<1> DEFINE payload == proposal[r].signedTransaction
<1>1. /\ payload \in Payload /\ Stored(payload.tx)
      /\ transactions[payload.tx].signedTransaction = payload
  BY SubmittedPayload, Zenon
<1>2. accepted \in SUBSET Payload /\ OnePayloadOnChain
  BY ZenonT(60) DEF IndInv, TypeOK
<1> HIDE DEF payload
<1>3. accepted' = accepted \cup {payload}
  BY Zenon DEF payload
<1>4. OnePayloadOnChain'
  BY <1>1, <1>2, <1>3, Zenon DEF OnePayloadOnChain, Stored
<1> QED BY <1>1, <1>2, <1>3, <1>4, Zenon

(* The handler of a broadcast keeps its copy when it moves on from submit. *)
LEMMA SubmitMoves ==
  ASSUME IndInv, NEW r \in Requests, pc[r] = "submit",
         NEW l \in {"store_broadcast", "fail_transaction"}, Goto(r, l), UNCHANGED locals,
         UNCHANGED <<transactions, records>>, accepted \subseteq accepted',
         l = "store_broadcast" => proposal[r].signedTransaction \in accepted'
  PROVE  HandlersTypeOK' /\ OthersUnchanged(r) /\ HandlerInv(r)'
<1>1. TypeOK /\ CallInv(r) /\ SignedCopyInv(r)
  BY Zenon DEF IndInv
<1>2. /\ HandlersTypeOK' /\ OthersUnchanged(r)
      /\ pc'[r] = l /\ call' = call
  BY <1>1, GotoOnly, Zenon DEF InFlightPC, BroadcastPC, FailPC
<1>3. ctx' = ctx /\ proposal' = proposal /\ signature' = signature
  BY Zenon DEF locals
<1>4. call[r].op = "broadcast" /\ call[r] \in Call
  BY <1>1, Zenon DEF CallInv, InFlight, InFlightPC, BroadcastPC
<1>5. CallInv(r)' /\ OpenCopyInv(r)'
  BY <1>2, <1>4, Zenon
     DEF CallInv, InFlight, CoSignPC, BroadcastPC, OpenCopyInv, HoldsOpenCopy, Failing
<1>6. SignedCopyInv(r)'
  BY <1>1, <1>2, <1>3, <1>4, Zenon DEF SignedCopyInv, HoldsSignedCopy, Failing, Stored
<1> QED BY <1>2, <1>5, <1>6, Zenon DEF HandlerInv

(* The chain takes the payload. *)
LEMMA ChainAcceptsInv ==
  ASSUME IndInv, NEW r \in Requests, ChainAccepts(r)
  PROVE  IndInv'
<1>1. /\ pc[r] = "submit" /\ Goto(r, "store_broadcast") /\ UNCHANGED locals
      /\ accepted' = accepted \cup {proposal[r].signedTransaction}
      /\ UNCHANGED <<transactions, auditEvents, records>>
  BY Zenon DEF ChainAccepts, AtCall, store
<1>2. /\ accepted \subseteq accepted' /\ accepted' \in SUBSET Payload
      /\ OnePayloadOnChain'
  BY <1>1, PublishKeepsChain, Zenon
<1>3. HandlersTypeOK' /\ OthersUnchanged(r) /\ HandlerInv(r)'
  BY <1>1, <1>2, SubmitMoves, Zenon
<1>4. auditEvents' \in SUBSET AuditEvent
  BY <1>1, ZenonT(60) DEF IndInv, TypeOK, StoreTypeOK
<1> QED BY <1>1, <1>2, <1>3, <1>4, QuietStep, Zenon

(* The chain does not take the payload. *)
LEMMA ChainRefusesInv ==
  ASSUME IndInv, NEW r \in Requests, ChainRefuses(r)
  PROVE  IndInv'
<1>1. /\ pc[r] = "submit" /\ Goto(r, "fail_transaction") /\ UNCHANGED locals
      /\ UNCHANGED <<transactions, auditEvents, records, accepted>>
  BY Zenon DEF ChainRefuses, store
<1>2. /\ accepted \subseteq accepted' /\ accepted' \in SUBSET Payload
      /\ OnePayloadOnChain'
  BY <1>1, Quiet, Zenon
<1>3. HandlersTypeOK' /\ OthersUnchanged(r) /\ HandlerInv(r)'
  BY <1>1, <1>2, SubmitMoves, Zenon
<1>4. auditEvents' \in SUBSET AuditEvent
  BY <1>1, ZenonT(60) DEF IndInv, TypeOK, StoreTypeOK
<1> QED BY <1>1, <1>2, <1>3, <1>4, QuietStep, Zenon

(* The chain takes the payload and the handler is told otherwise. *)
LEMMA ChainAnswerLostInv ==
  ASSUME IndInv, NEW r \in Requests, ChainAnswerLost(r)
  PROVE  IndInv'
<1>1. /\ pc[r] = "submit" /\ Goto(r, "fail_transaction") /\ UNCHANGED locals
      /\ accepted' = accepted \cup {proposal[r].signedTransaction}
      /\ UNCHANGED <<transactions, auditEvents, records>>
  BY Zenon DEF ChainAnswerLost, AtCall, store
<1>2. /\ accepted \subseteq accepted' /\ accepted' \in SUBSET Payload
      /\ OnePayloadOnChain'
  BY <1>1, PublishKeepsChain, Zenon
<1>3. HandlersTypeOK' /\ OthersUnchanged(r) /\ HandlerInv(r)'
  BY <1>1, <1>2, SubmitMoves, Zenon
<1>4. auditEvents' \in SUBSET AuditEvent
  BY <1>1, ZenonT(60) DEF IndInv, TypeOK, StoreTypeOK
<1> QED BY <1>1, <1>2, <1>3, <1>4, QuietStep, Zenon

(* A copy taken for broadcasting may be written back as broadcast, or as   *)
(* failed.                                                                 *)
LEMMA SignedCopyIsLegal ==
  ASSUME IndInv, NEW r \in Requests, HoldsSignedCopy(r),
         NEW row \in TransactionProposal,
         row.approvals = proposal[r].approvals,
         row.signedTransaction = proposal[r].signedTransaction,
         \/ row.status = "failed"
         \/ /\ row.status = "broadcast" /\ pc[r] = "store_broadcast"
            /\ row.broadcastHash = Hash(row.signedTransaction)
  PROVE  call[r].tx \in Txns /\ LegalWrite(call[r].tx, row)
<1> DEFINE t == call[r].tx
<1>1. CallInv(r) /\ SignedCopyInv(r)
  BY Zenon DEF IndInv
<1>2. t \in Txns
  BY <1>1, Zenon
     DEF CallInv, InFlight, InFlightPC, BroadcastPC, FailPC, Call, HoldsSignedCopy, Failing
<1>3. /\ Stored(t) /\ proposal[r].signedTransaction # None
      /\ proposal[r].signedTransaction = transactions[t].signedTransaction
      /\ proposal[r].approvals = transactions[t].approvals
      /\ pc[r] = "store_broadcast" => proposal[r].signedTransaction \in accepted
  BY <1>1, Zenon DEF SignedCopyInv
<1>4. /\ ApprovalsOK(transactions[t].approvals) /\ ApprovalsCount(transactions[t]) >= 2
      /\ transactions[t].signedTransaction.tx = t
  BY <1>2, <1>3, Zenon DEF IndInv, RowInv
<1> QED
  BY <1>2, <1>3, <1>4, Zenon DEF LegalWrite, ApprovalsCount

(* The copy written back after an accepted broadcast is legal. *)
LEMMA BroadcastIsLegal ==
  ASSUME IndInv, NEW r \in Requests, pc[r] = "store_broadcast"
  PROVE  call[r].tx \in Txns /\ LegalWrite(call[r].tx, BroadcastCopy(r))
<1> DEFINE row == BroadcastCopy(r)
<1>1. SignedCopyInv(r) /\ HoldsSignedCopy(r)
  BY Zenon DEF IndInv, HoldsSignedCopy
<1>2. proposal[r] \in TransactionProposal /\ proposal[r].signedTransaction \in Payload
  BY <1>1, Zenon DEF SignedCopyInv, TransactionProposal
<1>3. /\ row \in TransactionProposal
      /\ row.approvals = proposal[r].approvals
      /\ row.signedTransaction = proposal[r].signedTransaction
      /\ row.status = "broadcast"
      /\ row.broadcastHash = Hash(row.signedTransaction)
  BY <1>2, Zenon DEF BroadcastCopy, TransactionProposal, TransactionStatus
<1> HIDE DEF row
<1>4. call[r].tx \in Txns /\ LegalWrite(call[r].tx, row)
  BY <1>1, <1>3, SignedCopyIsLegal, Zenon
<1> QED BY <1>4, Zenon DEF row

(* The row becomes broadcast. *)
LEMMA BroadcastStoredInv ==
  ASSUME IndInv, NEW r \in Requests, BroadcastStored(r)
  PROVE  IndInv'
<1> DEFINE t == call[r].tx
           row == BroadcastCopy(r)
<1>1. /\ TypeOK /\ pc[r] = "store_broadcast"
      /\ transactions' = [transactions EXCEPT ![t] = row]
      /\ UNCHANGED <<auditEvents, records, accepted>>
  BY Zenon DEF BroadcastStored, AtCall, UpdateTransaction, IndInv
<1>2. CallInv(r)
  BY Zenon DEF IndInv
<1>5. t \in Txns /\ LegalWrite(t, row)
  BY <1>1, BroadcastIsLegal, Zenon
<1> HIDE DEF row
<1>6. HandlersTypeOK' /\ OthersUnchanged(r) /\ HandlerInv(r)'
  <2>1. CASE Answer(r, "InternalServerError")
    BY <1>1, <2>1, AnswerStep
  <2>2. CASE Goto(r, "audit_broadcast") /\ UNCHANGED locals
    <3>1. /\ HandlersTypeOK' /\ OthersUnchanged(r)
          /\ pc'[r] = "audit_broadcast" /\ call' = call
      BY <1>1, <2>2, GotoOnly, Zenon DEF InFlightPC, BroadcastPC
    <3>2. HandlerInv(r)'
      BY <1>1, <1>2, <3>1, Zenon
         DEF HandlerInv, CallInv, InFlight, InFlightPC, CoSignPC, BroadcastPC,
             OpenCopyInv, HoldsOpenCopy, SignedCopyInv, HoldsSignedCopy, Failing
    <3> QED BY <3>1, <3>2, Zenon
  <2> QED BY <2>1, <2>2, ZenonT(60) DEF BroadcastStored
<1> QED BY <1>1, <1>5, <1>6, WriteStep, Zenon

(* The broadcast is audited. *)
LEMMA BroadcastAuditedInv ==
  ASSUME IndInv, NEW r \in Requests, BroadcastAudited(r)
  PROVE  IndInv'
<1>1. /\ pc[r] = "audit_broadcast" /\ appendAudit(r, "transaction.broadcast")
      /\ UNCHANGED <<transactions, records, accepted>>
      /\ Answer(r, "OK") \/ Answer(r, "InternalServerError")
  BY ZenonT(60) DEF BroadcastAudited, AtCall
<1>2. auditEvents' \in SUBSET AuditEvent
  BY <1>1, AppendStep, Zenon DEF InFlight, InFlightPC, BroadcastPC, AuditEventType
<1> QED BY <1>1, <1>2, QuietAnswer

-----------------------------------------------------------------------------
(* The actions of failTransaction. *)

(* A co-signer's copy may be written back as failed while its context is   *)
(* live: the row has no payload to lose.                                   *)
LEMMA FailureIsLegal ==
  ASSUME IndInv, NEW r \in Requests, pc[r] = "fail_transaction", ctx[r] = "live"
  PROVE  call[r].tx \in Txns /\ LegalWrite(call[r].tx, FailedCopy(r))
<1> DEFINE t == call[r].tx
           row == FailedCopy(r)
<1>1. CallInv(r) /\ OpenCopyInv(r) /\ SignedCopyInv(r)
  BY Zenon DEF IndInv
<1>2. /\ t \in Txns
      /\ call[r].op \in {"cosign", "broadcast"}
  BY <1>1, Zenon DEF CallInv, InFlight, InFlightPC, FailPC, Call
<1>3. proposal[r] \in TransactionProposal
  BY <1>1, <1>2, Zenon
     DEF OpenCopyInv, SignedCopyInv, HoldsOpenCopy, HoldsSignedCopy, Failing
<1>4. /\ row \in TransactionProposal
      /\ row.approvals = proposal[r].approvals
      /\ row.signedTransaction = proposal[r].signedTransaction
      /\ row.status = "failed"
  BY <1>3, Zenon DEF FailedCopy, TransactionProposal, TransactionStatus
<1> HIDE DEF row
<1>5. CASE call[r].op = "broadcast"
  BY <1>4, <1>5, SignedCopyIsLegal, Zenon DEF HoldsSignedCopy, Failing, row
<1>6. CASE call[r].op = "cosign"
  <2>1. /\ Stored(t) /\ proposal[r].signedTransaction = None
        /\ ApprovalsOK(proposal[r].approvals) /\ ApprovalsCount(proposal[r]) >= 2
        /\ transactions[t].signedTransaction = None
    BY <1>1, <1>6, Zenon DEF OpenCopyInv, HoldsOpenCopy, Failing
  <2>2. LegalWrite(t, row)
    BY <1>2, <1>4, <2>1, Zenon DEF LegalWrite, ApprovalsCount
  <2> QED BY <1>2, <2>2, Zenon DEF row
<1> QED BY <1>2, <1>5, <1>6, Zenon

(* The row becomes failed, or the write is lost. *)
LEMMA failTransactionInv ==
  ASSUME IndInv, NEW r \in Requests, failTransaction(r)
  PROVE  IndInv'
<1> DEFINE t == call[r].tx
           row == FailedCopy(r)
<1>1. /\ TypeOK /\ CallInv(r)
      /\ pc[r] = "fail_transaction" /\ Goto(r, "audit_failed") /\ UNCHANGED locals
      /\ UNCHANGED <<auditEvents, records, accepted>>
  BY Zenon DEF failTransaction, IndInv
<1>2. HandlersTypeOK' /\ OthersUnchanged(r) /\ HandlerInv(r)'
  <2>1. /\ HandlersTypeOK' /\ OthersUnchanged(r)
        /\ pc'[r] = "audit_failed" /\ call' = call
    BY <1>1, GotoOnly, Zenon DEF InFlightPC, FailPC
  <2>2. HandlerInv(r)'
    BY <1>1, <2>1, Zenon
       DEF HandlerInv, CallInv, InFlight, InFlightPC, CoSignPC, BroadcastPC, FailPC,
           OpenCopyInv, HoldsOpenCopy, SignedCopyInv, HoldsSignedCopy, Failing
  <2> QED BY <2>1, <2>2, Zenon
<1> HIDE DEF row
<1>3. CASE ctx[r] = "live" /\ UpdateTransaction(t, FailedCopy(r))
  <2>1. t \in Txns /\ LegalWrite(t, row)
    BY <1>1, <1>3, FailureIsLegal, Zenon DEF row
  <2>2. transactions' = [transactions EXCEPT ![t] = row]
    BY <1>3, Zenon DEF UpdateTransaction, row
  <2> QED BY <1>1, <1>2, <2>1, <2>2, WriteStep, Zenon
<1>4. CASE UNCHANGED transactions
  <2>1. auditEvents' \in SUBSET AuditEvent
    BY <1>1, ZenonT(60) DEF TypeOK, StoreTypeOK
  <2> QED BY <1>1, <1>2, <1>4, <2>1, Quiet, QuietStep, Zenon
<1> QED BY <1>3, <1>4, Zenon DEF failTransaction

(* The failure is audited, or the event is lost. *)
LEMMA FailureAuditedInv ==
  ASSUME IndInv, NEW r \in Requests, FailureAudited(r)
  PROVE  IndInv'
<1>1. /\ pc[r] = "audit_failed" /\ Answer(r, "InternalServerError")
      /\ appendAudit(r, "transaction.failed") \/ UNCHANGED auditEvents
      /\ UNCHANGED <<transactions, records, accepted>>
  BY Zenon DEF FailureAudited
<1>2. auditEvents' \in SUBSET AuditEvent
  <2>1. CASE appendAudit(r, "transaction.failed")
    BY <1>1, <2>1, AppendStep, Zenon DEF InFlight, InFlightPC, FailPC, AuditEventType
  <2>2. CASE UNCHANGED auditEvents
    BY <2>2, ZenonT(60) DEF IndInv, TypeOK, StoreTypeOK
  <2> QED BY <1>1, <2>1, <2>2, Zenon
<1> QED BY <1>1, <1>2, QuietAnswer

-----------------------------------------------------------------------------
(* The audit log. *)

(* What a step may not do to a row that a claim of the log is about. *)
LEMMA RowsKeepClaims ==
  ASSUME IndInv, RowsKept, NEW t \in Txns, Stored(t)
  PROVE  /\ transactions'[t] # None
         /\ transactions[t].signedTransaction # None =>
              transactions'[t].signedTransaction = transactions[t].signedTransaction
         /\ transactions'[t].status = "proposed" =>
              /\ transactions[t].status = "proposed"
              /\ transactions[t].approvals \subseteq transactions'[t].approvals
<1>1. transactions \in [Txns -> TransactionProposal \cup {None}]
  BY DEF IndInv, TypeOK, StoreTypeOK
<1> QED BY <1>1, NoneAssumption DEF RowsKept, LegalWrite, Stored

(* Payloads stay on the chain. *)
LEMMA ChainGrows ==
  ASSUME [Next]_vars
  PROVE  accepted \subseteq accepted'
<1>1. ASSUME NEW r \in Requests, HandlerStep(r) PROVE accepted \subseteq accepted'
  BY <1>1, ZenonT(60) DEF HandlerStep, CoSignStep, BroadcastStep, ApprovalRefused, ApprovalStored,
     ApprovalAudited, SignTransaction, SignFails, SignatureStored, SignatureDropped,
     SignatureAudited, GetTransaction, ChainAccepts, ChainRefuses, ChainAnswerLost,
     BroadcastStored, BroadcastAudited, failTransaction, FailureAudited, StoreCallFails
<1> QED BY <1>1, Zenon DEF Next, vars, CoSign, Broadcast, Cancel, Crash

(* A request that claims nothing new, about the call it had, keeps what it *)
(* claims.                                                                 *)
ClaimsNothingNew(q) ==
  /\ HasApproved(q)' => HasApproved(q) /\ call'[q] = call[q]
  /\ HasSigned(q)' => HasSigned(q) /\ call'[q] = call[q]
  /\ HasBroadcast(q)' => HasBroadcast(q) /\ call'[q] = call[q]

LEMMA ClaimKept ==
  ASSUME IndInv, AuditInv, RowsKept, accepted \subseteq accepted',
         NEW q \in Requests, ClaimsNothingNew(q)
  PROVE  ClaimInv(q)'
<1> DEFINE t == call[q].tx
<1>1. ClaimInv(q)
  BY Zenon DEF AuditInv
<1>2. t \in Txns /\ Stored(t) =>
        /\ transactions'[t] # None
        /\ transactions[t].signedTransaction # None =>
             transactions'[t].signedTransaction = transactions[t].signedTransaction
        /\ transactions'[t].status = "proposed" =>
             /\ transactions[t].status = "proposed"
             /\ transactions[t].approvals \subseteq transactions'[t].approvals
  BY RowsKeepClaims, Zenon
<1>3. (HasApproved(q) \/ HasSigned(q) \/ HasBroadcast(q)) => t \in Txns /\ Stored(t)
  BY <1>1, Zenon DEF ClaimInv
<1>4. HasApproved(q)' =>
        /\ call'[q] = call[q] /\ t \in Txns /\ transactions'[t] # None /\ signerAllowed(call[q].signer)
        /\ transactions'[t].status = "proposed" => call[q].signer \in transactions'[t].approvals
  BY <1>1, <1>2, <1>3, Zenon DEF ClaimsNothingNew, ClaimInv, Stored
<1>5. HasSigned(q)' => /\ call'[q] = call[q] /\ t \in Txns /\ transactions'[t] # None
                       /\ transactions'[t].signedTransaction # None
  BY <1>1, <1>2, <1>3, Zenon DEF ClaimsNothingNew, ClaimInv, Stored
<1>6. HasBroadcast(q)' => /\ call'[q] = call[q] /\ t \in Txns /\ transactions'[t] # None
                          /\ transactions'[t].signedTransaction # None
                          /\ transactions'[t].signedTransaction \in accepted'
  BY <1>1, <1>2, <1>3, Zenon DEF ClaimsNothingNew, ClaimInv, Stored
<1> QED BY <1>4, <1>5, <1>6, Zenon DEF ClaimInv, Stored, signerAllowed

(* If no request claims anything new, nothing is claimed twice. *)
LEMMA ClaimsKept ==
  ASSUME IndInv, AuditInv, RowsKept, accepted \subseteq accepted',
         \A q \in Requests : ClaimsNothingNew(q)
  PROVE  /\ \A q \in Requests : ClaimInv(q)'
         /\ \A r, q \in Requests : ClaimedOnce(r, q)'
<1>1. \A q \in Requests : ClaimInv(q)'
  BY ClaimKept, Zenon
<1>2. ASSUME NEW r \in Requests, NEW q \in Requests PROVE ClaimedOnce(r, q)'
  <2>1. ClaimsNothingNew(r) /\ ClaimsNothingNew(q) /\ ClaimedOnce(r, q)
    BY Zenon DEF AuditInv
  <2> QED BY <2>1, Zenon DEF ClaimsNothingNew, ClaimedOnce
<1> QED BY <1>1, <1>2, Zenon

(* The control of a request that appends nothing, claims nothing and is    *)
(* not answered 200.                                                       *)
MovesQuietly(q) ==
  /\ pc[q] # "idle" => pc'[q] # "idle" /\ call'[q] = call[q]
  /\ pc[q] = "done" => pc'[q] = "done"
  /\ pc'[q] \in {"audit_approved", "audit_signed", "audit_broadcast", "sign"} =>
       pc'[q] = pc[q]
  /\ pc'[q] = "mark_signed" => pc[q] \in {"sign", "mark_signed"}
  /\ reply'[q] = "OK" => reply[q] = "OK"

(* Steps that append nothing and claim nothing keep the log. *)
LEMMA QuietAudit ==
  ASSUME IndInv, AuditInv, RowsKept, accepted \subseteq accepted', UNCHANGED auditEvents,
         \A q \in Requests : MovesQuietly(q)
  PROVE  AuditInv'
<1>1. auditEvents \in SUBSET AuditEvent
  BY DEF IndInv, TypeOK, StoreTypeOK
<1>2. ASSUME NEW e \in auditEvents'
      PROVE  pc'[e.id] # "idle" /\ e = EventOf(e.id, e.type)'
  BY <1>1 DEF AuditInv, MovesQuietly, EventOf, AuditEvent
<1>3. \A q \in Requests : \A type : Did(q, type) =>
        pc[q] # "idle" /\ call'[q] = call[q]
  BY <1>1 DEF Did, AuditInv, MovesQuietly
<1>4. \A q \in Requests : \A type : Did(q, type)' <=> Did(q, type)
  BY Zenon DEF Did
<1>5. ASSUME NEW q \in Requests PROVE ClaimsNothingNew(q)
  BY <1>3, <1>4 DEF ClaimsNothingNew, MovesQuietly, HasApproved, HasSigned, HasBroadcast
<1>6. ASSUME NEW q \in Requests PROVE AckInv(q)'
  BY <1>4 DEF AuditInv, AckInv, MovesQuietly
<1> QED BY <1>2, <1>5, <1>6, ClaimsKept, Zenon DEF AuditInv

(* A handler that returns anything but 200 moves quietly. *)
LEMMA AnswerIsQuiet ==
  ASSUME TypeOK, NEW r \in Requests, pc[r] \in InFlightPC, NEW c, c # "OK", Answer(r, c)
  PROVE  \A q \in Requests : MovesQuietly(q)
<1>1. /\ \A q \in Requests : q # r => pc'[q] = pc[q] /\ reply'[q] = reply[q]
      /\ pc'[r] = "done" /\ reply'[r] # "OK" /\ call' = call
  BY DEF TypeOK, Answer
<1>2. pc[r] \notin {"idle", "done"}
  BY Zenon DEF InFlightPC, CoSignPC, BroadcastPC, FailPC
<1> QED BY <1>1, <1>2 DEF MovesQuietly

(* So does one that goes on to a call that claims nothing. *)
LEMMA GotoIsQuiet ==
  ASSUME TypeOK, NEW r \in Requests, pc[r] \in InFlightPC,
         NEW l \in InFlightPC, Goto(r, l),
         l \notin {"audit_approved", "audit_signed", "audit_broadcast", "sign"},
         l = "mark_signed" => pc[r] = "sign"
  PROVE  \A q \in Requests : MovesQuietly(q)
<1>1. /\ \A q \in Requests : q # r => pc'[q] = pc[q]
      /\ pc'[r] = l /\ call' = call /\ reply' = reply
  BY DEF TypeOK, Goto
<1>2. pc[r] \notin {"idle", "done"} /\ l \notin {"idle", "done"}
  BY Zenon DEF InFlightPC, CoSignPC, BroadcastPC, FailPC
<1> QED BY <1>1, <1>2, Zenon DEF MovesQuietly

(* The steps that append an event: the approval, the signature or the      *)
(* broadcast that it records was claimed before.                           *)
LEMMA AppendAudit ==
  ASSUME IndInv, AuditInv, UNCHANGED <<transactions, accepted>>,
         NEW r \in Requests, NEW type \in AuditEventType, appendAudit(r, type),
         pc[r] = CASE type = "transaction.approved" -> "audit_approved"
                   [] type = "transaction.signed" -> "audit_signed"
                   [] type = "transaction.broadcast" -> "audit_broadcast"
                   [] type = "transaction.failed" -> "audit_failed",
         \/ Answer(r, "InternalServerError")
         \/ Answer(r, "OK") /\ type # "transaction.failed"
         \/ Goto(r, "sign") /\ type = "transaction.approved"
  PROVE  AuditInv'
<1>1. /\ TypeOK /\ auditEvents \in SUBSET AuditEvent /\ CallInv(r)
  BY ZenonT(60) DEF IndInv, TypeOK, StoreTypeOK
<1>2. /\ auditEvents' = auditEvents \cup {EventOf(r, type)}
      /\ EventOf(r, type).id = r /\ EventOf(r, type).type = type
  BY Zenon DEF appendAudit, AppendAuditEvent, EventOf
<1>3. /\ \A q \in Requests : q # r => pc'[q] = pc[q] /\ reply'[q] = reply[q]
      /\ call' = call
      /\ \/ pc'[r] = "done" /\ reply'[r] = "InternalServerError"
         \/ pc'[r] = "done" /\ reply'[r] = "OK" /\ type # "transaction.failed"
         \/ pc'[r] = "sign" /\ reply'[r] = reply[r] /\ type = "transaction.approved"
  BY <1>1 DEF TypeOK, Answer, Goto
<1>4. \A q \in Requests : \A T : Did(q, T)' <=> Did(q, T) \/ (q = r /\ T = type)
  BY <1>2, Zenon DEF Did
<1>5. ASSUME NEW e \in auditEvents'
      PROVE  pc'[e.id] # "idle" /\ e = EventOf(e.id, e.type)'
  <2>1. CASE e = EventOf(r, type)
    BY <1>2, <1>3, <2>1, Zenon DEF EventOf
  <2>2. CASE e \in auditEvents
    BY <1>1, <1>3, <2>2, Zenon DEF AuditInv, EventOf, AuditEvent
  <2> QED BY <1>2, <2>1, <2>2, Zenon
<1>6. RowsKept
  BY Zenon DEF RowsKept
<1>7. ASSUME NEW q \in Requests PROVE ClaimsNothingNew(q)
  BY <1>3, <1>4 DEF ClaimsNothingNew, HasApproved, HasSigned, HasBroadcast, AuditEventType
<1>8. pc[r] \in CoSignPC => call[r].op = "cosign"
  BY <1>1, Zenon DEF CallInv
<1>9. pc[r] \in BroadcastPC => call[r].op = "broadcast"
  BY <1>1, Zenon DEF CallInv
<1>10. ASSUME NEW q \in Requests PROVE AckInv(q)'
  BY <1>3, <1>4, <1>8, <1>9 DEF AuditInv, AckInv, AuditEventType, CoSignPC, BroadcastPC
<1> QED BY <1>5, <1>6, <1>7, <1>10, ClaimsKept, Zenon DEF AuditInv

(* The steps that make a claim: it must be true and nobody else's. *)
LEMMA ClaimStep ==
  ASSUME IndInv, AuditInv, RowsKept, UNCHANGED <<auditEvents, accepted>>,
         NEW r \in Requests, pc[r] \in InFlightPC,
         NEW l \in {"audit_approved", "audit_signed", "audit_broadcast"}, Goto(r, l),
         l = "audit_signed" => pc[r] = "mark_signed",
         ClaimInv(r)',
         \A q \in Requests \ {r} : ClaimedOnce(r, q)' /\ ClaimedOnce(q, r)'
  PROVE  AuditInv'
<1>1. TypeOK /\ auditEvents \in SUBSET AuditEvent /\ pc[r] \notin {"idle", "done"}
  BY DEF IndInv, TypeOK, StoreTypeOK, InFlightPC, CoSignPC, BroadcastPC, FailPC
<1>2. /\ \A q \in Requests : q # r => pc'[q] = pc[q]
      /\ pc'[r] = l /\ call' = call /\ reply' = reply
  BY <1>1 DEF TypeOK, Goto
<1>3. ASSUME NEW e \in auditEvents'
      PROVE  pc'[e.id] # "idle" /\ e = EventOf(e.id, e.type)'
  BY <1>1, <1>2, Zenon DEF AuditInv, EventOf, AuditEvent
<1>4. \A q \in Requests : \A type : Did(q, type)' <=> Did(q, type)
  BY Zenon DEF Did
<1>5. ASSUME NEW q \in Requests PROVE AckInv(q)'
  BY <1>1, <1>2, <1>4 DEF AuditInv, AckInv
<1>6. \A q \in Requests \ {r} : ClaimsNothingNew(q)
  BY <1>2, <1>4, Zenon DEF ClaimsNothingNew, HasApproved, HasSigned, HasBroadcast
<1>7. \A q \in Requests : ClaimInv(q)'
  BY <1>6, ClaimKept, Zenon
<1>8. ASSUME NEW p \in Requests, NEW q \in Requests PROVE ClaimedOnce(p, q)'
  <2>1. CASE p = r /\ q = r
    BY <2>1, Zenon DEF ClaimedOnce
  <2>2. CASE p # r /\ q # r
    BY <1>6, <2>2 DEF AuditInv, ClaimsNothingNew, ClaimedOnce
  <2> QED BY <2>1, <2>2, Zenon
<1> QED BY <1>3, <1>5, <1>7, <1>8, Zenon DEF AuditInv

(* An approval is stored once: whoever claimed it before left it in the    *)
(* row, or saw the row closed.                                             *)
LEMMA ApprovalStoredAudit ==
  ASSUME IndInv, AuditInv, RowsKept, NEW r \in Requests, ApprovalStored(r)
  PROVE  AuditInv'
<1> DEFINE t == call[r].tx
           s == call[r].signer
<1>1. /\ TypeOK /\ pc[r] \in InFlightPC /\ AddApproval(t, s)
      /\ UNCHANGED <<auditEvents, accepted>> /\ accepted \subseteq accepted'
      /\ t \in Txns /\ signerAllowed(s) /\ pc[r] = "add_approval"
  BY Zenon
     DEF ApprovalStored, AtCall, IndInv, CallInv, InFlight, InFlightPC, CoSignPC, Call
<1>2. CASE Answer(r, "InternalServerError")
  BY <1>1, <1>2, AnswerIsQuiet, QuietAudit
<1>3. CASE Goto(r, "audit_approved")
  <2>1. /\ Stored(t) /\ transactions[t].status = "proposed"
        /\ s \notin transactions[t].approvals
        /\ transactions' = [transactions EXCEPT ![t].approvals = @ \cup {s}]
    BY <1>1, Zenon DEF AddApproval, Approvable
  <2>2. /\ transactions[t] \in TransactionProposal /\ transactions[t].signedTransaction = None
        /\ transactions \in [Txns -> TransactionProposal \cup {None}]
    BY <1>1, <2>1 DEF IndInv, RowInv, TypeOK, StoreTypeOK, Stored
  <2>3. transactions'[t] # None /\ s \in transactions'[t].approvals
    BY <1>1, <2>1, <2>2, RowsKeepClaims, Zenon DEF TransactionProposal
  <2>4. \A q \in Requests : HasApproved(q) => call[q].tx # t \/ call[q].signer # s
    BY <1>1, <2>1, Zenon DEF AuditInv, ClaimInv
  <2>5. ~HasSigned(r) /\ ~HasBroadcast(r)
    BY <2>1, <2>2, Zenon DEF AuditInv, ClaimInv
  <2>6. /\ pc' = [pc EXCEPT ![r] = "audit_approved"] /\ call' = call
        /\ \A q \in Requests : \A type : Did(q, type)' <=> Did(q, type)
    BY <1>1, <1>3, Zenon DEF Goto, Did
  <2>7. /\ ~HasSigned(r)' /\ ~HasBroadcast(r)'
        /\ \A q \in Requests \ {r} : HasApproved(q)' <=> HasApproved(q)
    BY <1>1, <2>5, <2>6 DEF HasApproved, HasSigned, HasBroadcast, TypeOK
  <2>8. ClaimInv(r)'
    BY <1>1, <2>3, <2>6, <2>7, Zenon DEF ClaimInv, Stored, signerAllowed
  <2>9. \A q \in Requests \ {r} : ClaimedOnce(r, q)' /\ ClaimedOnce(q, r)'
    BY <2>4, <2>6, <2>7, Zenon DEF ClaimedOnce
  <2> QED BY <1>1, <1>3, <2>8, <2>9, ClaimStep, Zenon
<1> QED BY <1>2, <1>3, Zenon DEF ApprovalStored

(* A proposal is signed once: whoever claimed it before left a payload in  *)
(* the row, which is no longer open.                                       *)
LEMMA SignatureStoredAudit ==
  ASSUME IndInv, AuditInv, RowsKept, NEW r \in Requests, SignatureStored(r)
  PROVE  AuditInv'
<1> DEFINE t == call[r].tx
<1>1. /\ TypeOK /\ pc[r] \in InFlightPC /\ pc[r] = "mark_signed"
      /\ MarkTransactionSigned(t, signature[r])
      /\ UNCHANGED <<auditEvents, accepted>> /\ accepted \subseteq accepted'
  BY Zenon DEF SignatureStored, AtCall, IndInv, InFlightPC, CoSignPC
<1>2. CASE Answer(r, "InternalServerError")
  BY <1>1, <1>2, AnswerIsQuiet, QuietAudit
<1>3. CASE Goto(r, "audit_signed")
  <2>1. /\ t \in Txns /\ signature[r] # None
        /\ Stored(t) /\ transactions[t].signedTransaction = None
        /\ transactions' = [transactions EXCEPT
             ![t] = [@ EXCEPT !.status = "signed", !.signedTransaction = signature[r]]]
    BY <1>1, NoneAssumption, Zenon
       DEF IndInv, RowInv, CallInv, InFlight, Call, OpenCopyInv, HoldsOpenCopy,
           MarkTransactionSigned
  <2>2. /\ transactions'[t] # None /\ transactions'[t].signedTransaction # None
        /\ transactions'[t].status = "signed"
    <3>1. /\ transactions \in [Txns -> TransactionProposal \cup {None}]
          /\ transactions[t] \in TransactionProposal
      BY <1>1, <2>1 DEF TypeOK, StoreTypeOK, Stored
    <3> QED BY <2>1, <3>1, RowsKeepClaims, Zenon DEF TransactionProposal
  <2>3. /\ ~HasBroadcast(r)
        /\ \A q \in Requests : HasSigned(q) => call[q].tx # t
    BY <2>1, Zenon DEF AuditInv, ClaimInv
  <2>4. /\ pc' = [pc EXCEPT ![r] = "audit_signed"] /\ call' = call
        /\ \A q \in Requests : \A type : Did(q, type)' <=> Did(q, type)
    BY <1>1, <1>3, Zenon DEF Goto, Did
  <2>5. /\ ~HasBroadcast(r)'
        /\ HasApproved(r)' => HasApproved(r)
        /\ \A q \in Requests \ {r} : /\ HasSigned(q)' <=> HasSigned(q)
                                     /\ HasApproved(q)' <=> HasApproved(q)
    BY <1>1, <2>3, <2>4 DEF HasApproved, HasSigned, HasBroadcast, TypeOK
  <2>6. ClaimInv(r)'
    <3>1. HasApproved(r)' => signerAllowed(call[r].signer)
      BY <2>5, Zenon DEF AuditInv, ClaimInv
    <3> QED BY <2>1, <2>2, <2>4, <2>5, <3>1, Zenon DEF ClaimInv, Stored, signerAllowed
  <2>7. \A q \in Requests \ {r} : ClaimedOnce(r, q)' /\ ClaimedOnce(q, r)'
    BY <2>3, <2>4, <2>5, Zenon DEF AuditInv, ClaimedOnce
  <2> QED BY <1>1, <1>3, <2>6, <2>7, ClaimStep, Zenon
<1> QED BY <1>2, <1>3, Zenon DEF SignatureStored

(* What Broadcast audits, the chain has accepted. *)
LEMMA BroadcastStoredAudit ==
  ASSUME IndInv, AuditInv, RowsKept, NEW r \in Requests, BroadcastStored(r)
  PROVE  AuditInv'
<1> DEFINE t == call[r].tx
<1>1. /\ TypeOK /\ pc[r] \in InFlightPC /\ pc[r] = "store_broadcast"
      /\ UNCHANGED <<auditEvents, accepted>> /\ accepted \subseteq accepted'
  BY Zenon DEF BroadcastStored, AtCall, IndInv, InFlightPC, BroadcastPC
<1>2. CASE Answer(r, "InternalServerError")
  BY <1>1, <1>2, AnswerIsQuiet, QuietAudit
<1>3. CASE Goto(r, "audit_broadcast")
  <2>1. /\ t \in Txns /\ Stored(t) /\ transactions[t].signedTransaction # None
        /\ transactions[t].signedTransaction \in accepted
    BY <1>1, Zenon DEF IndInv, CallInv, InFlight, Call, SignedCopyInv, HoldsSignedCopy
  <2>2. /\ transactions'[t] # None
        /\ transactions'[t].signedTransaction = transactions[t].signedTransaction
        /\ transactions'[t].status = "proposed" =>
             /\ transactions[t].status = "proposed"
             /\ transactions[t].approvals \subseteq transactions'[t].approvals
    BY <2>1, RowsKeepClaims, Zenon
  <2>3. /\ pc' = [pc EXCEPT ![r] = "audit_broadcast"] /\ call' = call
        /\ \A q \in Requests : \A type : Did(q, type)' <=> Did(q, type)
    BY <1>1, <1>3, Zenon DEF Goto, Did
  <2>4. \A q \in Requests : /\ HasSigned(q)' => HasSigned(q)
                            /\ HasApproved(q)' => HasApproved(q)
    BY <1>1, <2>3 DEF HasApproved, HasSigned, TypeOK
  <2>5. ClaimInv(r)'
    BY <1>1, <2>1, <2>2, <2>3, <2>4, Zenon DEF AuditInv, ClaimInv, Stored, signerAllowed
  <2>6. \A q \in Requests \ {r} : ClaimedOnce(r, q)' /\ ClaimedOnce(q, r)'
    BY <2>3, <2>4, Zenon DEF AuditInv, ClaimedOnce
  <2> QED BY <1>1, <1>3, <2>5, <2>6, ClaimStep, Zenon
<1> QED BY <1>2, <1>3, ZenonT(60) DEF BroadcastStored

(* A co-signer that comes too late has its approval audited all the same. *)
LEMMA SignatureDroppedAudit ==
  ASSUME IndInv, AuditInv, NEW r \in Requests, SignatureDropped(r)
  PROVE  AuditInv'
<1>1. /\ TypeOK /\ pc[r] = "mark_signed" /\ Answer(r, "OK") /\ call[r].op = "cosign"
      /\ UNCHANGED <<transactions, auditEvents, accepted>>
      /\ auditEvents \in SUBSET AuditEvent
  BY DEF SignatureDropped, AtCall, store, IndInv, CallInv, CoSignPC, TypeOK, StoreTypeOK
<1>2. /\ \A q \in Requests : q # r => pc'[q] = pc[q] /\ reply'[q] = reply[q]
      /\ pc'[r] = "done" /\ call' = call
  BY <1>1 DEF TypeOK, Answer
<1>3. ASSUME NEW e \in auditEvents'
      PROVE  pc'[e.id] # "idle" /\ e = EventOf(e.id, e.type)'
  BY <1>1, <1>2, Zenon DEF AuditInv, EventOf, AuditEvent
<1>4. \A q \in Requests : \A type : Did(q, type)' <=> Did(q, type)
  BY <1>1, Zenon DEF Did
<1>5. \A q \in Requests : ClaimsNothingNew(q)
  BY <1>2, <1>4, Zenon DEF ClaimsNothingNew, HasApproved, HasSigned, HasBroadcast
<1>6. ASSUME NEW q \in Requests PROVE AckInv(q)'
  BY <1>1, <1>2, <1>4 DEF AuditInv, AckInv
<1>7. RowsKept /\ accepted \subseteq accepted'
  BY <1>1, Zenon DEF RowsKept
<1> QED BY <1>3, <1>5, <1>6, <1>7, ClaimsKept, Zenon DEF AuditInv

(* CoSign keeps the audit log consistent. *)
LEMMA CoSignStepAudit ==
  ASSUME IndInv, AuditInv, RowsKept, accepted \subseteq accepted',
         NEW r \in Requests, CoSignStep(r)
  PROVE  AuditInv'
<1>1. TypeOK
  BY Zenon DEF IndInv
<1>2. CASE ApprovalRefused(r)
  <2>1. /\ pc[r] \in InFlightPC /\ UNCHANGED auditEvents
        /\ Answer(r, "BadRequest") \/ Answer(r, "NotFound")
    BY <1>2, Zenon DEF ApprovalRefused, AtCall, store, InFlightPC, CoSignPC
  <2> QED BY <1>1, <2>1, AnswerIsQuiet, QuietAudit
<1>3. CASE ApprovalAudited(r)
  BY <1>3, AppendAudit, ZenonT(60) DEF ApprovalAudited, AtCall, AuditEventType
<1>4. CASE SignTransaction(r) \/ SignFails(r)
  <2>1. /\ pc[r] = "sign" /\ UNCHANGED auditEvents
        /\ Goto(r, "mark_signed") \/ Goto(r, "fail_transaction")
    BY <1>4, Zenon DEF SignTransaction, SignFails, AtCall, store
  <2>2. \A q \in Requests : MovesQuietly(q)
    BY <1>1, <2>1, GotoIsQuiet, Zenon DEF InFlightPC, CoSignPC, FailPC
  <2> QED BY <2>1, <2>2, QuietAudit, Zenon
<1>5. CASE SignatureAudited(r)
  BY <1>5, AppendAudit, ZenonT(60) DEF SignatureAudited, AtCall, AuditEventType
<1> QED
  BY <1>2, <1>3, <1>4, <1>5, ApprovalStoredAudit, SignatureStoredAudit,
     SignatureDroppedAudit, Zenon DEF CoSignStep

(* So does Broadcast. *)
LEMMA BroadcastStepAudit ==
  ASSUME IndInv, AuditInv, RowsKept, accepted \subseteq accepted',
         NEW r \in Requests, BroadcastStep(r)
  PROVE  AuditInv'
<1>1. TypeOK
  BY Zenon DEF IndInv
<1>2. CASE GetTransaction(r)
  <2>1. /\ pc[r] = "get_transaction" /\ UNCHANGED auditEvents
        /\ Goto(r, "submit") \/ Answer(r, "BadRequest") \/ Answer(r, "NotFound")
    BY <1>2 DEF GetTransaction, AtCall, store
  <2>2. \A q \in Requests : MovesQuietly(q)
    BY <1>1, <2>1, GotoIsQuiet, AnswerIsQuiet DEF InFlightPC, BroadcastPC
  <2> QED BY <2>1, <2>2, QuietAudit, Zenon
<1>3. CASE ChainAccepts(r) \/ ChainRefuses(r) \/ ChainAnswerLost(r)
  <2>1. /\ pc[r] = "submit" /\ UNCHANGED auditEvents
        /\ Goto(r, "store_broadcast") \/ Goto(r, "fail_transaction")
    BY <1>3, Zenon DEF ChainAccepts, ChainRefuses, ChainAnswerLost, AtCall, store
  <2>2. \A q \in Requests : MovesQuietly(q)
    BY <1>1, <2>1, GotoIsQuiet, Zenon DEF InFlightPC, BroadcastPC, FailPC
  <2> QED BY <2>1, <2>2, QuietAudit, Zenon
<1>4. CASE BroadcastAudited(r)
  BY <1>4, AppendAudit, ZenonT(60) DEF BroadcastAudited, AtCall, AuditEventType
<1> QED BY <1>2, <1>3, <1>4, BroadcastStoredAudit, Zenon DEF BroadcastStep

(* So do failures, requests that arrive, clients that leave and restarts. *)
LEMMA NextAudit ==
  ASSUME IndInv, AuditInv, [Next]_vars, RowsKept
  PROVE  AuditInv'
<1>1. TypeOK /\ RowsKept /\ accepted \subseteq accepted'
  BY ChainGrows, Zenon DEF IndInv
<1>2. ASSUME NEW r \in Requests, failTransaction(r) PROVE AuditInv'
  <2>1. /\ pc[r] = "fail_transaction" /\ UNCHANGED auditEvents /\ Goto(r, "audit_failed")
    BY <1>2, Zenon DEF failTransaction
  <2> QED BY <1>1, <2>1, GotoIsQuiet, QuietAudit, Zenon DEF InFlightPC, FailPC
<1>3. ASSUME NEW r \in Requests, FailureAudited(r) PROVE AuditInv'
  <2>1. /\ pc[r] = "audit_failed" /\ Answer(r, "InternalServerError") /\ UNCHANGED <<transactions, accepted>>
        /\ appendAudit(r, "transaction.failed") \/ UNCHANGED auditEvents
    BY <1>3, Zenon DEF FailureAudited
  <2>2. CASE appendAudit(r, "transaction.failed")
    BY <2>1, <2>2, AppendAudit, Zenon DEF AuditEventType
  <2>3. CASE UNCHANGED auditEvents
    BY <1>1, <2>1, <2>3, AnswerIsQuiet, QuietAudit DEF InFlightPC, FailPC
  <2> QED BY <2>1, <2>2, <2>3, Zenon
<1>4. ASSUME NEW r \in Requests, StoreCallFails(r) PROVE AuditInv'
  <2>1. /\ pc[r] \in InFlightPC /\ Answer(r, "InternalServerError") /\ UNCHANGED auditEvents
    BY <1>4, Zenon DEF StoreCallFails, store, AbortingPC, InFlightPC
  <2> QED BY <1>1, <2>1, AnswerIsQuiet, QuietAudit
<1>5. ASSUME NEW r \in Requests,
             \/ \E t \in Txns, s \in Signers \cup {None} : CoSign(r, t, s)
             \/ \E t \in Txns : Broadcast(r, t)
      PROVE  AuditInv'
  <2>1. /\ UNCHANGED auditEvents /\ pc[r] = "idle"
        /\ \A q \in Requests : q # r =>
             pc'[q] = pc[q] /\ call'[q] = call[q] /\ reply'[q] = reply[q]
        /\ pc'[r] \in {"add_approval", "done", "get_transaction"}
        /\ reply'[r] = "OK" => reply[r] = "OK"
    BY <1>1, <1>5 DEF CoSign, Broadcast, store, TypeOK
  <2>2. \A q \in Requests : MovesQuietly(q)
    BY <2>1 DEF MovesQuietly
  <2> QED BY <1>1, <2>1, <2>2, QuietAudit, Zenon
<1>6. ASSUME NEW r \in Requests, Cancel(r) PROVE AuditInv'
  <2>1. \A q \in Requests : MovesQuietly(q)
    BY <1>6, Zenon DEF Cancel, MovesQuietly
  <2> QED BY <1>1, <1>6, <2>1, QuietAudit, Zenon DEF Cancel, store
<1>7. CASE Crash
  <2>1. \A q \in Requests : MovesQuietly(q)
    BY <1>7, Zenon
       DEF Crash, MovesQuietly, InFlight, InFlightPC, CoSignPC, BroadcastPC, FailPC
  <2> QED BY <1>1, <1>7, <2>1, QuietAudit, Zenon DEF Crash, store
<1>8. CASE UNCHANGED vars
  <2>1. \A q \in Requests : MovesQuietly(q)
    BY <1>8, Zenon DEF vars, handlers, MovesQuietly
  <2> QED BY <1>1, <1>8, <2>1, QuietAudit, Zenon DEF vars
<1> QED
  BY <1>1, <1>2, <1>3, <1>4, <1>5, <1>6, <1>7, <1>8, CoSignStepAudit,
     BroadcastStepAudit, Zenon
     DEF Next, HandlerStep

-----------------------------------------------------------------------------
(* What QuorumGate sees of a write. *)

(* Writing the row of t moves proposal t and no other. *)
LEMMA MapWrite ==
  ASSUME TypeOK, NEW t \in Txns, NEW row \in TransactionProposal,
         transactions' = [transactions EXCEPT ![t] = row]
  PROVE  /\ gateBar' = [gateBar EXCEPT ![t] = GateOf(t)']
         /\ sealedBar' = [sealedBar EXCEPT ![t] = row.signedTransaction]
         /\ approvalsBar' = [approvalsBar EXCEPT
              ![t] = IF GateOf(t)' \in {"open", "sealed"} THEN row.approvals ELSE {}]
         /\ GateOf(t)' = IF row.signedTransaction # None THEN "sealed"
                         ELSE IF row.status = "proposed" THEN "open" ELSE "abandoned"
<1>1. /\ transactions'[t] = row /\ row # None
      /\ \A u \in Txns : u # t => transactions'[u] = transactions[u]
  BY NoneAssumption DEF TypeOK, StoreTypeOK
<1>2. \A u \in Txns : u # t => GateOf(u)' = GateOf(u)
  BY <1>1, Zenon DEF GateOf, Stored
<1>3. GateOf(t)' = IF row.signedTransaction # None THEN "sealed"
                    ELSE IF row.status = "proposed" THEN "open" ELSE "abandoned"
  BY <1>1, Zenon DEF GateOf, Stored
<1>4. gateBar' = [gateBar EXCEPT ![t] = GateOf(t)']
  BY <1>2, Zenon DEF gateBar
<1>5. sealedBar' = [sealedBar EXCEPT ![t] = row.signedTransaction]
  <2>1. sealedBar' = [u \in Txns |-> IF u = t THEN row.signedTransaction ELSE sealedBar[u]]
    BY <1>1 DEF sealedBar, Stored
  <2> QED BY <2>1, Zenon DEF sealedBar
<1>6. approvalsBar' = [approvalsBar EXCEPT
        ![t] = IF GateOf(t)' \in {"open", "sealed"} THEN row.approvals ELSE {}]
  <2> DEFINE a == IF GateOf(t)' \in {"open", "sealed"} THEN row.approvals ELSE {}
  <2>1. approvalsBar' = [u \in Txns |-> IF u = t THEN a ELSE approvalsBar[u]]
    BY <1>1, <1>2 DEF approvalsBar
  <2> HIDE DEF a
  <2>2. approvalsBar' = [approvalsBar EXCEPT ![t] = a]
    BY <2>1, Zenon DEF approvalsBar
  <2> QED BY <2>2, Zenon DEF a
<1> QED BY <1>3, <1>4, <1>5, <1>6, Zenon

(* A step that leaves rows and chain alone is invisible. *)
LEMMA MapStutter ==
  ASSUME UNCHANGED <<transactions, accepted>>
  PROVE  UNCHANGED Gate!gateVars
  BY Zenon DEF Gate!gateVars, gateBar, sealedBar, approvalsBar, GateOf, Stored

(* Writing back a row that agrees with the old one in what QuorumGate sees *)
(* is invisible.                                                           *)
LEMMA MapRewrite ==
  ASSUME TypeOK, NEW t \in Txns, NEW row \in TransactionProposal, Stored(t),
         transactions' = [transactions EXCEPT ![t] = row], UNCHANGED accepted,
         row.signedTransaction = transactions[t].signedTransaction,
         \/ /\ row.signedTransaction # None
            /\ row.approvals = transactions[t].approvals
         \/ /\ row.signedTransaction = None
            /\ row.status # "proposed" /\ transactions[t].status # "proposed"
  PROVE  UNCHANGED Gate!gateVars
<1>1. /\ gateBar' = [gateBar EXCEPT ![t] = GateOf(t)']
      /\ sealedBar' = [sealedBar EXCEPT ![t] = row.signedTransaction]
      /\ approvalsBar' = [approvalsBar EXCEPT
           ![t] = IF GateOf(t)' \in {"open", "sealed"} THEN row.approvals ELSE {}]
      /\ GateOf(t)' = IF row.signedTransaction # None THEN "sealed"
                      ELSE IF row.status = "proposed" THEN "open" ELSE "abandoned"
  BY MapWrite, Zenon
<1>2. GateOf(t)' = GateOf(t)
  BY <1>1, Zenon DEF GateOf
<1>3. /\ gateBar[t] = GateOf(t) /\ sealedBar[t] = row.signedTransaction
      /\ approvalsBar[t] = IF GateOf(t)' \in {"open", "sealed"} THEN row.approvals ELSE {}
  BY <1>1, <1>2, Zenon DEF gateBar, sealedBar, approvalsBar, GateOf
<1>4. gateBar' = gateBar /\ sealedBar' = sealedBar /\ approvalsBar' = approvalsBar
  <2>1. gateBar' = [gateBar EXCEPT ![t] = gateBar[t]]
    BY <1>1, <1>2, <1>3, Zenon
  <2>2. sealedBar' = [sealedBar EXCEPT ![t] = sealedBar[t]]
    BY <1>1, <1>3, Zenon
  <2>3. approvalsBar' = [approvalsBar EXCEPT ![t] = approvalsBar[t]]
    BY <1>1, <1>3, Zenon
  <2>4. gateBar' = gateBar
    BY <2>1, Zenon DEF gateBar
  <2>5. sealedBar' = sealedBar
    BY <2>2, Zenon DEF sealedBar
  <2>6. approvalsBar' = approvalsBar
    BY <2>3, Zenon DEF approvalsBar
  <2> QED BY <2>4, <2>5, <2>6, Zenon
<1> QED BY <1>4, Zenon DEF Gate!gateVars
=============================================================================
