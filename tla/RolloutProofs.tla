--------------------------- MODULE RolloutProofs ----------------------------
(***************************************************************************)
(* What a rolling update can do to the stored proposals and to their       *)
(* audit, for any number of requests, proposals and signers.               *)
(*                                                                         *)
(* UpdateInv holds whatever the faults.  A handler of the old process has  *)
(* the key at hand, so its failure to sign is about a proposal that nobody *)
(* has signed; the copies that were read for broadcasting all hold the one *)
(* payload that their row ever had.  Hence every row that can be written   *)
(* is a legal replacement of the stored one (LegalRow), and only a handler *)
(* without the key can erase a payload.                                    *)
(*                                                                         *)
(* AccountInv needs a store that does what it reports.  Then a handler     *)
(* leaves the call that audits a change only by making it, so what was     *)
(* accounted for stays accounted for, and every change is made by a        *)
(* handler that goes to such a call.                                       *)
(*                                                                         *)
(* SettledInv, again whatever the faults, is about the chain.  The row of  *)
(* a payload on the chain is closed and holds that payload or none, and so *)
(* does every copy that can still be broadcast; what is written back has a *)
(* quorum, because a copy was taken with one or from a row that had one.   *)
(***************************************************************************)
EXTENDS Rollout, TLAPS

(* What UpdateInv says of one request. *)
RequestInv(r) == ServerInv(r) /\ OpenInv(r) /\ SignedInv(r)

(* Only request r moves. *)
OthersUnchanged(r) ==
  \A q \in Requests : q # r =>
    /\ pc'[q] = pc[q] /\ ctx'[q] = ctx[q] /\ call'[q] = call[q]
    /\ proposal'[q] = proposal[q] /\ signature'[q] = signature[q]
    /\ server'[q] = server[q]

HandlersTypeOK ==
  /\ pc \in [Requests -> {"idle", "done"} \cup InFlightPC]
  /\ ctx \in [Requests -> {"live", "cancelled"}]
  /\ call \in [Requests -> Call \cup {None}]
  /\ proposal \in [Requests -> TransactionProposal \cup {None}]
  /\ signature \in [Requests -> Payload \cup {None}]
  /\ reply \in [Requests -> {"none", "OK", "BadRequest", "Forbidden", "NotFound", "InternalServerError"}]

(* Row may replace the stored row of t. *)
LegalRow(t, row) ==
  /\ t \in Txns /\ Stored(t) /\ row \in TransactionProposal
  /\ row.status = "proposed" =>
       transactions[t].status = "proposed" /\ row.signedTransaction = None
  /\ row.status = "signed" => transactions[t].status = "proposed"
  /\ row.signedTransaction # None => t \notin Unsignable
  /\ \A q \in Requests : HoldsSignedCopy(q) /\ call[q].tx = t =>
       row.signedTransaction \in {None, proposal[q].signedTransaction}

(* A step of request r leaves the rows alone or writes one legally. *)
RowsUpdated ==
  \/ UNCHANGED transactions
  \/ \E t \in Txns, row \in TransactionProposal :
       LegalRow(t, row) /\ transactions' = [transactions EXCEPT ![t] = row]

-----------------------------------------------------------------------------
(* Requests. *)

(* A handler that is in a call was called. *)
LEMMA HandlerCall ==
  ASSUME NEW r \in Requests, ServerInv(r), InFlight(r)
  PROVE  call[r] \in Call /\ call[r].tx \in Txns
  BY Zenon DEF ServerInv, Call

LEMMA CopyIsInFlight ==
  ASSUME NEW r \in Requests, HoldsOpenCopy(r) \/ HoldsSignedCopy(r)
  PROVE  InFlight(r)
  BY Zenon DEF HoldsOpenCopy, HoldsSignedCopy, Failing, InFlight, InFlightPC, CoSignPC,
     BroadcastPC, FailPC

(* What a handler answers, and the calls that record a change of status. *)
Codes == {"OK", "BadRequest", "Forbidden", "NotFound", "InternalServerError"}
StatusAudits == {"audit_signed", "audit_broadcast", "audit_failed"}

(* A request that has ended has nothing to keep. *)
LEMMA EndedRequest ==
  ASSUME NEW r \in Requests, pc'[r] = "done", ctx'[r] = "live"
  PROVE  RequestInv(r)' /\ ~HoldsSignedCopy(r)' /\ ~HoldsOpenCopy(r)'
  BY Zenon DEF RequestInv, ServerInv, InFlight, InFlightPC, CoSignPC, BroadcastPC, FailPC,
     OpenInv, SignedInv, HoldsOpenCopy, HoldsSignedCopy, Failing

LEMMA AnswerStep ==
  ASSUME TypeOK, NEW r \in Requests, NEW c \in Codes, Answer(r, c),
         UNCHANGED server
  PROVE  /\ HandlersTypeOK' /\ OthersUnchanged(r) /\ call' = call
         /\ pc'[r] = "done" /\ ctx'[r] = "live"
  BY DEF TypeOK, Answer, HandlersTypeOK, OthersUnchanged, Codes

LEMMA GotoStep ==
  ASSUME TypeOK, NEW r \in Requests, NEW l \in InFlightPC, Goto(r, l),
         UNCHANGED <<ctx, server>>,
         \A q \in Requests : q # r =>
           proposal'[q] = proposal[q] /\ signature'[q] = signature[q],
         proposal' \in [Requests -> TransactionProposal \cup {None}],
         signature' \in [Requests -> Payload \cup {None}]
  PROVE  HandlersTypeOK' /\ OthersUnchanged(r) /\ pc'[r] = l /\ call' = call
<1>1. pc' = [pc EXCEPT ![r] = l] /\ call' = call /\ reply' = reply
  BY Zenon DEF Goto
<1>2. /\ pc \in [Requests -> {"idle", "done"} \cup InFlightPC]
      /\ ctx \in [Requests -> {"live", "cancelled"}]
      /\ call \in [Requests -> Call \cup {None}]
      /\ reply \in [Requests -> {"none", "OK", "BadRequest", "Forbidden", "NotFound", "InternalServerError"}]
  BY ZenonT(60) DEF TypeOK
<1>3. HandlersTypeOK'
  BY <1>1, <1>2, ZenonT(60) DEF HandlersTypeOK
<1> QED BY <1>1, <1>2, <1>3 DEF OthersUnchanged

LEMMA GotoOnly ==
  ASSUME TypeOK, NEW r \in Requests, NEW l \in InFlightPC, Goto(r, l), UNCHANGED locals,
         UNCHANGED server
  PROVE  /\ HandlersTypeOK' /\ OthersUnchanged(r) /\ pc'[r] = l /\ call' = call
         /\ UNCHANGED <<ctx, proposal, signature>>
<1>1. ctx' = ctx /\ proposal' = proposal /\ signature' = signature
  BY Zenon DEF locals
<1>2. /\ proposal \in [Requests -> TransactionProposal \cup {None}]
      /\ signature \in [Requests -> Payload \cup {None}]
  BY ZenonT(60) DEF TypeOK
<1> QED BY <1>1, <1>2, GotoStep, Zenon

-----------------------------------------------------------------------------
(* Steps. *)

(* A legal write keeps what is known of the payload of every row. *)
LEMMA RowsStep ==
  ASSUME UpdateInv, RowsUpdated
  PROVE  /\ transactions' \in [Txns -> TransactionProposal \cup {None}]
         /\ \A t \in Txns : PayloadInv(t)'
         /\ \A q \in Requests : HoldsSignedCopy(q) =>
              LET t == call[q].tx
              IN  /\ transactions'[t] # None /\ transactions'[t].status # "proposed"
                  /\ transactions'[t].signedTransaction \in
                       {None, proposal[q].signedTransaction}
<1>1. /\ transactions \in [Txns -> TransactionProposal \cup {None}]
      /\ \A t \in Txns : PayloadInv(t)
      /\ \A q \in Requests : SignedInv(q) /\ ServerInv(q)
  BY ZenonT(60) DEF UpdateInv, UpdateTypeOK, TypeOK, StoreTypeOK
<1>2. CASE UNCHANGED transactions
  BY <1>1, <1>2, Zenon DEF PayloadInv, SignedInv, Stored
<1>3. ASSUME NEW t \in Txns, NEW row \in TransactionProposal, LegalRow(t, row),
             transactions' = [transactions EXCEPT ![t] = row]
      PROVE  /\ transactions' \in [Txns -> TransactionProposal \cup {None}]
             /\ \A u \in Txns : PayloadInv(u)'
             /\ \A q \in Requests : HoldsSignedCopy(q) =>
                  LET u == call[q].tx
                  IN  /\ transactions'[u] # None /\ transactions'[u].status # "proposed"
                      /\ transactions'[u].signedTransaction \in
                           {None, proposal[q].signedTransaction}
  <2>1. /\ transactions'[t] = row /\ row # None
        /\ \A u \in Txns : u # t => transactions'[u] = transactions[u]
    BY <1>1, <1>3, NoneAssumption, Zenon
  <2>2. transactions' \in [Txns -> TransactionProposal \cup {None}]
    BY <1>1, <1>3, Zenon
  <2>3. ASSUME NEW u \in Txns PROVE PayloadInv(u)'
    <3>1. CASE u = t
      BY <1>3, <2>1, <3>1, Zenon DEF LegalRow, PayloadInv, Stored
    <3>2. CASE u # t
      BY <1>1, <2>1, <3>2, Zenon DEF PayloadInv, Stored
    <3> QED BY <3>1, <3>2, Zenon
  <2>4. ASSUME NEW q \in Requests, HoldsSignedCopy(q)
        PROVE  LET u == call[q].tx
               IN  /\ transactions'[u] # None /\ transactions'[u].status # "proposed"
                   /\ transactions'[u].signedTransaction \in
                        {None, proposal[q].signedTransaction}
    <3>1. call[q].tx \in Txns /\ SignedInv(q)
      BY <1>1, <2>4, HandlerCall, CopyIsInFlight, Zenon
    <3>2. CASE call[q].tx = t
      BY <1>3, <2>1, <2>4, <3>1, <3>2, Zenon DEF LegalRow, SignedInv, Stored
    <3>3. CASE call[q].tx # t
      BY <2>1, <2>4, <3>1, <3>3, Zenon DEF SignedInv, Stored
    <3> QED BY <3>2, <3>3, Zenon
  <2> QED BY <2>2, <2>3, <2>4, Zenon
<1> QED BY <1>2, <1>3, Zenon DEF RowsUpdated

(* After its step request r holds no signed copy, the one it had, or the   *)
(* stored row.                                                             *)
SignedCopyKept(r) ==
  HoldsSignedCopy(r)' =>
    /\ call'[r] = call[r]
    /\ \/ HoldsSignedCopy(r) /\ proposal'[r] = proposal[r]
       \/ /\ UNCHANGED transactions
          /\ proposal'[r] = transactions[call[r].tx]
          /\ proposal'[r].signedTransaction # None

(* A step of one request preserves the invariant if it writes legally and  *)
(* leaves the request itself in order.                                     *)
LEMMA RequestStep ==
  ASSUME UpdateInv, NEW r \in Requests, RowsUpdated, OthersUnchanged(r),
         HandlersTypeOK', auditEvents' \in SUBSET AuditEvent,
         accepted' \in SUBSET Payload, UNCHANGED <<records, phase>>,
         server' \in [Requests -> {"old", "new", None}],
         RequestInv(r)', SignedCopyKept(r)
  PROVE  UpdateInv'
<1>1. /\ TypeOK /\ phase \in Phase /\ (~OldIsGone => records = Wallets)
      /\ \A q \in Requests : ServerInv(q) /\ OpenInv(q) /\ SignedInv(q)
      /\ \A p, q \in Requests : CopiesAgree(p, q)
  BY Zenon DEF UpdateInv, UpdateTypeOK
<1>2. UpdateTypeOK'
  <2>1. transactions' \in [Txns -> TransactionProposal \cup {None}]
    BY RowsStep, Zenon
  <2> QED BY <1>1, <2>1, ZenonT(60) DEF UpdateTypeOK, TypeOK, StoreTypeOK, HandlersTypeOK
<1>3. ~OldIsGone' => records' = Wallets
  BY <1>1, Zenon DEF OldIsGone
<1>4. ASSUME NEW q \in Requests, q # r
      PROVE  /\ RequestInv(q)'
             /\ HoldsSignedCopy(q)' <=> HoldsSignedCopy(q)
             /\ call'[q] = call[q] /\ proposal'[q] = proposal[q]
  <2>1. /\ pc'[q] = pc[q] /\ ctx'[q] = ctx[q] /\ call'[q] = call[q]
        /\ proposal'[q] = proposal[q] /\ signature'[q] = signature[q]
        /\ server'[q] = server[q]
    BY <1>4, Zenon DEF OthersUnchanged
  <2>2. ServerInv(q)' /\ OpenInv(q)'
    BY <1>1, <2>1, Zenon DEF ServerInv, InFlight, OldIsGone, OpenInv, HoldsOpenCopy, Failing,
       ApprovalsCount
  <2>3. HoldsSignedCopy(q)' <=> HoldsSignedCopy(q)
    BY <2>1, Zenon DEF HoldsSignedCopy, Failing
  <2>4. SignedInv(q)'
    BY <1>1, <2>1, <2>3, RowsStep, Zenon DEF SignedInv, Stored
  <2> QED BY <2>1, <2>2, <2>3, <2>4, Zenon DEF RequestInv
<1>5. ASSUME NEW q \in Requests, q # r PROVE CopiesAgree(r, q)' /\ CopiesAgree(q, r)'
  <2> SUFFICES ASSUME HoldsSignedCopy(r)', HoldsSignedCopy(q)', call'[r].tx = call'[q].tx
               PROVE  proposal'[r].signedTransaction = proposal'[q].signedTransaction
    BY Zenon DEF CopiesAgree
  <2>1. /\ HoldsSignedCopy(q) /\ proposal'[q] = proposal[q] /\ call[r].tx = call[q].tx
    BY <1>4, <1>5, Zenon DEF SignedCopyKept
  <2>2. CASE HoldsSignedCopy(r) /\ proposal'[r] = proposal[r]
    BY <1>1, <2>1, <2>2, Zenon DEF CopiesAgree
  <2>3. CASE /\ proposal'[r] = transactions[call[r].tx]
             /\ proposal'[r].signedTransaction # None
    BY <1>1, <2>1, <2>3, ZenonT(60) DEF SignedInv
  <2> QED BY <2>2, <2>3, Zenon DEF SignedCopyKept
<1>6. ASSUME NEW p \in Requests, NEW q \in Requests PROVE CopiesAgree(p, q)'
  <2>1. CASE p = q
    BY <2>1, Zenon DEF CopiesAgree
  <2>2. CASE p # r /\ q # r
    BY <1>1, <1>4, <2>2, ZenonT(60) DEF CopiesAgree
  <2> QED BY <1>5, <2>1, <2>2, Zenon
<1>7. \A q \in Requests : RequestInv(q)'
  BY <1>4, Zenon
<1> QED BY <1>2, <1>3, <1>6, <1>7, RowsStep, Zenon DEF UpdateInv, RequestInv

(* So does a step of a handler that returns without writing a row. *)
LEMMA QuietAnswer ==
  ASSUME UpdateInv, NEW r \in Requests, NEW c \in Codes, Answer(r, c),
         UNCHANGED <<transactions, records, accepted, phase, server>>,
         auditEvents' \in SUBSET AuditEvent
  PROVE  UpdateInv'
<1>1. /\ TypeOK /\ accepted \in SUBSET Payload
      /\ server \in [Requests -> {"old", "new", None}]
  BY ZenonT(60) DEF UpdateInv, UpdateTypeOK, TypeOK
<1>2. /\ HandlersTypeOK' /\ OthersUnchanged(r) /\ pc'[r] = "done" /\ ctx'[r] = "live"
  BY <1>1, AnswerStep
<1>3. RequestInv(r)' /\ SignedCopyKept(r)
  BY <1>2, EndedRequest, Zenon DEF SignedCopyKept
<1>4. RowsUpdated
  BY Zenon DEF RowsUpdated
<1>5. accepted' \in SUBSET Payload /\ server' \in [Requests -> {"old", "new", None}]
  BY <1>1, Zenon
<1>6. UNCHANGED <<records, phase>>
  BY Zenon
<1> QED BY <1>2, <1>3, <1>4, <1>5, <1>6, RequestStep, Zenon

(* The event that a handler appends is well typed. *)
LEMMA AppendStep ==
  ASSUME UpdateInv, NEW r \in Requests, InFlight(r), NEW type \in AuditEventType,
         appendAudit(r, type)
  PROVE  auditEvents' \in SUBSET AuditEvent
<1>1. call[r] \in Call /\ auditEvents \in SUBSET AuditEvent
  BY ZenonT(60) DEF UpdateInv, UpdateTypeOK, TypeOK, StoreTypeOK, ServerInv
<1>2. EventOf(r, type) \in AuditEvent
  BY <1>1, Zenon DEF EventOf, Call, AuditEvent
<1> QED BY <1>1, <1>2, Zenon DEF appendAudit, AppendAuditEvent

-----------------------------------------------------------------------------
(* The actions of CoSign. *)

(* A request arrives at a process that serves. *)
LEMMA ArrivesInv ==
  ASSUME UpdateInv, NEW r \in Requests, Arrives(r)
  PROVE  UpdateInv'
<1>1. /\ TypeOK /\ phase \in Phase /\ RequestInv(r)
      /\ server \in [Requests -> {"old", "new", None}]
  BY Zenon DEF UpdateInv, UpdateTypeOK, RequestInv
<1>2. PICK p \in Serving : server' = [server EXCEPT ![r] = p]
  BY Zenon DEF Arrives
<1>3. p \in {"old", "new"} /\ (p = "old" => ~OldIsGone)
  BY <1>1, <1>2, Zenon DEF Serving, Phase, OldIsGone
<1>4. server' \in [Requests -> {"old", "new", None}] /\ server'[r] = p
      /\ \A q \in Requests : q # r => server'[q] = server[q]
  BY <1>1, <1>2, <1>3, Zenon
<1>5. /\ UNCHANGED <<transactions, auditEvents, records, accepted, phase>>
      /\ UNCHANGED <<ctx, proposal, signature>>
  BY Zenon DEF Arrives, CoSign, Broadcast, store, locals
<1>6. PICK c \in Call, l \in {"add_approval", "get_transaction", "done"} :
        /\ call' = [call EXCEPT ![r] = c]
        /\ pc' = [pc EXCEPT ![r] = l]
        /\ l = "add_approval" => c.op = "cosign" /\ c.signer \in Signers
        /\ l = "get_transaction" => c.op = "broadcast"
        /\ reply' \in [Requests -> {"none", "OK", "BadRequest", "Forbidden", "NotFound", "InternalServerError"}]
  <2>1. CASE \E t \in Txns, s \in Signers \cup {None} : CoSign(r, t, s)
    <3>1. PICK t \in Txns, s \in Signers \cup {None} : CoSign(r, t, s)
      BY <2>1, Zenon
    <3>2. LET c == [op |-> "cosign", tx |-> t, signer |-> s]
          IN  c \in Call /\ c.op = "cosign" /\ c.signer = s
      BY Zenon DEF Call
    <3>3. reply' \in [Requests -> {"none", "OK", "BadRequest", "Forbidden", "NotFound", "InternalServerError"}]
      BY <1>1, <3>1 DEF CoSign, TypeOK
    <3> QED BY <3>1, <3>2, <3>3, ZenonT(60) DEF CoSign
  <2>2. CASE \E t \in Txns : Broadcast(r, t)
    <3>1. PICK t \in Txns : Broadcast(r, t)
      BY <2>2, Zenon
    <3>2. LET c == [op |-> "broadcast", tx |-> t, signer |-> None]
          IN  c \in Call /\ c.op = "broadcast"
      BY Zenon DEF Call
    <3>3. reply' \in [Requests -> {"none", "OK", "BadRequest", "Forbidden", "NotFound", "InternalServerError"}]
      BY <1>1, <3>1, ZenonT(60) DEF Broadcast, TypeOK
    <3> QED BY <3>1, <3>2, <3>3, ZenonT(60) DEF Broadcast
  <2> QED BY <2>1, <2>2, Zenon DEF Arrives
<1>7. HandlersTypeOK' /\ OthersUnchanged(r) /\ pc'[r] = l /\ call'[r] = c
  BY <1>1, <1>4, <1>5, <1>6
     DEF TypeOK, HandlersTypeOK, OthersUnchanged, InFlightPC, CoSignPC, BroadcastPC
<1>8. RequestInv(r)' /\ ~HoldsSignedCopy(r)'
  BY <1>1, <1>3, <1>4, <1>5, <1>6, <1>7
     DEF RequestInv, ServerInv, OldIsGone, InFlight, InFlightPC, CoSignPC, BroadcastPC, FailPC,
         OpenInv, SignedInv, HoldsOpenCopy, HoldsSignedCopy, Failing
<1>9. auditEvents' \in SUBSET AuditEvent /\ accepted' \in SUBSET Payload
  BY <1>1, <1>5, ZenonT(60) DEF TypeOK, StoreTypeOK
<1> QED
  BY <1>4, <1>5, <1>7, <1>8, <1>9, RequestStep, Zenon DEF RowsUpdated, SignedCopyKept

(* The answers of CoSign and Broadcast that write no row. *)
LEMMA AnswersInv ==
  ASSUME UpdateInv, NEW r \in Requests, UNCHANGED <<phase, server>>,
         \/ ApprovalRefused(r) \/ SignatureDropped(r) \/ SignatureAudited(r)
         \/ BroadcastAudited(r) \/ StoreCallFails(r)
  PROVE  UpdateInv'
<1>1. Answer(r, "OK") \/ Answer(r, "BadRequest") \/ Answer(r, "NotFound") \/ Answer(r, "InternalServerError")
  BY ZenonT(60) DEF ApprovalRefused, SignatureDropped, SignatureAudited, BroadcastAudited,
     StoreCallFails
<1>2. UNCHANGED <<transactions, records, accepted>>
  BY Zenon DEF ApprovalRefused, SignatureDropped, SignatureAudited, BroadcastAudited,
     StoreCallFails, store
<1>3. auditEvents' \in SUBSET AuditEvent
  <2>1. CASE UNCHANGED auditEvents
    BY <2>1, ZenonT(60) DEF UpdateInv, UpdateTypeOK, TypeOK, StoreTypeOK
  <2>2. CASE SignatureAudited(r) \/ BroadcastAudited(r)
    BY <2>2, AppendStep, ZenonT(60) DEF SignatureAudited, BroadcastAudited, AtCall, InFlight,
       InFlightPC, CoSignPC, BroadcastPC, AuditEventType
  <2> QED BY <2>1, <2>2, Zenon DEF ApprovalRefused, SignatureDropped, StoreCallFails, store
<1> QED BY <1>1, <1>2, <1>3, QuietAnswer DEF Codes

-----------------------------------------------------------------------------
(* What the handlers write. *)

(* An open row has no payload, and nobody has read one from it. *)
LEMMA OpenRow ==
  ASSUME UpdateInv, NEW t \in Txns, Stored(t), transactions[t].status = "proposed"
  PROVE  /\ transactions[t] \in TransactionProposal
         /\ transactions[t].signedTransaction = None
         /\ \A q \in Requests : ~(HoldsSignedCopy(q) /\ call[q].tx = t)
<1>1. transactions \in [Txns -> TransactionProposal \cup {None}]
  BY ZenonT(60) DEF UpdateInv, UpdateTypeOK, TypeOK, StoreTypeOK
<1>2. PayloadInv(t) /\ \A q \in Requests : SignedInv(q)
  BY Zenon DEF UpdateInv
<1>3. transactions[t] \in TransactionProposal
  BY <1>1, Zenon DEF Stored
<1>4. transactions[t].signedTransaction = None
  BY <1>2, Zenon DEF PayloadInv
<1>5. \A q \in Requests : ~(HoldsSignedCopy(q) /\ call[q].tx = t)
  BY <1>2, Zenon DEF SignedInv
<1> QED BY <1>3, <1>4, <1>5, Zenon

ApprovedRow(r) ==
  [transactions[call[r].tx] EXCEPT !.approvals = @ \cup {call[r].signer}]

LEMMA ApprovalIsLegal ==
  ASSUME UpdateInv, NEW r \in Requests, pc[r] = "add_approval",
         AddApproval(call[r].tx, call[r].signer)
  PROVE  /\ call[r].tx \in Txns /\ LegalRow(call[r].tx, ApprovedRow(r))
         /\ transactions' = [transactions EXCEPT ![call[r].tx] = ApprovedRow(r)]
         /\ ApprovedRow(r).status = "proposed"
         /\ ApprovedRow(r).signedTransaction = None
         /\ ApprovedRow(r).approvals = transactions[call[r].tx].approvals \cup {call[r].signer}
<1> DEFINE t == call[r].tx
           s == call[r].signer
<1>1. /\ ServerInv(r) /\ InFlight(r) /\ s \in Signers
  BY Zenon DEF UpdateInv, ServerInv, InFlight, InFlightPC, CoSignPC
<1>2. t \in Txns
  BY <1>1, HandlerCall, Zenon
<1>3. /\ Stored(t) /\ transactions[t].status = "proposed"
      /\ transactions' = [transactions EXCEPT ![t] = ApprovedRow(r)]
  BY Zenon DEF AddApproval, Approvable, ApprovedRow
<1>4. /\ transactions[t] \in TransactionProposal /\ transactions[t].signedTransaction = None
      /\ \A q \in Requests : ~(HoldsSignedCopy(q) /\ call[q].tx = t)
  BY <1>2, <1>3, OpenRow, Zenon
<1>5. /\ ApprovedRow(r) \in TransactionProposal
      /\ ApprovedRow(r).status = "proposed"
      /\ ApprovedRow(r).signedTransaction = None
      /\ ApprovedRow(r).approvals = transactions[t].approvals \cup {s}
  BY <1>1, <1>3, <1>4, Zenon DEF ApprovedRow, TransactionProposal
<1> QED BY <1>2, <1>3, <1>4, <1>5, Zenon DEF LegalRow

SignedRow(r) ==
  [transactions[call[r].tx] EXCEPT !.status = "signed", !.signedTransaction = signature[r]]

LEMMA SignatureIsLegal ==
  ASSUME UpdateInv, NEW r \in Requests, pc[r] = "mark_signed",
         MarkTransactionSigned(call[r].tx, signature[r])
  PROVE  /\ call[r].tx \in Txns /\ LegalRow(call[r].tx, SignedRow(r))
         /\ transactions' = [transactions EXCEPT ![call[r].tx] = SignedRow(r)]
         /\ SignedRow(r).status = "signed"
         /\ SignedRow(r).approvals = transactions[call[r].tx].approvals
         /\ transactions[call[r].tx].signedTransaction = None
<1> DEFINE t == call[r].tx
<1>1. ServerInv(r) /\ InFlight(r) /\ OpenInv(r) /\ HoldsOpenCopy(r)
  BY Zenon DEF UpdateInv, InFlight, InFlightPC, CoSignPC, HoldsOpenCopy
<1>2. t \in Txns /\ t \notin Unsignable /\ signature[r] \in Payload
  BY <1>1, HandlerCall, Zenon DEF OpenInv
<1>3. /\ Stored(t) /\ transactions[t].status = "proposed"
      /\ transactions' = [transactions EXCEPT ![t] = SignedRow(r)]
  BY Zenon DEF MarkTransactionSigned, SignedRow
<1>4. /\ transactions[t] \in TransactionProposal /\ transactions[t].signedTransaction = None
      /\ \A q \in Requests : ~(HoldsSignedCopy(q) /\ call[q].tx = t)
  BY <1>2, <1>3, OpenRow, Zenon
<1>5. /\ SignedRow(r) \in TransactionProposal
      /\ SignedRow(r).status = "signed"
      /\ SignedRow(r).approvals = transactions[t].approvals
  BY <1>2, <1>4, Zenon DEF SignedRow, TransactionProposal, TransactionStatus
<1> QED BY <1>2, <1>3, <1>4, <1>5, Zenon DEF LegalRow

(* What is written back from a copy that was read for broadcasting. *)
LEMMA SignedCopyIsLegal ==
  ASSUME UpdateInv, NEW r \in Requests, HoldsSignedCopy(r), NEW row \in TransactionProposal,
         Stored(call[r].tx), row.status \in {"broadcast", "failed"},
         row.signedTransaction = proposal[r].signedTransaction
  PROVE  /\ call[r].tx \in Txns /\ LegalRow(call[r].tx, row)
         /\ transactions[call[r].tx].signedTransaction \in {None, row.signedTransaction}
<1>1. /\ InFlight(r) /\ ServerInv(r) /\ SignedInv(r)
      /\ \A q \in Requests : CopiesAgree(r, q)
  BY CopyIsInFlight, Zenon DEF UpdateInv
<1>2. call[r].tx \in Txns
  BY <1>1, HandlerCall, Zenon
<1>3. call[r].tx \notin Unsignable
      /\ transactions[call[r].tx].signedTransaction \in {None, row.signedTransaction}
  BY <1>1, Zenon DEF SignedInv
<1>4. \A q \in Requests : HoldsSignedCopy(q) /\ call[q].tx = call[r].tx =>
        row.signedTransaction = proposal[q].signedTransaction
  BY <1>1, Zenon DEF CopiesAgree
<1> QED BY <1>2, <1>3, <1>4, Zenon DEF LegalRow

LEMMA BroadcastIsLegal ==
  ASSUME UpdateInv, NEW r \in Requests, pc[r] = "store_broadcast",
         UpdateTransaction(call[r].tx, BroadcastCopy(r))
  PROVE  /\ call[r].tx \in Txns /\ LegalRow(call[r].tx, BroadcastCopy(r))
         /\ transactions' = [transactions EXCEPT ![call[r].tx] = BroadcastCopy(r)]
         /\ BroadcastCopy(r).status = "broadcast"
         /\ BroadcastCopy(r).approvals = proposal[r].approvals
         /\ transactions[call[r].tx].signedTransaction
              \in {None, BroadcastCopy(r).signedTransaction}
<1>1. HoldsSignedCopy(r) /\ SignedInv(r)
  BY Zenon DEF HoldsSignedCopy, UpdateInv
<1>2. proposal[r] \in TransactionProposal /\ proposal[r].signedTransaction # None
  BY <1>1, Zenon DEF SignedInv
<1>3. /\ Hash(proposal[r].signedTransaction) \in {Hash(p) : p \in Payload}
  BY <1>2, Zenon DEF TransactionProposal
<1>4. /\ BroadcastCopy(r) \in TransactionProposal
      /\ BroadcastCopy(r).status = "broadcast"
      /\ BroadcastCopy(r).approvals = proposal[r].approvals
      /\ BroadcastCopy(r).signedTransaction = proposal[r].signedTransaction
  BY <1>2, <1>3, Zenon DEF BroadcastCopy, TransactionProposal, TransactionStatus
<1>5. /\ Stored(call[r].tx)
      /\ transactions' = [transactions EXCEPT ![call[r].tx] = BroadcastCopy(r)]
  BY Zenon DEF UpdateTransaction
<1> QED BY <1>1, <1>4, <1>5, SignedCopyIsLegal, Zenon

(* A failed copy keeps the payload unless signing failed without the key. *)
LEMMA FailureIsLegal ==
  ASSUME UpdateInv, NEW r \in Requests, pc[r] = "fail_transaction",
         UpdateTransaction(call[r].tx, FailedCopy(r))
  PROVE  /\ call[r].tx \in Txns /\ LegalRow(call[r].tx, FailedCopy(r))
         /\ transactions' = [transactions EXCEPT ![call[r].tx] = FailedCopy(r)]
         /\ FailedCopy(r).status = "failed"
         /\ FailedCopy(r).approvals = proposal[r].approvals
         /\ server[r] = "old" => transactions[call[r].tx].signedTransaction
                                   \in {None, FailedCopy(r).signedTransaction}
<1>1. /\ OpenInv(r) /\ SignedInv(r) /\ ServerInv(r) /\ InFlight(r)
      /\ call[r] \in Call /\ call[r].tx \in Txns
  BY HandlerCall, Zenon DEF UpdateInv, InFlight, InFlightPC, FailPC
<1>2. \/ call[r].op = "cosign" /\ HoldsOpenCopy(r)
      \/ call[r].op = "broadcast" /\ HoldsSignedCopy(r)
  BY <1>1, Zenon DEF Call, HoldsOpenCopy, HoldsSignedCopy, Failing
<1>3. proposal[r] \in TransactionProposal
  BY <1>1, <1>2, Zenon DEF OpenInv, SignedInv
<1>4. /\ FailedCopy(r) \in TransactionProposal
      /\ FailedCopy(r).status = "failed"
      /\ FailedCopy(r).approvals = proposal[r].approvals
      /\ FailedCopy(r).signedTransaction = proposal[r].signedTransaction
  BY <1>3, Zenon DEF FailedCopy, TransactionProposal, TransactionStatus
<1>5. /\ Stored(call[r].tx)
      /\ transactions' = [transactions EXCEPT ![call[r].tx] = FailedCopy(r)]
  BY Zenon DEF UpdateTransaction
<1>6. CASE HoldsSignedCopy(r)
  BY <1>4, <1>5, <1>6, SignedCopyIsLegal, Zenon
<1>7. CASE HoldsOpenCopy(r)
  <2>1. FailedCopy(r).signedTransaction = None
    BY <1>1, <1>4, <1>7, Zenon DEF OpenInv
  <2>2. LegalRow(call[r].tx, FailedCopy(r))
    BY <1>1, <1>4, <1>5, <2>1, Zenon DEF LegalRow
  <2>3. server[r] = "old" => transactions[call[r].tx].signedTransaction = None
    BY <1>1, <1>5, <1>7, Zenon DEF OpenInv, UpdateInv, PayloadInv
  <2> QED BY <1>1, <1>4, <1>5, <2>2, <2>3, Zenon
<1> QED BY <1>2, <1>6, <1>7, Zenon

-----------------------------------------------------------------------------
(* The steps of the handlers. *)

(* The store takes an approval; the handler keeps the row. *)
LEMMA ApprovalStoredInv ==
  ASSUME UpdateInv, NEW r \in Requests, ApprovalStored(r), UNCHANGED <<phase, server>>
  PROVE  UpdateInv'
<1> DEFINE t == call[r].tx
<1>1. /\ TypeOK /\ ServerInv(r) /\ pc[r] = "add_approval"
      /\ AddApproval(t, call[r].signer)
      /\ UNCHANGED <<auditEvents, records, accepted>>
      /\ server' = server /\ server \in [Requests -> {"old", "new", None}]
  BY Zenon DEF ApprovalStored, AtCall, UpdateInv, UpdateTypeOK
<1>2. /\ t \in Txns /\ LegalRow(t, ApprovedRow(r))
      /\ transactions' = [transactions EXCEPT ![t] = ApprovedRow(r)]
      /\ ApprovedRow(r).signedTransaction = None
  BY <1>1, ApprovalIsLegal, Zenon
<1>3. /\ RowsUpdated /\ ApprovedRow(r) \in TransactionProposal
      /\ auditEvents' \in SUBSET AuditEvent /\ accepted' \in SUBSET Payload
  BY <1>1, <1>2, ZenonT(60) DEF RowsUpdated, LegalRow, TypeOK, StoreTypeOK
<1>4. CASE Answer(r, "InternalServerError")
  <2>1. HandlersTypeOK' /\ OthersUnchanged(r) /\ pc'[r] = "done" /\ ctx'[r] = "live"
    BY <1>1, <1>4, AnswerStep DEF Codes
  <2>2. RequestInv(r)' /\ SignedCopyKept(r)
    BY <2>1, EndedRequest, Zenon DEF SignedCopyKept
  <2> QED BY <1>1, <1>3, <2>1, <2>2, RequestStep, Zenon
<1>5. CASE /\ Goto(r, "audit_approved")
           /\ proposal' = [proposal EXCEPT ![r] = transactions'[t]]
           /\ UNCHANGED <<ctx, signature>>
  <2>1. proposal' = [proposal EXCEPT ![r] = ApprovedRow(r)]
    <3>1. transactions'[t] = ApprovedRow(r)
      BY <1>1, <1>2 DEF TypeOK, StoreTypeOK
    <3> QED BY <1>5, <3>1, Zenon
  <2>2. /\ proposal' \in [Requests -> TransactionProposal \cup {None}]
        /\ signature' \in [Requests -> Payload \cup {None}]
        /\ proposal'[r] = ApprovedRow(r)
        /\ \A q \in Requests : q # r =>
             proposal'[q] = proposal[q] /\ signature'[q] = signature[q]
    BY <1>1, <1>3, <1>5, <2>1 DEF TypeOK
  <2>3. "audit_approved" \in InFlightPC
    BY Zenon DEF InFlightPC, CoSignPC
  <2>4. HandlersTypeOK' /\ OthersUnchanged(r) /\ pc'[r] = "audit_approved" /\ call' = call
    BY <1>1, <1>5, <2>2, <2>3, GotoStep, Zenon
  <2>5. RequestInv(r)' /\ SignedCopyKept(r)
    BY <1>1, <1>2, <1>3, <1>5, <2>2, <2>4, Zenon
       DEF RequestInv, ServerInv, OldIsGone, InFlight, InFlightPC, CoSignPC, BroadcastPC,
           OpenInv, SignedInv, HoldsSignedCopy, Failing, SignedCopyKept
  <2> QED BY <1>1, <1>3, <2>4, <2>5, RequestStep, Zenon
<1> QED BY <1>4, <1>5, ZenonT(60) DEF ApprovalStored

(* A handler that goes on without touching its locals or a row. *)
LEMMA MovesOn ==
  ASSUME UpdateInv, NEW r \in Requests, NEW l \in InFlightPC, Goto(r, l), UNCHANGED locals,
         UNCHANGED <<transactions, records, phase, server>>,
         auditEvents' \in SUBSET AuditEvent, accepted' \in SUBSET Payload,
         InFlight(r),
         l \in CoSignPC => pc[r] \in CoSignPC,
         l \in BroadcastPC => pc[r] \in BroadcastPC,
         l \in {"sign", "submit", "store_broadcast", "fail_transaction"} =>
           IF call[r].op = "cosign" THEN HoldsOpenCopy(r) ELSE HoldsSignedCopy(r),
         l \notin {"add_approval", "audit_approved", "mark_signed"},
         l = "sign" => ApprovalsCount(proposal[r]) >= 2,
         l = "fail_transaction" /\ call[r].op = "cosign" /\ server[r] = "old" =>
           call[r].tx \in Unsignable
  PROVE  UpdateInv'
<1>1. /\ TypeOK /\ ServerInv(r) /\ OpenInv(r) /\ SignedInv(r)
      /\ server' = server /\ server \in [Requests -> {"old", "new", None}]
      /\ call[r] \in Call /\ call[r].op \in {"cosign", "broadcast"}
  BY Zenon DEF UpdateInv, UpdateTypeOK, ServerInv, Call
<1>2. /\ HandlersTypeOK' /\ OthersUnchanged(r) /\ pc'[r] = l /\ call' = call
      /\ ctx' = ctx /\ proposal' = proposal /\ signature' = signature
  BY <1>1, GotoOnly, Zenon
<1>3. ServerInv(r)'
  BY <1>1, <1>2, Zenon DEF ServerInv, InFlight, OldIsGone
<1>4. HoldsOpenCopy(r)' => /\ HoldsOpenCopy(r) /\ call[r].op = "cosign"
                           /\ l \in {"sign", "fail_transaction"}
  BY <1>1, <1>2, Zenon DEF HoldsOpenCopy, Failing, ServerInv, CoSignPC
<1>5. OpenInv(r)'
  BY <1>1, <1>2, <1>4, Zenon DEF OpenInv, ApprovalsCount
<1>6. HoldsSignedCopy(r)' => HoldsSignedCopy(r)
  BY <1>1, <1>2, Zenon DEF HoldsSignedCopy, Failing, ServerInv, BroadcastPC
<1>7. SignedInv(r)'
  BY <1>1, <1>2, <1>6, Zenon DEF SignedInv, Stored
<1> QED BY <1>1, <1>2, <1>3, <1>5, <1>6, <1>7, RequestStep, Zenon
        DEF RequestInv, RowsUpdated, SignedCopyKept

LEMMA ApprovalAuditedInv ==
  ASSUME UpdateInv, NEW r \in Requests, ApprovalAudited(r), UNCHANGED <<phase, server>>
  PROVE  UpdateInv'
<1>1. /\ TypeOK /\ pc[r] = "audit_approved" /\ InFlight(r) /\ ServerInv(r)
      /\ appendAudit(r, "transaction.approved")
      /\ UNCHANGED <<transactions, records, accepted>>
  BY Zenon DEF ApprovalAudited, AtCall, UpdateInv, UpdateTypeOK, InFlight, InFlightPC, CoSignPC
<1>2. auditEvents' \in SUBSET AuditEvent /\ accepted' \in SUBSET Payload
  BY <1>1, AppendStep, ZenonT(60) DEF AuditEventType, TypeOK
<1>3. CASE Answer(r, "OK") \/ Answer(r, "InternalServerError")
  BY <1>1, <1>2, <1>3, QuietAnswer DEF Codes
<1>4. CASE QuorumReached(proposal[r]) /\ Goto(r, "sign") /\ UNCHANGED locals
  <2>1. /\ "sign" \in InFlightPC /\ "sign" \notin BroadcastPC /\ pc[r] \in CoSignPC
        /\ HoldsOpenCopy(r) /\ call[r].op = "cosign"
    BY <1>1, Zenon DEF InFlightPC, CoSignPC, BroadcastPC, HoldsOpenCopy, ServerInv
  <2>2. ApprovalsCount(proposal[r]) >= 2
    BY <1>4, Zenon DEF QuorumReached, CoSignQuorum
  <2> QED BY <1>1, <1>2, <1>4, <2>1, <2>2, MovesOn, Zenon
<1> QED BY <1>3, <1>4, ZenonT(60) DEF ApprovalAudited

LEMMA SignTransactionInv ==
  ASSUME UpdateInv, NEW r \in Requests, SignTransaction(r), UNCHANGED <<phase, server>>
  PROVE  UpdateInv'
<1> DEFINE t == call[r].tx
           sig == IF ChainOf[t] = "evm" THEN signEVMTransaction(t)
                                        ELSE [tx |-> t, entropy |-> r]
<1>1. /\ TypeOK /\ pc[r] = "sign" /\ t \notin Unsignable
      /\ signature' = [signature EXCEPT ![r] = sig]
      /\ Goto(r, "mark_signed")
      /\ UNCHANGED <<transactions, auditEvents, records, accepted, ctx, proposal>>
      /\ server' = server /\ server \in [Requests -> {"old", "new", None}]
  BY Zenon DEF SignTransaction, AtCall, CanSign, UpdateInv, UpdateTypeOK, store
<1>2. ServerInv(r) /\ OpenInv(r) /\ InFlight(r)
  BY <1>1, Zenon DEF UpdateInv, InFlight, InFlightPC, CoSignPC
<1>3. t \in Txns
  BY <1>2, HandlerCall, Zenon
<1>4. sig \in Payload
  BY <1>3, Zenon DEF Payload, signEVMTransaction
<1> HIDE DEF sig
<1>5. /\ proposal' \in [Requests -> TransactionProposal \cup {None}]
      /\ signature' \in [Requests -> Payload \cup {None}]
      /\ signature'[r] = sig
      /\ \A q \in Requests : q # r =>
           proposal'[q] = proposal[q] /\ signature'[q] = signature[q]
  BY <1>1, <1>4 DEF TypeOK
<1>6. "mark_signed" \in InFlightPC
  BY Zenon DEF InFlightPC, CoSignPC
<1>7. HandlersTypeOK' /\ OthersUnchanged(r) /\ pc'[r] = "mark_signed" /\ call' = call
  BY <1>1, <1>5, <1>6, GotoStep, Zenon
<1>8. RequestInv(r)' /\ SignedCopyKept(r)
  <2>1. ServerInv(r)'
    BY <1>1, <1>2, <1>7, Zenon DEF ServerInv, OldIsGone, InFlight, CoSignPC, BroadcastPC
  <2>2. OpenInv(r)'
    BY <1>1, <1>2, <1>4, <1>5, <1>7, Zenon DEF OpenInv, HoldsOpenCopy
  <2>3. ~HoldsSignedCopy(r)'
    BY <1>7, Zenon DEF HoldsSignedCopy, Failing
  <2> QED BY <2>1, <2>2, <2>3, Zenon DEF RequestInv, SignedInv, SignedCopyKept
<1>9. auditEvents' \in SUBSET AuditEvent /\ accepted' \in SUBSET Payload
  BY <1>1, ZenonT(60) DEF TypeOK, StoreTypeOK
<1> QED BY <1>1, <1>7, <1>8, <1>9, RequestStep, Zenon DEF RowsUpdated

(* The old process fails to sign only what cannot be signed; the new one   *)
(* has no material.                                                        *)
LEMMA SignFailsInv ==
  ASSUME UpdateInv, NEW r \in Requests, UNCHANGED <<phase, server>>,
         \/ server[r] = "old" /\ SignFails(r)
         \/ server[r] = "new" /\ MaterialMissing(r)
  PROVE  UpdateInv'
<1>1. /\ TypeOK /\ pc[r] = "sign" /\ Goto(r, "fail_transaction") /\ UNCHANGED locals
      /\ UNCHANGED <<transactions, auditEvents, records, accepted>>
  BY Zenon DEF SignFails, MaterialMissing, store, UpdateInv, UpdateTypeOK
<1>2. /\ ServerInv(r) /\ OpenInv(r) /\ InFlight(r) /\ HoldsOpenCopy(r)
      /\ call[r].op = "cosign" /\ ctx[r] = "live"
  BY <1>1, Zenon DEF UpdateInv, InFlight, InFlightPC, CoSignPC, HoldsOpenCopy, ServerInv
<1>3. server[r] = "old" => call[r].tx \in Unsignable
  <2> SUFFICES ASSUME server[r] = "old" PROVE call[r].tx \in Unsignable
    OBVIOUS
  <2>1. ~CanSign(proposal[r], call[r].tx)
    BY <1>2, Zenon DEF SignFails
  <2>2. call[r].tx \in Txns
    BY <1>2, HandlerCall, Zenon
  <2>3. records = Wallets
    BY <1>2, Zenon DEF UpdateInv, ServerInv
  <2>4. WalletOf[call[r].tx] \in records
    BY <2>2, <2>3, ServiceAssumption, Zenon
  <2>5. ApprovalsCount(proposal[r]) >= quorumThreshold
    BY <1>1, <1>2, Zenon DEF OpenInv, quorumThreshold
  <2> QED BY <2>1, <2>4, <2>5, Zenon DEF CanSign
<1>4. "fail_transaction" \in InFlightPC \ (CoSignPC \cup BroadcastPC)
  BY Zenon DEF InFlightPC, FailPC, CoSignPC, BroadcastPC
<1>5. auditEvents' \in SUBSET AuditEvent /\ accepted' \in SUBSET Payload
  BY <1>1, ZenonT(60) DEF TypeOK, StoreTypeOK
<1> QED BY <1>1, <1>2, <1>3, <1>4, <1>5, MovesOn, Zenon

(* The steps that write a row and go on, or lose the answer. *)
LEMMA WriteStep ==
  ASSUME UpdateInv, NEW r \in Requests, InFlight(r), NEW row,
         LegalRow(call[r].tx, row), transactions' = [transactions EXCEPT ![call[r].tx] = row],
         UNCHANGED <<auditEvents, records, accepted, phase, server>>,
         NEW l \in StatusAudits,
         l \in CoSignPC => pc[r] \in CoSignPC,
         l \in BroadcastPC => pc[r] \in BroadcastPC,
         (Goto(r, l) /\ UNCHANGED locals) \/ Answer(r, "InternalServerError")
  PROVE  UpdateInv'
<1>1. /\ TypeOK /\ ServerInv(r)
      /\ server' = server /\ server \in [Requests -> {"old", "new", None}]
  BY Zenon DEF UpdateInv, UpdateTypeOK
<1>2. RowsUpdated /\ auditEvents' \in SUBSET AuditEvent /\ accepted' \in SUBSET Payload
  BY <1>1, ZenonT(60) DEF RowsUpdated, LegalRow, TypeOK, StoreTypeOK
<1>3. /\ HandlersTypeOK' /\ OthersUnchanged(r) /\ RequestInv(r)' /\ ~HoldsSignedCopy(r)'
  <2>1. CASE Answer(r, "InternalServerError")
    <3>1. HandlersTypeOK' /\ OthersUnchanged(r) /\ pc'[r] = "done" /\ ctx'[r] = "live"
      BY <1>1, <2>1, AnswerStep DEF Codes
    <3> QED BY <3>1, EndedRequest, Zenon
  <2>2. CASE Goto(r, l) /\ UNCHANGED locals
    <3>1. l \in InFlightPC
      BY Zenon DEF StatusAudits, InFlightPC, CoSignPC, BroadcastPC, FailPC
    <3>2. /\ HandlersTypeOK' /\ OthersUnchanged(r) /\ pc'[r] = l /\ call' = call
          /\ ctx' = ctx /\ proposal' = proposal /\ signature' = signature
      BY <1>1, <2>2, <3>1, GotoOnly, Zenon
    <3>3. ServerInv(r)'
      BY <1>1, <3>2, ZenonT(60) DEF ServerInv, InFlight, OldIsGone
    <3>4. ~HoldsSignedCopy(r)' /\ ~HoldsOpenCopy(r)'
      BY <3>2, ZenonT(60) DEF StatusAudits, HoldsOpenCopy, HoldsSignedCopy, Failing
    <3> QED BY <3>2, <3>3, <3>4, Zenon DEF RequestInv, OpenInv, SignedInv
  <2> QED BY <2>1, <2>2, Zenon
<1> QED BY <1>1, <1>2, <1>3, RequestStep, Zenon DEF SignedCopyKept

LEMMA SignatureStoredInv ==
  ASSUME UpdateInv, NEW r \in Requests, SignatureStored(r), UNCHANGED <<phase, server>>
  PROVE  UpdateInv'
<1>1. /\ pc[r] = "mark_signed" /\ MarkTransactionSigned(call[r].tx, signature[r])
      /\ UNCHANGED <<auditEvents, records, accepted>>
      /\ (Goto(r, "audit_signed") /\ UNCHANGED locals) \/ Answer(r, "InternalServerError")
  BY Zenon DEF SignatureStored, AtCall
<1>2. /\ InFlight(r) /\ pc[r] \in CoSignPC /\ "audit_signed" \notin BroadcastPC
  BY <1>1, Zenon DEF InFlight, InFlightPC, CoSignPC, BroadcastPC
<1> QED BY <1>1, <1>2, SignatureIsLegal, WriteStep, Zenon DEF StatusAudits

LEMMA BroadcastStoredInv ==
  ASSUME UpdateInv, NEW r \in Requests, BroadcastStored(r), UNCHANGED <<phase, server>>
  PROVE  UpdateInv'
<1>1. /\ pc[r] = "store_broadcast" /\ UpdateTransaction(call[r].tx, BroadcastCopy(r))
      /\ UNCHANGED <<auditEvents, records, accepted>>
      /\ (Goto(r, "audit_broadcast") /\ UNCHANGED locals) \/ Answer(r, "InternalServerError")
  BY ZenonT(60) DEF BroadcastStored, AtCall
<1>2. /\ InFlight(r) /\ pc[r] \in BroadcastPC /\ "audit_broadcast" \notin CoSignPC
  BY <1>1, Zenon DEF InFlight, InFlightPC, CoSignPC, BroadcastPC
<1> QED BY <1>1, <1>2, BroadcastIsLegal, WriteStep, Zenon DEF StatusAudits

LEMMA GetTransactionInv ==
  ASSUME UpdateInv, NEW r \in Requests, GetTransaction(r), UNCHANGED <<phase, server>>
  PROVE  UpdateInv'
<1> DEFINE t == call[r].tx
<1>1. /\ TypeOK /\ pc[r] = "get_transaction"
      /\ UNCHANGED <<transactions, auditEvents, records, accepted>>
      /\ server' = server /\ server \in [Requests -> {"old", "new", None}]
  BY Zenon DEF GetTransaction, AtCall, UpdateInv, UpdateTypeOK, store
<1>2. auditEvents' \in SUBSET AuditEvent /\ accepted' \in SUBSET Payload
  BY <1>1, ZenonT(60) DEF TypeOK, StoreTypeOK
<1>3. CASE Answer(r, "BadRequest") \/ Answer(r, "NotFound")
  BY <1>1, <1>2, <1>3, QuietAnswer DEF Codes
<1>4. CASE /\ Stored(t) /\ Broadcastable(transactions[t])
           /\ proposal' = [proposal EXCEPT ![r] = transactions[t]]
           /\ Goto(r, "submit")
           /\ UNCHANGED <<ctx, signature>>
  <2>1. ServerInv(r) /\ InFlight(r)
    BY <1>1, Zenon DEF UpdateInv, InFlight, InFlightPC, BroadcastPC
  <2>2. t \in Txns /\ PayloadInv(t)
    BY <2>1, HandlerCall, Zenon DEF UpdateInv
  <2>3. transactions[t] \in TransactionProposal
    BY <1>1, <1>4, <2>2 DEF Stored, TypeOK, StoreTypeOK
  <2>4. /\ proposal' \in [Requests -> TransactionProposal \cup {None}]
        /\ signature' \in [Requests -> Payload \cup {None}]
        /\ proposal'[r] = transactions[t]
        /\ \A q \in Requests : q # r =>
             proposal'[q] = proposal[q] /\ signature'[q] = signature[q]
    BY <1>1, <1>4, <2>3 DEF TypeOK
  <2>5. "submit" \in InFlightPC
    BY Zenon DEF InFlightPC, BroadcastPC
  <2>6. HandlersTypeOK' /\ OthersUnchanged(r) /\ pc'[r] = "submit" /\ call' = call
    BY <1>1, <1>4, <2>4, <2>5, GotoStep, Zenon
  <2>7. ServerInv(r)' /\ ~HoldsOpenCopy(r)'
    BY <1>1, <1>4, <2>1, <2>6, Zenon
       DEF ServerInv, OldIsGone, InFlight, CoSignPC, BroadcastPC, HoldsOpenCopy, Failing
  <2>8. SignedInv(r)' /\ SignedCopyKept(r)
    BY <1>1, <1>4, <2>2, <2>3, <2>4, <2>6, Zenon
       DEF SignedInv, PayloadInv, Broadcastable, Stored, SignedCopyKept
  <2> QED BY <1>1, <1>2, <2>6, <2>7, <2>8, RequestStep, Zenon
          DEF RowsUpdated, RequestInv, OpenInv
<1> QED BY <1>3, <1>4, ZenonT(60) DEF GetTransaction

(* The adapter answers, whatever it answers. *)
LEMMA SubmitInv ==
  ASSUME UpdateInv, NEW r \in Requests, UNCHANGED <<phase, server>>,
         ChainAccepts(r) \/ ChainRefuses(r) \/ ChainAnswerLost(r)
  PROVE  UpdateInv'
<1>1. /\ TypeOK /\ pc[r] = "submit" /\ UNCHANGED locals
      /\ Goto(r, "store_broadcast") \/ Goto(r, "fail_transaction")
      /\ UNCHANGED <<transactions, auditEvents, records>>
      /\ accepted' \in {accepted, accepted \cup {proposal[r].signedTransaction}}
  BY Zenon
     DEF ChainAccepts, ChainRefuses, ChainAnswerLost, AtCall, UpdateInv, UpdateTypeOK,
     store
<1>2. /\ ServerInv(r) /\ SignedInv(r) /\ InFlight(r) /\ HoldsSignedCopy(r)
      /\ call[r].op = "broadcast" /\ pc[r] \in BroadcastPC
  BY <1>1, Zenon DEF UpdateInv, InFlight, InFlightPC, BroadcastPC, HoldsSignedCopy, ServerInv
<1>3. proposal[r].signedTransaction \in Payload
  BY <1>2, Zenon DEF SignedInv, TransactionProposal
<1>4. auditEvents' \in SUBSET AuditEvent /\ accepted' \in SUBSET Payload
  BY <1>1, <1>3 DEF TypeOK, StoreTypeOK
<1>5. /\ {"store_broadcast", "fail_transaction"} \subseteq InFlightPC \ CoSignPC
  BY Zenon DEF InFlightPC, BroadcastPC, FailPC, CoSignPC
<1> QED BY <1>1, <1>2, <1>4, <1>5, MovesOn, Zenon

LEMMA failTransactionInv ==
  ASSUME UpdateInv, NEW r \in Requests, failTransaction(r), UNCHANGED <<phase, server>>
  PROVE  UpdateInv'
<1>1. /\ TypeOK /\ pc[r] = "fail_transaction" /\ Goto(r, "audit_failed")
      /\ UNCHANGED <<auditEvents, records, accepted>> /\ UNCHANGED locals
  BY Zenon DEF failTransaction, UpdateInv, UpdateTypeOK
<1>2. /\ InFlight(r) /\ "audit_failed" \in InFlightPC \ (CoSignPC \cup BroadcastPC)
  BY <1>1, Zenon DEF InFlight, InFlightPC, FailPC, CoSignPC, BroadcastPC
<1>3. CASE UpdateTransaction(call[r].tx, FailedCopy(r))
  BY <1>1, <1>2, <1>3, FailureIsLegal, WriteStep, Zenon DEF StatusAudits
<1>4. CASE UNCHANGED transactions
  BY <1>1, <1>2, <1>4, MovesOn, ZenonT(60) DEF TypeOK, StoreTypeOK
<1> QED BY <1>3, <1>4, Zenon DEF failTransaction

LEMMA FailureAuditedInv ==
  ASSUME UpdateInv, NEW r \in Requests, FailureAudited(r), UNCHANGED <<phase, server>>
  PROVE  UpdateInv'
<1>1. /\ pc[r] = "audit_failed" /\ Answer(r, "InternalServerError")
      /\ appendAudit(r, "transaction.failed") \/ UNCHANGED auditEvents
      /\ UNCHANGED <<transactions, records, accepted>>
  BY Zenon DEF FailureAudited
<1>2. InFlight(r) /\ "transaction.failed" \in AuditEventType
  BY <1>1, Zenon DEF InFlight, InFlightPC, FailPC, AuditEventType
<1>3. auditEvents' \in SUBSET AuditEvent
  BY <1>1, <1>2, AppendStep, ZenonT(60) DEF UpdateInv, UpdateTypeOK, TypeOK, StoreTypeOK
<1> QED BY <1>1, <1>3, QuietAnswer DEF Codes

(* Every step of a handler, in either process. *)
LEMMA HandleInv ==
  ASSUME UpdateInv, NEW r \in Requests, Handle(r)
  PROVE  UpdateInv'
<1>1. UNCHANGED <<phase, server>>
  BY Zenon DEF Handle
<1>2. CASE \/ server[r] = "old" /\ SignFails(r)
           \/ server[r] = "new" /\ MaterialMissing(r)
  BY <1>1, <1>2, SignFailsInv, Zenon
<1>3. CASE HandlerStep(r) /\ ~SignFails(r)
  <2>1. CASE ApprovalRefused(r) \/ SignatureDropped(r) \/ SignatureAudited(r)
             \/ BroadcastAudited(r) \/ StoreCallFails(r)
    BY <1>1, <2>1, AnswersInv, Zenon
  <2>2. CASE ApprovalStored(r)
    BY <1>1, <2>2, ApprovalStoredInv, Zenon
  <2>3. CASE ApprovalAudited(r)
    BY <1>1, <2>3, ApprovalAuditedInv, Zenon
  <2>4. CASE SignTransaction(r)
    BY <1>1, <2>4, SignTransactionInv, Zenon
  <2>5. CASE SignatureStored(r)
    BY <1>1, <2>5, SignatureStoredInv, Zenon
  <2>6. CASE GetTransaction(r)
    BY <1>1, <2>6, GetTransactionInv, Zenon
  <2>7. CASE ChainAccepts(r) \/ ChainRefuses(r) \/ ChainAnswerLost(r)
    BY <1>1, <2>7, SubmitInv, Zenon
  <2>8. CASE BroadcastStored(r)
    BY <1>1, <2>8, BroadcastStoredInv, Zenon
  <2>9. CASE failTransaction(r)
    BY <1>1, <2>9, failTransactionInv, Zenon
  <2>10. CASE FailureAudited(r)
    BY <1>1, <2>10, FailureAuditedInv, Zenon
  <2> QED BY <1>3, <2>1, <2>2, <2>3, <2>4, <2>5, <2>6, <2>7, <2>8, <2>9, <2>10, Zenon
          DEF HandlerStep, CoSignStep, BroadcastStep
<1> QED BY <1>2, <1>3, Zenon DEF Handle, SignFails

-----------------------------------------------------------------------------
(* The processes. *)

(* A step that changes at most the phase. *)
LEMMA PhaseStep ==
  ASSUME UpdateInv, UNCHANGED vars, UNCHANGED server, phase' \in Phase,
         OldIsGone' <=> OldIsGone
  PROVE  UpdateInv'
<1>1. /\ UNCHANGED <<transactions, auditEvents, records, accepted>>
      /\ UNCHANGED <<pc, ctx, call, proposal, signature, reply, server>>
  BY Zenon DEF vars, handlers
<1>2. UpdateTypeOK'
  BY <1>1 DEF UpdateInv, UpdateTypeOK, TypeOK, StoreTypeOK
<1>3. ~OldIsGone' => records' = Wallets
  BY <1>1, Zenon DEF UpdateInv
<1>4. ASSUME NEW r \in Requests PROVE ServerInv(r)' /\ OpenInv(r)' /\ SignedInv(r)'
  <2>1. ServerInv(r) /\ OpenInv(r) /\ SignedInv(r)
    BY Zenon DEF UpdateInv
  <2>2. ServerInv(r)'
    BY <1>1, <2>1, Zenon DEF ServerInv, InFlight
  <2>3. OpenInv(r)'
    BY <1>1, <2>1, Zenon DEF OpenInv, HoldsOpenCopy, Failing, ApprovalsCount
  <2>4. SignedInv(r)'
    BY <1>1, <2>1, Zenon DEF SignedInv, HoldsSignedCopy, Failing, Stored
  <2> QED BY <2>2, <2>3, <2>4, Zenon
<1>5. ASSUME NEW r \in Requests, NEW q \in Requests PROVE CopiesAgree(r, q)'
  BY <1>1, Zenon DEF UpdateInv, CopiesAgree, HoldsSignedCopy, Failing
<1>6. ASSUME NEW t \in Txns PROVE PayloadInv(t)'
  BY <1>1, Zenon DEF UpdateInv, PayloadInv, Stored
<1> QED BY <1>2, <1>3, <1>4, <1>5, <1>6, Zenon DEF UpdateInv

(* The old process exits: its handlers end, those of the new one go on. *)
LEMMA OldExitsInv ==
  ASSUME UpdateInv, NEW end \in {"stopped", "killed"}, OldExits(end)
  PROVE  UpdateInv'
<1> DEFINE E == InFlightAt("old")
<1>1. /\ UNCHANGED <<transactions, auditEvents, accepted, call, reply, server>>
      /\ phase' = end /\ records' = {} /\ OldIsGone'
  BY Zenon DEF OldExits, store, OldIsGone
<1>2. /\ pc' = [r \in Requests |-> IF r \in E THEN "done" ELSE pc[r]]
      /\ ctx' = [r \in Requests |-> IF r \in E THEN "live" ELSE ctx[r]]
      /\ proposal' = [r \in Requests |-> IF r \in E THEN None ELSE proposal[r]]
      /\ signature' = [r \in Requests |-> IF r \in E THEN None ELSE signature[r]]
  BY Zenon DEF OldExits
<1>3. UpdateTypeOK'
  <2>1. TypeOK
    BY Zenon DEF UpdateInv, UpdateTypeOK
  <2>2. HandlersTypeOK'
    BY <1>1, <1>2, <2>1 DEF TypeOK, HandlersTypeOK
  <2>3. records' \in SUBSET Wallets /\ phase' \in Phase
    BY <1>1, Zenon DEF Phase
  <2> QED BY <1>1, <2>1, <2>2, <2>3, ZenonT(60)
          DEF UpdateInv, UpdateTypeOK, TypeOK, StoreTypeOK, HandlersTypeOK
<1>4. ASSUME NEW r \in E PROVE RequestInv(r)' /\ ~HoldsSignedCopy(r)'
  <2>1. r \in Requests /\ pc'[r] = "done" /\ ctx'[r] = "live"
    BY <1>2, Zenon DEF InFlightAt
  <2> QED BY <2>1, EndedRequest, Zenon
<1>5. ASSUME NEW r \in Requests, r \notin E
      PROVE  RequestInv(r)' /\ (HoldsSignedCopy(r)' <=> HoldsSignedCopy(r))
             /\ proposal'[r] = proposal[r]
  <2>1. /\ pc'[r] = pc[r] /\ ctx'[r] = ctx[r] /\ proposal'[r] = proposal[r]
        /\ signature'[r] = signature[r] /\ call'[r] = call[r] /\ server'[r] = server[r]
    BY <1>1, <1>2, <1>5, Zenon
  <2>2. /\ InFlight(r) => server[r] # "old"
        /\ ServerInv(r) /\ OpenInv(r) /\ SignedInv(r)
    BY <1>5, Zenon DEF InFlightAt, UpdateInv
  <2>3. ServerInv(r)'
    BY <2>1, <2>2, Zenon DEF ServerInv, InFlight
  <2>4. OpenInv(r)'
    BY <2>1, <2>2, Zenon DEF OpenInv, HoldsOpenCopy, Failing, ApprovalsCount
  <2>5. SignedInv(r)' /\ (HoldsSignedCopy(r)' <=> HoldsSignedCopy(r))
    BY <1>1, <2>1, <2>2, Zenon DEF SignedInv, HoldsSignedCopy, Failing, Stored
  <2> QED BY <2>1, <2>3, <2>4, <2>5, Zenon DEF RequestInv
<1>6. ASSUME NEW r \in Requests, NEW q \in Requests PROVE CopiesAgree(r, q)'
  BY <1>1, <1>4, <1>5, Zenon DEF UpdateInv, CopiesAgree
<1>7. ASSUME NEW t \in Txns PROVE PayloadInv(t)'
  BY <1>1, Zenon DEF UpdateInv, PayloadInv, Stored
<1>8. \A r \in Requests : RequestInv(r)'
  BY <1>4, <1>5, Zenon
<1> QED BY <1>1, <1>3, <1>6, <1>7, <1>8, Zenon DEF UpdateInv, RequestInv

LEMMA InitInv == RolloutInit => UpdateInv
<1> SUFFICES ASSUME RolloutInit PROVE UpdateInv
  OBVIOUS
<1>1. /\ NewProposal \in TransactionProposal /\ NewProposal.status = "proposed"
      /\ NewProposal.signedTransaction = None
  BY Zenon DEF NewProposal, TransactionProposal, TransactionStatus
<1>2. UpdateTypeOK
  BY <1>1 DEF RolloutInit, Init, UpdateTypeOK, TypeOK, StoreTypeOK, Phase
<1>3. ASSUME NEW r \in Requests
      PROVE  ServerInv(r) /\ OpenInv(r) /\ SignedInv(r) /\ ~HoldsSignedCopy(r)
  <2>1. pc[r] = "idle" /\ ctx[r] = "live"
    BY Zenon DEF RolloutInit, Init
  <2> QED BY <2>1, Zenon DEF ServerInv, InFlight, InFlightPC, CoSignPC, BroadcastPC, FailPC,
             OpenInv, SignedInv, HoldsOpenCopy, HoldsSignedCopy, Failing
<1>4. ASSUME NEW t \in Txns PROVE PayloadInv(t)
  BY <1>1, Zenon DEF RolloutInit, Init, PayloadInv, Stored
<1> QED BY <1>2, <1>3, <1>4, Zenon DEF UpdateInv, CopiesAgree, RolloutInit, Init

LEMMA NextInv == UpdateInv /\ [RolloutNext]_rolloutVars => UpdateInv'
<1> SUFFICES ASSUME UpdateInv, [RolloutNext]_rolloutVars PROVE UpdateInv'
  OBVIOUS
<1>1. CASE UNCHANGED rolloutVars
  BY <1>1, PhaseStep, Zenon DEF rolloutVars, UpdateInv, UpdateTypeOK, OldIsGone
<1>2. ASSUME NEW r \in Requests, Arrives(r) \/ Handle(r) PROVE UpdateInv'
  BY <1>2, ArrivesInv, HandleInv, Zenon
<1>3. CASE OpenStore \/ ListenAndServe \/ Signal
  <2>1. UNCHANGED vars /\ UNCHANGED server
    BY <1>3, Zenon DEF OpenStore, ListenAndServe, Signal, RunMigrations, vars, store, handlers
  <2>2. phase \notin {"stopped", "killed"} /\ phase' \in Phase \ {"stopped", "killed"}
    BY <1>3, Zenon DEF OpenStore, ListenAndServe, Signal, Phase
  <2> QED BY <2>1, <2>2, PhaseStep, Zenon DEF OldIsGone
<1>4. CASE ShutdownReturns \/ GraceExpires
  BY <1>4, OldExitsInv, Zenon DEF ShutdownReturns, GraceExpires
<1> QED BY <1>1, <1>2, <1>3, <1>4, Zenon DEF RolloutNext

(* Whatever the faults and whichever process runs it, a handler writes     *)
(* back no copy with a payload other than the one its row was given.       *)
THEOREM UpdateInvariance == RolloutSpec => []UpdateInv
<1> QED BY InitInv, NextInv, PTL DEF RolloutSpec

-----------------------------------------------------------------------------
(* What a step may do to a row. *)

(* Request r fails to sign without the key, in the new process. *)
FailsKeyless(r) ==
  server[r] = "new" /\ pc[r] = "fail_transaction" /\ pc'[r] = "audit_failed"

(* What a handler writes, if it writes. *)
LEMMA HandlerWrites ==
  ASSUME UpdateInv, NEW r \in Requests, Handle(r), transactions' # transactions
  PROVE  \E row \in TransactionProposal :
           /\ call[r].tx \in Txns /\ LegalRow(call[r].tx, row)
           /\ transactions' = [transactions EXCEPT ![call[r].tx] = row]
           /\ \/ transactions[call[r].tx].signedTransaction \in {None, row.signedTransaction}
              \/ FailsKeyless(r) /\ row.status = "failed"
<1>1. \/ ApprovalStored(r) \/ SignatureStored(r) \/ BroadcastStored(r)
      \/ failTransaction(r) /\ server[r] \in {"old", "new"}
  BY ZenonT(60) DEF Handle, HandlerStep, CoSignStep, BroadcastStep, MaterialMissing, ApprovalRefused,
     ApprovalAudited, SignTransaction, SignFails, SignatureDropped, SignatureAudited,
     GetTransaction, ChainAccepts, ChainRefuses, ChainAnswerLost, BroadcastAudited,
     FailureAudited, StoreCallFails, store
<1>2. CASE ApprovalStored(r)
  <2>1. pc[r] = "add_approval" /\ AddApproval(call[r].tx, call[r].signer)
    BY <1>2, Zenon DEF ApprovalStored, AtCall
  <2>2. transactions[call[r].tx].signedTransaction = None
    BY <2>1, ApprovalIsLegal, OpenRow, Zenon DEF AddApproval, Approvable
  <2> QED BY <2>1, <2>2, ApprovalIsLegal, Zenon DEF LegalRow
<1>3. CASE SignatureStored(r)
  <2>1. pc[r] = "mark_signed" /\ MarkTransactionSigned(call[r].tx, signature[r])
    BY <1>3, Zenon DEF SignatureStored, AtCall
  <2> QED BY <2>1, SignatureIsLegal, Zenon DEF LegalRow
<1>4. CASE BroadcastStored(r)
  <2>1. pc[r] = "store_broadcast" /\ UpdateTransaction(call[r].tx, BroadcastCopy(r))
    BY <1>4, Zenon DEF BroadcastStored, AtCall
  <2> QED BY <2>1, BroadcastIsLegal, Zenon DEF LegalRow
<1>5. CASE failTransaction(r) /\ server[r] \in {"old", "new"}
  <2>1. /\ pc[r] = "fail_transaction" /\ pc'[r] = "audit_failed"
        /\ UpdateTransaction(call[r].tx, FailedCopy(r))
    BY <1>5 DEF failTransaction, Goto, UpdateInv, UpdateTypeOK, TypeOK
  <2> QED BY <1>5, <2>1, FailureIsLegal, Zenon DEF LegalRow, FailsKeyless
<1> QED BY <1>1, <1>2, <1>3, <1>4, <1>5, Zenon

LEMMA RowsChangeLegally ==
  ASSUME UpdateInv, [RolloutNext]_rolloutVars, NEW t \in Txns, Stored(t),
         transactions'[t] # transactions[t]
  PROVE  /\ LegalRow(t, transactions'[t])
         /\ \/ transactions[t].signedTransaction
                 \in {None, transactions'[t].signedTransaction}
            \/ /\ transactions'[t].status = "failed"
               /\ \E r \in Requests : FailsKeyless(r) /\ call[r].tx = t
<1>1. transactions' # transactions
  BY Zenon
<1>2. PICK r \in Requests : Handle(r)
  BY <1>1, Zenon DEF RolloutNext, rolloutVars, vars, Arrives, CoSign, Broadcast, OpenStore,
     RunMigrations, ListenAndServe, Signal, ShutdownReturns, GraceExpires, OldExits, store
<1>3. PICK row \in TransactionProposal :
        /\ call[r].tx \in Txns /\ LegalRow(call[r].tx, row)
        /\ transactions' = [transactions EXCEPT ![call[r].tx] = row]
        /\ \/ transactions[call[r].tx].signedTransaction \in {None, row.signedTransaction}
           \/ FailsKeyless(r) /\ row.status = "failed"
  BY <1>1, <1>2, HandlerWrites, Zenon
<1>4. transactions \in [Txns -> TransactionProposal \cup {None}]
  BY ZenonT(60) DEF UpdateInv, UpdateTypeOK, TypeOK, StoreTypeOK
<1>5. t = call[r].tx /\ transactions'[t] = row
  BY <1>3, <1>4, Zenon
<1> QED BY <1>3, <1>5, Zenon

(* A decided proposal is not reopened, nor signed, by either process at    *)
(* any point of the update.                                                *)
THEOREM DecisionsOutliveUpdate == RolloutSpec => NeverReopened
<1>1. UpdateInv /\ [RolloutNext]_rolloutVars =>
        \A t \in Txns : Stored(t) /\ transactions'[t].status # transactions[t].status =>
          /\ transactions'[t].status # "proposed"
          /\ transactions'[t].status = "signed" => transactions[t].status = "proposed"
  <2> SUFFICES ASSUME UpdateInv, [RolloutNext]_rolloutVars, NEW t \in Txns,
                      Stored(t), transactions'[t].status # transactions[t].status
               PROVE  /\ transactions'[t].status # "proposed"
                      /\ transactions'[t].status = "signed" =>
                           transactions[t].status = "proposed"
    OBVIOUS
  <2>1. LegalRow(t, transactions'[t])
    BY RowsChangeLegally, Zenon
  <2> QED BY <2>1, Zenon DEF LegalRow
<1> QED BY <1>1, UpdateInvariance, PTL DEF RolloutSpec, NeverReopened

(* Only a handler of the new process that failed to sign without the key   *)
(* ever erases a signed payload, and none replaces it.                     *)
THEOREM KeyHoldersKeepPayloads == RolloutSpec => OnlyTheKeylessErase
<1>1. UpdateInv /\ [RolloutNext]_rolloutVars =>
        \A t \in Txns :
          /\ Stored(t) /\ transactions[t].signedTransaction # None
          /\ transactions'[t].signedTransaction # transactions[t].signedTransaction
          => /\ transactions'[t].status = "failed"
             /\ \E r \in Requests :
                  /\ server[r] = "new" /\ call[r].tx = t
                  /\ pc[r] = "fail_transaction" /\ pc'[r] = "audit_failed"
  <2> SUFFICES ASSUME UpdateInv, [RolloutNext]_rolloutVars, NEW t \in Txns,
                      Stored(t), transactions[t].signedTransaction # None,
                      transactions'[t].signedTransaction # transactions[t].signedTransaction
               PROVE  /\ transactions'[t].status = "failed"
                      /\ \E r \in Requests :
                           /\ server[r] = "new" /\ call[r].tx = t
                           /\ pc[r] = "fail_transaction" /\ pc'[r] = "audit_failed"
    BY ZenonT(60)
  <2>1. /\ transactions'[t].status = "failed"
        /\ \E r \in Requests : FailsKeyless(r) /\ call[r].tx = t
    BY RowsChangeLegally, Zenon
  <2> QED BY <2>1, Zenon DEF FailsKeyless
<1> QED BY <1>1, UpdateInvariance, PTL DEF RolloutSpec, OnlyTheKeylessErase

-----------------------------------------------------------------------------
(* The account of what has happened. *)

HoldsCopy(r) == HoldsOpenCopy(r) \/ HoldsSignedCopy(r)

(* Request r stays where it is, or makes the call it was about to make. *)
Accounts(r) ==
  \/ pc'[r] = pc[r] /\ call'[r] = call[r]
  \/ /\ pc[r] = "audit_approved" => EventOf(r, "transaction.approved") \in auditEvents'
     /\ pc[r] = "audit_signed" => EventOf(r, "transaction.signed") \in auditEvents'
     /\ pc[r] = "audit_broadcast" => EventOf(r, "transaction.broadcast") \in auditEvents'
     /\ pc[r] = "audit_failed" => EventOf(r, "transaction.failed") \in auditEvents'

(* What is accounted for stays accounted for. *)
LEMMA AccountsKept ==
  ASSUME auditEvents \subseteq auditEvents', \A r \in Requests : Accounts(r)
  PROVE  /\ \A t, s : ApprovalAccounted(t, s) => ApprovalAccounted(t, s)'
         /\ \A t : \A status \in {"signed", "broadcast", "failed"} :
              StatusAccounted(t, status) => StatusAccounted(t, status)'
<1>1. ASSUME NEW t, NEW type, NEW actor, Audited(t, type, actor)
      PROVE  Audited(t, type, actor)'
  BY <1>1, Zenon DEF Audited
<1>2. ASSUME NEW r \in Requests, NEW type
      PROVE  /\ EventOf(r, type).resourceID = call[r].tx
             /\ EventOf(r, type).type = type
             /\ type = "transaction.approved" => EventOf(r, type).actor = call[r].signer
             /\ type # "transaction.approved" => EventOf(r, type).actor = None
  BY Zenon DEF EventOf
<1>3. ASSUME NEW t, NEW s, ApprovalAccounted(t, s) PROVE ApprovalAccounted(t, s)'
  <2>1. CASE Audited(t, "transaction.approved", s)
    BY <1>1, <2>1, Zenon DEF ApprovalAccounted
  <2>2. ASSUME NEW r \in Requests,
               pc[r] = "audit_approved", call[r].tx = t, call[r].signer = s
        PROVE  ApprovalAccounted(t, s)'
    <3>1. CASE pc'[r] = pc[r] /\ call'[r] = call[r]
      BY <2>2, <3>1, Zenon DEF ApprovalAccounted
    <3>2. CASE EventOf(r, "transaction.approved") \in auditEvents'
      BY <1>2, <2>2, <3>2, Zenon DEF ApprovalAccounted, Audited
    <3> QED BY <2>2, <3>1, <3>2, Zenon DEF Accounts
  <2> QED BY <1>3, <2>1, <2>2, Zenon DEF ApprovalAccounted
<1>4. ASSUME NEW t, NEW status \in {"signed", "broadcast", "failed"},
             StatusAccounted(t, status)
      PROVE  StatusAccounted(t, status)'
  <2>1. /\ StatusEvent(status) # "transaction.approved"
        /\ StatusEvent(status)' = StatusEvent(status) /\ StatusCall(status)' = StatusCall(status)
    BY Zenon DEF StatusEvent, StatusCall
  <2>2. CASE Audited(t, StatusEvent(status), None)
    BY <1>1, <2>1, <2>2, Zenon DEF StatusAccounted
  <2>3. ASSUME NEW r \in Requests, pc[r] = StatusCall(status), call[r].tx = t
        PROVE  StatusAccounted(t, status)'
    <3>1. CASE pc'[r] = pc[r] /\ call'[r] = call[r]
      BY <2>1, <2>3, <3>1, Zenon DEF StatusAccounted
    <3>2. ASSUME NEW type, type = StatusEvent(status), EventOf(r, type) \in auditEvents'
          PROVE  StatusAccounted(t, status)'
      BY <1>2, <2>1, <2>3, <3>2, ZenonT(60) DEF StatusAccounted, Audited
    <3>3. \/ StatusEvent(status) = "transaction.signed" /\ pc[r] = "audit_signed"
          \/ StatusEvent(status) = "transaction.broadcast" /\ pc[r] = "audit_broadcast"
          \/ StatusEvent(status) = "transaction.failed" /\ pc[r] = "audit_failed"
      BY <2>3, Zenon DEF StatusEvent, StatusCall
    <3> QED BY <3>1, <3>2, <3>3, Zenon DEF Accounts
  <2> QED BY <1>4, <2>2, <2>3, Zenon DEF StatusAccounted
<1> QED BY <1>3, <1>4, Zenon

(* A step preserves AccountInv if it accounts for the rows and the copies  *)
(* that it changes.                                                        *)
LEMMA AccountStep ==
  ASSUME AccountInv, phase' # "killed" => phase # "killed", UpdateInv, UpdateInv',
         auditEvents \subseteq auditEvents', \A r \in Requests : Accounts(r),
         \A t \in Txns : transactions'[t] = transactions[t] \/ RowAccounted(t)',
         \A r \in Requests :
           \/ HoldsCopy(r)' =>
                HoldsCopy(r) /\ call'[r] = call[r] /\ proposal'[r] = proposal[r]
           \/ CopyAccounted(r)'
  PROVE  AccountInv'
<1> SUFFICES ASSUME phase' # "killed"
             PROVE  /\ \A t \in Txns : RowAccounted(t)'
                    /\ \A r \in Requests : CopyAccounted(r)'
  BY Zenon DEF AccountInv
<1>1. /\ \A t \in Txns : RowAccounted(t)
      /\ \A r \in Requests : CopyAccounted(r)
  BY Zenon DEF AccountInv
<1>2. /\ \A t, s : ApprovalAccounted(t, s) => ApprovalAccounted(t, s)'
      /\ \A t : \A status \in {"signed", "broadcast", "failed"} :
           StatusAccounted(t, status) => StatusAccounted(t, status)'
  BY AccountsKept, Zenon
<1>3. ASSUME NEW t \in Txns, transactions'[t] = transactions[t], Stored(t) PROVE RowAccounted(t)'
  <2>1. transactions[t].status \in {"proposed", "signed", "broadcast", "failed"}
    BY <1>3 DEF UpdateInv, UpdateTypeOK, TypeOK, StoreTypeOK, Stored, TransactionProposal,
       TransactionStatus
  <2>2. ASSUME NEW s \in transactions[t].approvals PROVE ApprovalAccounted(t, s)'
    BY <1>1, <1>2, <1>3, <2>2, Zenon DEF RowAccounted
  <2>3. ASSUME NEW status, status = transactions[t].status, status # "proposed"
        PROVE  StatusAccounted(t, status)'
    BY <1>1, <1>2, <1>3, <2>1, <2>3, Zenon DEF RowAccounted
  <2> QED BY <1>3, <2>2, <2>3, ZenonT(30) DEF RowAccounted
<1>4. ASSUME NEW r \in Requests, HoldsCopy(r)', HoldsCopy(r),
             call'[r] = call[r], proposal'[r] = proposal[r]
      PROVE  CopyAccounted(r)'
  <2>1. ASSUME NEW t, t = call[r].tx, NEW s \in proposal[r].approvals
        PROVE  ApprovalAccounted(t, s)'
    BY <1>1, <1>2, <1>4, <2>1, Zenon DEF CopyAccounted, HoldsCopy
  <2> QED BY <1>4, <2>1, Zenon DEF CopyAccounted
<1> QED BY <1>3, <1>4, Zenon DEF RowAccounted, CopyAccounted, HoldsCopy, Stored

(* With a reliable store and clients that stay no call fails by itself. *)
LEMMA NothingFails ==
  ASSUME UpdateInv, Reliable, NEW r \in Requests
  PROVE  ~MayFail(r) /\ FALSE \notin Acked
<1>1. ctx[r] = "live"
  BY Zenon DEF UpdateInv, ServerInv
<1>2. "store_error" \notin Faults /\ "lost_ack" \notin Faults
  BY Zenon DEF Reliable
<1> QED BY <1>1, <1>2, Zenon DEF MayFail, Acked

(* Where a handler goes, and what becomes of its copy. *)
LEMMA HandlerControl ==
  ASSUME NEW r \in Requests, Handle(r)
  PROVE  \/ ApprovalStored(r) \/ GetTransaction(r)
         \/ \E c : Answer(r, c)
         \/ /\ proposal' = proposal
            /\ \/ pc[r] = "audit_approved" /\ Goto(r, "sign")
               \/ pc[r] = "sign" /\ Goto(r, "mark_signed")
               \/ pc[r] = "sign" /\ Goto(r, "fail_transaction")
               \/ pc[r] = "submit" /\ Goto(r, "store_broadcast")
               \/ pc[r] = "submit" /\ Goto(r, "fail_transaction")
               \/ \E l \in {"audit_signed", "audit_broadcast", "audit_failed"} : Goto(r, l)
<1>1. CASE \/ ApprovalRefused(r) \/ SignatureDropped(r) \/ SignatureAudited(r)
           \/ BroadcastAudited(r) \/ FailureAudited(r) \/ StoreCallFails(r)
  <2>1. \E c : Answer(r, c)
    BY <1>1, ZenonT(60) DEF ApprovalRefused, SignatureDropped, SignatureAudited, BroadcastAudited,
       FailureAudited, StoreCallFails
  <2> QED BY <2>1, Zenon
<1>2. CASE ApprovalAudited(r)
  <2>1. \/ \E c : Answer(r, c)
        \/ pc[r] = "audit_approved" /\ Goto(r, "sign") /\ proposal' = proposal
    BY <1>2, ZenonT(60) DEF ApprovalAudited, AtCall, locals
  <2> QED BY <2>1, Zenon
<1>3. CASE SignTransaction(r)
  <2>1. pc[r] = "sign" /\ Goto(r, "mark_signed") /\ proposal' = proposal
    BY <1>3, Zenon DEF SignTransaction, AtCall
  <2> QED BY <2>1, Zenon
<1>4. CASE SignFails(r) \/ MaterialMissing(r)
  BY <1>4, Zenon DEF SignFails, MaterialMissing, locals
<1>5. CASE ChainAccepts(r) \/ ChainRefuses(r) \/ ChainAnswerLost(r)
  BY <1>5, Zenon DEF ChainAccepts, ChainRefuses, ChainAnswerLost, AtCall, locals
<1>6. CASE SignatureStored(r) \/ BroadcastStored(r) \/ failTransaction(r)
  BY <1>6, Zenon DEF SignatureStored, BroadcastStored, failTransaction, locals
<1> QED BY <1>1, <1>2, <1>3, <1>4, <1>5, <1>6, Zenon
        DEF Handle, HandlerStep, CoSignStep, BroadcastStep

(* A handler moves only itself. *)
LEMMA HandlerMoves ==
  ASSUME UpdateInv, NEW r \in Requests, Handle(r)
  PROVE  /\ call' = call /\ phase' = phase
         /\ \A q \in Requests : q # r => pc'[q] = pc[q] /\ proposal'[q] = proposal[q]
<1>1. /\ pc \in [Requests -> {"idle", "done"} \cup InFlightPC]
      /\ proposal \in [Requests -> TransactionProposal \cup {None}]
  BY ZenonT(60) DEF UpdateInv, UpdateTypeOK, TypeOK
<1>2. (\E l : Goto(r, l)) \/ (\E c : Answer(r, c))
  BY HandlerControl, ZenonT(60) DEF ApprovalStored, GetTransaction
<1>3. call' = call /\ \A q \in Requests : q # r => pc'[q] = pc[q]
  BY <1>1, <1>2, Zenon DEF Goto, Answer
<1>4. \A q \in Requests : q # r => proposal'[q] = proposal[q]
  BY <1>1, HandlerControl, ZenonT(60) DEF Answer, ApprovalStored, GetTransaction
<1> QED BY <1>3, <1>4, Zenon DEF Handle

(* A handler leaves the call that audits a change only by making it. *)
LEMMA HandlerAccounts ==
  ASSUME UpdateInv, Reliable, NEW r \in Requests, Handle(r)
  PROVE  auditEvents \subseteq auditEvents' /\ \A q \in Requests : Accounts(q)
<1>1. ~MayFail(r)
  BY NothingFails, Zenon
<1>2. HandlerStep(r) \/ MaterialMissing(r)
  BY Zenon DEF Handle
<1>3. auditEvents' = auditEvents \/ \E type : appendAudit(r, type)
  BY <1>2, ZenonT(60) DEF HandlerStep, CoSignStep, BroadcastStep, MaterialMissing,
     ApprovalRefused, ApprovalStored, ApprovalAudited, SignTransaction, SignFails,
     SignatureStored, SignatureDropped, SignatureAudited, GetTransaction, ChainAccepts,
     ChainRefuses, ChainAnswerLost, BroadcastStored, BroadcastAudited, failTransaction,
     FailureAudited, StoreCallFails, store
<1>4. auditEvents \subseteq auditEvents'
  BY <1>3, Zenon DEF appendAudit, AppendAuditEvent
<1>5. \/ pc[r] \notin {"audit_approved", "audit_signed", "audit_broadcast", "audit_failed"}
      \/ ApprovalAudited(r) \/ SignatureAudited(r) \/ BroadcastAudited(r) \/ FailureAudited(r)
  BY <1>1, <1>2, ZenonT(60) DEF HandlerStep, CoSignStep, BroadcastStep, MaterialMissing,
     ApprovalRefused, ApprovalStored, SignTransaction, SignFails, SignatureStored,
     SignatureDropped, GetTransaction, ChainAccepts, ChainRefuses, ChainAnswerLost,
     BroadcastStored, failTransaction, StoreCallFails, AtCall
<1>6. ASSUME NEW type, appendAudit(r, type) PROVE EventOf(r, type) \in auditEvents'
  BY <1>6, Zenon DEF appendAudit, AppendAuditEvent
<1>7. Accounts(r)
  BY <1>1, <1>5, <1>6, ZenonT(60) DEF Accounts, ApprovalAudited, SignatureAudited,
     BroadcastAudited, FailureAudited, AtCall
<1>8. ASSUME NEW q \in Requests, q # r PROVE Accounts(q)
  BY <1>8, HandlerMoves, Zenon DEF Accounts
<1> QED BY <1>4, <1>7, <1>8, Zenon

(* A handler has its copy from AddApproval or from GetTransaction, and     *)
(* keeps it.                                                               *)
LEMMA HandlerCopies ==
  ASSUME UpdateInv, NEW r \in Requests, Handle(r), NEW q \in Requests, HoldsCopy(q)',
         q = r => ~GetTransaction(r) /\ ~ApprovalStored(r)
  PROVE  HoldsCopy(q) /\ call'[q] = call[q] /\ proposal'[q] = proposal[q]
<1>1. ServerInv(r) /\ call' = call
  BY HandlerMoves, Zenon DEF UpdateInv
<1>2. ASSUME NEW l, Goto(r, l) PROVE pc'[r] = l
  BY <1>2 DEF Goto, UpdateInv, UpdateTypeOK, TypeOK
<1>3. ASSUME NEW c, Answer(r, c) PROVE pc'[r] = "done"
  BY <1>3 DEF Answer, UpdateInv, UpdateTypeOK, TypeOK
<1>4. CASE q = r
  BY <1>1, <1>2, <1>3, <1>4, HandlerControl, Zenon
     DEF HoldsCopy, HoldsOpenCopy, HoldsSignedCopy, Failing, ServerInv, CoSignPC, BroadcastPC
<1>5. CASE q # r
  BY <1>1, <1>5, HandlerMoves, Zenon DEF HoldsCopy, HoldsOpenCopy, HoldsSignedCopy, Failing
<1> QED BY <1>4, <1>5, Zenon

(* A row that a handler has written is accounted for if the handler goes   *)
(* on to audit what is new in it.                                          *)
LEMMA WrittenRow ==
  ASSUME UpdateInv, Reliable, NEW r \in Requests, Handle(r),
         call[r].tx \in Txns, NEW row \in TransactionProposal,
         transactions' = [transactions EXCEPT ![call[r].tx] = row],
         \A s \in row.approvals :
           \/ ApprovalAccounted(call[r].tx, s)
           \/ s = call[r].signer /\ pc'[r] = "audit_approved",
         \/ row.status = "proposed"
         \/ row.status = "signed" /\ pc'[r] = "audit_signed"
         \/ row.status = "broadcast" /\ pc'[r] = "audit_broadcast"
         \/ row.status = "failed" /\ pc'[r] = "audit_failed"
  PROVE  /\ \A t \in Txns : transactions'[t] = transactions[t] \/ RowAccounted(t)'
         /\ \A s \in row.approvals : ApprovalAccounted(call[r].tx, s)'
<1> DEFINE t == call[r].tx
<1>1. /\ transactions'[t] = row
      /\ \A u \in Txns : u # t => transactions'[u] = transactions[u]
      /\ call' = call
  BY HandlerMoves DEF UpdateInv, UpdateTypeOK, TypeOK, StoreTypeOK
<1>2. \A u, s : ApprovalAccounted(u, s) => ApprovalAccounted(u, s)'
  BY HandlerAccounts, AccountsKept, Zenon
<1>3. ASSUME NEW u, u = t, NEW s \in row.approvals PROVE ApprovalAccounted(u, s)'
  <2>1. CASE ApprovalAccounted(u, s)
    BY <1>2, <2>1, Zenon
  <2>2. CASE s = call[r].signer /\ pc'[r] = "audit_approved"
    BY <1>1, <1>3, <2>2, Zenon DEF ApprovalAccounted
  <2> QED BY <1>3, <2>1, <2>2, Zenon
<1>4. ASSUME NEW u, u = t, NEW status, status = row.status, status # "proposed"
      PROVE  StatusAccounted(u, status)'
  <2>1. pc'[r] = StatusCall(status) /\ StatusCall(status)' = StatusCall(status)
    BY <1>4, Zenon DEF StatusCall
  <2> QED BY <1>1, <1>4, <2>1, Zenon DEF StatusAccounted
<1>5. ASSUME NEW u \in Txns, u = t PROVE RowAccounted(u)'
  BY <1>1, <1>3, <1>4, <1>5, Zenon DEF RowAccounted
<1> QED BY <1>1, <1>3, <1>5, Zenon

(* Every step of a handler accounts for what it does. *)
LEMMA HandleAccount ==
  ASSUME UpdateInv, UpdateInv', AccountInv, Reliable, NEW r \in Requests, Handle(r)
  PROVE  AccountInv'
<1>1. phase' = phase /\ call' = call
  BY HandlerMoves, Zenon
<1> SUFFICES ASSUME phase # "killed" PROVE AccountInv'
  BY <1>1, Zenon DEF AccountInv
<1>2. /\ \A t \in Txns : RowAccounted(t)
      /\ \A q \in Requests : CopyAccounted(q)
      /\ transactions \in [Txns -> TransactionProposal \cup {None}]
      /\ proposal \in [Requests -> TransactionProposal \cup {None}]
      /\ pc \in [Requests -> {"idle", "done"} \cup InFlightPC]
  BY ZenonT(60) DEF AccountInv, UpdateInv, UpdateTypeOK, TypeOK, StoreTypeOK
<1>3. FALSE \notin Acked /\ ~MayFail(r)
  BY NothingFails, Zenon
<1>4. ASSUME \A t \in Txns : transactions'[t] = transactions[t] \/ RowAccounted(t)',
             CopyAccounted(r)' \/ (~GetTransaction(r) /\ ~ApprovalStored(r))
      PROVE  AccountInv'
  <2>1. ASSUME NEW q \in Requests
        PROVE  \/ HoldsCopy(q)' =>
                    HoldsCopy(q) /\ call'[q] = call[q] /\ proposal'[q] = proposal[q]
               \/ CopyAccounted(q)'
    BY <1>4, HandlerCopies, Zenon
  <2> QED BY <1>1, <1>4, <2>1, HandlerAccounts, AccountStep, Zenon
<1>5. CASE ApprovalStored(r)
  <2>1. /\ pc[r] = "add_approval" /\ AddApproval(call[r].tx, call[r].signer)
        /\ Goto(r, "audit_approved")
        /\ proposal' = [proposal EXCEPT ![r] = transactions'[call[r].tx]]
    BY <1>3, <1>5, Zenon DEF ApprovalStored, AtCall
  <2>2. /\ call[r].tx \in Txns /\ LegalRow(call[r].tx, ApprovedRow(r))
        /\ transactions' = [transactions EXCEPT ![call[r].tx] = ApprovedRow(r)]
        /\ ApprovedRow(r).status = "proposed"
        /\ ApprovedRow(r).approvals = transactions[call[r].tx].approvals \cup {call[r].signer}
    BY <2>1, ApprovalIsLegal, Zenon
  <2>3. pc'[r] = "audit_approved" /\ proposal'[r] = ApprovedRow(r)
    BY <1>2, <2>1, <2>2, Zenon DEF Goto
  <2>4. \A s \in ApprovedRow(r).approvals :
          \/ ApprovalAccounted(call[r].tx, s)
          \/ s = call[r].signer /\ pc'[r] = "audit_approved"
    BY <1>2, <2>2, <2>3, Zenon DEF RowAccounted, LegalRow
  <2>5. /\ \A t \in Txns : transactions'[t] = transactions[t] \/ RowAccounted(t)'
        /\ \A s \in ApprovedRow(r).approvals : ApprovalAccounted(call[r].tx, s)'
    BY <2>2, <2>4, WrittenRow, Zenon DEF LegalRow
  <2>6. CopyAccounted(r)'
    BY <2>3, <2>5, Zenon DEF CopyAccounted
  <2> QED BY <1>4, <2>5, <2>6, Zenon
<1>6. CASE GetTransaction(r)
  <2>1. /\ transactions' = transactions /\ pc[r] = "get_transaction"
        /\ \/ /\ Stored(call[r].tx) /\ Goto(r, "submit")
              /\ proposal' = [proposal EXCEPT ![r] = transactions[call[r].tx]]
           \/ \E c : Answer(r, c)
    BY <1>6, ZenonT(60) DEF GetTransaction, AtCall, store
  <2>2. CASE \E c : Answer(r, c)
    <3>1. pc'[r] = "done"
      BY <1>2, <2>2, Zenon DEF Answer
    <3>2. CopyAccounted(r)'
      BY <3>1, Zenon DEF CopyAccounted, HoldsOpenCopy, HoldsSignedCopy, Failing
    <3> QED BY <1>4, <2>1, <3>2, Zenon
  <2>3. CASE /\ Stored(call[r].tx)
             /\ proposal' = [proposal EXCEPT ![r] = transactions[call[r].tx]]
    <3>1. proposal'[r] = transactions[call[r].tx]
      BY <1>2, <2>3, Zenon
    <3>2. call[r].tx \in Txns
      BY <2>1, HandlerCall, Zenon DEF UpdateInv, InFlight, InFlightPC, BroadcastPC
    <3>3. \A u, s : ApprovalAccounted(u, s) => ApprovalAccounted(u, s)'
      BY HandlerAccounts, AccountsKept, Zenon
    <3>4. ASSUME NEW u, u = call[r].tx, NEW s \in proposal'[r].approvals
          PROVE  ApprovalAccounted(u, s)'
      BY <1>2, <2>3, <3>1, <3>2, <3>3, <3>4, Zenon DEF RowAccounted
    <3>5. CopyAccounted(r)'
      BY <1>1, <3>4, Zenon DEF CopyAccounted
    <3> QED BY <1>4, <2>1, <3>5, Zenon
  <2> QED BY <2>1, <2>2, <2>3, Zenon
<1>7. CASE SignatureStored(r)
  <2>1. /\ pc[r] = "mark_signed" /\ MarkTransactionSigned(call[r].tx, signature[r])
        /\ Goto(r, "audit_signed")
    BY <1>3, <1>7, Zenon DEF SignatureStored, AtCall
  <2>2. /\ call[r].tx \in Txns /\ LegalRow(call[r].tx, SignedRow(r))
        /\ transactions' = [transactions EXCEPT ![call[r].tx] = SignedRow(r)]
        /\ SignedRow(r).status = "signed"
        /\ SignedRow(r).approvals = transactions[call[r].tx].approvals
    BY <2>1, SignatureIsLegal, Zenon
  <2>3. pc'[r] = "audit_signed"
    BY <1>2, <2>1, Zenon DEF Goto
  <2>4. \A s \in SignedRow(r).approvals : ApprovalAccounted(call[r].tx, s)
    BY <1>2, <2>2, Zenon DEF RowAccounted, LegalRow
  <2>5. \A t \in Txns : transactions'[t] = transactions[t] \/ RowAccounted(t)'
    BY <2>2, <2>3, <2>4, WrittenRow, Zenon DEF LegalRow
  <2>6. ~GetTransaction(r) /\ ~ApprovalStored(r)
    BY <2>1, Zenon DEF GetTransaction, ApprovalStored, AtCall
  <2> QED BY <1>4, <2>5, <2>6, Zenon
<1>8. CASE BroadcastStored(r)
  <2>1. /\ pc[r] = "store_broadcast" /\ UpdateTransaction(call[r].tx, BroadcastCopy(r))
        /\ Goto(r, "audit_broadcast")
    BY <1>3, <1>8, Zenon DEF BroadcastStored, AtCall
  <2>2. /\ call[r].tx \in Txns /\ LegalRow(call[r].tx, BroadcastCopy(r))
        /\ transactions' = [transactions EXCEPT ![call[r].tx] = BroadcastCopy(r)]
        /\ BroadcastCopy(r).status = "broadcast"
        /\ BroadcastCopy(r).approvals = proposal[r].approvals
    BY <2>1, BroadcastIsLegal, Zenon
  <2>3. pc'[r] = "audit_broadcast"
    BY <1>2, <2>1, Zenon DEF Goto
  <2>4. \A s \in BroadcastCopy(r).approvals : ApprovalAccounted(call[r].tx, s)
    BY <1>2, <2>1, <2>2, Zenon DEF CopyAccounted, HoldsSignedCopy
  <2>5. \A t \in Txns : transactions'[t] = transactions[t] \/ RowAccounted(t)'
    BY <2>2, <2>3, <2>4, WrittenRow, Zenon DEF LegalRow
  <2>6. ~GetTransaction(r) /\ ~ApprovalStored(r)
    BY <2>1, Zenon DEF GetTransaction, ApprovalStored, AtCall
  <2> QED BY <1>4, <2>5, <2>6, Zenon
<1>9. CASE failTransaction(r)
  <2>1. /\ pc[r] = "fail_transaction" /\ UpdateTransaction(call[r].tx, FailedCopy(r))
        /\ Goto(r, "audit_failed")
    BY <1>3, <1>9, Zenon DEF failTransaction
  <2>2. /\ call[r].tx \in Txns /\ LegalRow(call[r].tx, FailedCopy(r))
        /\ transactions' = [transactions EXCEPT ![call[r].tx] = FailedCopy(r)]
        /\ FailedCopy(r).status = "failed"
        /\ FailedCopy(r).approvals = proposal[r].approvals
    BY <2>1, FailureIsLegal, Zenon
  <2>3. pc'[r] = "audit_failed"
    BY <1>2, <2>1, Zenon DEF Goto
  <2>4. HoldsCopy(r)
    <3>1. call[r].op \in {"cosign", "broadcast"}
      BY <2>1, HandlerCall, Zenon DEF UpdateInv, InFlight, InFlightPC, FailPC, Call
    <3> QED BY <2>1, <3>1, Zenon DEF HoldsCopy, HoldsOpenCopy, HoldsSignedCopy, Failing
  <2>5. \A s \in FailedCopy(r).approvals : ApprovalAccounted(call[r].tx, s)
    BY <1>2, <2>2, <2>4, Zenon DEF CopyAccounted, HoldsCopy
  <2>6. \A t \in Txns : transactions'[t] = transactions[t] \/ RowAccounted(t)'
    BY <2>2, <2>3, <2>5, WrittenRow, Zenon DEF LegalRow
  <2>7. ~GetTransaction(r) /\ ~ApprovalStored(r)
    BY <2>1, Zenon DEF GetTransaction, ApprovalStored, AtCall
  <2> QED BY <1>4, <2>6, <2>7, Zenon
<1>10. CASE /\ ~ApprovalStored(r) /\ ~GetTransaction(r) /\ ~SignatureStored(r)
            /\ ~BroadcastStored(r) /\ ~failTransaction(r)
  <2>1. transactions' = transactions
    BY <1>10, ZenonT(60) DEF Handle, HandlerStep, CoSignStep, BroadcastStep, MaterialMissing,
       ApprovalRefused, ApprovalAudited, SignTransaction, SignFails, SignatureDropped,
       SignatureAudited, ChainAccepts, ChainRefuses, ChainAnswerLost, BroadcastAudited,
       FailureAudited, StoreCallFails, store
  <2> QED BY <1>4, <1>10, <2>1, Zenon
<1> QED BY <1>5, <1>6, <1>7, <1>8, <1>9, <1>10, Zenon

(* Nothing has happened yet. *)
LEMMA InitAccount == RolloutInit => AccountInv
<1> SUFFICES ASSUME RolloutInit PROVE AccountInv
  OBVIOUS
<1>1. ASSUME NEW t \in Txns PROVE RowAccounted(t)
  BY DEF RolloutInit, Init, RowAccounted, Stored, NewProposal
<1>2. ASSUME NEW r \in Requests PROVE CopyAccounted(r)
  <2>1. pc[r] = "idle"
    BY Zenon DEF RolloutInit, Init
  <2> QED BY <2>1, Zenon DEF CopyAccounted, HoldsOpenCopy, HoldsSignedCopy, Failing
<1> QED BY <1>1, <1>2, Zenon DEF AccountInv

(* A request that arrives has nothing to account for. *)
LEMMA ArrivesAccount ==
  ASSUME UpdateInv, UpdateInv', AccountInv, NEW r \in Requests, Arrives(r)
  PROVE  AccountInv'
<1>1. /\ UNCHANGED <<transactions, auditEvents, proposal, phase>> /\ pc[r] = "idle"
  BY ZenonT(30) DEF Arrives, CoSign, Broadcast, store, locals
<1>2. /\ pc'[r] \in {"add_approval", "get_transaction", "done"}
      /\ \A q \in Requests : q # r => pc'[q] = pc[q] /\ call'[q] = call[q]
  BY DEF Arrives, CoSign, Broadcast, UpdateInv, UpdateTypeOK, TypeOK
<1>3. ~HoldsCopy(r)'
  BY <1>2, Zenon DEF HoldsCopy, HoldsOpenCopy, HoldsSignedCopy, Failing
<1>4. ASSUME NEW q \in Requests, q # r PROVE HoldsCopy(q)' => HoldsCopy(q)
  BY <1>2, <1>4, Zenon DEF HoldsCopy, HoldsOpenCopy, HoldsSignedCopy, Failing
<1>5. \A q \in Requests : Accounts(q)
  BY <1>1, <1>2, Zenon DEF Accounts
<1>6. ASSUME NEW q \in Requests
      PROVE  HoldsCopy(q)' =>
               HoldsCopy(q) /\ call'[q] = call[q] /\ proposal'[q] = proposal[q]
  BY <1>1, <1>2, <1>3, <1>4, Zenon
<1>7. auditEvents \subseteq auditEvents'
  BY <1>1, Zenon
<1> QED BY <1>1, <1>5, <1>6, <1>7, AccountStep, Zenon

(* A step of the processes that cuts no handler off. *)
LEMMA PhaseAccount ==
  ASSUME UpdateInv, UpdateInv', AccountInv, phase' # "killed" => phase # "killed",
         UNCHANGED <<transactions, auditEvents, call>>,
         \A r \in Requests : pc'[r] = pc[r] /\ proposal'[r] = proposal[r]
  PROVE  AccountInv'
<1>1. \A r \in Requests : Accounts(r)
  BY Zenon DEF Accounts
<1>2. ASSUME NEW r \in Requests
      PROVE  HoldsCopy(r)' =>
               HoldsCopy(r) /\ call'[r] = call[r] /\ proposal'[r] = proposal[r]
  BY Zenon DEF HoldsCopy, HoldsOpenCopy, HoldsSignedCopy, Failing
<1>3. auditEvents \subseteq auditEvents'
  BY Zenon
<1> QED BY <1>1, <1>2, <1>3, AccountStep, Zenon

LEMMA NextAccount ==
  ASSUME Reliable, UpdateInv, UpdateInv', AccountInv, [RolloutNext]_rolloutVars
  PROVE  AccountInv'
<1>1. CASE UNCHANGED rolloutVars
  BY <1>1, PhaseAccount, Zenon DEF rolloutVars, vars, handlers
<1>2. ASSUME NEW r \in Requests, Arrives(r) \/ Handle(r) PROVE AccountInv'
  BY <1>2, ArrivesAccount, HandleAccount, Zenon
<1>3. CASE OpenStore \/ ListenAndServe \/ Signal
  <2>1. /\ UNCHANGED <<transactions, auditEvents, call, pc, proposal>>
        /\ phase # "killed"
    BY <1>3, Zenon
       DEF OpenStore, ListenAndServe, Signal, RunMigrations, vars, store, handlers
  <2> QED BY <2>1, PhaseAccount, Zenon
<1>4. CASE ShutdownReturns
  <2>1. /\ UNCHANGED <<transactions, auditEvents, call>> /\ phase # "killed"
    BY <1>4, Zenon DEF ShutdownReturns, OldExits, store
  <2>2. \A r \in Requests : pc'[r] = pc[r] /\ proposal'[r] = proposal[r]
    BY <1>4, Zenon DEF ShutdownReturns, OldExits
  <2> QED BY <2>1, <2>2, PhaseAccount, Zenon
<1>5. CASE GraceExpires
  BY <1>5, Zenon DEF GraceExpires, OldExits, AccountInv
<1> QED BY <1>1, <1>2, <1>3, <1>4, <1>5, Zenon DEF RolloutNext

(* When no handler is left, what is accounted for is in the audit log. *)
LEMMA AccountsAreAudited == UpdateInv /\ AccountInv => CleanStopIsAudited
<1> SUFFICES ASSUME UpdateInv, AccountInv, phase # "killed",
                    \A r \in Requests : ~InFlight(r), NEW t \in Txns, Stored(t)
             PROVE  /\ \A s \in transactions[t].approvals :
                         Audited(t, "transaction.approved", s)
                    /\ transactions[t].status # "proposed" =>
                         Audited(t, StatusEvent(transactions[t].status), None)
  BY Zenon DEF CleanStopIsAudited, EveryTransitionIsAudited, StatusEvent
<1>1. RowAccounted(t) /\ transactions[t] \in TransactionProposal
  BY DEF AccountInv, UpdateInv, UpdateTypeOK, TypeOK, StoreTypeOK, Stored
<1>2. \A r \in Requests :
        pc[r] \notin {"audit_approved", "audit_signed", "audit_broadcast", "audit_failed"}
  BY Zenon DEF InFlight, InFlightPC, CoSignPC, BroadcastPC, FailPC
<1>3. ASSUME NEW s \in transactions[t].approvals PROVE Audited(t, "transaction.approved", s)
  BY <1>1, <1>2, <1>3, Zenon DEF RowAccounted, ApprovalAccounted
<1>4. ASSUME transactions[t].status # "proposed"
      PROVE  Audited(t, StatusEvent(transactions[t].status), None)
  <2>1. StatusCall(transactions[t].status) \in {"audit_signed", "audit_broadcast", "audit_failed"}
    BY <1>1, <1>4, Zenon DEF StatusCall, TransactionProposal, TransactionStatus
  <2> QED BY <1>1, <1>2, <1>4, <2>1, Zenon DEF RowAccounted, StatusAccounted
<1> QED BY <1>3, <1>4, Zenon

(* With a store that does what it reports, a graceful stop leaves every    *)
(* transition audited, through the whole update: Shutdown waits for the    *)
(* handlers that still owe an event.                                       *)
THEOREM CleanStopAudits ==
  ASSUME Reliable
  PROVE  RolloutSpec => []CleanStopIsAudited
<1>1. UpdateInv /\ UpdateInv' /\ AccountInv /\ [RolloutNext]_rolloutVars => AccountInv'
  BY NextAccount, Zenon
<1> QED BY <1>1, InitAccount, AccountsAreAudited, UpdateInvariance, PTL DEF RolloutSpec

-----------------------------------------------------------------------------
(* What reaches the chain. *)

(* A count of two, as Cardinality computes it, needs two elements: it is 0 *)
(* or 1 for a set that has none or one.                                    *)
LEMMA CountOfTwo ==
  ASSUME NEW A, Cardinality(A) >= 2
  PROVE  TwoSigners(A)
<1> DEFINE Step(f) == [T \in SUBSET A |-> IF T = {} THEN 0 ELSE 1 + f[T \ {CHOOSE x : x \in T}]]
           one == [T \in SUBSET A |-> IF T = {} THEN 0 ELSE 1]
           count == CHOOSE f : f = Step(f)
<1> SUFFICES ASSUME \A a, b \in A : a = b PROVE FALSE
  BY Zenon DEF TwoSigners
<1>1. Cardinality(A) = count[A]
  BY Zenon DEF Cardinality
<1>2. ASSUME NEW T \in SUBSET A, T # {} PROVE T \ {CHOOSE x : x \in T} = {}
  <2>1. (CHOOSE x : x \in T) \in T
    BY <1>2, Zenon
  <2> QED BY <2>1, Zenon
<1>3. ASSUME NEW T \in SUBSET A PROVE one[T] = Step(one)[T]
  <2>1. CASE T = {}
    BY <2>1
  <2>2. CASE T # {}
    <3>1. one[T \ {CHOOSE x : x \in T}] = 0
      BY <1>2, <2>2
    <3> QED BY <2>2, <3>1
  <2> QED BY <2>1, <2>2
<1>4. one = Step(one)
  BY <1>3
<1>5. count = Step(count)
  BY <1>4, Zenon
<1> HIDE DEF count
<1>6. count[{}] = 0
  BY <1>5
<1>7. count[A] \in {0, 1}
  <2>1. CASE A = {}
    BY <1>6, <2>1
  <2>2. CASE A # {}
    <3>1. count[A] = 1 + count[A \ {CHOOSE x : x \in A}]
      BY <1>5, <2>2
    <3>2. A \ {CHOOSE x : x \in A} = {}
      BY <1>2, <2>2, Zenon
    <3>3. count[A \ {CHOOSE x : x \in A}] = 0
      BY <1>6, <3>2, Zenon
    <3> QED BY <3>1, <3>3
  <2> QED BY <2>1, <2>2
<1> QED BY <1>1, <1>7

LEMMA SettledGrows ==
  ASSUME NEW t, NEW row, NEW A, NEW B, A \subseteq B, RowSettled(t, row, A)
  PROVE  RowSettled(t, row, B)
  BY Zenon DEF RowSettled

(* What a handler may do to the chain, and to the row of its proposal. *)
LEMMA HandlerChain ==
  ASSUME NEW r \in Requests, Handle(r)
  PROVE  \/ UNCHANGED <<accepted, transactions>>
         \/ /\ UNCHANGED transactions /\ pc[r] = "submit" /\ ~GetTransaction(r)
            /\ accepted' = accepted \cup {proposal[r].signedTransaction}
         \/ /\ UNCHANGED accepted
            /\ \/ pc[r] = "add_approval" /\ AddApproval(call[r].tx, call[r].signer)
               \/ pc[r] = "mark_signed" /\ MarkTransactionSigned(call[r].tx, signature[r])
               \/ pc[r] = "store_broadcast" /\ UpdateTransaction(call[r].tx, BroadcastCopy(r))
               \/ pc[r] = "fail_transaction" /\ UpdateTransaction(call[r].tx, FailedCopy(r))
<1>1. CASE ApprovalStored(r) \/ SignatureStored(r) \/ BroadcastStored(r) \/ failTransaction(r)
  BY <1>1, Zenon DEF ApprovalStored, SignatureStored, BroadcastStored, failTransaction, AtCall
<1>2. CASE ChainAccepts(r) \/ ChainAnswerLost(r)
  <2>1. /\ UNCHANGED transactions /\ pc[r] = "submit"
        /\ accepted' = accepted \cup {proposal[r].signedTransaction}
    BY <1>2, Zenon DEF ChainAccepts, ChainAnswerLost, AtCall, store
  <2>2. pc[r] # "get_transaction"
    BY <2>1
  <2>3. ~GetTransaction(r)
    BY <2>2, Zenon DEF GetTransaction, AtCall
  <2> QED BY <2>1, <2>3, Zenon
<1>3. CASE \/ ApprovalRefused(r) \/ ApprovalAudited(r) \/ SignTransaction(r) \/ SignFails(r)
           \/ SignatureDropped(r) \/ SignatureAudited(r) \/ GetTransaction(r)
           \/ ChainRefuses(r) \/ BroadcastAudited(r) \/ FailureAudited(r)
           \/ StoreCallFails(r) \/ MaterialMissing(r)
  BY <1>3, ZenonT(60) DEF ApprovalRefused, ApprovalAudited, SignTransaction, SignFails,
     SignatureDropped, SignatureAudited, GetTransaction, ChainRefuses, BroadcastAudited,
     FailureAudited, StoreCallFails, MaterialMissing, store
<1> QED BY <1>1, <1>2, <1>3, Zenon DEF Handle, HandlerStep, CoSignStep, BroadcastStep

(* The rows that the four writes leave. *)
LEMMA ApprovedRowSettled ==
  ASSUME UpdateInv, SettledInv, NEW r \in Requests, pc[r] = "add_approval",
         AddApproval(call[r].tx, call[r].signer)
  PROVE  RowSettled(call[r].tx, ApprovedRow(r), accepted)
<1>1. /\ call[r].tx \in Txns /\ LegalRow(call[r].tx, ApprovedRow(r))
      /\ ApprovedRow(r).status = "proposed"
      /\ ApprovedRow(r).signedTransaction = None
      /\ ApprovedRow(r).approvals = transactions[call[r].tx].approvals \cup {call[r].signer}
  BY ApprovalIsLegal, Zenon
<1>2. \A s \in transactions[call[r].tx].approvals : signerAllowed(s)
  BY <1>1, Zenon DEF SettledInv, RowSettled, LegalRow
<1>3. signerAllowed(call[r].signer)
  BY Zenon DEF SettledInv, HandlerSettled, CoSignPC
<1>4. \A s \in ApprovedRow(r).approvals : signerAllowed(s)
  BY <1>1, <1>2, <1>3, Zenon
<1>5. ApprovedRow(r).status # "broadcast"
  BY <1>1
<1> QED BY <1>1, <1>4, <1>5, Zenon DEF RowSettled

LEMMA SignedRowSettled ==
  ASSUME UpdateInv, SettledInv, NEW r \in Requests, pc[r] = "mark_signed",
         MarkTransactionSigned(call[r].tx, signature[r])
  PROVE  RowSettled(call[r].tx, SignedRow(r), accepted)
<1> DEFINE t == call[r].tx
<1>1. /\ t \in Txns /\ LegalRow(t, SignedRow(r))
      /\ SignedRow(r).status = "signed"
      /\ SignedRow(r).approvals = transactions[t].approvals
  BY SignatureIsLegal, Zenon
<1>2. Stored(t) /\ transactions[t].status = "proposed"
  BY Zenon DEF MarkTransactionSigned
<1>3. transactions[t] \in TransactionProposal
  BY <1>1, <1>2, OpenRow, Zenon
<1>4. SignedRow(r).signedTransaction = signature[r]
  BY <1>3, Zenon DEF SignedRow, TransactionProposal
<1>5. CopySettled(r) /\ HandlerSettled(r) /\ RowSettled(t, transactions[t], accepted)
  BY <1>1, <1>2, Zenon DEF SettledInv
<1>6. HoldsOpenCopy(r) /\ pc[r] # "audit_approved"
  BY DEF HoldsOpenCopy
<1>7. /\ TwoSigners(proposal[r].approvals)
      /\ proposal[r].approvals \subseteq transactions[t].approvals
      /\ signature[r].tx = t
  BY <1>2, <1>5, <1>6, Zenon DEF CopySettled, HandlerSettled
<1>8. TwoSigners(transactions[t].approvals)
  BY <1>7, Zenon DEF TwoSigners
<1>9. \A s \in transactions[t].approvals : signerAllowed(s)
  BY <1>5, Zenon DEF RowSettled
<1>10. SignedRow(r).status # "broadcast"
  BY <1>1
<1> QED BY <1>1, <1>4, <1>7, <1>8, <1>9, <1>10, Zenon DEF RowSettled

LEMMA BroadcastRowSettled ==
  ASSUME UpdateInv, SettledInv, NEW r \in Requests, pc[r] = "store_broadcast"
  PROVE  RowSettled(call[r].tx, BroadcastCopy(r), accepted)
<1>1. HoldsSignedCopy(r) /\ pc[r] # "audit_approved"
  BY DEF HoldsSignedCopy
<1>2. proposal[r] \in TransactionProposal
  BY <1>1, Zenon DEF UpdateInv, SignedInv
<1>3. /\ BroadcastCopy(r).approvals = proposal[r].approvals
      /\ BroadcastCopy(r).signedTransaction = proposal[r].signedTransaction
      /\ BroadcastCopy(r).broadcastHash = Hash(proposal[r].signedTransaction)
  BY <1>2, Zenon DEF BroadcastCopy, TransactionProposal
<1>4. /\ RowSettled(call[r].tx, proposal[r], accepted)
      /\ TwoSigners(proposal[r].approvals)
      /\ proposal[r].signedTransaction \in accepted
  BY <1>1, Zenon DEF SettledInv, CopySettled, HandlerSettled
<1> QED BY <1>3, <1>4, Zenon DEF RowSettled

LEMMA FailedRowSettled ==
  ASSUME UpdateInv, SettledInv, NEW r \in Requests, pc[r] = "fail_transaction"
  PROVE  /\ RowSettled(call[r].tx, FailedCopy(r), accepted)
         /\ FailedCopy(r).signedTransaction = proposal[r].signedTransaction
         /\ HoldsSignedCopy(r) \/ FailedCopy(r).signedTransaction = None
<1>1. call[r].op \in {"cosign", "broadcast"} /\ pc[r] # "audit_approved"
  BY HandlerCall, Zenon DEF UpdateInv, InFlight, InFlightPC, FailPC, Call
<1>2. HoldsOpenCopy(r) \/ HoldsSignedCopy(r)
  BY <1>1, Zenon DEF HoldsOpenCopy, HoldsSignedCopy, Failing
<1>3. /\ proposal[r] \in TransactionProposal
      /\ HoldsSignedCopy(r) \/ proposal[r].signedTransaction = None
  BY <1>2, Zenon DEF UpdateInv, SignedInv, OpenInv
<1>4. /\ FailedCopy(r).status = "failed"
      /\ FailedCopy(r).approvals = proposal[r].approvals
      /\ FailedCopy(r).signedTransaction = proposal[r].signedTransaction
  BY <1>3, Zenon DEF FailedCopy, TransactionProposal
<1>5. /\ RowSettled(call[r].tx, proposal[r], accepted)
      /\ TwoSigners(proposal[r].approvals)
  BY <1>1, <1>2, Zenon DEF SettledInv, CopySettled
<1>6. FailedCopy(r).status # "broadcast"
  BY <1>4
<1> QED BY <1>3, <1>4, <1>5, <1>6, Zenon DEF RowSettled

(* A handler leaves every row settled.  It opens none and takes no approval *)
(* from an open one; the row of a payload on the chain keeps the payload or *)
(* loses it.                                                               *)
LEMMA RowsStaySettled ==
  ASSUME UpdateInv, SettledInv, NEW r \in Requests, Handle(r), NEW t \in Txns
  PROVE  /\ Stored(t)' => RowSettled(t, transactions'[t], accepted')
         /\ transactions'[t].status = "proposed" =>
              /\ transactions[t].status = "proposed"
              /\ transactions[t].approvals \subseteq transactions'[t].approvals
         /\ \A p \in accepted : p.tx = t =>
              /\ Stored(t)' /\ transactions'[t].status # "proposed"
              /\ transactions'[t].signedTransaction \in {None, p}
<1> DEFINE u == call[r].tx
           Written(row) == transactions' = [transactions EXCEPT ![u] = row]
<1>1. transactions \in [Txns -> TransactionProposal \cup {None}]
  BY ZenonT(60) DEF UpdateInv, UpdateTypeOK, TypeOK, StoreTypeOK
<1>2. /\ Stored(t) => RowSettled(t, transactions[t], accepted)
      /\ \A p \in accepted : p.tx = t =>
           /\ Stored(t) /\ transactions[t].status # "proposed"
           /\ transactions[t].signedTransaction \in {None, p}
           /\ \A q \in Requests : HoldsSignedCopy(q) /\ call[q].tx = t =>
                proposal[q].signedTransaction = p
  BY ZenonT(60) DEF SettledInv, PayloadSettled
<1>3. ASSUME transactions'[t] = transactions[t], accepted \subseteq accepted'
      PROVE  /\ Stored(t)' => RowSettled(t, transactions'[t], accepted')
             /\ transactions'[t].status = "proposed" =>
                  /\ transactions[t].status = "proposed"
                  /\ transactions[t].approvals \subseteq transactions'[t].approvals
             /\ \A p \in accepted : p.tx = t =>
                  /\ Stored(t)' /\ transactions'[t].status # "proposed"
                  /\ transactions'[t].signedTransaction \in {None, p}
  BY <1>2, <1>3, SettledGrows, Zenon DEF Stored
<1>4. ASSUME NEW row \in TransactionProposal, Written(row), accepted' = accepted,
             RowSettled(u, row, accepted),
             \/ /\ transactions[u].status = "proposed"
                /\ row.status # "proposed" \/ transactions[u].approvals \subseteq row.approvals
             \/ /\ row.status # "proposed"
                /\ \/ row.signedTransaction = None
                   \/ /\ HoldsSignedCopy(r)
                      /\ row.signedTransaction = proposal[r].signedTransaction
      PROVE  /\ Stored(t)' => RowSettled(t, transactions'[t], accepted')
             /\ transactions'[t].status = "proposed" =>
                  /\ transactions[t].status = "proposed"
                  /\ transactions[t].approvals \subseteq transactions'[t].approvals
             /\ \A p \in accepted : p.tx = t =>
                  /\ Stored(t)' /\ transactions'[t].status # "proposed"
                  /\ transactions'[t].signedTransaction \in {None, p}
  <2>1. CASE t # u
    <3>1. transactions'[t] = transactions[t]
      BY <1>1, <1>4, <2>1, Zenon
    <3> QED BY <1>3, <1>4, <3>1, Zenon
  <2>2. CASE t = u
    <3>1. transactions'[t] = row /\ Stored(t)'
      BY <1>1, <1>4, <2>2, NoneAssumption, Zenon DEF Stored
    <3>2. ASSUME NEW p \in accepted, p.tx = t
          PROVE  row.status # "proposed" /\ row.signedTransaction \in {None, p}
      BY <1>2, <1>4, <2>2, <3>2, Zenon
    <3> QED BY <1>4, <2>2, <3>1, <3>2, Zenon
  <2> QED BY <2>1, <2>2, Zenon
<1>5. CASE UNCHANGED transactions /\ accepted \subseteq accepted'
  BY <1>3, <1>5, Zenon
<1>6. CASE /\ UNCHANGED accepted /\ pc[r] = "add_approval"
           /\ AddApproval(u, call[r].signer)
  <2>1. /\ Written(ApprovedRow(r)) /\ ApprovedRow(r) \in TransactionProposal
        /\ transactions[u].approvals \subseteq ApprovedRow(r).approvals
    BY <1>6, ApprovalIsLegal, Zenon DEF LegalRow
  <2>2. transactions[u].status = "proposed" /\ RowSettled(u, ApprovedRow(r), accepted)
    BY <1>6, ApprovedRowSettled, Zenon DEF AddApproval, Approvable
  <2> QED BY <1>4, <1>6, <2>1, <2>2, Zenon
<1>7. CASE /\ UNCHANGED accepted /\ pc[r] = "mark_signed"
           /\ MarkTransactionSigned(u, signature[r])
  <2>1. /\ Written(SignedRow(r)) /\ SignedRow(r) \in TransactionProposal
        /\ SignedRow(r).status = "signed"
    BY <1>7, SignatureIsLegal, Zenon DEF LegalRow
  <2>2. transactions[u].status = "proposed" /\ RowSettled(u, SignedRow(r), accepted)
    BY <1>7, SignedRowSettled, Zenon DEF MarkTransactionSigned
  <2>3. SignedRow(r).status # "proposed"
    BY <2>1
  <2> QED BY <1>4, <1>7, <2>1, <2>2, <2>3, Zenon
<1>8. CASE /\ UNCHANGED accepted /\ pc[r] = "store_broadcast"
           /\ UpdateTransaction(u, BroadcastCopy(r))
  <2>1. /\ Written(BroadcastCopy(r)) /\ BroadcastCopy(r) \in TransactionProposal
        /\ BroadcastCopy(r).status = "broadcast"
    BY <1>8, BroadcastIsLegal, Zenon DEF LegalRow
  <2>2. HoldsSignedCopy(r) /\ BroadcastCopy(r).status # "proposed"
    BY <1>8, <2>1 DEF HoldsSignedCopy
  <2>3. proposal[r] \in TransactionProposal
    BY <2>2, Zenon DEF UpdateInv, SignedInv
  <2>4. BroadcastCopy(r).signedTransaction = proposal[r].signedTransaction
    BY <2>3, Zenon DEF BroadcastCopy, TransactionProposal
  <2>5. RowSettled(u, BroadcastCopy(r), accepted)
    BY <1>8, BroadcastRowSettled, Zenon
  <2> QED BY <1>4, <1>8, <2>1, <2>2, <2>4, <2>5, Zenon
<1>9. CASE /\ UNCHANGED accepted /\ pc[r] = "fail_transaction"
           /\ UpdateTransaction(u, FailedCopy(r))
  <2>1. /\ Written(FailedCopy(r)) /\ FailedCopy(r) \in TransactionProposal
        /\ FailedCopy(r).status = "failed"
    BY <1>9, FailureIsLegal, Zenon DEF LegalRow
  <2>2. FailedCopy(r).status # "proposed"
    BY <2>1
  <2>3. /\ RowSettled(u, FailedCopy(r), accepted)
        /\ \/ FailedCopy(r).signedTransaction = None
           \/ /\ HoldsSignedCopy(r)
              /\ FailedCopy(r).signedTransaction = proposal[r].signedTransaction
    BY <1>9, FailedRowSettled, Zenon
  <2> QED BY <1>4, <1>9, <2>1, <2>2, <2>3, Zenon
<1> QED BY <1>5, <1>6, <1>7, <1>8, <1>9, HandlerChain, Zenon

(* A handler that holds a signed copy had it before, or reads it now. *)
LEMMA SignedCopiesStay ==
  ASSUME UpdateInv, UpdateInv', NEW r \in Requests, Handle(r), NEW q \in Requests,
         HoldsSignedCopy(q)', q = r => ~GetTransaction(r)
  PROVE  HoldsSignedCopy(q) /\ call'[q] = call[q] /\ proposal'[q] = proposal[q]
<1>1. /\ call'[q].op = "broadcast" /\ HoldsCopy(q)'
  BY Zenon DEF HoldsCopy, HoldsSignedCopy, Failing, UpdateInv, ServerInv, BroadcastPC
<1>2. q = r => ~ApprovalStored(r)
  <2> SUFFICES ASSUME q = r, ApprovalStored(r) PROVE FALSE
    OBVIOUS
  <2>1. /\ pc[r] = "add_approval" /\ ServerInv(r) /\ call' = call
    BY HandlerMoves, ZenonT(60) DEF ApprovalStored, AtCall, UpdateInv
  <2>2. call[q].op = "cosign"
    BY <2>1, Zenon DEF ServerInv, CoSignPC
  <2> QED BY <1>1, <2>1, <2>2
<1>3. HoldsCopy(q) /\ call'[q] = call[q] /\ proposal'[q] = proposal[q]
  BY <1>1, <1>2, HandlerCopies, Zenon
<1>4. call[q].op # "cosign" /\ ServerInv(q)
  BY <1>1, <1>3 DEF UpdateInv
<1>5. ~HoldsOpenCopy(q)
  BY <1>4, Zenon DEF HoldsOpenCopy, Failing, ServerInv, CoSignPC
<1> QED BY <1>3, <1>5, Zenon DEF HoldsCopy

(* What GetTransaction reads to broadcast it. *)
LEMMA ReadCopy ==
  ASSUME UpdateInv, NEW r \in Requests, GetTransaction(r), pc'[r] # "done"
  PROVE  /\ call[r].tx \in Txns /\ Stored(call[r].tx) /\ pc'[r] = "submit"
         /\ transactions[call[r].tx].status = "signed"
         /\ transactions[call[r].tx].signedTransaction # None
         /\ proposal'[r] = transactions[call[r].tx]
         /\ UNCHANGED <<transactions, accepted, call>>
<1>1. /\ pc \in [Requests -> {"idle", "done"} \cup InFlightPC]
      /\ proposal \in [Requests -> TransactionProposal \cup {None}]
      /\ ServerInv(r)
  BY ZenonT(60) DEF UpdateInv, UpdateTypeOK, TypeOK
<1>2. ASSUME NEW c, Answer(r, c) PROVE FALSE
  BY <1>1, <1>2, Zenon DEF Answer
<1>3. pc[r] = "get_transaction" /\ UNCHANGED <<transactions, accepted>>
  BY Zenon DEF GetTransaction, AtCall, store
<1>4. call[r].tx \in Txns
  BY <1>1, <1>3, HandlerCall, Zenon DEF InFlight, InFlightPC, BroadcastPC
<1>5. /\ Stored(call[r].tx) /\ Broadcastable(transactions[call[r].tx])
      /\ proposal' = [proposal EXCEPT ![r] = transactions[call[r].tx]]
      /\ Goto(r, "submit")
  BY <1>2, ZenonT(60) DEF GetTransaction
<1> QED BY <1>1, <1>3, <1>4, <1>5, Zenon DEF Goto, Broadcastable

LEMMA ChainStaysSettled ==
  ASSUME UpdateInv, UpdateInv', SettledInv, NEW r \in Requests, Handle(r)
  PROVE  (\A p \in accepted : PayloadSettled(p))' /\ OnePayloadPerProposal'
<1>1. /\ accepted \subseteq Payload
      /\ \A p \in accepted : PayloadSettled(p)
      /\ OnePayloadPerProposal
  BY ZenonT(60) DEF UpdateInv, UpdateTypeOK, TypeOK, SettledInv
<1>2. ASSUME NEW p \in accepted PROVE PayloadSettled(p)'
  <2>1. p.tx \in Txns
    BY <1>1, Zenon DEF Payload
  <2>2. /\ Stored(p.tx)' /\ transactions'[p.tx].status # "proposed"
        /\ transactions'[p.tx].signedTransaction \in {None, p}
    BY <2>1, RowsStaySettled, Zenon
  <2>3. ASSUME NEW q \in Requests, HoldsSignedCopy(q)', call'[q].tx = p.tx
        PROVE  proposal'[q].signedTransaction = p
    <3>1. CASE q = r /\ GetTransaction(r)
      <4>1. pc'[r] # "done"
        BY <2>3, <3>1 DEF HoldsSignedCopy, Failing
      <4>2. /\ proposal'[r] = transactions[p.tx] /\ transactions' = transactions
            /\ transactions[p.tx].signedTransaction # None
        BY <2>3, <3>1, <4>1, ReadCopy, ZenonT(60)
      <4> QED BY <2>2, <3>1, <4>2, Zenon
    <3>2. CASE ~(q = r /\ GetTransaction(r))
      <4>1. HoldsSignedCopy(q) /\ call'[q] = call[q] /\ proposal'[q] = proposal[q]
        BY <2>3, <3>2, SignedCopiesStay, Zenon
      <4>2. \A c \in Requests : HoldsSignedCopy(c) /\ call[c].tx = p.tx =>
              proposal[c].signedTransaction = p
        BY <1>1, Zenon DEF PayloadSettled
      <4> QED BY <2>3, <4>1, <4>2, Zenon
    <3> QED BY <3>1, <3>2, Zenon
  <2> QED BY <2>2, <2>3, Zenon DEF PayloadSettled
<1>3. CASE accepted' = accepted
  BY <1>1, <1>2, <1>3, Zenon DEF OnePayloadPerProposal
<1>4. CASE /\ UNCHANGED transactions /\ pc[r] = "submit" /\ ~GetTransaction(r)
           /\ accepted' = accepted \cup {proposal[r].signedTransaction}
  <2> DEFINE x == proposal[r].signedTransaction
             t == call[r].tx
  <2>1. HoldsSignedCopy(r) /\ SignedInv(r) /\ CopySettled(r) /\ \A q \in Requests : CopiesAgree(q, r)
    BY <1>4, Zenon DEF HoldsSignedCopy, UpdateInv, SettledInv
  <2>2. /\ x # None /\ Stored(t) /\ transactions[t].status # "proposed"
        /\ transactions[t].signedTransaction \in {None, x}
    BY <2>1, Zenon DEF SignedInv
  <2>3. x.tx = t
    BY <2>1, <2>2, Zenon DEF CopySettled, RowSettled
  <2>4. ASSUME NEW p \in accepted, p.tx = t PROVE x = p
    BY <1>1, <2>1, <2>4, Zenon DEF PayloadSettled
  <2>5. ASSUME NEW q \in Requests, HoldsSignedCopy(q)', call'[q].tx = t
        PROVE  proposal'[q].signedTransaction = x
    <3>1. HoldsSignedCopy(q) /\ call'[q] = call[q] /\ proposal'[q] = proposal[q]
      BY <1>4, <2>5, SignedCopiesStay, Zenon
    <3> QED BY <2>1, <2>5, <3>1, Zenon DEF CopiesAgree
  <2>6. Stored(t)' = Stored(t) /\ transactions'[t] = transactions[t]
    BY <1>4, HandlerMoves, Zenon DEF Stored
  <2> HIDE DEF x
  <2>7. ASSUME NEW p, p = x PROVE PayloadSettled(p)'
    BY <2>2, <2>3, <2>5, <2>6, <2>7, HandlerMoves, Zenon DEF PayloadSettled, Stored
  <2>8. accepted' = accepted \cup {x}
    BY <1>4, Zenon DEF x
  <2>9. OnePayloadPerProposal'
    BY <1>1, <2>3, <2>4, <2>8, Zenon DEF OnePayloadPerProposal
  <2>10. ASSUME NEW p \in accepted' PROVE PayloadSettled(p)'
    BY <1>2, <2>7, <2>8, Zenon
  <2> QED BY <2>9, <2>10, Zenon
<1> QED BY <1>3, <1>4, HandlerChain, Zenon

(* Where the calls that matter here are reached from. *)
LEMMA HandlerLabels ==
  ASSUME UpdateInv, NEW r \in Requests, Handle(r)
  PROVE  /\ pc'[r] \in CoSignPC => pc[r] \in CoSignPC
         /\ pc'[r] = "mark_signed" => SignTransaction(r)
         /\ pc'[r] = "store_broadcast" => ChainAccepts(r)
         /\ pc[r] = "audit_approved" =>
              pc'[r] = "done" \/ TwoSigners(proposal[r].approvals)
<1>0. ASSUME NEW c, Answer(r, c) PROVE pc'[r] = "done"
  BY <1>0 DEF Answer, UpdateInv, UpdateTypeOK, TypeOK
<1>1. ASSUME NEW l, Goto(r, l) PROVE pc'[r] = l
  BY <1>1 DEF Goto, UpdateInv, UpdateTypeOK, TypeOK
<1>2. CASE \E c : Answer(r, c)
  <2>1. pc'[r] = "done"
    BY <1>0, <1>2, Zenon
  <2> QED BY <2>1 DEF CoSignPC
<1>3. CASE ApprovalStored(r) /\ Goto(r, "audit_approved")
  <2>1. pc[r] = "add_approval" /\ pc'[r] = "audit_approved"
    BY <1>1, <1>3, ZenonT(60) DEF ApprovalStored, AtCall
  <2> QED BY <2>1 DEF CoSignPC
<1>4. CASE ApprovalAudited(r) /\ Goto(r, "sign") /\ QuorumReached(proposal[r])
  <2>1. pc[r] = "audit_approved" /\ pc'[r] = "sign"
    BY <1>1, <1>4, Zenon DEF ApprovalAudited, AtCall
  <2>2. Cardinality(proposal[r].approvals) >= 2
    BY <1>4, Zenon DEF QuorumReached, CoSignQuorum, ApprovalsCount
  <2>3. TwoSigners(proposal[r].approvals)
    BY <2>2, CountOfTwo, Zenon
  <2> QED BY <2>1, <2>3 DEF CoSignPC
<1>5. CASE SignTransaction(r)
  <2>1. pc[r] = "sign" /\ pc'[r] = "mark_signed"
    BY <1>1, <1>5, Zenon DEF SignTransaction, AtCall
  <2> QED BY <1>5, <2>1 DEF CoSignPC
<1>6. CASE SignatureStored(r) /\ Goto(r, "audit_signed")
  <2>1. pc[r] = "mark_signed" /\ pc'[r] = "audit_signed"
    BY <1>1, <1>6, ZenonT(60) DEF SignatureStored, AtCall
  <2> QED BY <2>1 DEF CoSignPC
<1>7. CASE ChainAccepts(r)
  <2>1. pc[r] = "submit" /\ pc'[r] = "store_broadcast"
    BY <1>1, <1>7, Zenon DEF ChainAccepts, AtCall
  <2> QED BY <1>7, <2>1 DEF CoSignPC
<1>8. CASE /\ pc[r] # "audit_approved"
           /\ \E l \in {"fail_transaction", "audit_failed", "submit", "audit_broadcast"} : Goto(r, l)
  <2>1. pc'[r] \in {"fail_transaction", "audit_failed", "submit", "audit_broadcast"}
    BY <1>1, <1>8, Zenon
  <2> QED BY <1>8, <2>1 DEF CoSignPC
<1>9. CASE SignFails(r) \/ MaterialMissing(r) \/ ChainRefuses(r) \/ ChainAnswerLost(r)
  <2>1. pc[r] \in {"sign", "submit"} /\ Goto(r, "fail_transaction")
    BY <1>9, Zenon DEF SignFails, MaterialMissing, ChainRefuses, ChainAnswerLost, AtCall
  <2>2. pc[r] # "audit_approved"
    BY <2>1
  <2> QED BY <1>8, <2>1, <2>2, Zenon
<1>10. CASE GetTransaction(r)
  <2>1. pc[r] = "get_transaction" /\ (Goto(r, "submit") \/ \E c : Answer(r, c))
    BY <1>10, ZenonT(60) DEF GetTransaction, AtCall
  <2>2. pc[r] # "audit_approved"
    BY <2>1
  <2> QED BY <1>2, <1>8, <2>1, <2>2, Zenon
<1>11. CASE BroadcastStored(r)
  <2>1. pc[r] = "store_broadcast" /\ (Goto(r, "audit_broadcast") \/ \E c : Answer(r, c))
    BY <1>11, ZenonT(60) DEF BroadcastStored, AtCall
  <2>2. pc[r] # "audit_approved"
    BY <2>1
  <2> QED BY <1>2, <1>8, <2>1, <2>2, Zenon
<1>12. CASE failTransaction(r)
  <2>1. pc[r] = "fail_transaction" /\ Goto(r, "audit_failed")
    BY <1>12, Zenon DEF failTransaction
  <2>2. pc[r] # "audit_approved"
    BY <2>1
  <2> QED BY <1>8, <2>1, <2>2, Zenon
<1>13. CASE \/ ApprovalRefused(r) \/ SignatureDropped(r) \/ SignatureAudited(r)
            \/ BroadcastAudited(r) \/ FailureAudited(r) \/ StoreCallFails(r)
  <2>1. \E c : Answer(r, c)
    BY <1>13, ZenonT(60) DEF ApprovalRefused, SignatureDropped, SignatureAudited,
       BroadcastAudited, FailureAudited, StoreCallFails
  <2> QED BY <1>2, <2>1, Zenon
<1>14. CASE ApprovalStored(r) \/ ApprovalAudited(r) \/ SignatureStored(r)
  <2>1. \/ \E c : Answer(r, c)
        \/ ApprovalStored(r) /\ Goto(r, "audit_approved")
        \/ ApprovalAudited(r) /\ Goto(r, "sign") /\ QuorumReached(proposal[r])
        \/ SignatureStored(r) /\ Goto(r, "audit_signed")
    <3>1. ASSUME ApprovalStored(r) PROVE Goto(r, "audit_approved") \/ \E c : Answer(r, c)
      BY <3>1, ZenonT(60) DEF ApprovalStored
    <3>2. ASSUME ApprovalAudited(r)
          PROVE  (Goto(r, "sign") /\ QuorumReached(proposal[r])) \/ \E c : Answer(r, c)
      BY <3>2, ZenonT(60) DEF ApprovalAudited
    <3>3. ASSUME SignatureStored(r) PROVE Goto(r, "audit_signed") \/ \E c : Answer(r, c)
      BY <3>3, ZenonT(60) DEF SignatureStored
    <3> QED BY <1>14, <3>1, <3>2, <3>3, Zenon
  <2> QED BY <1>2, <1>3, <1>4, <1>6, <2>1, Zenon
<1> QED BY <1>5, <1>7, <1>9, <1>10, <1>11, <1>12, <1>13, <1>14, Zenon
        DEF Handle, HandlerStep, CoSignStep, BroadcastStep

(* A signature is its request's own. *)
LEMMA SignaturesStay ==
  ASSUME UpdateInv, NEW r \in Requests, Handle(r), NEW q \in Requests, q # r
  PROVE  signature'[q] = signature[q]
<1>1. signature \in [Requests -> Payload \cup {None}]
  BY ZenonT(60) DEF UpdateInv, UpdateTypeOK, TypeOK
<1>2. \/ UNCHANGED signature \/ \E c : Answer(r, c)
      \/ \E s : signature' = [signature EXCEPT ![r] = s]
  <2>1. CASE \/ SignFails(r) \/ MaterialMissing(r) \/ ChainAccepts(r) \/ ChainRefuses(r)
             \/ ChainAnswerLost(r) \/ failTransaction(r)
    BY <2>1, Zenon DEF SignFails, MaterialMissing, ChainAccepts, ChainRefuses,
       ChainAnswerLost, failTransaction, locals
  <2>2. CASE \/ ApprovalRefused(r) \/ SignatureDropped(r) \/ SignatureAudited(r)
             \/ BroadcastAudited(r) \/ FailureAudited(r) \/ StoreCallFails(r)
    <3>1. \E c : Answer(r, c)
      BY <2>2, ZenonT(60) DEF ApprovalRefused, SignatureDropped, SignatureAudited,
         BroadcastAudited, FailureAudited, StoreCallFails
    <3> QED BY <3>1, Zenon
  <2>3. CASE \/ ApprovalStored(r) \/ ApprovalAudited(r) \/ SignatureStored(r)
             \/ GetTransaction(r) \/ BroadcastStored(r)
    <3>1. UNCHANGED signature \/ \E c : Answer(r, c)
      BY <2>3, ZenonT(60) DEF ApprovalStored, ApprovalAudited, SignatureStored, GetTransaction,
         BroadcastStored, locals
    <3> QED BY <3>1, Zenon
  <2>4. CASE SignTransaction(r)
    BY <2>4, Zenon DEF SignTransaction
  <2> QED BY <2>1, <2>2, <2>3, <2>4, Zenon DEF Handle, HandlerStep, CoSignStep, BroadcastStep
<1>3. ASSUME NEW c, Answer(r, c) PROVE signature'[q] = signature[q]
  BY <1>1, <1>3, Zenon DEF Answer
<1> QED BY <1>1, <1>2, <1>3, Zenon

LEMMA CopiesStaySettled ==
  ASSUME UpdateInv, SettledInv, NEW r \in Requests, Handle(r), NEW q \in Requests
  PROVE  CopySettled(q)'
<1> SUFFICES ASSUME HoldsCopy(q)'
             PROVE  /\ RowSettled(call[q].tx, proposal'[q], accepted')
                    /\ pc'[q] # "audit_approved" => TwoSigners(proposal'[q].approvals)
                    /\ transactions'[call[q].tx].status = "proposed" =>
                         proposal'[q].approvals \subseteq transactions'[call[q].tx].approvals
  BY HandlerMoves, Zenon DEF CopySettled, HoldsCopy
<1>1. /\ pc \in [Requests -> {"idle", "done"} \cup InFlightPC]
      /\ proposal \in [Requests -> TransactionProposal \cup {None}]
      /\ transactions \in [Txns -> TransactionProposal \cup {None}]
      /\ ServerInv(r)
  BY ZenonT(60) DEF UpdateInv, UpdateTypeOK, TypeOK, StoreTypeOK
<1>2. pc'[q] # "done"
  BY DEF HoldsCopy, HoldsOpenCopy, HoldsSignedCopy, Failing
<1>3. CASE q = r /\ ApprovalStored(r)
  <2>1. ~\E c : Answer(r, c)
    BY <1>1, <1>2, <1>3, Zenon DEF Answer
  <2>2. /\ pc[r] = "add_approval" /\ Goto(r, "audit_approved")
        /\ proposal' = [proposal EXCEPT ![r] = transactions'[call[r].tx]]
    BY <1>3, <2>1, ZenonT(60) DEF ApprovalStored, AtCall
  <2>3. pc'[r] = "audit_approved" /\ proposal'[r] = transactions'[call[r].tx]
    BY <1>1, <2>2, Zenon DEF Goto
  <2>4. call[r].tx \in Txns
    BY <1>1, <2>2, HandlerCall, Zenon DEF InFlight, InFlightPC, CoSignPC
  <2>5. Stored(call[r].tx)'
    <3>1. /\ transactions' = [transactions EXCEPT ![call[r].tx] = ApprovedRow(r)]
          /\ ApprovedRow(r) \in TransactionProposal
      BY <1>3, ApprovalIsLegal, Zenon DEF ApprovalStored, AtCall, LegalRow
    <3>2. transactions'[call[r].tx] = ApprovedRow(r)
      BY <1>1, <2>4, <3>1, Zenon
    <3>3. transactions'[call[r].tx] # None /\ call' = call
      BY <3>1, <3>2, HandlerMoves, NoneAssumption, Zenon
    <3> QED BY <3>3, Zenon DEF Stored
  <2>6. \A t \in Txns : Stored(t)' => RowSettled(t, transactions'[t], accepted')
    BY RowsStaySettled, Zenon
  <2>7. RowSettled(call[r].tx, transactions'[call[r].tx], accepted')
    BY <2>4, <2>5, <2>6, HandlerMoves, Zenon DEF Stored
  <2> QED BY <1>3, <2>3, <2>7, Zenon
<1>4. CASE q = r /\ GetTransaction(r)
  <2>1. /\ call[r].tx \in Txns /\ Stored(call[r].tx)
        /\ transactions[call[r].tx].status = "signed"
        /\ proposal'[r] = transactions[call[r].tx]
        /\ UNCHANGED <<transactions, accepted, call>>
    BY <1>2, <1>4, ReadCopy, Zenon
  <2>2. RowSettled(call[r].tx, transactions[call[r].tx], accepted)
    BY <2>1, Zenon DEF SettledInv
  <2>3. transactions[call[r].tx].status # "proposed"
    BY <2>1
  <2>4. TwoSigners(transactions[call[r].tx].approvals)
    BY <2>2, <2>3, Zenon DEF RowSettled
  <2> QED BY <1>4, <2>1, <2>2, <2>3, <2>4, Zenon
<1>5. CASE q = r => ~GetTransaction(r) /\ ~ApprovalStored(r)
  <2>1. HoldsCopy(q) /\ proposal'[q] = proposal[q]
    BY <1>5, HandlerCopies, Zenon
  <2>2. /\ RowSettled(call[q].tx, proposal[q], accepted)
        /\ pc[q] # "audit_approved" => TwoSigners(proposal[q].approvals)
        /\ transactions[call[q].tx].status = "proposed" =>
             proposal[q].approvals \subseteq transactions[call[q].tx].approvals
    BY <2>1, Zenon DEF SettledInv, CopySettled, HoldsCopy
  <2>3. accepted \subseteq accepted'
    BY HandlerChain, Zenon
  <2>4. RowSettled(call[q].tx, proposal[q], accepted')
    BY <2>2, <2>3, SettledGrows, Zenon
  <2>5. call[q].tx \in Txns
    BY <2>1, CopyIsInFlight, HandlerCall, Zenon DEF HoldsCopy, UpdateInv
  <2>6. ASSUME pc'[q] # "audit_approved" PROVE TwoSigners(proposal[q].approvals)
    BY <1>2, <2>2, <2>6, HandlerLabels, HandlerMoves, Zenon
  <2> QED BY <2>1, <2>2, <2>4, <2>5, <2>6, RowsStaySettled, Zenon
<1> QED BY <1>3, <1>4, <1>5, Zenon

LEMMA HandlersStaySettled ==
  ASSUME UpdateInv, SettledInv, NEW r \in Requests, Handle(r), NEW q \in Requests
  PROVE  HandlerSettled(q)'
<1>1. /\ HandlerSettled(q) /\ call' = call /\ accepted \subseteq accepted'
  BY HandlerMoves, HandlerChain, Zenon DEF SettledInv
<1>2. CASE q # r
  <2>1. pc'[q] = pc[q] /\ proposal'[q] = proposal[q] /\ signature'[q] = signature[q]
    BY <1>2, HandlerMoves, SignaturesStay, Zenon
  <2> QED BY <1>1, <2>1, Zenon DEF HandlerSettled
<1>3. CASE q = r
  <2>1. pc'[r] \in CoSignPC => signerAllowed(call[r].signer)
    BY <1>1, <1>3, HandlerLabels, Zenon DEF HandlerSettled
  <2>2. ASSUME pc'[r] = "mark_signed" PROVE signature'[r].tx = call[r].tx
    <3>1. SignTransaction(r)
      BY <2>2, HandlerLabels, Zenon
    <3>2. signature'[r] \in {signEVMTransaction(call[r].tx), [tx |-> call[r].tx, entropy |-> r]}
      BY <3>1 DEF SignTransaction, UpdateInv, UpdateTypeOK, TypeOK
    <3> QED BY <3>2 DEF signEVMTransaction
  <2>3. ASSUME pc'[r] = "store_broadcast" PROVE proposal'[r].signedTransaction \in accepted'
    <3>1. ChainAccepts(r)
      BY <2>3, HandlerLabels, Zenon
    <3> QED BY <3>1, Zenon DEF ChainAccepts, locals
  <2> QED BY <1>1, <1>3, <2>1, <2>2, <2>3, Zenon DEF HandlerSettled
<1> QED BY <1>2, <1>3

(* A step that leaves rows and chain alone, and each request as it was or  *)
(* without a copy.                                                         *)
LEMMA QuietStaysSettled ==
  ASSUME SettledInv, UNCHANGED <<transactions, accepted>>,
         \A q \in Requests :
           \/ /\ pc'[q] = pc[q] /\ call'[q] = call[q]
              /\ proposal'[q] = proposal[q] /\ signature'[q] = signature[q]
           \/ pc'[q] = "add_approval" /\ signerAllowed(call'[q].signer)
           \/ pc'[q] \in {"done", "get_transaction"}
  PROVE  SettledInv'
<1>1. ASSUME NEW q \in Requests
      PROVE  /\ CopySettled(q)' /\ HandlerSettled(q)'
             /\ HoldsSignedCopy(q)' => /\ HoldsSignedCopy(q) /\ call'[q] = call[q]
                                       /\ proposal'[q] = proposal[q]
  <2>1. CASE /\ pc'[q] = pc[q] /\ call'[q] = call[q]
             /\ proposal'[q] = proposal[q] /\ signature'[q] = signature[q]
    <3>1. CopySettled(q) /\ HandlerSettled(q)
      BY Zenon DEF SettledInv
    <3>2. CopySettled(q)'
      BY <2>1, <3>1, Zenon DEF CopySettled, HoldsOpenCopy, HoldsSignedCopy, Failing
    <3>3. HandlerSettled(q)'
      BY <2>1, <3>1, Zenon DEF HandlerSettled
    <3> QED BY <2>1, <3>2, <3>3, Zenon DEF HoldsSignedCopy, Failing
  <2>2. CASE \/ pc'[q] = "add_approval" /\ signerAllowed(call'[q].signer)
             \/ pc'[q] \in {"done", "get_transaction"}
    <3>1. ~HoldsOpenCopy(q)' /\ ~HoldsSignedCopy(q)'
      BY <2>2 DEF HoldsOpenCopy, HoldsSignedCopy, Failing
    <3>2. HandlerSettled(q)'
      <4>1. pc'[q] # "mark_signed" /\ pc'[q] # "store_broadcast"
        BY <2>2
      <4>2. pc'[q] \in CoSignPC => signerAllowed(call'[q].signer)
        BY <2>2 DEF CoSignPC
      <4> QED BY <4>1, <4>2, Zenon DEF HandlerSettled
    <3> QED BY <3>1, <3>2, Zenon DEF CopySettled
  <2> QED BY <2>1, <2>2, Zenon
<1>2. \A t \in Txns : Stored(t)' => RowSettled(t, transactions'[t], accepted')
  BY Zenon DEF SettledInv, Stored
<1>3. ASSUME NEW p \in accepted PROVE PayloadSettled(p)'
  <2>1. PayloadSettled(p)
    BY <1>3, Zenon DEF SettledInv
  <2>2. /\ Stored(p.tx)' /\ transactions'[p.tx].status # "proposed"
        /\ transactions'[p.tx].signedTransaction \in {None, p}
    BY <2>1, Zenon DEF PayloadSettled, Stored
  <2>3. ASSUME NEW r \in Requests, HoldsSignedCopy(r)', call'[r].tx = p.tx
        PROVE  proposal'[r].signedTransaction = p
    BY <1>1, <2>1, <2>3, Zenon DEF PayloadSettled
  <2> QED BY <2>2, <2>3, Zenon DEF PayloadSettled
<1>4. OnePayloadPerProposal'
  BY Zenon DEF SettledInv, OnePayloadPerProposal
<1> QED BY <1>1, <1>2, <1>3, <1>4, Zenon DEF SettledInv

LEMMA NextSettled ==
  ASSUME UpdateInv, UpdateInv', SettledInv, [RolloutNext]_rolloutVars
  PROVE  SettledInv'
<1>1. CASE UNCHANGED rolloutVars
  <2>1. UNCHANGED <<transactions, accepted, pc, call, proposal, signature>>
    BY <1>1, Zenon DEF rolloutVars, vars, store, handlers
  <2> QED BY <2>1, QuietStaysSettled, Zenon
<1>2. ASSUME NEW r \in Requests, Arrives(r) PROVE SettledInv'
  <2>1. UNCHANGED <<transactions, accepted, proposal, signature>>
    BY <1>2, ZenonT(30) DEF Arrives, CoSign, Broadcast, store, locals
  <2>2. /\ \/ pc'[r] = "add_approval" /\ signerAllowed(call'[r].signer)
           \/ pc'[r] \in {"done", "get_transaction"}
        /\ \A q \in Requests : q # r => pc'[q] = pc[q] /\ call'[q] = call[q]
    BY <1>2 DEF Arrives, CoSign, Broadcast, UpdateInv, UpdateTypeOK, TypeOK
  <2> QED BY <2>1, <2>2, QuietStaysSettled, Zenon
<1>3. ASSUME NEW r \in Requests, Handle(r) PROVE SettledInv'
  <2>1. \A t \in Txns : Stored(t)' => RowSettled(t, transactions'[t], accepted')
    BY <1>3, RowsStaySettled, Zenon
  <2> QED BY <1>3, <2>1, CopiesStaySettled, HandlersStaySettled, ChainStaysSettled, Zenon
          DEF SettledInv
<1>4. CASE OpenStore \/ ListenAndServe \/ Signal
  <2>1. UNCHANGED <<transactions, accepted, pc, call, proposal, signature>>
    BY <1>4, Zenon
       DEF OpenStore, ListenAndServe, Signal, RunMigrations, vars, store, handlers
  <2> QED BY <2>1, QuietStaysSettled, Zenon
<1>5. CASE ShutdownReturns \/ GraceExpires
  <2>1. PICK end : OldExits(end)
    BY <1>5, Zenon DEF ShutdownReturns, GraceExpires
  <2>2. UNCHANGED <<transactions, accepted, call>>
    BY <2>1, Zenon DEF OldExits, store
  <2>3. ASSUME NEW q \in Requests
        PROVE  \/ pc'[q] = pc[q] /\ proposal'[q] = proposal[q] /\ signature'[q] = signature[q]
               \/ pc'[q] = "done"
    BY <2>1, Zenon DEF OldExits
  <2> QED BY <2>2, <2>3, QuietStaysSettled, Zenon
<1> QED BY <1>1, <1>2, <1>3, <1>4, <1>5, Zenon DEF RolloutNext

LEMMA InitSettled == RolloutInit => SettledInv
<1> SUFFICES ASSUME RolloutInit PROVE SettledInv
  OBVIOUS
<1>1. ASSUME NEW t \in Txns, Stored(t) PROVE RowSettled(t, transactions[t], accepted)
  <2>1. transactions[t] = NewProposal
    BY <1>1, Zenon DEF RolloutInit, Init, Stored
  <2>2. /\ NewProposal.status = "proposed" /\ NewProposal.signedTransaction = None
        /\ NewProposal.approvals = {}
    BY DEF NewProposal
  <2>3. NewProposal.status # "broadcast"
    BY <2>2
  <2> QED BY <2>1, <2>2, <2>3, Zenon DEF RowSettled
<1>2. ASSUME NEW r \in Requests PROVE CopySettled(r) /\ HandlerSettled(r)
  <2>1. pc[r] = "idle"
    BY Zenon DEF RolloutInit, Init
  <2>2. ~HoldsOpenCopy(r) /\ ~HoldsSignedCopy(r)
    BY <2>1 DEF HoldsOpenCopy, HoldsSignedCopy, Failing
  <2>3. HandlerSettled(r)
    BY <2>1 DEF HandlerSettled, CoSignPC
  <2> QED BY <2>2, <2>3, Zenon DEF CopySettled
<1>3. accepted = {}
  BY Zenon DEF RolloutInit, Init
<1> QED BY <1>1, <1>2, <1>3, Zenon DEF SettledInv, OnePayloadPerProposal

(* Through the whole update, crashes and failing calls included, rows,     *)
(* copies and chain stay consistent.                                       *)
THEOREM UpdateSettles == RolloutSpec => []SettledInv
<1>1. UpdateInv /\ UpdateInv' /\ SettledInv /\ [RolloutNext]_rolloutVars => SettledInv'
  BY NextSettled, Zenon
<1> QED BY <1>1, InitSettled, UpdateInvariance, PTL DEF RolloutSpec

(* Although a handler without the key may erase a payload that is already  *)
(* on the chain, its proposal never reaches the chain with another one.    *)
THEOREM SinglePayloadThroughUpdate == RolloutSpec => []OnePayloadPerProposal
<1>1. SettledInv => OnePayloadPerProposal
  BY Zenon DEF SettledInv
<1> QED BY <1>1, UpdateSettles, PTL

(* No proposal leaves "proposed" without the approvals of two allowed      *)
(* signers, whichever process they reached and whichever copy was written  *)
(* back.                                                                   *)
THEOREM QuorumThroughUpdate == RolloutSpec => []DecidedByTwo
<1>1. SettledInv => DecidedByTwo
  BY Zenon DEF SettledInv, RowSettled, DecidedByTwo
<1> QED BY <1>1, UpdateSettles, PTL

(* A row that says "broadcast" has a payload that the chain took, through  *)
(* the whole update.                                                       *)
THEOREM BroadcastThroughUpdate == RolloutSpec => []BroadcastWasAccepted
<1>1. SettledInv => BroadcastWasAccepted
  BY Zenon DEF SettledInv, RowSettled, BroadcastWasAccepted
<1> QED BY <1>1, UpdateSettles, PTL
=============================================================================
