------------------------- MODULE PostgresRowsProofs -------------------------
(***************************************************************************)
(* What PostgresStore does to a stored proposal is what the atomic methods *)
(* of CustodyStore do, for any number of proposals, signers and calls.     *)
(*                                                                         *)
(* QuietStep covers the steps that write nothing, WriteStep the three that *)
(* write a row.  A call that holds a lock is not disturbed by either: the  *)
(* row it has decided on is the one row that nobody else may write.        *)
(***************************************************************************)
EXTENDS PostgresRows, TLAPS

(* Calls other than c are left alone. *)
OthersUnchanged(c) ==
  \A q \in Calls \ {c} :
    /\ pc'[q] = pc[q] /\ call'[q] = call[q] /\ copy'[q] = copy[q]
    /\ reply'[q] = reply[q] /\ orphaned'[q] = orphaned[q]

(* The part of the invariant about one call. *)
LEMMA OwnInv ==
  ASSUME IndInv, NEW c \in Calls
  PROVE  CallInv(c)
  BY Zenon DEF IndInv

(* What is None and what is not. *)
LEMMA NoneIsNone ==
  /\ None \notin Calls /\ None \notin Rows!TransactionProposal
  /\ None \notin {"rollback", "commit", "ok", "refused", "not_found", "error"}
  BY RowsAssumption, Zenon DEF Rows!NoneAssumption

(* The arguments of a call, by method. *)
LEMMA CallShape ==
  ASSUME NEW a \in Call
  PROVE  /\ a.tx \in Txns
         /\ a.op \in {"approve", "sign", "update"}
         /\ a.op = "approve" => a.signer \in Signers
         /\ a.op = "update" => a.row \in Rows!TransactionProposal
  BY Zenon DEF Call

(* What Go makes of a row is a row; only MarkTransactionSigned changes its *)
(* status.                                                                 *)
LEMMA ChangedShape ==
  ASSUME NEW c \in Calls, call[c] \in Call, call[c].op \in {"approve", "sign"},
         NEW row \in Rows!TransactionProposal
  PROVE  /\ Changed(c, row) \in Rows!TransactionProposal
         /\ call[c].op = "approve" => Changed(c, row).status = row.status
         /\ call[c].op = "sign" => Changed(c, row).status = "signed"
<1>1. CASE call[c].op = "approve"
  <2>1. row.approvals \cup {call[c].signer} \in SUBSET Signers
    BY <1>1, CallShape DEF Rows!TransactionProposal
  <2> QED BY <1>1, <2>1, Zenon DEF Changed, Rows!TransactionProposal
<1>2. CASE call[c].op = "sign"
  <2>1. payload(c) \in Rows!Payload
    BY CallShape, Zenon DEF payload, Rows!Payload
  <2> QED BY <1>2, <2>1, Zenon
             DEF Changed, Rows!TransactionProposal, Rows!TransactionStatus
<1> QED BY <1>1, <1>2, Zenon

(* Rows may only move away from "proposed", and are never deleted. *)
Forward ==
  \A t \in Txns : Rows!Stored(t) =>
    /\ Rows!Stored(t)'
    /\ proposal'[t].status = "proposed" => proposal[t].status = "proposed"

(* A call keeps its invariant while its locals and its row stay.           *)
LEMMA OtherCall ==
  ASSUME IndInv, NEW q \in Calls, Forward,
         pc'[q] = pc[q], call'[q] = call[q], copy'[q] = copy[q],
         reply'[q] = reply[q], orphaned'[q] = orphaned[q],
         HoldsRow(q) => LET t == call[q].tx
                        IN  owner'[t] = owner[t] /\ proposal'[t] = proposal[t]
  PROVE  CallInv(q)'
<1>1. HoldsRow(q)' = HoldsRow(q)
  BY Zenon DEF HoldsRow
<1>2. HoldsRow(q) => Decided(q)'
  <2>1. HoldsRow(q) => Decided(q)
    BY OwnInv, Zenon DEF CallInv
  <2> QED BY <2>1, ZenonT(60) DEF Decided, Refused, Changed, payload, Rows!Stored
<1>3. pc[q] # "idle" => call[q].tx \in Txns
  BY OwnInv, CallShape, Zenon DEF CallInv
<1>4. pc[q] = "update" => Rows!Stored(call[q].tx)'
  BY <1>3, OwnInv, Zenon DEF CallInv, Forward, Rows!Stored
<1>5. reply[q] = "ok" /\ call[q].op = "sign" =>
        Rows!Stored(call[q].tx)' /\ proposal'[call[q].tx].status # "proposed"
  BY <1>3, OwnInv, NoneIsNone, Zenon DEF CallInv, Forward, Rows!Stored
<1>6. Call' = Call
  BY Zenon
     DEF Call, Rows!TransactionProposal, Rows!Payload, Rows!Hash, Rows!TransactionStatus
<1> QED BY <1>1, <1>2, <1>4, <1>5, <1>6, OwnInv, Zenon DEF CallInv, Rows!Stored

(* A step of c that writes no row.  It may take or give back a lock. *)
LEMMA QuietStep ==
  ASSUME IndInv, TypeOK', NEW c \in Calls, OthersUnchanged(c), UNCHANGED table,
         \A t \in Txns : owner'[t] = owner[t] \/ owner[t] \in {None, c},
         CallInv(c)', reply'[c] = "ok" => reply[c] = "ok" /\ call'[c] = call[c]
  PROVE  IndInv'
<1>1. Forward
  BY Zenon DEF Forward, table, Rows!Stored
<1>2. ASSUME NEW q \in Calls PROVE CallInv(q)'
  <2>1. CASE q = c
    BY <2>1, Zenon
  <2>2. CASE q # c
    <3>1. /\ pc'[q] = pc[q] /\ call'[q] = call[q] /\ copy'[q] = copy[q]
          /\ reply'[q] = reply[q] /\ orphaned'[q] = orphaned[q]
      BY <2>2, Zenon DEF OthersUnchanged
    <3>2. HoldsRow(q) => call[q].tx \in Txns /\ owner[call[q].tx] = q
      BY OwnInv, CallShape, Zenon DEF CallInv, HoldsRow, Decided
    <3>3. HoldsRow(q) => owner'[call[q].tx] = owner[call[q].tx]
      BY <2>2, <3>2, NoneIsNone, Zenon
    <3> QED BY <1>1, <3>1, <3>3, OtherCall, Zenon DEF table
  <2> QED BY <2>1, <2>2, Zenon
<1>3. StatusColumnAgrees'
  BY Zenon DEF IndInv, StatusColumnAgrees, table, Rows!Stored
<1>4. \A q \in Calls : reply'[q] = "ok" => reply[q] = "ok" /\ call'[q] = call[q]
  BY Zenon DEF OthersUnchanged
<1>5. SignedOnce'
  BY <1>4 DEF IndInv, SignedOnce
<1> QED BY <1>2, <1>3, <1>5, Zenon DEF IndInv

(* A step of c that writes a row which nobody else has locked. *)
LEMMA WriteStep ==
  ASSUME IndInv, TypeOK', NEW c \in Calls, OthersUnchanged(c), UNCHANGED call,
         call[c] \in Call, NEW row \in Rows!TransactionProposal, Apply(c, row),
         Rows!Stored(call[c].tx), owner[call[c].tx] \in {None, c},
         row.status = "proposed" => proposal[call[c].tx].status = "proposed",
         call[c].op = "approve" => row.status = proposal[call[c].tx].status,
         \A t \in Txns : owner'[t] = owner[t] \/ t = call[c].tx,
         CallInv(c)',
         reply'[c] = "ok" /\ call[c].op = "sign" => proposal[call[c].tx].status = "proposed"
  PROVE  IndInv'
<1> DEFINE t == call[c].tx
<1>1. t \in Txns
  BY CallShape, Zenon
<1>2. /\ proposal'[t] = row
      /\ \A u \in Txns : u # t => proposal'[u] = proposal[u] /\ status'[u] = status[u]
      /\ status'[t] = IF call[c].op = "approve" THEN status[t] ELSE row.status
  BY <1>1, Zenon DEF Apply, IndInv, TypeOK
<1>3. Forward
  BY <1>1, <1>2, NoneIsNone, Zenon DEF Forward, Rows!Stored
<1>4. ASSUME NEW q \in Calls PROVE CallInv(q)'
  <2>1. CASE q = c
    BY <2>1, Zenon
  <2>2. CASE q # c
    <3>1. /\ pc'[q] = pc[q] /\ call'[q] = call[q] /\ copy'[q] = copy[q]
          /\ reply'[q] = reply[q] /\ orphaned'[q] = orphaned[q]
      BY <2>2, Zenon DEF OthersUnchanged
    <3>2. HoldsRow(q) => call[q].tx \in Txns /\ owner[call[q].tx] = q
      BY OwnInv, CallShape, Zenon DEF CallInv, HoldsRow, Decided
    <3>3. HoldsRow(q) => call[q].tx # t
      BY <2>2, <3>2, NoneIsNone, Zenon
    <3> QED BY <1>2, <1>3, <3>1, <3>2, <3>3, OtherCall, Zenon
  <2> QED BY <2>1, <2>2, Zenon
<1>5. StatusColumnAgrees'
  BY <1>1, <1>2, Zenon DEF IndInv, StatusColumnAgrees, Rows!Stored
<1>6. SignedOnce'
  <2>1. \A q \in Calls \ {c} : reply'[q] = reply[q]
    BY Zenon DEF OthersUnchanged
  <2>2. reply'[c] = "ok" /\ call[c].op = "sign" =>
          \A q \in Calls \ {c} :
            ~(reply[q] = "ok" /\ call[q].op = "sign" /\ call[q].tx = t)
    BY OwnInv, Zenon DEF CallInv
  <2> QED BY <2>1, <2>2 DEF IndInv, SignedOnce
<1> QED BY <1>4, <1>5, <1>6, Zenon DEF IndInv

-----------------------------------------------------------------------------
(* Types. *)

(* What TypeOK says of the calls. *)
CallsTypeOK ==
  /\ pc \in [Calls -> {"idle", "done"} \cup InFlightPC]
  /\ call \in [Calls -> Call \cup {None}]
  /\ copy \in [Calls -> Rows!TransactionProposal \cup {None}]
  /\ reply \in [Calls -> {"ok", "refused", "not_found", "error", None}]
  /\ orphaned \in [Calls -> {"rollback", "commit", None}]

TablesTypeOK ==
  /\ proposal \in [Txns -> Rows!TransactionProposal \cup {None}]
  /\ status \in [Txns -> Rows!TransactionStatus \cup {None}]
  /\ owner \in [Txns -> Calls \cup {None}]

LEMMA Types == TypeOK <=> CallsTypeOK /\ TablesTypeOK
  BY Zenon DEF TypeOK, CallsTypeOK, TablesTypeOK

LEMMA TypesNext == TypeOK' <=> CallsTypeOK' /\ TablesTypeOK'
  BY Zenon DEF TypeOK, CallsTypeOK, TablesTypeOK

LEMMA ConstantTypes ==
  Call' = Call /\ Rows!TransactionProposal' = Rows!TransactionProposal
  BY Zenon
     DEF Call, Rows!TransactionProposal, Rows!Payload, Rows!Hash, Rows!TransactionStatus

LEMMA AnswerType ==
  ASSUME CallsTypeOK, NEW c \in Calls,
         NEW r \in {"ok", "refused", "not_found", "error"}, Answer(c, r),
         UNCHANGED orphaned
  PROVE  /\ CallsTypeOK' /\ OthersUnchanged(c) /\ call' = call
         /\ pc'[c] = "done" /\ reply'[c] = r
<1>1. pc' \in [Calls -> {"idle", "done"} \cup InFlightPC]
  BY Zenon DEF CallsTypeOK, Answer
<1>2. copy' \in [Calls -> Rows!TransactionProposal \cup {None}] /\ call' = call
  BY Zenon DEF CallsTypeOK, Answer
<1>3. reply' \in [Calls -> {"ok", "refused", "not_found", "error", None}]
  BY Zenon DEF CallsTypeOK, Answer
<1>4. CallsTypeOK'
  BY <1>1, <1>2, <1>3, ConstantTypes, Zenon DEF CallsTypeOK
<1> QED BY <1>4, Zenon DEF CallsTypeOK, Answer, OthersUnchanged

LEMMA ApplyType ==
  ASSUME TypeOK, NEW c \in Calls, NEW row \in Rows!TransactionProposal, Apply(c, row)
  PROVE  /\ proposal' \in [Txns -> Rows!TransactionProposal \cup {None}]
         /\ status' \in [Txns -> Rows!TransactionStatus \cup {None}]
<1>1. row.status \in Rows!TransactionStatus
  BY Zenon DEF Rows!TransactionProposal
<1> QED BY <1>1, Zenon DEF Apply, TypeOK

LEMMA ReleaseType ==
  ASSUME TypeOK, NEW t \in Txns, Release(t)
  PROVE  /\ owner' \in [Txns -> Calls \cup {None}]
         /\ \A u \in Txns : owner'[u] = owner[u] \/ u = t
  BY Zenon DEF Release, TypeOK

-----------------------------------------------------------------------------
(* One lemma for each action. *)

LEMMA CommitStep ==
  ASSUME IndInv, NEW c \in Calls, Commit(c)
  PROVE  IndInv'
<1> DEFINE t == call[c].tx
<1>1. CallsTypeOK /\ TypeOK /\ call[c] \in Call /\ t \in Txns
  BY OwnInv, CallShape, Types, Zenon DEF IndInv, Commit, CallInv
<1>2. /\ call[c].op \in {"approve", "sign"} /\ owner[t] = c /\ Rows!Stored(t)
      /\ ~Refused(c, proposal[t]) /\ copy[c] = Changed(c, proposal[t])
      /\ orphaned[c] = None
  BY OwnInv, Zenon DEF Commit, CallInv, HoldsRow, Decided
<1>3. proposal[t] \in Rows!TransactionProposal /\ proposal[t].status = "proposed"
  BY <1>1, <1>2, Zenon DEF TypeOK, Rows!Stored, Refused
<1>4. /\ copy[c] \in Rows!TransactionProposal
      /\ call[c].op = "approve" => copy[c].status = proposal[t].status
      /\ call[c].op = "sign" => copy[c].status = "signed"
  BY <1>1, <1>2, <1>3, ChangedShape, Zenon
<1>5. /\ CallsTypeOK' /\ OthersUnchanged(c) /\ call' = call
      /\ pc'[c] = "done" /\ reply'[c] = "ok"
  BY <1>1, AnswerType, Zenon DEF Commit
<1>6. TypeOK' /\ \A u \in Txns : owner'[u] = owner[u] \/ u = t
  BY <1>1, <1>4, <1>5, ApplyType, ReleaseType, TypesNext, ConstantTypes, Zenon
     DEF Commit, TablesTypeOK, Rows!TransactionStatus
<1>7. proposal'[t] = copy[c]
  BY <1>1, Zenon DEF Commit, Apply, TypeOK
<1>8. CallInv(c)'
  BY <1>1, <1>2, <1>4, <1>5, <1>7, NoneIsNone, ConstantTypes, Zenon
     DEF Commit, CallInv, HoldsRow, Rows!Stored
<1>9. Apply(c, copy[c])
  BY Zenon DEF Commit
<1> QED BY <1>1, <1>2, <1>3, <1>4, <1>5, <1>6, <1>8, <1>9, WriteStep, Zenon

LEMMA ServerEndsStep ==
  ASSUME IndInv, NEW c \in Calls, ServerEnds(c)
  PROVE  IndInv'
<1> DEFINE t == call[c].tx
<1>1. orphaned[c] # None
  BY NoneIsNone, Zenon DEF ServerEnds
<1>2. /\ pc[c] = "done" /\ call[c] \in Call /\ reply[c] = "error"
      /\ call[c].op \in {"approve", "sign"} /\ owner[t] = c /\ Rows!Stored(t)
      /\ ~Refused(c, proposal[t]) /\ copy[c] = Changed(c, proposal[t])
  BY <1>1, OwnInv, Zenon DEF CallInv, HoldsRow, Decided
<1>3. CallsTypeOK /\ TypeOK /\ t \in Txns
  BY <1>2, CallShape, Types, Zenon DEF IndInv
<1>4. proposal[t] \in Rows!TransactionProposal /\ proposal[t].status = "proposed"
  BY <1>2, <1>3, Zenon DEF TypeOK, Rows!Stored, Refused
<1>5. /\ copy[c] \in Rows!TransactionProposal
      /\ call[c].op = "approve" => copy[c].status = proposal[t].status
      /\ call[c].op = "sign" => copy[c].status = "signed"
  BY <1>2, <1>4, ChangedShape, Zenon
<1>6. /\ OthersUnchanged(c) /\ UNCHANGED <<pc, call, reply>> /\ orphaned'[c] = None
      /\ CallsTypeOK'
  <2>1. /\ orphaned' \in [Calls -> {"rollback", "commit", None}]
        /\ copy' \in [Calls -> Rows!TransactionProposal \cup {None}]
    BY <1>3, Zenon DEF ServerEnds, CallsTypeOK
  <2> QED BY <1>3, <2>1, ConstantTypes, Zenon DEF ServerEnds, CallsTypeOK, OthersUnchanged
<1>7. /\ owner' \in [Txns -> Calls \cup {None}]
      /\ \A u \in Txns : owner'[u] = owner[u] \/ u = t
  BY <1>3, ReleaseType, Zenon DEF ServerEnds
<1>8. CallInv(c)'
  BY <1>2, <1>6, NoneIsNone, ConstantTypes, Zenon DEF CallInv, HoldsRow
<1>9. CASE orphaned[c] = "commit"
  <2>1. Apply(c, copy[c])
    BY <1>9, Zenon DEF ServerEnds
  <2>2. TypeOK'
    BY <1>3, <1>5, <1>6, <1>7, <2>1, ApplyType, TypesNext, ConstantTypes, Zenon
       DEF TablesTypeOK, Rows!TransactionStatus
  <2> QED BY <1>2, <1>4, <1>5, <1>6, <1>7, <1>8, <2>1, <2>2, WriteStep, Zenon
<1>10. CASE orphaned[c] # "commit"
  <2>1. UNCHANGED table
    BY <1>10, Zenon DEF ServerEnds
  <2>2. TypeOK'
    BY <1>3, <1>6, <1>7, <2>1, TypesNext, ConstantTypes, Zenon
       DEF TypeOK, table, TablesTypeOK, Rows!TransactionStatus
  <2> QED BY <1>2, <1>6, <1>7, <1>8, <2>1, <2>2, QuietStep, Zenon
<1> QED BY <1>9, <1>10, Zenon

LEMMA UpdateStep ==
  ASSUME IndInv, NEW c \in Calls, UpdateTransaction(c)
  PROVE  IndInv'
<1> DEFINE t == call[c].tx
<1>1. /\ pc[c] = "update" /\ call[c] \in Call /\ call[c].op = "update"
      /\ Rows!Stored(t) /\ call[c].row.status # "proposed" /\ orphaned[c] = None
  BY OwnInv, Zenon DEF UpdateTransaction, CallInv
<1>2. CallsTypeOK /\ TypeOK /\ t \in Txns /\ call[c].row \in Rows!TransactionProposal
  BY <1>1, CallShape, Types, Zenon DEF IndInv
<1>3. /\ owner[t] = None /\ Apply(c, call[c].row) /\ UNCHANGED <<owner, orphaned>>
      /\ Answer(c, "ok") \/ Answer(c, "error")
  BY Zenon DEF UpdateTransaction
<1>4. CallsTypeOK' /\ OthersUnchanged(c) /\ call' = call /\ pc'[c] = "done"
  BY <1>2, <1>3, AnswerType, Zenon
<1>5. TypeOK'
  BY <1>2, <1>3, <1>4, ApplyType, TypesNext, ConstantTypes, Zenon
     DEF TypeOK, TablesTypeOK, Rows!TransactionStatus
<1>6. CallInv(c)'
  BY <1>1, <1>3, <1>4, ConstantTypes, Zenon DEF CallInv, HoldsRow
<1> QED BY <1>1, <1>2, <1>3, <1>4, <1>5, <1>6, WriteStep, Zenon

LEMMA LockRowStep ==
  ASSUME IndInv, NEW c \in Calls, LockRow(c)
  PROVE  IndInv'
<1> DEFINE t == call[c].tx
<1>1. /\ pc[c] = "lock_row" /\ call[c] \in Call /\ call[c].op \in {"approve", "sign"}
      /\ orphaned[c] = None /\ reply[c] = None /\ owner[t] = None
      /\ UNCHANGED <<table, orphaned>>
  BY OwnInv, Zenon DEF LockRow, CallInv
<1>2. CallsTypeOK /\ TypeOK /\ t \in Txns
  BY <1>1, CallShape, Types, Zenon DEF IndInv
<1>3. CASE (Answer(c, "not_found") \/ Answer(c, "refused")) /\ UNCHANGED owner
  <2>1. /\ CallsTypeOK' /\ OthersUnchanged(c) /\ call' = call
        /\ pc'[c] = "done" /\ reply'[c] # "ok"
    BY <1>1, <1>2, <1>3, AnswerType, Zenon
  <2>2. TypeOK'
    BY <1>1, <1>2, <1>3, <2>1, TypesNext, ConstantTypes, Zenon
       DEF TypeOK, table, TablesTypeOK, Rows!TransactionStatus
  <2>3. CallInv(c)'
    BY <1>1, <2>1, ConstantTypes, Zenon DEF CallInv, HoldsRow
  <2> QED BY <1>1, <1>3, <2>1, <2>2, <2>3, QuietStep, Zenon
<1>4. CASE /\ Rows!Stored(t) /\ ~Refused(c, proposal[t])
           /\ owner' = [owner EXCEPT ![t] = c]
           /\ copy' = [copy EXCEPT ![c] = Changed(c, proposal[t])]
           /\ pc' = [pc EXCEPT ![c] = "write_row"]
           /\ UNCHANGED <<call, reply>>
  <2>1. Changed(c, proposal[t]) \in Rows!TransactionProposal
    BY <1>1, <1>2, <1>4, ChangedShape, Zenon DEF TypeOK, Rows!Stored
  <2>2. /\ pc'[c] = "write_row" /\ owner'[t] = c /\ copy'[c] = Changed(c, proposal[t])
        /\ OthersUnchanged(c) /\ \A u \in Txns : owner'[u] = owner[u] \/ u = t
    BY <1>1, <1>2, <1>4, Zenon DEF TypeOK, OthersUnchanged
  <2>3. TypeOK'
    <3>1. copy' \in [Calls -> Rows!TransactionProposal \cup {None}]
      BY <1>2, <1>4, <2>1, Zenon DEF TypeOK
    <3>2. pc' \in [Calls -> {"idle", "done"} \cup InFlightPC]
      BY <1>2, <1>4, Zenon DEF TypeOK, InFlightPC
    <3>3. owner' \in [Txns -> Calls \cup {None}]
      BY <1>2, <1>4, Zenon DEF TypeOK
    <3> QED BY <1>1, <1>2, <1>4, <3>1, <3>2, <3>3, ConstantTypes, Zenon
            DEF TypeOK, table, Rows!TransactionStatus
  <2>4. Decided(c)'
    BY <1>1, <1>4, <2>2, Zenon DEF Decided, Refused, Changed, payload, table, Rows!Stored
  <2>5. CallInv(c)'
    BY <1>1, <1>4, <2>2, <2>4, NoneIsNone, ConstantTypes, Zenon DEF CallInv, HoldsRow
  <2> QED BY <1>1, <1>4, <2>2, <2>3, <2>5, QuietStep, Zenon
<1> QED BY <1>3, <1>4, Zenon DEF LockRow

LEMMA WriteRowStep ==
  ASSUME IndInv, NEW c \in Calls, WriteRow(c)
  PROVE  IndInv'
<1>1. /\ pc[c] = "write_row" /\ pc' = [pc EXCEPT ![c] = "commit"]
      /\ UNCHANGED <<table, owner, call, copy, reply, orphaned>>
  BY Zenon DEF WriteRow
<1>2. TypeOK
  BY Zenon DEF IndInv
<1>3. TypeOK'
  <2>1. pc' \in [Calls -> {"idle", "done"} \cup InFlightPC]
    BY <1>1, <1>2, Zenon DEF TypeOK, InFlightPC
  <2> QED BY <1>1, <1>2, <2>1, ConstantTypes, Zenon
             DEF TypeOK, table, Rows!TransactionStatus
<1>4. pc'[c] = "commit" /\ OthersUnchanged(c)
  BY <1>1, <1>2, Zenon DEF TypeOK, OthersUnchanged
<1>5. Decided(c)'
  <2>1. Decided(c)
    BY <1>1, OwnInv, Zenon DEF CallInv, HoldsRow
  <2> QED BY <1>1, <2>1, Zenon DEF Decided, Refused, Changed, payload, table, Rows!Stored
<1>6. CallInv(c)'
  BY <1>1, <1>4, <1>5, OwnInv, NoneIsNone, ConstantTypes, Zenon DEF CallInv, HoldsRow
<1> QED BY <1>1, <1>3, <1>4, <1>6, QuietStep, Zenon

LEMMA CallFailsStep ==
  ASSUME IndInv, NEW c \in Calls, CallFails(c)
  PROVE  IndInv'
<1>1. /\ pc[c] \in InFlightPC /\ pc' = [pc EXCEPT ![c] = "done"]
      /\ reply' = [reply EXCEPT ![c] = "error"]
      /\ UNCHANGED <<table, owner, call, copy>>
  BY Zenon DEF CallFails
<1>2. TypeOK
  BY Zenon DEF IndInv
<1>3. call[c] \in Call /\ orphaned[c] = None
  BY <1>1, OwnInv, Zenon DEF CallInv, InFlightPC
<1>4. /\ orphaned' = orphaned
         \/ \E end \in {"rollback", "commit"} : orphaned' = [orphaned EXCEPT ![c] = end]
      /\ orphaned'[c] # None => pc[c] \in {"write_row", "commit"}
  BY <1>3, Zenon DEF CallFails
<1>5. TypeOK'
  <2>1. pc' \in [Calls -> {"idle", "done"} \cup InFlightPC]
    BY <1>1, <1>2, Zenon DEF TypeOK
  <2>2. reply' \in [Calls -> {"ok", "refused", "not_found", "error", None}]
    BY <1>1, <1>2, Zenon DEF TypeOK
  <2>3. orphaned' \in [Calls -> {"rollback", "commit", None}]
    BY <1>2, <1>4, Zenon DEF TypeOK
  <2> QED BY <1>1, <1>2, <2>1, <2>2, <2>3, ConstantTypes, Zenon
          DEF TypeOK, table, Rows!TransactionStatus
<1>6. pc'[c] = "done" /\ reply'[c] = "error" /\ OthersUnchanged(c)
  BY <1>1, <1>2, <1>4, Zenon DEF TypeOK, OthersUnchanged
<1>7. pc[c] \in {"write_row", "commit"} =>
        Decided(c)' /\ call[c].op \in {"approve", "sign"}
  <2>1. pc[c] \in {"write_row", "commit"} =>
          Decided(c) /\ call[c].op \in {"approve", "sign"}
    BY OwnInv, Zenon DEF CallInv, HoldsRow
  <2> QED BY <1>1, <2>1, Zenon DEF Decided, Refused, Changed, payload, table, Rows!Stored
<1>8. CallInv(c)'
  BY <1>1, <1>3, <1>4, <1>6, <1>7, NoneIsNone, ConstantTypes, Zenon DEF CallInv, HoldsRow
<1> QED BY <1>1, <1>5, <1>6, <1>8, QuietStep, Zenon

LEMMA BeginStep ==
  ASSUME IndInv, NEW c \in Calls, Begin(c)
  PROVE  IndInv'
<1>1. /\ pc[c] = "idle" /\ reply[c] = None /\ orphaned[c] = None
      /\ UNCHANGED <<table, owner, copy, reply, orphaned>> /\ TypeOK
  BY OwnInv, Zenon DEF Begin, CallInv, IndInv
<1>2. PICK a \in Call, label \in {"lock_row", "update"} :
        /\ call' = [call EXCEPT ![c] = a] /\ pc' = [pc EXCEPT ![c] = label]
        /\ label = "lock_row" => a.op \in {"approve", "sign"}
        /\ label = "update" =>
             a.op = "update" /\ Rows!Stored(a.tx) /\ a.row.status # "proposed"
  <2>1. PICK t \in Txns :
         \/ /\ \E s \in Signers :
                 call' = [call EXCEPT ![c] = [op |-> "approve", tx |-> t, signer |-> s]]
            /\ pc' = [pc EXCEPT ![c] = "lock_row"]
         \/ /\ call' = [call EXCEPT ![c] = [op |-> "sign", tx |-> t]]
            /\ pc' = [pc EXCEPT ![c] = "lock_row"]
         \/ /\ Rows!Stored(t)
            /\ \E st \in {"broadcast", "failed"} :
                 call' = [call EXCEPT ![c] =
                   [op |-> "update", tx |-> t, row |-> [proposal[t] EXCEPT !.status = st]]]
            /\ pc' = [pc EXCEPT ![c] = "update"]
    BY Zenon DEF Begin
  <2>2. ASSUME NEW s \in Signers
        PROVE  [op |-> "approve", tx |-> t, signer |-> s] \in Call
    BY Zenon DEF Call
  <2>3. [op |-> "sign", tx |-> t] \in Call
    BY Zenon DEF Call
  <2>4. ASSUME Rows!Stored(t), NEW st \in {"broadcast", "failed"}
        PROVE  /\ [op |-> "update", tx |-> t, row |-> [proposal[t] EXCEPT !.status = st]] \in Call
               /\ [proposal[t] EXCEPT !.status = st].status # "proposed"
    <3>1. proposal[t] \in Rows!TransactionProposal
      BY <1>1, <2>4, Zenon DEF TypeOK, Rows!Stored
    <3>2. [proposal[t] EXCEPT !.status = st] \in Rows!TransactionProposal
      BY <3>1, Zenon DEF Rows!TransactionProposal, Rows!TransactionStatus
    <3>3. [proposal[t] EXCEPT !.status = st].status = st
      BY <3>1, Zenon DEF Rows!TransactionProposal
    <3> QED BY <3>2, <3>3, Zenon DEF Call
  <2> QED BY <2>1, <2>2, <2>3, <2>4, Zenon
<1>3. pc'[c] = label /\ call'[c] = a /\ OthersUnchanged(c)
  BY <1>1, <1>2, Zenon DEF TypeOK, OthersUnchanged
<1>4. TypeOK'
  <2>1. pc' \in [Calls -> {"idle", "done"} \cup InFlightPC]
    BY <1>1, <1>2, Zenon DEF TypeOK, InFlightPC
  <2>2. call' \in [Calls -> Call \cup {None}]
    BY <1>1, <1>2, Zenon DEF TypeOK
  <2> QED BY <1>1, <2>1, <2>2, ConstantTypes, Zenon
             DEF TypeOK, table, Rows!TransactionStatus
<1>5. CallInv(c)'
  BY <1>1, <1>2, <1>3, NoneIsNone, ConstantTypes, Zenon
     DEF CallInv, HoldsRow, table, Rows!Stored
<1> QED BY <1>1, <1>3, <1>4, <1>5, NoneIsNone, QuietStep, Zenon

LEMMA StutterStep ==
  ASSUME IndInv, UNCHANGED vars
  PROVE  IndInv'
<1>1. UNCHANGED <<proposal, status, owner, pc, call, copy, reply, orphaned>>
  BY Zenon DEF vars, table
<1>2. TypeOK'
  BY <1>1, ConstantTypes, Zenon DEF IndInv, TypeOK, Rows!TransactionStatus
<1>3. StatusColumnAgrees' /\ SignedOnce'
  BY <1>1, Zenon DEF IndInv, StatusColumnAgrees, SignedOnce, Rows!Stored
<1>4. Forward
  BY <1>1, Zenon DEF Forward, Rows!Stored
<1>5. \A q \in Calls : CallInv(q)'
  BY <1>1, <1>4, OtherCall, Zenon
<1> QED BY <1>2, <1>3, <1>5, Zenon DEF IndInv

LEMMA InitInv == Init => IndInv
<1> SUFFICES ASSUME Init PROVE IndInv
  OBVIOUS
<1>1. Rows!NewProposal \in Rows!TransactionProposal /\ Rows!NewProposal.status = "proposed"
  BY Zenon DEF Rows!NewProposal, Rows!TransactionProposal, Rows!TransactionStatus
<1>2. TypeOK
  <2>1. /\ proposal \in [Txns -> Rows!TransactionProposal \cup {None}]
        /\ status \in [Txns -> Rows!TransactionStatus \cup {None}]
    BY <1>1, Zenon DEF Init, Rows!TransactionStatus
  <2> QED BY <2>1, Zenon DEF Init, TypeOK
<1>3. StatusColumnAgrees
  BY <1>1, Zenon DEF Init, StatusColumnAgrees, Rows!Stored
<1>4. SignedOnce /\ \A c \in Calls : CallInv(c)
  BY NoneIsNone, Zenon DEF Init, SignedOnce, CallInv, HoldsRow
<1> QED BY <1>2, <1>3, <1>4, Zenon DEF IndInv

-----------------------------------------------------------------------------
(* The inductive invariant holds: the row lock protects every decision     *)
(* from the read to the commit, also when the client is gone before it.    *)
THEOREM Invariance == Spec => []IndInv
<1>1. IndInv /\ [Next]_vars => IndInv'
  BY BeginStep, LockRowStep, WriteRowStep, CommitStep, UpdateStep, CallFailsStep,
     ServerEndsStep, StutterStep, Zenon DEF Next, Statement
<1> QED BY <1>1, InitInv, PTL DEF Spec

(* PostgresStore writes the status column and the status in the proposal   *)
(* column of a row in one statement, whatever races: they agree.           *)
THEOREM ColumnsAgree == Spec => []StatusColumnAgrees
<1>1. IndInv => StatusColumnAgrees
  BY Zenon DEF IndInv
<1> QED BY <1>1, Invariance, PTL

(* Of all calls of MarkTransactionSigned that race for a row, at most one  *)
(* is told that it stored its signature.                                   *)
THEOREM OneSignature == Spec => []SignedOnce
<1>1. IndInv => SignedOnce
  BY Zenon DEF IndInv
<1> QED BY <1>1, Invariance, PTL

-----------------------------------------------------------------------------
(* What a transaction with a lock makes visible is its method, done now. *)
LEMMA ApplyIsMethod ==
  ASSUME IndInv, NEW c \in Calls, HoldsRow(c), Apply(c, copy[c])
  PROVE  MethodOf(c)
<1> DEFINE t == call[c].tx
<1>1. /\ call[c].op \in {"approve", "sign"} /\ Rows!Stored(t)
      /\ ~Refused(c, proposal[t]) /\ copy[c] = Changed(c, proposal[t])
  BY OwnInv, Zenon DEF CallInv, Decided
<1>2. proposal' = [proposal EXCEPT ![t] = Changed(c, proposal[t])]
  BY <1>1, Zenon DEF Apply
<1>3. CASE call[c].op = "approve"
  <2>1. Rows!Approvable(t, call[c].signer)
    BY <1>1, <1>3, Zenon DEF Refused, Rows!Approvable
  <2>2. proposal' = [proposal EXCEPT ![t].approvals = @ \cup {call[c].signer}]
    BY <1>2, <1>3, Zenon DEF Changed
  <2> QED BY <1>3, <2>1, <2>2, Zenon DEF MethodOf, Rows!AddApproval
<1>4. CASE call[c].op = "sign"
  <2>1. proposal[t].status = "proposed"
    BY <1>1, Zenon DEF Refused
  <2>2. proposal' = [proposal EXCEPT
          ![t] = [@ EXCEPT !.status = "signed", !.signedTransaction = payload(c)]]
    BY <1>2, <1>4, Zenon DEF Changed
  <2> QED BY <1>1, <1>4, <2>1, <2>2, Zenon DEF MethodOf, Rows!MarkTransactionSigned
<1> QED BY <1>1, <1>3, <1>4, Zenon

(* Every change of a stored proposal by PostgresStore is one atomic method *)
(* of CustodyStore on the row as it is at that moment, so the service may  *)
(* be reasoned about as WalletService does.                                *)
THEOREM AtomicMethods == Spec => EveryWriteIsAMethod
<1>1. IndInv /\ [Next]_vars => [\E c \in Calls : Deciding(c) /\ MethodOf(c)]_proposal
  <2> SUFFICES ASSUME IndInv, [Next]_vars
               PROVE  (\E c \in Calls : Deciding(c) /\ MethodOf(c)) \/ UNCHANGED proposal
    OBVIOUS
  <2>1. CASE UNCHANGED vars
    BY <2>1, Zenon DEF vars, table
  <2>2. ASSUME NEW c \in Calls, Begin(c) \/ LockRow(c) \/ WriteRow(c) \/ CallFails(c)
        PROVE  UNCHANGED proposal
    BY <2>2, Zenon DEF Begin, LockRow, WriteRow, CallFails, table
  <2>3. ASSUME NEW c \in Calls, Commit(c) PROVE Deciding(c) /\ MethodOf(c)
    BY <2>3, ApplyIsMethod, Zenon DEF Commit, HoldsRow, Deciding
  <2>4. ASSUME NEW c \in Calls, UpdateTransaction(c) PROVE Deciding(c) /\ MethodOf(c)
    <3>1. call[c].op = "update" /\ Rows!Stored(call[c].tx)
      BY <2>4, OwnInv, Zenon DEF UpdateTransaction, CallInv
    <3> QED BY <2>4, <3>1, Zenon
            DEF UpdateTransaction, Apply, MethodOf, Deciding, Rows!UpdateTransaction
  <2>5. ASSUME NEW c \in Calls, ServerEnds(c)
        PROVE  (Deciding(c) /\ MethodOf(c)) \/ UNCHANGED proposal
    <3>1. CASE orphaned[c] = "commit"
      BY <2>5, <3>1, ApplyIsMethod, NoneIsNone, Zenon DEF ServerEnds, HoldsRow, Deciding
    <3>2. CASE orphaned[c] # "commit"
      BY <2>5, <3>2, Zenon DEF ServerEnds, table
    <3> QED BY <3>1, <3>2, Zenon
  <2> QED BY <2>1, <2>2, <2>3, <2>4, <2>5, Zenon DEF Next, Statement
<1> QED BY <1>1, Invariance, PTL DEF Spec, EveryWriteIsAMethod
=============================================================================
