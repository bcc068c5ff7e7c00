---------------------------- MODULE PostgresRows ----------------------------
(***************************************************************************)
(* The methods of PostgresStore that change a stored proposal, statement   *)
(* by statement.  AddApproval and MarkTransactionSigned read the row with  *)
(* SELECT ... FOR UPDATE, decide in Go, write the row and commit;          *)
(* UpdateTransaction is a single UPDATE.  A row has the proposal as JSON   *)
(* and, beside it, the status in a column of its own.                      *)
(*                                                                         *)
(* A statement that finds the row locked waits, and then sees what was     *)
(* committed meanwhile (READ COMMITTED).  A call that fails leaves a       *)
(* transaction that keeps its lock until the server ends it.               *)
(***************************************************************************)
EXTENDS Naturals, FiniteSets

CONSTANTS
  Txns,     \* transaction IDs
  Signers,  \* signer IDs
  Calls,    \* calls of the store
  None,     \* no row, no answer
  Faults    \* the faults of the environment that may happen

VARIABLES
  proposal,  \* the proposal column: transaction ID -> proposal, or None
  status,    \* the status column, None where there is no row
  owner,     \* the lock of each row: the call whose transaction holds it
  pc,        \* the statement each call runs next
  call,      \* the arguments of each call
  copy,      \* the proposal a call has read, as Go changes it
  reply,     \* what each call returned
  orphaned   \* how the server will end a transaction whose call has failed

table == <<proposal, status>>
vars == <<table, owner, pc, call, copy, reply, orphaned>>

(* The atomic methods that the service is modelled with. *)
Rows == INSTANCE CustodyStore
          WITH Requests <- Calls, transactions <- proposal, auditEvents <- {}

ASSUME RowsAssumption ==
  /\ Rows!NoneAssumption
  /\ None \notin {"rollback", "commit", "ok", "refused", "not_found", "error"}
  /\ Faults \subseteq {"error", "lost_ack"}

-----------------------------------------------------------------------------
(* AddApproval has a signer, UpdateTransaction a proposal to write; the    *)
(* payload that MarkTransactionSigned brings is the call's own.            *)
Call ==
  [op : {"approve"}, tx : Txns, signer : Signers]
    \cup [op : {"sign"}, tx : Txns]
    \cup [op : {"update"}, tx : Txns, row : Rows!TransactionProposal]

payload(c) == [tx |-> call[c].tx, entropy |-> c]

InFlightPC == {"lock_row", "write_row", "commit", "update"}

TypeOK ==
  /\ proposal \in [Txns -> Rows!TransactionProposal \cup {None}]
  /\ status \in [Txns -> Rows!TransactionStatus \cup {None}]
  /\ owner \in [Txns -> Calls \cup {None}]
  /\ pc \in [Calls -> {"idle", "done"} \cup InFlightPC]
  /\ call \in [Calls -> Call \cup {None}]
  /\ copy \in [Calls -> Rows!TransactionProposal \cup {None}]
  /\ reply \in [Calls -> {"ok", "refused", "not_found", "error", None}]
  /\ orphaned \in [Calls -> {"rollback", "commit", None}]

(* CreateTransaction writes both columns. *)
Init ==
  /\ proposal \in [Txns -> {Rows!NewProposal, None}]
  /\ status = [t \in Txns |-> IF proposal[t] = None THEN None ELSE "proposed"]
  /\ owner = [t \in Txns |-> None]
  /\ pc = [c \in Calls |-> "idle"]
  /\ call = [c \in Calls |-> None]
  /\ copy = [c \in Calls |-> None]
  /\ reply = [c \in Calls |-> None]
  /\ orphaned = [c \in Calls |-> None]

-----------------------------------------------------------------------------
(* A call begins.  The service updates with a copy of the row that it has  *)
(* read before and marked as broadcast or failed.                          *)
Begin(c) ==
  /\ pc[c] = "idle"
  /\ \E t \in Txns :
       \/ /\ \E s \in Signers :
               call' = [call EXCEPT ![c] = [op |-> "approve", tx |-> t, signer |-> s]]
          /\ pc' = [pc EXCEPT ![c] = "lock_row"]
       \/ /\ call' = [call EXCEPT ![c] = [op |-> "sign", tx |-> t]]
          /\ pc' = [pc EXCEPT ![c] = "lock_row"]
       \/ /\ Rows!Stored(t)
          /\ \E st \in {"broadcast", "failed"} :
               call' = [call EXCEPT ![c] =
                 [op |-> "update", tx |-> t, row |-> [proposal[t] EXCEPT !.status = st]]]
          /\ pc' = [pc EXCEPT ![c] = "update"]
  /\ UNCHANGED <<table, owner, copy, reply, orphaned>>

(* The method returns; what is left of its transaction is rolled back. *)
Answer(c, r) ==
  /\ pc' = [pc EXCEPT ![c] = "done"]
  /\ reply' = [reply EXCEPT ![c] = r]
  /\ copy' = [copy EXCEPT ![c] = None]
  /\ UNCHANGED call

(* What the method makes of the row it has locked, or that it refuses. *)
RefusedApproval(c, row) ==
  /\ call[c].op = "approve"
  /\ row.status # "proposed" \/ call[c].signer \in row.approvals

Refused(c, row) ==
  \/ row.status # "proposed"
  \/ call[c].op = "approve" /\ call[c].signer \in row.approvals

Changed(c, row) ==
  IF call[c].op = "approve"
  THEN [row EXCEPT !.approvals = @ \cup {call[c].signer}]
  ELSE [row EXCEPT !.status = "signed", !.signedTransaction = payload(c)]

(* SELECT ... FOR UPDATE, and the checks on what it returned. *)
SelectRow(c) ==
  LET t == call[c].tx IN
  /\ pc[c] = "lock_row"
  /\ \/ ~Rows!Stored(t) /\ Answer(c, "not_found")
     \/ Rows!Stored(t) /\ Refused(c, proposal[t]) /\ Answer(c, "refused")
     \/ /\ Rows!Stored(t) /\ ~Refused(c, proposal[t])
        /\ copy' = [copy EXCEPT ![c] = Changed(c, proposal[t])]
        /\ pc' = [pc EXCEPT ![c] = "write_row"]
        /\ UNCHANGED <<call, reply>>
  /\ UNCHANGED <<table, owner, orphaned>>

LockRow(c) ==
  LET t == call[c].tx IN
  /\ pc[c] = "lock_row"
  /\ owner[t] = None
  /\ \/ ~Rows!Stored(t) /\ Answer(c, "not_found") /\ UNCHANGED owner
     \/ /\ Rows!Stored(t) /\ Refused(c, proposal[t])
        /\ Answer(c, "refused")
        /\ UNCHANGED owner
     \/ /\ Rows!Stored(t) /\ ~Refused(c, proposal[t])
        /\ owner' = [owner EXCEPT ![t] = c]
        /\ copy' = [copy EXCEPT ![c] = Changed(c, proposal[t])]
        /\ pc' = [pc EXCEPT ![c] = "write_row"]
        /\ UNCHANGED <<call, reply>>
  /\ UNCHANGED <<table, orphaned>>

(* UPDATE inside the transaction: nobody else sees it yet. *)
WriteRow(c) ==
  /\ pc[c] = "write_row"
  /\ pc' = [pc EXCEPT ![c] = "commit"]
  /\ UNCHANGED <<table, owner, call, copy, reply, orphaned>>

(* The transaction's row becomes visible.  AddApproval leaves the status   *)
(* column alone, MarkTransactionSigned sets it.                            *)
ApplyProposal(c, row) ==
  /\ proposal' = [proposal EXCEPT ![call[c].tx] = row]
  /\ UNCHANGED status

Apply(c, row) ==
  /\ proposal' = [proposal EXCEPT ![call[c].tx] = row]
  /\ status' = [status EXCEPT ![call[c].tx] =
       IF call[c].op = "approve" THEN @ ELSE row.status]

ReleaseLate(t) == UNCHANGED owner

Release(t) == owner' = [owner EXCEPT ![t] = None]

Commit(c) ==
  /\ pc[c] = "commit"
  /\ Apply(c, copy[c])
  /\ Release(call[c].tx)
  /\ Answer(c, "ok")
  /\ UNCHANGED orphaned

(* UpdateTransaction waits for the lock and looks at nothing else. *)
UpdateTransaction(c) ==
  LET t == call[c].tx IN
  /\ pc[c] = "update"
  /\ owner[t] = None
  /\ Apply(c, call[c].row)
  /\ \/ Answer(c, "ok")
     \/ "lost_ack" \in Faults /\ Answer(c, "error")
  /\ UNCHANGED <<owner, orphaned>>

-----------------------------------------------------------------------------
(* A statement fails, the context is cancelled or the connection breaks.   *)
(* A transaction that holds the lock is ended by the server; if COMMIT was *)
(* sent it may be committed.  The call keeps its copy only for that.       *)
CallFails(c) ==
  /\ "error" \in Faults
  /\ pc[c] \in InFlightPC
  /\ pc' = [pc EXCEPT ![c] = "done"]
  /\ reply' = [reply EXCEPT ![c] = "error"]
  /\ \/ pc[c] \in {"lock_row", "update"} /\ UNCHANGED orphaned
     \/ /\ pc[c] \in {"write_row", "commit"}
        /\ orphaned' = [orphaned EXCEPT ![c] = "rollback"]
     \/ /\ pc[c] = "commit" /\ "lost_ack" \in Faults
        /\ orphaned' = [orphaned EXCEPT ![c] = "commit"]
  /\ UNCHANGED <<table, owner, call, copy>>

ServerEnds(c) ==
  /\ \/ orphaned[c] = "commit" /\ Apply(c, copy[c])
     \/ orphaned[c] = "rollback" /\ UNCHANGED table
  /\ Release(call[c].tx)
  /\ orphaned' = [orphaned EXCEPT ![c] = None]
  /\ copy' = [copy EXCEPT ![c] = None]
  /\ UNCHANGED <<pc, call, reply>>

-----------------------------------------------------------------------------
Statement(c) == LockRow(c) \/ WriteRow(c) \/ Commit(c) \/ UpdateTransaction(c)

Next == \E c \in Calls : Begin(c) \/ Statement(c) \/ CallFails(c) \/ ServerEnds(c)

Spec == Init /\ [][Next]_vars

(* A statement that can proceed does, and the server ends the transactions *)
(* of clients that are gone.                                               *)
FairSpec ==
  Spec /\ \A c \in Calls : WF_vars(Statement(c)) /\ WF_vars(ServerEnds(c))

-----------------------------------------------------------------------------
(* Every change of a proposal is one atomic method of CustodyStore on the  *)
(* row as it is at that moment, made by a call of that method: a decision  *)
(* that Go took on an earlier read still holds when it is committed.       *)
MethodOf(c) ==
  LET a == call[c] IN
  \/ a.op = "approve" /\ Rows!AddApproval(a.tx, a.signer)
  \/ a.op = "sign" /\ Rows!MarkTransactionSigned(a.tx, payload(c))
  \/ a.op = "update" /\ Rows!UpdateTransaction(a.tx, a.row)

Deciding(c) == pc[c] \in {"commit", "update"} \/ orphaned[c] = "commit"

EveryWriteIsAMethod == [][\E c \in Calls : Deciding(c) /\ MethodOf(c)]_proposal

(* The status column says what the proposal beside it says, although       *)
(* AddApproval writes the one without the other.                           *)
StatusColumnAgrees ==
  \A t \in Txns : Rows!Stored(t) => status[t] = proposal[t].status

(* MarkTransactionSigned marks a proposal once: of all the calls that race *)
(* to store a signature, at most one is told that it did.                  *)
SignedOnce ==
  \A c, d \in Calls :
    /\ reply[c] = "ok" /\ call[c].op = "sign"
    /\ reply[d] = "ok" /\ call[d].op = "sign"
    /\ call[c].tx = call[d].tx
    => c = d

(* No call waits for a row lock forever. *)
RowCallsReturn == \A c \in Calls : pc[c] \in InFlightPC ~> pc[c] = "done"

-----------------------------------------------------------------------------
(* The inductive invariant.  Whoever holds a row's lock has decided on the *)
(* row as it still is; no call brings back the status "proposed".          *)

HoldsRow(c) == pc[c] \in {"write_row", "commit"} \/ orphaned[c] # None

Decided(c) ==
  LET t == call[c].tx
  IN  /\ owner[t] = c /\ Rows!Stored(t)
      /\ ~Refused(c, proposal[t])
      /\ copy[c] = Changed(c, proposal[t])

CallInv(c) ==
  /\ pc[c] # "idle" => call[c] \in Call
  /\ pc[c] = "lock_row" \/ HoldsRow(c) => call[c].op \in {"approve", "sign"}
  /\ pc[c] = "update" =>
       /\ call[c].op = "update"
       /\ Rows!Stored(call[c].tx) /\ call[c].row.status # "proposed"
  /\ reply[c] # None \/ orphaned[c] # None => pc[c] = "done"
  /\ orphaned[c] # None => reply[c] = "error"
  /\ HoldsRow(c) => Decided(c)
  /\ reply[c] = "ok" /\ call[c].op = "sign" =>
       Rows!Stored(call[c].tx) /\ proposal[call[c].tx].status # "proposed"

IndInv ==
  /\ TypeOK
  /\ StatusColumnAgrees
  /\ SignedOnce
  /\ \A c \in Calls : CallInv(c)
=============================================================================
