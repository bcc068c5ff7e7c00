------------------------------ MODULE Rollout ------------------------------
(***************************************************************************)
(* The life cycle of the process, and a rolling update: a new process      *)
(* starts on the same database while the old one serves, and then the old  *)
(* one is told to stop.  The deployment has one replica and the default    *)
(* update strategy, so both may serve at the same time.                    *)
(*                                                                         *)
(* Each process has a signing backend of its own.  All the wallets were    *)
(* created through the old one, so the new one has no key for any of them. *)
(* A handler is the handler of WalletService, wherever it runs.  Clients   *)
(* stay until they are answered: what a client that leaves does to its     *)
(* handler is a matter of WalletService.                                   *)
(***************************************************************************)
EXTENDS WalletService

VARIABLES
  phase,   \* how far the update has come
  server   \* the process that serves each request; None before it arrives

rolloutVars == <<vars, phase, server>>

-----------------------------------------------------------------------------
Phase == {"old", "migrating", "overlap", "draining", "stopped", "killed"}

(* The processes that accept requests. *)
Serving ==
  CASE phase \in {"old", "migrating"} -> {"old"}
    [] phase = "overlap" -> {"old", "new"}
    [] phase \in {"draining", "stopped", "killed"} -> {"new"}

RolloutInit ==
  /\ Init
  /\ phase = "old"
  /\ server = [r \in Requests |-> None]

InFlightAt(p) == {r \in Requests : server[r] = p /\ InFlight(r)}

-----------------------------------------------------------------------------
(* Handlers. *)

Arrives(r) ==
  /\ \/ \E t \in Txns, s \in Signers \cup {None} : CoSign(r, t, s)
     \/ \E t \in Txns : Broadcast(r, t)
  /\ \E p \in Serving : server' = [server EXCEPT ![r] = p]
  /\ UNCHANGED phase

(* The new process finds no wallet material. *)
MaterialMissing(r) ==
  /\ pc[r] = "sign"
  /\ Goto(r, "fail_transaction")
  /\ UNCHANGED <<store, records, accepted, locals>>

Handle(r) ==
  /\ \/ server[r] = "old" /\ HandlerStep(r)
     \/ server[r] = "new" /\ pc[r] # "sign" /\ HandlerStep(r)
     \/ server[r] = "new" /\ MaterialMissing(r)
  /\ UNCHANGED <<phase, server>>

-----------------------------------------------------------------------------
(* The processes. *)

(* Every migration creates a table or an index unless it is there: the     *)
(* tables that the old process uses, and their rows, stay.                 *)
RunMigrations == UNCHANGED store

(* The new process opens the store on the same database. *)
OpenStore ==
  /\ phase = "old"
  /\ phase' = "migrating"
  /\ RunMigrations
  /\ UNCHANGED <<records, accepted, handlers, server>>

ListenAndServe ==
  /\ phase = "migrating"
  /\ phase' = "overlap"
  /\ UNCHANGED <<vars, server>>

(* SIGTERM: server.Shutdown closes the listener and waits.  The contexts   *)
(* of requests in flight are not cancelled.                                *)
Signal ==
  /\ phase = "overlap"
  /\ phase' = "draining"
  /\ UNCHANGED <<vars, server>>

(* The old process is gone, its keys and whatever handlers it had. *)
OldExits(end) ==
  /\ phase' = end
  /\ records' = {}
  /\ pc' = [r \in Requests |-> IF r \in InFlightAt("old") THEN "done" ELSE pc[r]]
  /\ ctx' = [r \in Requests |-> IF r \in InFlightAt("old") THEN "live" ELSE ctx[r]]
  /\ proposal' = [r \in Requests |-> IF r \in InFlightAt("old") THEN None ELSE proposal[r]]
  /\ signature' = [r \in Requests |-> IF r \in InFlightAt("old") THEN None ELSE signature[r]]
  /\ UNCHANGED <<store, accepted, call, reply, server>>

(* Shutdown returns when no request is in flight; main closes the store. *)
ShutdownReturnsAtOnce == phase = "draining" /\ OldExits("stopped")

ShutdownWaitsForIdle ==
  /\ phase = "draining"
  /\ \A r \in Requests : pc[r] = "done"
  /\ OldExits("stopped")

ShutdownReturns ==
  /\ phase = "draining"
  /\ InFlightAt("old") = {}
  /\ OldExits("stopped")

(* The grace period ends first: os.Exit(1). *)
GraceExpires ==
  /\ "crash" \in Faults
  /\ phase = "draining"
  /\ InFlightAt("old") # {}
  /\ OldExits("killed")

-----------------------------------------------------------------------------
RolloutNext ==
  \/ \E r \in Requests : Arrives(r) \/ Handle(r)
  \/ OpenStore \/ ListenAndServe \/ Signal \/ ShutdownReturns \/ GraceExpires

RolloutSpec == RolloutInit /\ [][RolloutNext]_rolloutVars

(* Handlers run, and a Shutdown with nothing left to wait for returns. *)
FairRolloutSpec ==
  /\ RolloutSpec
  /\ \A r \in Requests : WF_rolloutVars(Handle(r))
  /\ WF_rolloutVars(ShutdownReturns)

-----------------------------------------------------------------------------
(* A graceful stop cuts no handler between a state change and its audit    *)
(* event: unless the grace period expires, every transition is audited,    *)
(* through the whole update.                                               *)
CleanStopIsAudited == phase # "killed" => EveryTransitionIsAudited

(* A signed payload is lost only to a handler of the new process, which    *)
(* fails to sign for want of the key and writes its copy back.  No handler *)
(* of the process that has the keys ever replaces or erases one.           *)
OnlyTheKeylessErase ==
  [][\A t \in Txns :
       /\ Stored(t) /\ transactions[t].signedTransaction # None
       /\ transactions'[t].signedTransaction # transactions[t].signedTransaction
       => /\ transactions'[t].status = "failed"
          /\ \E r \in Requests :
               /\ server[r] = "new" /\ call[r].tx = t
               /\ pc[r] = "fail_transaction" /\ pc'[r] = "audit_failed"]_rolloutVars

(* A quorum is acted on through the whole update, whichever process each   *)
(* approval reaches, unless the grace period cuts the handler off.         *)
QuorumOutlivesUpdate ==
  \A t \in Txns : Undecided(t) ~> ~Undecided(t) \/ phase = "killed"

(* A process that is told to stop does: the handlers in flight end, none   *)
(* are added, and Shutdown returns.                                        *)
DrainEnds == phase = "draining" ~> phase \in {"stopped", "killed"}

-----------------------------------------------------------------------------
(* The inductive invariant.  IndInv does not hold here: a handler without  *)
(* the key may write a copy from before the signature over a signed row.   *)

OldIsGone == phase \in {"stopped", "killed"}

UpdateTypeOK ==
  /\ TypeOK
  /\ phase \in Phase
  /\ server \in [Requests -> {"old", "new", None}]

(* The old process has every key until it is gone, and with it its         *)
(* handlers.                                                               *)
ServerInv(r) ==
  /\ ctx[r] = "live"
  /\ InFlight(r) => /\ call[r] \in Call
                    /\ server[r] = "old" => ~OldIsGone
  /\ pc[r] \in CoSignPC => call[r].op = "cosign" /\ call[r].signer \in Signers
  /\ pc[r] \in BroadcastPC => call[r].op = "broadcast"

(* With the key at hand only an unsignable proposal fails to be signed. *)
OpenInv(r) ==
  LET t == call[r].tx
      p == proposal[r]
  IN  HoldsOpenCopy(r) =>
        /\ p \in TransactionProposal /\ p.signedTransaction = None
        /\ pc[r] = "sign" => ApprovalsCount(p) >= 2
        /\ pc[r] = "mark_signed" => t \notin Unsignable /\ signature[r] \in Payload
        /\ pc[r] = "fail_transaction" /\ server[r] = "old" => t \in Unsignable

(* A payload that was read for broadcasting may have been erased since,    *)
(* never replaced.                                                         *)
SignedInv(r) ==
  LET t == call[r].tx
      p == proposal[r]
  IN  HoldsSignedCopy(r) =>
        /\ p \in TransactionProposal /\ p.signedTransaction # None
        /\ t \notin Unsignable
        /\ Stored(t) /\ transactions[t].status # "proposed"
        /\ transactions[t].signedTransaction \in {None, p.signedTransaction}

CopiesAgree(r, q) ==
  HoldsSignedCopy(r) /\ HoldsSignedCopy(q) /\ call[r].tx = call[q].tx =>
    proposal[r].signedTransaction = proposal[q].signedTransaction

PayloadInv(t) ==
  Stored(t) /\ transactions[t].signedTransaction # None =>
    transactions[t].status # "proposed" /\ t \notin Unsignable

UpdateInv ==
  /\ UpdateTypeOK
  /\ ~OldIsGone => records = Wallets
  /\ \A r \in Requests : ServerInv(r) /\ OpenInv(r) /\ SignedInv(r)
  /\ \A r, q \in Requests : CopiesAgree(r, q)
  /\ \A t \in Txns : PayloadInv(t)

-----------------------------------------------------------------------------
(* What has happened is in the audit log, or in a handler that is about to *)
(* append it, as long as the store does what it reports.                   *)

Reliable == Faults \cap {"store_error", "lost_ack"} = {}

ApprovalAccounted(t, s) ==
  \/ Audited(t, "transaction.approved", s)
  \/ \E r \in Requests :
       pc[r] = "audit_approved" /\ call[r].tx = t /\ call[r].signer = s

StatusEvent(status) ==
  CASE status = "signed" -> "transaction.signed"
    [] status = "broadcast" -> "transaction.broadcast"
    [] status = "failed" -> "transaction.failed"

StatusCall(status) ==
  CASE status = "signed" -> "audit_signed"
    [] status = "broadcast" -> "audit_broadcast"
    [] status = "failed" -> "audit_failed"

StatusAccounted(t, status) ==
  \/ Audited(t, StatusEvent(status), None)
  \/ \E r \in Requests : pc[r] = StatusCall(status) /\ call[r].tx = t

RowAccounted(t) ==
  Stored(t) =>
    /\ \A s \in transactions[t].approvals : ApprovalAccounted(t, s)
    /\ transactions[t].status # "proposed" => StatusAccounted(t, transactions[t].status)

(* A copy that may be written back brings no approval that is in neither. *)
CopyAccounted(r) ==
  HoldsOpenCopy(r) \/ HoldsSignedCopy(r) =>
    \A s \in proposal[r].approvals : ApprovalAccounted(call[r].tx, s)

AccountInv ==
  phase # "killed" =>
    /\ \A t \in Txns : RowAccounted(t)
    /\ \A r \in Requests : CopyAccounted(r)

-----------------------------------------------------------------------------
(* What reached the chain, and what every row and every copy that may be   *)
(* written back has, whichever process writes it.                          *)

(* A payload may be erased by the update, but no proposal is paid out by   *)
(* two different payloads.                                                 *)
OnePayloadPerProposal == \A p, q \in accepted : p.tx = q.tx => p = q

(* Whichever process the approvals reached, a proposal leaves "proposed"   *)
(* only with those of two different signers, all allowed by the policy.    *)
TwoSigners(A) == \E a, b \in A : a # b

DecidedByTwo ==
  \A t \in Txns : Stored(t) /\ transactions[t].status # "proposed" =>
    /\ TwoSigners(transactions[t].approvals)
    /\ \A s \in transactions[t].approvals : signerAllowed(s)

RowSettled(t, row, chain) ==
  /\ \A s \in row.approvals : signerAllowed(s)
  /\ row.status # "proposed" => TwoSigners(row.approvals)
  /\ row.signedTransaction # None => row.signedTransaction.tx = t
  /\ row.status = "broadcast" =>
       /\ row.signedTransaction \in chain
       /\ row.broadcastHash = Hash(row.signedTransaction)

(* An open row has every approval of the copies that were taken of it. *)
CopySettled(r) ==
  LET t == call[r].tx
      p == proposal[r]
  IN  HoldsOpenCopy(r) \/ HoldsSignedCopy(r) =>
        /\ RowSettled(t, p, accepted)
        /\ pc[r] # "audit_approved" => TwoSigners(p.approvals)
        /\ transactions[t].status = "proposed" => p.approvals \subseteq transactions[t].approvals

HandlerSettled(r) ==
  /\ pc[r] \in CoSignPC => signerAllowed(call[r].signer)
  /\ pc[r] = "mark_signed" => signature[r].tx = call[r].tx
  /\ pc[r] = "store_broadcast" => proposal[r].signedTransaction \in accepted

(* A payload on the chain is the only one that its proposal can still be   *)
(* broadcast with.                                                         *)
PayloadSettled(p) ==
  /\ Stored(p.tx) /\ transactions[p.tx].status # "proposed"
  /\ transactions[p.tx].signedTransaction \in {None, p}
  /\ \A r \in Requests : HoldsSignedCopy(r) /\ call[r].tx = p.tx =>
       proposal[r].signedTransaction = p

SettledInv ==
  /\ \A t \in Txns : Stored(t) => RowSettled(t, transactions[t], accepted)
  /\ \A r \in Requests : CopySettled(r) /\ HandlerSettled(r)
  /\ \A p \in accepted : PayloadSettled(p)
  /\ OnePayloadPerProposal
=============================================================================
