------------------------------ MODULE Creation ------------------------------
(***************************************************************************)
(* wallet.Service up to the stored proposal: CreateWallet and              *)
(* ProposeTransaction, with their idempotency keys, the wallet material in *)
(* the signing backend and the nonces that the EVM adapter hands out.      *)
(*                                                                         *)
(* As in WalletService, every request is a goroutine whose calls on the    *)
(* store, the signer and the adapter interleave with those of the others.  *)
(* Resource IDs are random; a request makes at most one resource, so the   *)
(* request that made it stands for its ID.  A store method is one atomic   *)
(* step, as it is in MemoryStore.                                          *)
(***************************************************************************)
EXTENDS Naturals

CONSTANTS
  Requests,         \* HTTP requests, and the IDs of what they create
  Keys,             \* values of the Idempotency-Key header
  Bodies,           \* bodies of proposals: an amount, and whether it is complete
  MaxBitcoinAmount, \* policy.MaxBitcoinAmountSats; 0 is no limit
  MaxEVMAmount,     \* policy.MaxEVMAmountWei; None is no limit
  EvmDevKey,        \* whether all EVM wallets share the configured private key
  EvmRpc,           \* whether the EVM adapter has an RPC URL
  Faults,           \* the faults of the environment that may happen
  None              \* Go's zero value: no row, no key

Chains == {"bitcoin", "evm"}

Body == [amount : Nat, complete : BOOLEAN]

(* What matters of a stored proposal; only EVM transactions have a nonce. *)
Proposal == [wallet : Requests, nonce : Nat \cup {None}]

ASSUME CreationAssumption ==
  /\ Bodies \subseteq Body
  /\ MaxBitcoinAmount \in Nat
  /\ MaxEVMAmount \in Nat \cup {None}
  /\ EvmDevKey \in BOOLEAN /\ EvmRpc \in BOOLEAN
  /\ Faults \subseteq {"cancel", "store_error", "lost_ack", "chain_error", "crash"}
  /\ None \notin Requests \cup Keys \cup Chains
  /\ None \notin Bodies
  /\ None \notin Proposal

VARIABLES
  wallets,       \* wallet ID -> its chain, or None
  transactions,  \* transaction ID -> the stored proposal, or None
  idempotency,   \* scope and key -> resource ID, or None
  auditEvents,   \* the creation events appended so far
  records,       \* wallets whose key the signing backend holds, in memory
  nonces,        \* address -> next nonce, in the memory of the EVM adapter
  pendingNonce,  \* address -> next nonce, as the EVM node sees it
  pc,            \* the call each handler makes next
  ctx,           \* whether each request's context is still live
  call,          \* the arguments of each request
  body,          \* the body of a proposal until its transaction is built
  draft,         \* the proposal a handler is about to store
  reply          \* the answer: the status, by its name in net/http, and the resource in it

store == <<wallets, transactions, idempotency>>
locals == <<ctx, body, draft>>
memory == <<records, nonces>>
vars == <<store, auditEvents, memory, pendingNonce, pc, locals, call, reply>>

-----------------------------------------------------------------------------
(* All EVM wallets have one address when the dev key is configured. *)
Addresses == Requests \cup {"dev"}
Address(w) == IF EvmDevKey THEN "dev" ELSE w

(* The scope keeps wallets of each chain, and proposals of each wallet,    *)
(* apart: a key means something only within its scope.                     *)
Scope == ({"wallet"} \X Chains) \cup ({"transaction"} \X Requests)

Call == [scope : Scope, key : Keys \cup {None}]

CreatePC == {"create_material", "store_wallet"}
ProposePC == {"get_wallet", "build", "store_transaction"}
InFlightPC == CreatePC \cup ProposePC \cup {"audit"}

InFlight(r) == pc[r] \in InFlightPC

TypeOK ==
  /\ wallets \in [Requests -> Chains \cup {None}]
  /\ transactions \in [Requests -> Proposal \cup {None}]
  /\ idempotency \in [Scope \X Keys -> Requests \cup {None}]
  /\ auditEvents \in SUBSET [id : Requests, resourceID : Requests]
  /\ records \in SUBSET Requests
  /\ nonces \in [Addresses -> Nat]
  /\ pendingNonce \in [Addresses -> Nat]
  /\ pc \in [Requests -> {"idle", "done"} \cup InFlightPC]
  /\ ctx \in [Requests -> {"live", "cancelled"}]
  /\ call \in [Requests -> Call \cup {None}]
  /\ body \in [Requests -> Bodies \cup {None}]
  /\ draft \in [Requests -> Proposal \cup {None}]
  /\ reply \in [Requests -> [status : {"none", "Created", "BadRequest", "NotFound", "InternalServerError"},
                             resource : Requests \cup {None}]]

NoReply == [status |-> "none", resource |-> None]

Init ==
  /\ wallets = [r \in Requests |-> None]
  /\ transactions = [r \in Requests |-> None]
  /\ idempotency = [k \in Scope \X Keys |-> None]
  /\ auditEvents = {}
  /\ records = {}
  /\ nonces = [a \in Addresses |-> 0]
  /\ pendingNonce = [a \in Addresses |-> 0]
  /\ pc = [r \in Requests |-> "idle"]
  /\ ctx = [r \in Requests |-> "live"]
  /\ call = [r \in Requests |-> None]
  /\ body = [r \in Requests |-> None]
  /\ draft = [r \in Requests |-> None]
  /\ reply = [r \in Requests |-> NoReply]

-----------------------------------------------------------------------------
(* Control of a handler. *)

Goto(r, label) ==
  /\ pc' = [pc EXCEPT ![r] = label]
  /\ UNCHANGED <<call, reply>>

Respond(r, status, resource) ==
  /\ pc' = [pc EXCEPT ![r] = "done"]
  /\ reply' = [reply EXCEPT ![r] = [status |-> status, resource |-> resource]]
  /\ ctx' = [ctx EXCEPT ![r] = "live"]
  /\ body' = [body EXCEPT ![r] = None]
  /\ draft' = [draft EXCEPT ![r] = None]
  /\ UNCHANGED call

Refuse(r, status) == Respond(r, status, None)

(* A commit may be reported to the handler as an error. *)
MayLoseAck == "lost_ack" \in Faults

(* Every call fails on a cancelled context. *)
MayFail(r) == ctx[r] = "cancelled" \/ "store_error" \in Faults

AtCall(r, label) == pc[r] = label /\ ctx[r] = "live"

-----------------------------------------------------------------------------
(* The store.  Both kinds of resource are created in the same way. *)

KeyOfUnscoped(r) == <<<<"wallet", "bitcoin">>, call[r].key>>

KeyOf(r) == <<call[r].scope, call[r].key>>

ExistingIgnored(r) == None

Existing(r) == IF call[r].key = None THEN None ELSE idempotency[KeyOf(r)]

(* The row and its idempotency record, together. *)
InsertWallet(r) ==
  /\ wallets' = [wallets EXCEPT ![r] = call[r].scope[2]]
  /\ UNCHANGED transactions

InsertTransaction(r) ==
  /\ transactions' = [transactions EXCEPT ![r] = draft[r]]
  /\ UNCHANGED wallets

SaveKeyForgotten(r) == UNCHANGED idempotency

SaveKey(r) ==
  IF call[r].key = None THEN UNCHANGED idempotency
  ELSE idempotency' = [idempotency EXCEPT ![KeyOf(r)] = r]

(* Two wrong endings: a replay answered with the ID just drawn, and one    *)
(* that is audited as if it had created something.                         *)
StoreResourceOwnID(r, Insert) ==
  \/ /\ Existing(r) # None
     /\ Respond(r, "Created", r)
     /\ UNCHANGED store
  \/ /\ Existing(r) = None
     /\ Insert
     /\ SaveKey(r)
     /\ Goto(r, "audit") /\ UNCHANGED locals

StoreResourceAuditAll(r, Insert) ==
  /\ IF Existing(r) = None THEN Insert /\ SaveKey(r) ELSE UNCHANGED store
  /\ Goto(r, "audit") /\ UNCHANGED locals

(* The end of both handlers: a resource that the key already names is      *)
(* returned as it is and not audited; a new one is stored, then audited.   *)
StoreResource(r, Insert) ==
  \/ /\ Existing(r) # None
     /\ Respond(r, "Created", Existing(r))
     /\ UNCHANGED store
  \/ /\ Existing(r) = None
     /\ Insert
     /\ SaveKey(r)
     /\ \/ Goto(r, "audit") /\ UNCHANGED locals
        \/ MayLoseAck /\ Refuse(r, "InternalServerError")

ResourceAudited(r) ==
  /\ AtCall(r, "audit")
  /\ auditEvents' = auditEvents \cup {[id |-> r, resourceID |-> r]}
  /\ \/ Respond(r, "Created", r)
     \/ MayLoseAck /\ Refuse(r, "InternalServerError")
  /\ UNCHANGED <<store, memory, pendingNonce>>

-----------------------------------------------------------------------------
(* CreateWallet. *)

CreateWalletLateKey(r, chain, key) ==
  /\ pc[r] = "idle" /\ chain \in Chains
  /\ call' = [call EXCEPT ![r] = [scope |-> <<"wallet", chain>>, key |-> key]]
  /\ pc' = [pc EXCEPT ![r] = "store_wallet"]
  /\ UNCHANGED <<store, auditEvents, memory, pendingNonce, locals, reply>>

(* A chain without an adapter is refused at once. *)
CreateWallet(r, chain, key) ==
  /\ pc[r] = "idle"
  /\ \/ /\ chain \in Chains
        /\ call' = [call EXCEPT ![r] = [scope |-> <<"wallet", chain>>, key |-> key]]
        /\ pc' = [pc EXCEPT ![r] = "create_material"]
        /\ UNCHANGED reply
     \/ /\ chain \notin Chains
        /\ pc' = [pc EXCEPT ![r] = "done"]
        /\ reply' = [reply EXCEPT ![r] = [status |-> "BadRequest", resource |-> None]]
        /\ UNCHANGED call
  /\ UNCHANGED <<store, auditEvents, memory, pendingNonce, locals>>

(* The signer makes a key before the store looks at the idempotency key. *)
MaterialCreated(r) ==
  /\ AtCall(r, "create_material")
  /\ records' = records \cup {r}
  /\ Goto(r, "store_wallet")
  /\ UNCHANGED <<store, auditEvents, nonces, pendingNonce, locals>>

CreateWalletIdempotently(r) ==
  /\ AtCall(r, "store_wallet")
  /\ StoreResource(r, InsertWallet(r))
  /\ UNCHANGED <<auditEvents, memory, pendingNonce>>

-----------------------------------------------------------------------------
(* ProposeTransaction. *)

ProposeTransaction(r, w, key, b) ==
  /\ pc[r] = "idle"
  /\ call' = [call EXCEPT ![r] = [scope |-> <<"transaction", w>>, key |-> key]]
  /\ body' = [body EXCEPT ![r] = b]
  /\ pc' = [pc EXCEPT ![r] = "get_wallet"]
  /\ UNCHANGED <<store, auditEvents, memory, pendingNonce, ctx, draft, reply>>

(* A Bitcoin limit of zero is no limit, an EVM limit of zero allows        *)
(* nothing.                                                                *)
validateAmountPolicy(chain, amount) ==
  /\ amount > 0
  /\ chain = "bitcoin" /\ MaxBitcoinAmount > 0 => amount <= MaxBitcoinAmount
  /\ chain = "evm" /\ MaxEVMAmount # None => amount <= MaxEVMAmount

GetWallet(r) ==
  LET chain == wallets[call[r].scope[2]]
  IN  /\ AtCall(r, "get_wallet")
      /\ \/ /\ chain # None /\ validateAmountPolicy(chain, body[r].amount)
            /\ Goto(r, "build")
            /\ UNCHANGED locals
         \/ /\ chain # None /\ ~validateAmountPolicy(chain, body[r].amount)
            /\ Refuse(r, "BadRequest")
         \/ chain = None /\ Refuse(r, "NotFound")
      /\ UNCHANGED <<store, auditEvents, memory, pendingNonce>>

(* Without a node the EVM adapter keeps the next nonce itself; reading and *)
(* advancing it is one step under its mutex.                               *)
nextNonceKept(a) == UNCHANGED nonces

nextNonce(a) == nonces' = [nonces EXCEPT ![a] = @ + 1]

(* With a node it asks for the pending nonce, which only an accepted       *)
(* transaction advances.                                                   *)
populateFromRPCAhead(a) == pendingNonce[a] + 1

populateFromRPC(a) == pendingNonce[a]

BuildTransaction(r) ==
  LET w == call[r].scope[2]
      a == Address(w)
      local == wallets[w] = "evm" /\ ~EvmRpc
      nonce == IF wallets[w] # "evm" THEN None
               ELSE IF EvmRpc THEN populateFromRPC(a) ELSE nonces[a]
  IN  /\ AtCall(r, "build")
      /\ body[r].complete
      /\ draft' = [draft EXCEPT ![r] = [wallet |-> w, nonce |-> nonce]]
      /\ IF local THEN nextNonce(a) ELSE UNCHANGED nonces
      /\ body' = [body EXCEPT ![r] = None]
      /\ Goto(r, "store_transaction")
      /\ UNCHANGED <<store, auditEvents, records, pendingNonce, ctx>>

(* A field is missing, or the node does not answer. *)
BuildFails(r) ==
  /\ pc[r] = "build"
  /\ \/ ctx[r] = "cancelled"
     \/ ~body[r].complete
     \/ "chain_error" \in Faults /\ EvmRpc /\ wallets[call[r].scope[2]] = "evm"
  /\ Refuse(r, "InternalServerError")
  /\ UNCHANGED <<store, auditEvents, memory, pendingNonce>>

CreateTransactionIdempotently(r) ==
  /\ AtCall(r, "store_transaction")
  /\ StoreResource(r, InsertTransaction(r))
  /\ UNCHANGED <<auditEvents, memory, pendingNonce>>

-----------------------------------------------------------------------------
(* The environment. *)

StoreCallFails(r) ==
  /\ pc[r] \in {"store_wallet", "get_wallet", "store_transaction", "audit"}
  /\ MayFail(r)
  /\ Refuse(r, "InternalServerError")
  /\ UNCHANGED <<store, auditEvents, memory, pendingNonce>>

MaterialFails(r) ==
  /\ pc[r] = "create_material" /\ ctx[r] = "cancelled"
  /\ Refuse(r, "InternalServerError")
  /\ UNCHANGED <<store, auditEvents, memory, pendingNonce>>

Cancel(r) ==
  /\ "cancel" \in Faults
  /\ InFlight(r) /\ ctx[r] = "live"
  /\ ctx' = [ctx EXCEPT ![r] = "cancelled"]
  /\ UNCHANGED <<store, auditEvents, memory, pendingNonce, pc, call, body, draft, reply>>

(* The node takes a stored proposal that was signed and broadcast. *)
NodeAccepts(t) ==
  LET a == Address(transactions[t].wallet)
  IN  /\ EvmRpc
      /\ transactions[t] # None
      /\ transactions[t].nonce = pendingNonce[a]
      /\ pendingNonce' = [pendingNonce EXCEPT ![a] = @ + 1]
      /\ UNCHANGED <<store, auditEvents, memory, pc, locals, call, reply>>

(* The process restarts with the database it left: handlers, wallet        *)
(* material and the adapter's nonces are gone.                             *)
Crash ==
  /\ "crash" \in Faults
  /\ records' = {}
  /\ nonces' = [a \in Addresses |-> 0]
  /\ pc' = [r \in Requests |-> IF InFlight(r) THEN "done" ELSE pc[r]]
  /\ ctx' = [r \in Requests |-> "live"]
  /\ body' = [r \in Requests |-> None]
  /\ draft' = [r \in Requests |-> None]
  /\ UNCHANGED <<store, auditEvents, pendingNonce, call, reply>>

-----------------------------------------------------------------------------
HandlerStep(r) ==
  \/ MaterialCreated(r) \/ MaterialFails(r) \/ CreateWalletIdempotently(r)
  \/ GetWallet(r) \/ BuildTransaction(r) \/ BuildFails(r)
  \/ CreateTransactionIdempotently(r)
  \/ ResourceAudited(r) \/ StoreCallFails(r)

Next ==
  \/ \E r \in Requests :
       \/ \E chain \in Chains \cup {None}, key \in Keys \cup {None} :
            CreateWallet(r, chain, key)
       \/ \E w \in Requests, key \in Keys \cup {None}, b \in Bodies :
            ProposeTransaction(r, w, key, b)
       \/ HandlerStep(r)
       \/ Cancel(r)
       \/ NodeAccepts(r)
  \/ Crash

Spec == Init /\ [][Next]_vars

-----------------------------------------------------------------------------
Stored(x) == wallets[x] # None \/ transactions[x] # None

SameKey(r, q) ==
  /\ call[r] # None /\ call[q] # None
  /\ call[r].key # None
  /\ call[r].scope = call[q].scope /\ call[r].key = call[q].key

(* An idempotency key makes one resource in its scope, however many        *)
(* requests with it race, are retried after a lost answer, or straddle a   *)
(* restart: of all stored wallets and proposals, at most one came from it. *)
KeyCreatesOnce ==
  \A x, y \in Requests : Stored(x) /\ Stored(y) /\ SameKey(x, y) => x = y

(* Repeated keys get the same resource: any two clients answered 201 for   *)
(* the same key in the same scope hold the same ID, and it is stored.      *)
RepliesAgree ==
  \A r, q \in Requests :
    /\ reply[r].status = "Created" => Stored(reply[r].resource)
    /\ SameKey(r, q) /\ reply[r].status = "Created" /\ reply[q].status = "Created" =>
         reply[r].resource = reply[q].resource

(* A replayed answer is what was asked for: a wallet of the chain named in *)
(* the request, or a proposal on the wallet named in it.                   *)
ReplyIsInScope ==
  \A r \in Requests : reply[r].status = "Created" =>
    LET x == reply[r].resource
    IN  \/ call[r].scope = <<"wallet", wallets[x]>>
        \/ transactions[x] # None /\ call[r].scope = <<"transaction", transactions[x].wallet>>

(* A creation is audited at most once, only when it happened, and only by  *)
(* the request that made it; replays leave no event.                       *)
CreationAuditedOnce ==
  \A e, f \in auditEvents :
    Stored(e.resourceID) /\ (e.resourceID = f.resourceID => e = f)

(* A wallet is stored only with its key in the hands of the process that   *)
(* stores it, also when a restart comes between the two calls.             *)
StoredWithMaterial ==
  [][\A w \in Requests : wallets[w] = None /\ wallets'[w] # None => w \in records']_vars

(* Without a node, no two proposals that the process can still sign, and   *)
(* that spend from one EVM address, carry the same nonce: a restart begins *)
(* again at zero, yet what was proposed before it lost its key.            *)
NoncesAreUnique ==
  \A t, u \in Requests :
    /\ transactions[t] # None /\ transactions[u] # None
    /\ {transactions[t].wallet, transactions[u].wallet} \subseteq records
    /\ transactions[t].nonce # None
    /\ Address(transactions[t].wallet) = Address(transactions[u].wallet)
    /\ transactions[t].nonce = transactions[u].nonce
    => t = u

(* With a node, no proposal waits for a nonce that nobody was given: its   *)
(* nonce is the node's pending one, or already used.                       *)
NoncesAreReachable ==
  \A t \in Requests :
    transactions[t] # None /\ transactions[t].nonce # None =>
      transactions[t].nonce <= pendingNonce[Address(transactions[t].wallet)]

(* Every custody state transition appends an audit event: once no handler  *)
(* is at work, a client that was told 201 finds the creation of its        *)
(* resource in the log.                                                    *)
AcknowledgedIsAudited ==
  (\A q \in Requests : ~InFlight(q)) =>
    \A r \in Requests : reply[r].status = "Created" =>
      \E e \in auditEvents : e.resourceID = reply[r].resource

-----------------------------------------------------------------------------
(* The inductive invariant.  Resources, keys and requests tell the same    *)
(* story: a stored resource is the one its own key names, and a client     *)
(* that was answered 201 holds the one its key names.                      *)

HandlerInv(r) ==
  /\ InFlight(r) => call[r] \in Call
  /\ pc[r] \in CreatePC => call[r].scope[1] = "wallet"
  /\ pc[r] \in ProposePC => call[r].scope[1] = "transaction"
  /\ pc[r] = "get_wallet" => body[r] \in Bodies
  /\ pc[r] = "build" => body[r] \in Bodies /\ wallets[call[r].scope[2]] # None
  /\ pc[r] = "store_transaction" =>
       draft[r] \in Proposal /\ draft[r].wallet = call[r].scope[2]
  /\ pc[r] = "audit" => Stored(r)
  /\ pc[r] = "store_wallet" => r \in records

ResourceInv(x) ==
  /\ Stored(x) => /\ pc[x] \in {"audit", "done"}
                  /\ call[x] \in Call
                  /\ call[x].key # None => idempotency[KeyOf(x)] = x
  /\ wallets[x] # None => call[x].scope = <<"wallet", wallets[x]>>
  /\ transactions[x] # None => call[x].scope = <<"transaction", transactions[x].wallet>>

RecordInv(k) ==
  LET x == idempotency[k]
  IN  x # None => Stored(x) /\ call[x] \in Call /\ KeyOf(x) = k

ReplyInv(r) ==
  LET x == reply[r].resource
  IN  reply[r].status = "Created" =>
        /\ pc[r] = "done" /\ call[r] \in Call
        /\ x \in Requests /\ Stored(x)
        /\ call[x].scope = call[r].scope
        /\ call[r].key # None => idempotency[KeyOf(r)] = x

IndInv ==
  /\ TypeOK
  /\ \A r \in Requests : HandlerInv(r) /\ ResourceInv(r) /\ ReplyInv(r)
  /\ \A k \in Scope \X Keys : RecordInv(k)

(* The proposal that request t has stored, or has built and may yet store. *)
Given(t) == IF transactions[t] # None THEN transactions[t] ELSE draft[t]

Nonced(t) == Given(t) # None /\ Given(t).nonce # None

Payer(t) == Address(Given(t).wallet)

(* With a node, every nonce handed out is its pending one or a used one.   *)
(* Without, every nonce that can still be signed is below the adapter's    *)
(* counter, which starts again only when the keys of all wallets are lost. *)
NonceInv ==
  /\ \A t \in Requests : Given(t) # None =>
       Given(t) \in Proposal /\ wallets[Given(t).wallet] # None
  /\ EvmRpc =>
       \A t \in Requests : Nonced(t) => Given(t).nonce <= pendingNonce[Payer(t)]
  /\ ~EvmRpc =>
       \A t, u \in Requests :
         /\ Nonced(t) /\ Given(t).wallet \in records => Given(t).nonce < nonces[Payer(t)]
         /\ /\ Nonced(t) /\ Nonced(u)
            /\ {Given(t).wallet, Given(u).wallet} \subseteq records
            /\ Payer(t) = Payer(u) /\ Given(t).nonce = Given(u).nonce
            => t = u

(* Keys, answers and nonces are consistent. *)
SafetyInv == IndInv /\ NonceInv
=============================================================================
