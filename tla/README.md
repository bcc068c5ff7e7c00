# mpc-custody in TLA+

This directory specifies, model-checks and proves properties of the custody
service in `src/`: wallets are created, transactions are proposed, two of three
signers approve, the service signs, and the signed payload goes to a chain.

## The system and its parts

| part | source | state | operations that change it |
|---|---|---|---|
| service | `internal/wallet/service.go` | none of its own; each request holds a copy of a proposal | `CreateWallet`, `ProposeTransaction`, `CoSign`, `Broadcast`, `failTransaction`, `appendAudit` |
| memory store | `internal/store/memory.go` | wallets, proposals, audit events, idempotency records, under one mutex | one method per operation |
| Postgres store | `internal/store/postgres.go` | the same, as tables | the same methods, as statements or transactions |
| signing backend | `internal/signing/demo.go` | private keys, in memory only | `CreateWallet`; `SignTransaction` reads |
| Bitcoin adapter | `internal/chains/bitcoin` | none | builds and hashes |
| EVM adapter | `internal/chains/evm` | next nonce per address, in memory | `nextNonce`; over RPC the node's state |
| HTTP API | `internal/api/server.go` | none | routes requests, maps errors to statuses |
| configuration, process | `internal/config`, `cmd/custody-api` | read once | start, stop |
| metrics | `internal/observability/metrics.go`, `tracing.go` | counters and samples, under one RWMutex | `Inc`, `ObserveDuration`; a scrape reads |
| ids, migrations | `internal/ids`, `internal/store/migrations` | none | none that custody depends on |

Every HTTP request runs in a goroutine of its own. Its handler makes a few calls
on the store, the signer and the adapter; each call takes effect at one instant
and the calls of all requests interleave. This is what makes the service hard:

* a handler reads a proposal, makes other calls, and writes the *whole* copy
  back (`UpdateTransaction` looks at nothing in the row it replaces);
* the client may go away at any moment, and from then on every call fails;
* a commit, or an answer of the EVM node, may be lost after it took effect;
* a restart keeps the database and loses keys, nonces and handlers, and during a
  rolling update two processes share the database but not the keys;
* in Postgres a call is several statements, which wait for row locks, for the
  unique index on keys and for a connection of the pool;
* a state change and its audit event are two calls.

`PROJECT.json` lists each hazard at its line with the properties aimed at it.

## The modules

| module | what it is |
|---|---|
| `CustodyStore` | a stored proposal and the audit log, one operator per store method |
| `WalletService` | `CoSign` and `Broadcast` over that store, with signer, chains and faults; its properties and inductive invariant |
| `QuorumGate` | the abstract promise: open, then sealed with one payload or abandoned, each with two approvals; only sealed payloads are published |
| `WalletServiceGate` | the refinement mapping from `WalletService` to `QuorumGate` |
| `Creation` | `CreateWallet` and `ProposeTransaction`, with idempotency keys, wallet material and nonces |
| `IdempotentStore` | the abstract promise of the idempotent inserts: a key creates once, and every other call returns what it created or fails |
| `CreationStore` | the refinement mapping from `Creation` to `IdempotentStore` |
| `PostgresInserts` | `CreateWallet`, `CreateTransaction` and their idempotent forms in `PostgresStore`, statement by statement |
| `PostgresRows` | `AddApproval`, `MarkTransactionSigned` and `UpdateTransaction` in `PostgresStore`, statement by statement |
| `Rollout` | start, overlap, signal, drain and exit of processes around the handlers of `WalletService` |
| `Numerals` | numbers as text, and what `strconv` makes of them |
| `Lists` | the loop that appends the wanted items of a slice to a new one |
| `AuditLog` | `appendAudit` and the two `ListAuditEvents` with filter, limit and order |
| `Metrics` | the middleware, the registry with its lock, and scrapes |
| `Policy` | the policy, from the environment to the decision on a request |
| `MC...` | small instances of the modules they name |
| `WalletServiceSteps`, `WalletServiceProofs` | co-signing and broadcasting: what a legal write and a quiet step preserve and the actions; then the theorems, the audit log and the refinement of `QuorumGate` |
| `CreationProofs` | creation: the actions; then the theorems, nonces, the audit of creations and the refinement of `IdempotentStore` |
| `PostgresInsertsProofs`, `PostgresRowsProofs` | the theorems about the two Postgres modules |
| `RolloutProofs`, `MetricsProofs` | the theorems about the rolling update and about the registry |
| `AuditPolicyProofs` | the theorems about the queries of the audit log and about the policy, and the inductions over slices they need |

The modules meet in two places. `Creation` uses the idempotent inserts as one
atomic step each, and `WalletService` uses the methods of `CustodyStore` so.
`MemoryStore` is atomic because of its mutex. For `PostgresStore` it is a
theorem: `PostgresInserts` implements the same `IdempotentStore` that `Creation`
implements, and every change of a row in `PostgresRows` is a method of
`CustodyStore`.

### State and actions

A handler is a program counter `pc[r]` whose value names the call it makes next,
together with the Go locals that survive that call (`proposal`, `signature`,
`body`, `draft`) and its context (`ctx`). An action is one call and everything
the handler does up to its next call. `CoSign` (service.go:246) is:

    add_approval -> audit_approved -> sign -> mark_signed -> audit_signed

and `Broadcast` (service.go:306) is:

    get_transaction -> submit -> store_broadcast -> audit_broadcast

A failure of `sign` or `submit` continues with `fail_transaction` and
`audit_failed`, whose own errors the code discards; a failure of any other call
ends the request. When a handler returns its locals are cleared, which only
makes equal states equal.

In `Creation` the two handlers are

    create_material -> store_wallet -> audit
    get_wallet -> build -> store_transaction -> audit

and they share the end: a resource that the key already names is returned and
not audited.

In the Postgres modules `pc[c]` names the statement a call runs next. A row or a
key inserted by an open transaction is invisible to others until the commit; an
insert of the same key waits for that transaction (`entry`), and `SELECT ... FOR
UPDATE` and `UPDATE` wait for the row's lock (`owner`). A call that fails answers
at once, and the server ends its transaction later (`orphaned`), with a commit
if `COMMIT` was sent.

`Rollout` extends `WalletService` with the process that serves each request.
The wallets were created through the old process, so the new one takes the branch
of `SignTransaction` for a key that is not there. Its phases follow `main`: open
the store, listen, signal, then `Shutdown` returns or the grace period expires.

`Metrics` models `RWMutex` as Go implements it: a writer announces itself, which
keeps new readers out, then waits for the readers inside. `Inc` and
`ObserveDuration` read and write back in two steps, so the lock is what makes
them atomic. The service's own counters use the same `Inc` and have no samples;
the module follows the HTTP series.

In `AuditLog` a query is an operator on the log that returns the set of pages the
store may answer with: one for `MemoryStore`, and one per order of equal stamps
for `PostgresStore`. `Policy` starts a process in an environment, which `Load`
parses, and decides requests by the policy that came out of it. The two share
`Numerals` and `Lists` and nothing else, so a behaviour of `MCAuditPolicy` is of the one or of
the other.

### What is abstracted

* Amounts are small numbers, and every other field of a proposal is one flag
  that says whether the adapter can build from it.
* A payload is the proposal it signs and the randomness in it: a Bitcoin
  signature is different every time, an EVM signature is not. Payloads of
  different proposals are different values.
* Identifiers are fresh. A request makes at most one resource and one event of
  each type, so the request stands for their identifiers.
* Timestamps are left out except in `AuditLog`; traces, metadata and log lines are
  left out everywhere.
* `AuditLog` has pages of at most 3, of 2 by default, where the code has 200 and
  100, and `MaxInt64` is 4, with numbers on both sides of it.
* A node over RPC refuses a payload that it has already taken, and may refuse any
  other (`chain_error`).

### Faults

`Faults` is the set of things the environment may do: `cancel` (the context is
cancelled and stays so), `store_error` (a call fails without effect), `lost_ack`
(a call takes effect and is reported as an error), `chain_error`, `crash`.
`MemoryStore` is the case `Faults \subseteq {"cancel"}`; Postgres may meet all.
In `PostgresInserts` and `PostgresRows` the faults are `error` (any statement
fails, or its context is cancelled) and `lost_ack`. In `Rollout` the fault `crash`
is the grace period that expires.

## What TLC checks

| run | instance | result |
|---|---|---|
| `wallet_service` | 1 Bitcoin proposal, 3 allowed signers and a stranger, 4 requests, all faults; 130,681 states | passes: quorum, one payload, approvals and signatures audited once, no re-opening, no approval lost except with an unsigned proposal that fails, the inductive invariant `SafetyInv`, refinement of `QuorumGate` |
| `wallet_service_rpc` | the same with an EVM node; 157,319 states | passes: rows, answers and audit log are true about the chain |
| `creation` | 3 requests, 1 key, an EVM node, all faults; 436,856 states | passes: one resource per key and scope, replays agree, audited at most once, keys exist when wallets are stored, no nonce ahead of the node, the inductive invariant `SafetyInv`, refinement of `IdempotentStore` |
| `creation_nonce` | 4 requests without idempotency keys, local EVM with a shared key, all faults; 775,259 states | passes: nonces of proposals that can be signed are unique |
| `postgres_inserts` | 4 calls, 1 key, 2 connections, all faults, fair; 42,407 states | passes: refinement of `IdempotentStore`, no empty resource without an error, every call returns |
| `postgres_rows` | 1 row, 2 signers, 3 calls, all faults, fair; 24,609 states | passes: every write is a method of `CustodyStore`, one signature, columns agree, no call waits for a lock forever |
| `rollout` | 1 Bitcoin proposal, 3 signers, 3 requests, two processes, the grace period may expire, fair; 50,015 states | passes: decisions stay final, a clean stop loses no audit event, a payload is lost only to a process without keys, a quorum is acted on, requests end, draining ends |
| `audit_policy` | 4 events, 2 resources, 3 clock readings; every environment with up to 2 signers and numbers from -1 to 6; 46,585 states | passes: pages are full, effects are listed above their causes, the inductive invariant `LogInv`; the policy decides as the environment says on its face |
| `metrics` | 3 requests, 2 series, fair; 30,511 states | passes: counts agree with samples, a scrape is a snapshot, only a stalled scrape keeps requests waiting |
| `quorum_stuck` | 3 requests, `cancel`, fair | violated: README.md:37 |
| `failed_on_chain` | 4 requests, EVM node, no faults | violated: internal/wallet/types.go:28 and 30 |
| `creation_audit_gap` | 2 requests, `cancel` | violated: docs/design.md:84 |

The three violations are disagreements between the code and its own documents or
tests; `findings` in `PROJECT.json` quotes both sides. Five properties pass
because they state exactly what the code keeps, and their exceptions are worth
knowing:

* `ApprovalsAreKept` exempts proposals that fail before they are signed. A co-signer
  whose signing attempt fails writes back a copy that may be older than the third
  approval. Once there is a payload, no failure drops an approval.
* `OnlyStalledScrapesBlock` is about scrapes that do not stall. `http.Server` is given
  no write timeout, so a client that stops reading `/metrics` and keeps its connection
  open holds the read lock, and every request of the process then waits in `Inc`. The
  property says that nothing else keeps them waiting; without its premise TLC finds it
  violated by such a client.
* `OnlyTheKeylessErase`: within one process a stored payload is never erased
  (`PayloadIsKept`). During an update the new process has no keys, so a third approval
  that reaches it fails to sign, and its copy may replace the row that the old
  process has signed meanwhile.
* `EffectsAboveCauses` orders events of which one was stored before the other was
  stamped. Events of overlapping handlers may be appended in another order than
  their stamps, and then `MemoryStore` lists an older stamp above a newer one. The
  stamps come from one clock that does not go back; two processes whose clocks differ
  are outside the module.
* `DecidesAsConfigured` reads `MAX_BTC_AMOUNT_SATS=0` as no limit, as the code does,
  while `MAX_EVM_AMOUNT_WEI=0` lets nothing pass.

Deadlock is not checked: the requests of an instance are finite, and a service
without requests rests.

**Bounds.** `Requests` is the only bound on behaviours: it is the number of
requests the service receives. Two approvals, a third one racing with them and a
broadcast need four; with four, the instance also has two approvals and two
racing broadcasts. Proposals do not interact in `WalletService`, so one is
enough there. In `Creation`, three requests are a wallet and two racing
proposals on it, or three racing creations; four are needed for two wallets with
one proposal each, or for one wallet with three proposals, which is where local
nonces can collide. That instance has no idempotency keys, because a replay stores
no proposal. Symmetry permutes requests and allowed signers, events and
resources; it is used only in runs without liveness properties. The run `rollout`, which
has them, breaks the symmetry of its requests instead: `CallsInOrder` drops the steps
after which a request asks for less, in a fixed order of the calls, than one numbered
before it. Each request has one call in its life and no fairness condition is about
arrivals, so what remains has every behaviour up to the names of the requests.

Four calls for one key are a winner, two losers and a call that fails after its
`COMMIT`, or one of them is the retry of another. Two connections are fewer than
the calls that race; were a loser to keep its transaction while it asks the pool
for another connection, two losers would hold both, which is the mutant of
`EveryCallReturns`. Three calls on a row are an approval, a signature and a stale
update in any order, or three calls of one kind. Three requests in `Rollout` are
the three approvals, of which two see the quorum, through either process, or a
quorum and a broadcast. Four events are more than a page holds and overtake each
other in every way; three clock readings give two that differ and a tie. Three
requests in `Metrics` are two writers and a scrape, or a writer and two scrapes;
a scrape ends as a writer too.

**Fairness.** `FairSpec` assumes weak fairness of each handler's next call: Go
runs every runnable goroutine and each call returns, with or without an error.
Nothing is assumed of clients, who may never send a request, or of faults.
In the Postgres modules a statement that stays possible is run, and the server
ends the transaction of a client that is gone, as PostgreSQL does when it finds the
connection closed. The calls are finite, so weak fairness also covers the queue of
the pool, which serves waiters in order. In `Rollout` handlers run as in
`WalletService` and a `Shutdown` with nothing in flight returns. Whether the
signal comes and whether the grace period expires is left open. There a
handler ends with its last call; that its middleware ends too is what `Metrics` asks.
In `Metrics` only the steps that wait for nothing but the lock are fair. Nothing is
assumed of a handler or of the client that reads a scrape; the premise of
`OnlyStalledScrapesBlock` says what is needed of the latter.

## What is proved

TLAPS checks these for every number of requests, signers, proposals, wallets and
keys, and, unless said otherwise, for every set of faults. No invariant and no
property of a single step that a passing run checks is left out.

*Co-signing and broadcasting* (`WalletServiceProofs`). From
`ServiceAssumption` and `NoneAssumption`: `TypeOK`, `ClosedWithQuorum`,
`OnePayloadOnChain`, `BroadcastWasAccepted`, `PayloadIsKept`, `NeverReopened`,
`ApprovalsAreKept`. None of them is inductive, because handlers write old copies
back. `IndInv` adds what a copy still says about its row:

* a copy from `AddApproval` has no payload, and while the row is open the row has
  at least its approvals;
* a copy read for broadcasting agrees with the row for good;
* a handler about to write a signing failure *on a live context* failed because
  the key is gone or the proposal cannot be signed, so no one else has signed it.
  On a cancelled context the write fails. This is why the unconditional
  `UpdateTransaction` never erases a payload; a `failTransaction` on a context of
  its own would (the mutant `failTransactionDetached`).

*The audit log of co-signing* (also in `WalletServiceProofs`). `AuditedOnce`,
`AuditIsTrue` and `AcknowledgedIsAudited` follow from `SafetyInv`, which adds
`AuditInv` to `IndInv`. A state change and its event are two calls, so the
invariant speaks of requests that have changed something, whether or not their
event is written yet:

* an event is what `appendAudit` makes of the request whose identifier it carries;
* a request that has stored an approval finds it in the row for as long as the row
  is open, which is why `AddApproval` refuses the same signer a second time, and
  a failed row takes no approval at all;
* a request that has stored a signature finds a payload in the row for good
  (`PayloadIsKept`), so no other request stores one;
* a handler of `CoSign` that goes on from the quorum, or answers 200, has appended
  its approval first. This is the order of the calls in the code; ignoring the
  error of the append breaks it (the mutant `AuditErrorIgnored`).

*Failures and the chain* (also in `WalletServiceProofs`). `FailedIsNotOnChain` is
false with an EVM node, as the run `failed_on_chain` shows. A proposal that goes to
no node (`~UsesRpc(t)`: Bitcoin, or EVM without a URL) keeps it under every fault,
also beside proposals that do go to one (`LocalFailures`), and a service without a
node keeps it altogether (`FailedStaysOffChain`). `OffChainInv` gives the reason:
such a broadcast fails only on a cancelled context, on which `failTransaction`
writes nothing, so a stored failure comes from a co-signer and has no payload,
while the row of whatever is on the chain has one (`OnePayloadOnChain`).

*Refinement* (also in `WalletServiceProofs`). Each step of `WalletService` is one
step of `QuorumGate` or leaves it alone: storing an approval approves, storing a
signature seals, writing a signing failure abandons, and a chain that takes a
payload publishes it, also when its answer is lost.

*Creation* (`CreationProofs`). From `CreationAssumption`: `TypeOK`,
`KeyCreatesOnce`, `RepliesAgree`, `ReplyIsInScope`, `StoredWithMaterial` and
`CreationAuditedOnce`. `IndInv` says that resources, idempotency records and
requests tell one story: a stored resource is the one its own key names, a record
names a stored resource with that key, and an answered client holds the resource
its key names. `CreationAuditedOnce` needs a second invariant beside it
(`HistoryInv`): an event is about a stored resource and carries the identifier of
the request that made it, and a request has no answer before it is done.

*The audit of creations* (also in `CreationProofs`). `AcknowledgedIsAudited` says
that when no handler is in flight every resource that a client was answered with has
its event. The run `creation_audit_gap` violates it with one cancelled request. The
theorem `CreationsAreAudited` says that it takes such a fault: with
`Faults \subseteq {"chain_error"}` a handler that has stored a resource stays on a
live context until its append, and a stored resource has its event or that handler.

*Nonces* (also in `CreationProofs`). `NonceInv` speaks of every proposal that a
request has stored, or has built and may yet store. The two ways to get a nonce
are two theorems. With a node (`EvmRpc`), `NoncesAreReachable`: a nonce that was
read is at most the pending one, which only grows. Without, `NoncesAreUnique`:
every nonce of a proposal whose key the process still has is below the counter of
its address. A restart sets the counters to zero and loses all keys in the same
step, so the bound then says nothing of older proposals; a backend that kept its
keys, with an adapter that forgot its counters, would break the proof here.

*Refinement of the store* (also in `CreationProofs`). With `StoreAssumption`, which
keeps `None` apart from calls, keys and answers, `Creation` implements
`IdempotentStore`: the step that stores a resource creates, a replay returns, and
whatever ends a request without a resource fails it.

*Postgres inserts* (`PostgresInsertsProofs`). From `InsertsAssumption`: `IndInv`,
`NeverEmpty` and `ImplementsIdempotentStore`. The commit is the step that creates
and the read of the resource is the step that returns; a late commit by the server
creates after its call has failed, which `IdempotentStore` allows. The invariant
says that whoever has inserted a key and not ended holds its entry, that nothing
is committed under that key meanwhile, and that whoever was refused the key finds
it committed. The last part is why the branch of `walletForIdempotency` for a
missing key is dead code: nothing deletes a key.

*Postgres rows* (`PostgresRowsProofs`). From `RowsAssumption`: `IndInv`,
`StatusColumnAgrees`, `SignedOnce` and `EveryWriteIsAMethod`. The invariant says
that whoever holds a row's lock, also after its call has failed, has decided on
the row as it still is, and that no update brings back `proposed`.

*The rolling update* (`RolloutProofs`). From `ServiceAssumption` and
`NoneAssumption`: `NeverReopened` and `OnlyTheKeylessErase`, through the invariant
`UpdateInv`, and `DecidedByTwo`, `BroadcastWasAccepted` and
`OnePayloadPerProposal`, through `SettledInv`. `DecidedByTwo` is `ClosedWithQuorum`
with "two different signers" for "a count of at least two", which spares the proof
the theory of cardinalities. `IndInv` of `WalletService` does not survive a second
process: a handler without the key fails to sign although another one has signed,
and its copy from before the signature erases the payload. `UpdateInv` keeps what is
still true:

* the old process has every key until it is gone, and its handlers go with it, so
  a handler of the old process fails only on a proposal that nobody can sign;
* a payload that was read for broadcasting may since have been erased but never
  replaced, because a failed row is not open and is never signed again;
* therefore all copies that carry a payload carry the same one.

`OnePayloadOnChain` is false here, because the row of a payload on the chain may
have been erased. What the service needs it for is still true: no proposal reaches
the chain with two payloads. `SettledInv` says that the row of a payload on the chain
is closed and holds it or nothing, that every copy that can still be broadcast holds
it, and that every copy that can be written back has its quorum. An open row has all
the approvals of the copies taken of it, so a signature is stored only with a quorum.

`CleanStopIsAudited` is proved under `Reliable`: no call on the store fails and no
answer is lost, for then a handler returns before its append. Clients stay in this
module; one that left would have the same effect. The invariant `AccountInv` says
that each approval and each status of a row, and each approval in a copy that may be
written back, has its event in the log or a handler about to append it.
A copy brings back no approval that was never recorded, and only the expired grace
period removes a handler between the two calls.

*The registry* (`MetricsProofs`). From `MetricsAssumption`, which has finitely many
requests: `CountsAgree` and `ScrapeIsASnapshot`. The invariant says who is inside
the lock at each program counter, that a value read and not yet written back is
current, and that what a scrape wrote in its first loop is current until its
second.

*The audit log* (`AuditPolicyProofs`). From `AuditLogAssumption` and the assumptions
of `Numerals`, for logs of any length, finitely or infinitely many events, and any
limits: `LogInv`, `PageIsFull` and `EffectsAboveCauses`. `LogInv` says that an event
carries no smaller stamp than any event that was in the log when it was stamped, and
that it is behind all of them in the log. Both orders of listing respect that,
and a page is a prefix of a listing, so it cannot show a cause without its effect.

Two algorithms loop over slices: the filter (`Kept`), written as a recursive
function, and the sort of `ORDER BY`, of which the model says only that the result
is an order. What they return for every input is an induction. It is carried out on
sets: a set of numbers that is not empty has a least element (`LeastElement`, from
the library's theorem that `<` on the naturals is well founded), hence a set with 0
that is closed under successor has them all (`SetInduction`). `KeptSelects` says that
the filter returns the wanted items in their order, and `OrderExists` that every
finite set of events has an order by stamp, so that `PostgresStore` always answers.

*The policy* (also in `AuditPolicyProofs`). From `PolicyAssumption` and those of
`Numerals`: `DecidesAsConfigured`, for lists of any length, every limit and every
amount. What needs proof is the Bitcoin limit: `envInt64` reads one beyond
`MaxInt64` as none, which is harmless only because `ParseInt` refuses every amount
beyond it too.

## What is only model-checked

* The liveness properties (`QuorumOutlivesUpdate`, `EveryRequestEnds`,
  `EveryCallReturns`, `RowCallsReturn`, `DrainEnds`, `OnlyStalledScrapesBlock`): fairness and `ENABLED` are out
  of the prover's reach.
* The three violated properties, which are false as they stand. For two of them a
  theorem says under which condition they hold: `FailedStaysOffChain` and
  `CreationsAreAudited`. The third, `QuorumIsActedOn`, is a liveness property.

The inductive invariants of co-signing, of creation and of the audit log are
invariants of the runs `wallet_service`, `creation` and `audit_policy`. The others are
stated next to the properties they prove, and the runs check the properties, with two
exceptions in `Rollout`. `OnePayloadPerProposal`: with three requests an update has no
two broadcasts and an erasure, so the run `rollout` would say little about it.
`DecidedByTwo`: the run `wallet_service` checks it as `ClosedWithQuorum`, of one process.

## What is not modelled

* Authentication, routing, decoding and encoding of HTTP, health checks and the
  plain read of a proposal: they hold no state, and each request meets them alone.
* Identifier generation: identifiers are fresh, and a failing random source is
  an error before anything has changed or, in `appendAudit`, the same as a store error
  at the append.
* `SaveIdempotency` and `GetIdempotency` of both stores: nothing in the program
  calls them.
* Cryptography, gas and fees; the text of the migrations; the format of metrics,
  traces and log lines.
* The growth of the latency samples, on which the code promises no bound.
* The configuration variables that are handed on as they are (addresses, names,
  networks, the grace period).

## Plan

1. Composition of `Creation` and `WalletService`: one life cycle from wallet to
   chain, so that a restart meets proposals of all ages and two proposals with one
   pending nonce meet at the node.
2. The gaps that refused proposals leave in local nonces, if the code comes to
   promise something about them.
