-------------------------- MODULE PostgresInserts --------------------------
(***************************************************************************)
(* CreateWalletIdempotently and CreateTransactionIdempotently of           *)
(* PostgresStore, statement by statement, with the connection pool and the *)
(* unique index on idempotency_keys(scope, key).  The two methods are the  *)
(* same program over different tables.  CreateWallet and CreateTransaction *)
(* are the single INSERT of a call without a key.                          *)
(*                                                                         *)
(* Transactions run under READ COMMITTED: a SELECT sees what is committed  *)
(* when it runs.  An INSERT of a key that an open transaction has inserted *)
(* waits for that transaction to end.  Resource IDs are fresh, so the      *)
(* insert of the resource itself never conflicts.                          *)
(*                                                                         *)
(* A call that fails leaves a transaction that the server ends later, when *)
(* it notices that its client is gone.  A crash of the process is the      *)
(* failure of every call in flight.                                        *)
(***************************************************************************)
EXTENDS Naturals, FiniteSets

CONSTANTS
  Calls,     \* calls of the store; a call also names the resource it brings
  Keys,      \* idempotency keys, each with its scope
  NoKey,     \* stands for the key of a call that came without one
  None,      \* no resource, no answer
  MaxConns,  \* size of the connection pool
  Faults     \* the faults of the environment that may happen

VARIABLES
  stored,    \* the committed rows of wallets and transaction_proposals
  index,     \* the committed rows of idempotency_keys
  key,       \* the key each call was made with; None before the call
  reply,     \* what each call returned; None before it returns
  pc,        \* the statement each call runs next
  found,     \* the resource ID that a call has read from idempotency_keys
  entry,     \* key -> the call whose open transaction has inserted it
  orphaned   \* how the server will end a transaction whose call has failed

Store == INSTANCE IdempotentStore

Reply == Store!Reply
Created(c) == Store!Created(c)
Existing(d) == Store!Existing(d)
Failed == Store!Failed

ASSUME InsertsAssumption ==
  /\ None \notin Calls \cup Keys \cup Reply \cup {NoKey, "rollback", "commit"}
  /\ NoKey \notin Keys
  /\ MaxConns \in Nat \ {0}
  /\ Faults \subseteq {"error", "lost_ack"}

locals == <<pc, found>>
session == <<entry, orphaned>>
vars == <<stored, index, key, reply, locals, session>>

-----------------------------------------------------------------------------
(* Statements of an open transaction, which keeps its connection. *)
InTransactionUntilReturn ==
  {"find_key", "get_resource", "insert_row", "insert_key", "commit", "rollback",
   "find_key_pool", "get_resource_pool"}

InTransaction ==
  {"find_key", "get_resource", "insert_row", "insert_key", "commit", "rollback"}

(* Statements that first take a connection from the pool. *)
OnPool == {"insert", "begin", "find_key_pool", "get_resource_pool"}

InFlightPC == InTransaction \cup OnPool

TypeOK ==
  /\ stored \subseteq Calls
  /\ index \in [Keys -> Calls \cup {None}]
  /\ key \in [Calls -> Keys \cup {NoKey, None}]
  /\ reply \in [Calls -> Reply \cup {None}]
  /\ pc \in [Calls -> {"idle", "done"} \cup InFlightPC]
  /\ found \in [Calls -> Calls \cup {None}]
  /\ entry \in [Keys -> Calls \cup {None}]
  /\ orphaned \in [Calls -> {"rollback", "commit", None}]

Init ==
  /\ Store!Init
  /\ pc = [c \in Calls |-> "idle"]
  /\ found = [c \in Calls |-> None]
  /\ entry = [k \in Keys |-> None]
  /\ orphaned = [c \in Calls |-> None]

ConnectionFree == Cardinality({c \in Calls : pc[c] \in InTransaction}) < MaxConns

-----------------------------------------------------------------------------
Goto(c, label) ==
  /\ pc' = [pc EXCEPT ![c] = label]
  /\ UNCHANGED <<key, reply>>

Answer(c, r) ==
  /\ pc' = [pc EXCEPT ![c] = "done"]
  /\ reply' = [reply EXCEPT ![c] = r]
  /\ found' = [found EXCEPT ![c] = None]
  /\ UNCHANGED key

(* The service calls the store, with or without an idempotency key. *)
Call(c) ==
  /\ pc[c] = "idle"
  /\ Store!Invoke(c)
  /\ pc' = [pc EXCEPT ![c] = IF key'[c] = NoKey THEN "insert" ELSE "begin"]
  /\ UNCHANGED <<found, session>>

(* CreateWallet, CreateTransaction. *)
Insert(c) ==
  /\ pc[c] = "insert" /\ ConnectionFree
  /\ stored' = stored \cup {c}
  /\ Answer(c, Created(c))
  /\ UNCHANGED <<index, session>>

Begin(c) ==
  /\ pc[c] = "begin" /\ ConnectionFree
  /\ Goto(c, "find_key")
  /\ UNCHANGED <<stored, index, found, session>>

(* SELECT of the key; what the two callers do next when it is there. *)
ReadKey(c, next) ==
  /\ index[key[c]] # None
  /\ found' = [found EXCEPT ![c] = index[key[c]]]
  /\ Goto(c, next)

getIdempotencyTx(c) ==
  /\ pc[c] = "find_key"
  /\ \/ ReadKey(c, "get_resource")
     \/ index[key[c]] = None /\ Goto(c, "insert_row") /\ UNCHANGED found
  /\ UNCHANGED <<stored, index, session>>

(* getWalletTx, getTransactionTx, GetWallet, GetTransaction. *)
ReadResource(c) ==
  /\ Answer(c, IF found[c] \in stored THEN Existing(found[c]) ELSE Failed)
  /\ UNCHANGED <<stored, index, session>>

GetResource(c) == pc[c] = "get_resource" /\ ReadResource(c)

(* The row is invisible to others until the commit. *)
InsertRowVisible(c) ==
  /\ pc[c] = "insert_row"
  /\ stored' = stored \cup {c}
  /\ Goto(c, "insert_key")
  /\ UNCHANGED <<index, found, session>>

InsertRow(c) ==
  /\ pc[c] = "insert_row"
  /\ Goto(c, "insert_key")
  /\ UNCHANGED <<stored, index, found, session>>

(* Whether the INSERT of the key can be decided, and how. *)
KeyFree(c) == index[key[c]] = None /\ entry[key[c]] = None

KeyViolatedEarly(c) == index[key[c]] # None \/ entry[key[c]] # None

KeyViolated(c) == index[key[c]] # None

InsertKey(c) ==
  /\ pc[c] = "insert_key"
  /\ \/ KeyFree(c) /\ entry' = [entry EXCEPT ![key[c]] = c] /\ Goto(c, "commit")
     \/ KeyViolated(c) /\ Goto(c, "rollback") /\ UNCHANGED entry
  /\ UNCHANGED <<stored, index, found, orphaned>>

(* The server makes the transaction's rows visible and ends it. *)
Apply(c) ==
  /\ stored' = stored \cup {c}
  /\ index' = [index EXCEPT ![key[c]] = c]
  /\ entry' = [entry EXCEPT ![key[c]] = None]

Commit(c) ==
  /\ pc[c] = "commit"
  /\ Apply(c)
  /\ Answer(c, Created(c))
  /\ UNCHANGED orphaned

(* The connection is given back before the pool is asked for another. *)
Rollback(c) ==
  /\ pc[c] = "rollback"
  /\ Goto(c, "find_key_pool")
  /\ UNCHANGED <<stored, index, found, session>>

(* walletForIdempotency, transactionForIdempotency: a key that is not      *)
(* there is not an error, and the caller gets the zero value.              *)
FindKeyOnPool(c) ==
  /\ pc[c] = "find_key_pool" /\ ConnectionFree
  /\ \/ ReadKey(c, "get_resource_pool")
     \/ index[key[c]] = None /\ Answer(c, Existing(None))
  /\ UNCHANGED <<stored, index, session>>

GetResourceOnPool(c) ==
  pc[c] = "get_resource_pool" /\ ConnectionFree /\ ReadResource(c)

-----------------------------------------------------------------------------
(* A statement fails, the context is cancelled or the connection breaks:   *)
(* the method returns the error.  Only a transaction that has inserted the *)
(* key can still be noticed; if COMMIT was sent the server may run it.     *)
CallFails(c) ==
  /\ "error" \in Faults
  /\ pc[c] \in InFlightPC
  /\ Answer(c, Failed)
  /\ \/ pc[c] # "commit" /\ UNCHANGED orphaned
     \/ pc[c] = "commit" /\ orphaned' = [orphaned EXCEPT ![c] = "rollback"]
     \/ /\ pc[c] = "commit" /\ "lost_ack" \in Faults
        /\ orphaned' = [orphaned EXCEPT ![c] = "commit"]
  /\ UNCHANGED <<stored, index, entry>>

(* A single INSERT commits by itself, also when its answer is lost. *)
InsertAnswerLost(c) ==
  /\ pc[c] = "insert" /\ ConnectionFree /\ "lost_ack" \in Faults
  /\ stored' = stored \cup {c}
  /\ Answer(c, Failed)
  /\ UNCHANGED <<index, session>>

ServerEnds(c) ==
  /\ \/ orphaned[c] = "commit" /\ Apply(c)
     \/ /\ orphaned[c] = "rollback"
        /\ entry' = [entry EXCEPT ![key[c]] = None]
        /\ UNCHANGED <<stored, index>>
  /\ orphaned' = [orphaned EXCEPT ![c] = None]
  /\ UNCHANGED <<key, reply, locals>>

-----------------------------------------------------------------------------
(* The next statement of a call, whatever its outcome. *)
Statement(c) ==
  \/ Insert(c) \/ InsertAnswerLost(c)
  \/ Begin(c) \/ getIdempotencyTx(c) \/ GetResource(c)
  \/ InsertRow(c) \/ InsertKey(c) \/ Commit(c) \/ Rollback(c)
  \/ FindKeyOnPool(c) \/ GetResourceOnPool(c)

Next ==
  \E c \in Calls : Call(c) \/ Statement(c) \/ CallFails(c) \/ ServerEnds(c)

Spec == Init /\ [][Next]_vars

(* The pool serves whoever waits, a statement that can proceed does, and   *)
(* the server ends the transactions of clients that are gone.              *)
FairSpec ==
  Spec /\ \A c \in Calls : WF_vars(Statement(c)) /\ WF_vars(ServerEnds(c))

-----------------------------------------------------------------------------
(* Each transaction of several statements amounts to one atomic step of    *)
(* IdempotentStore, as MemoryStore does it under its mutex: the commit     *)
(* creates, the read of the resource returns, whoever else inserts the     *)
(* same key at the same time.                                              *)
ImplementsIdempotentStore == Store!Spec

(* walletForIdempotency never takes its branch for a key that is not       *)
(* there: no call returns an empty resource without an error.              *)
NeverEmpty == \A c \in Calls : reply[c] # Existing(None)

(* Calls that wait for a connection, for each other's key, or for both     *)
(* never wait forever: every call returns, although more calls race than   *)
(* the pool has connections.                                               *)
EveryCallReturns == \A c \in Calls : pc[c] \in InFlightPC ~> pc[c] = "done"

-----------------------------------------------------------------------------
(* The inductive invariant.  Whoever has inserted a key and not committed  *)
(* it holds the key's entry, and nothing is committed under it meanwhile;  *)
(* whoever was told that the key is taken finds it committed.              *)

HoldsEntry(c) == pc[c] = "commit" \/ orphaned[c] # None

CallInv(c) ==
  /\ pc[c] = "insert" => key[c] = NoKey
  /\ pc[c] \in InFlightPC \ {"insert"} \/ orphaned[c] # None => key[c] \in Keys
  /\ pc[c] # "done" => reply[c] = None
  /\ orphaned[c] # None => pc[c] = "done" /\ reply[c] = Failed
  /\ pc[c] # "done" \/ orphaned[c] # None => c \notin stored
  /\ HoldsEntry(c) => entry[key[c]] = c
  /\ pc[c] \in {"get_resource", "get_resource_pool"} =>
       found[c] # None /\ found[c] = index[key[c]]
  /\ pc[c] \in {"rollback", "find_key_pool"} => index[key[c]] # None

KeyInv(k) ==
  /\ entry[k] # None => index[k] = None
  /\ index[k] # None => index[k] \in stored

IndInv ==
  /\ TypeOK
  /\ NeverEmpty
  /\ \A c \in Calls : CallInv(c)
  /\ \A k \in Keys : KeyInv(k)
=============================================================================
