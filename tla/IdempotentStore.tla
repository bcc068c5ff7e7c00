-------------------------- MODULE IdempotentStore --------------------------
(***************************************************************************)
(* What wallet.Store promises of CreateWalletIdempotently and of           *)
(* CreateTransactionIdempotently: a call takes effect at one instant.  It  *)
(* either creates its own resource and binds the key to it, or returns the *)
(* resource that the key is bound to.  A call that reports an error may    *)
(* have taken effect, or may still take effect.                            *)
(***************************************************************************)
CONSTANTS
  Calls,  \* calls of the store; a call also names the resource it brings
  Keys,   \* idempotency keys, each with its scope
  NoKey,  \* stands for the key of a call that came without one
  None    \* no resource, no answer

VARIABLES
  stored,  \* the resources in the store
  index,   \* key -> the resource it is bound to, or None
  key,     \* the key each call was made with; None before the call
  reply    \* what each call returned; None before it returns

vars == <<stored, index, key, reply>>

-----------------------------------------------------------------------------
Reply == [resource : Calls \cup {None}, created : BOOLEAN, err : BOOLEAN]

Created(c)  == [resource |-> c, created |-> TRUE, err |-> FALSE]
Existing(d) == [resource |-> d, created |-> FALSE, err |-> FALSE]
Failed      == [resource |-> None, created |-> FALSE, err |-> TRUE]

Init ==
  /\ stored = {}
  /\ index = [k \in Keys |-> None]
  /\ key = [c \in Calls |-> None]
  /\ reply = [c \in Calls |-> None]

Invoke(c) ==
  /\ key[c] = None
  /\ \E k \in Keys \cup {NoKey} : key' = [key EXCEPT ![c] = k]
  /\ UNCHANGED <<stored, index, reply>>

Create(c) ==
  /\ key[c] # None
  /\ c \notin stored
  /\ stored' = stored \cup {c}
  /\ \/ key[c] = NoKey /\ UNCHANGED index
     \/ /\ key[c] # NoKey /\ index[key[c]] = None
        /\ index' = [index EXCEPT ![key[c]] = c]
  /\ \/ reply[c] = None /\ reply' = [reply EXCEPT ![c] = Created(c)]
     \/ reply[c] = None /\ reply' = [reply EXCEPT ![c] = Failed]
     \/ reply[c] = Failed /\ UNCHANGED reply
  /\ UNCHANGED key

Return(c) ==
  /\ key[c] \in Keys /\ reply[c] = None
  /\ index[key[c]] # None
  /\ reply' = [reply EXCEPT ![c] = Existing(index[key[c]])]
  /\ UNCHANGED <<stored, index, key>>

Fail(c) ==
  /\ key[c] # None /\ reply[c] = None
  /\ reply' = [reply EXCEPT ![c] = Failed]
  /\ UNCHANGED <<stored, index, key>>

Next == \E c \in Calls : Invoke(c) \/ Create(c) \/ Return(c) \/ Fail(c)

Spec == Init /\ [][Next]_vars
=============================================================================
