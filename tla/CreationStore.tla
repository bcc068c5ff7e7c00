--------------------------- MODULE CreationStore ---------------------------
(***************************************************************************)
(* The handlers of Creation use the store as IdempotentStore says.         *)
(* PostgresInserts is shown to keep the same promise statement by          *)
(* statement, so what Creation says of an atomic store holds of the        *)
(* transactions of PostgresStore too.                                      *)
(***************************************************************************)
EXTENDS Creation

CreationKeys == Scope \X Keys

(* The refinement mapping.  A request is a call of the store with its key. *)
(* The call has created its resource once the resource is there, whatever  *)
(* becomes of the handler; otherwise it returns what the client is told.   *)
KeyOfCall(r) ==
  IF call[r] = None THEN None
  ELSE IF call[r].key = None THEN <<>>
  ELSE KeyOf(r)

ReplyOf(r) ==
  IF Stored(r) THEN [resource |-> r, created |-> TRUE, err |-> FALSE]
  ELSE IF call[r] = None \/ reply[r].status = "none" THEN None
  ELSE IF reply[r].status = "Created"
       THEN [resource |-> reply[r].resource, created |-> FALSE, err |-> FALSE]
  ELSE [resource |-> None, created |-> FALSE, err |-> TRUE]

storedBar == {r \in Requests : Stored(r)}
keyBar == [r \in Requests |-> KeyOfCall(r)]
replyBar == [r \in Requests |-> ReplyOf(r)]

Store == INSTANCE IdempotentStore WITH
  Calls <- Requests,
  Keys <- CreationKeys,
  NoKey <- <<>>,
  stored <- storedBar,
  index <- idempotency,
  key <- keyBar,
  reply <- replyBar

ASSUME StoreAssumption ==
  /\ None \notin Call
  /\ None \notin CreationKeys
  /\ None \notin Store!Reply
  /\ None # <<>>

(* CreateWallet and ProposeTransaction, with every call that they make     *)
(* before and after the store, amount to one atomic step of                *)
(* IdempotentStore each: a request creates its own resource or is answered *)
(* with the one its key is bound to at that instant.                       *)
ImplementsIdempotentStore == Store!Spec
=============================================================================
