----------------------- MODULE PostgresInsertsProofs -----------------------
(***************************************************************************)
(* PostgresInserts implements IdempotentStore, for any number of calls,    *)
(* keys and connections.                                                   *)
(*                                                                         *)
(* Most statements are visible to their own call only (QuietStep).  A      *)
(* commit is visible to all (ApplyStep): it binds a key that nobody else   *)
(* has read or may insert.                                                 *)
(***************************************************************************)
EXTENDS PostgresInserts, TLAPS

(* Calls other than c are left alone. *)
OthersUnchanged(c) ==
  \A q \in Calls \ {c} :
    /\ pc'[q] = pc[q] /\ key'[q] = key[q] /\ reply'[q] = reply[q]
    /\ found'[q] = found[q] /\ orphaned'[q] = orphaned[q]

(* What TypeOK says of the calls. *)
CallsTypeOK ==
  /\ key \in [Calls -> Keys \cup {NoKey, None}]
  /\ reply \in [Calls -> Reply \cup {None}]
  /\ pc \in [Calls -> {"idle", "done"} \cup InFlightPC]
  /\ found \in [Calls -> Calls \cup {None}]
  /\ orphaned \in [Calls -> {"rollback", "commit", None}]

(* The answers of the store are told apart. *)
LEMMA Replies ==
  ASSUME NEW c \in Calls
  PROVE  /\ Created(c) \in Reply /\ Created(c) # Existing(None)
         /\ Existing(c) \in Reply /\ Existing(c) # Existing(None)
         /\ Failed \in Reply /\ Failed # Existing(None)
         /\ None \notin Reply
<1>1. None \notin Calls /\ None \notin Reply
  BY InsertsAssumption, Zenon
<1> QED BY <1>1, Zenon
           DEF Created, Existing, Failed, Reply, Store!Created, Store!Existing,
                    Store!Failed, Store!Reply

(* The invariant of one call. *)
LEMMA OwnInv ==
  ASSUME IndInv, NEW c \in Calls
  PROVE  CallInv(c) /\ reply[c] # Existing(None)
  BY Zenon DEF IndInv, NeverEmpty

(* A statement that only its own call can see. *)
LEMMA QuietStep ==
  ASSUME IndInv, TypeOK', NEW c \in Calls, OthersUnchanged(c),
         UNCHANGED <<stored, index, entry>>,
         CallInv(c)', reply'[c] # Existing(None)
  PROVE  IndInv'
<1>1. ASSUME NEW q \in Calls PROVE CallInv(q)' /\ reply'[q] # Existing(None)
  <2>1. CASE q = c
    BY <2>1, Zenon
  <2>2. CASE q # c
    <3>1. /\ pc'[q] = pc[q] /\ key'[q] = key[q] /\ reply'[q] = reply[q]
          /\ found'[q] = found[q] /\ orphaned'[q] = orphaned[q]
      BY <2>2, Zenon DEF OthersUnchanged
    <3> QED BY <3>1, OwnInv DEF CallInv, HoldsEntry
  <2> QED BY <2>1, <2>2, Zenon
<1>2. \A k \in Keys : KeyInv(k)'
  BY Zenon DEF IndInv, KeyInv
<1> QED BY <1>1, <1>2, Zenon DEF IndInv, NeverEmpty, Existing, Store!Existing

(* A transaction that holds the entry of its key becomes visible. *)
LEMMA ApplyStep ==
  ASSUME IndInv, TypeOK', NEW c \in Calls, OthersUnchanged(c),
         HoldsEntry(c), key[c] \in Keys, key'[c] = key[c], Apply(c),
         pc'[c] = "done", orphaned'[c] = None, reply'[c] # Existing(None)
  PROVE  IndInv'
<1>1. entry[key[c]] = c /\ index[key[c]] = None
  <2>1. entry[key[c]] = c
    BY OwnInv, Zenon DEF CallInv
  <2> QED BY <2>1, InsertsAssumption, Zenon DEF IndInv, KeyInv
<1>2. /\ stored' = stored \cup {c}
      /\ index'[key[c]] = c /\ entry'[key[c]] = None
      /\ \A k \in Keys : k # key[c] => index'[k] = index[k] /\ entry'[k] = entry[k]
  BY Zenon DEF Apply, IndInv, TypeOK
<1>3. ASSUME NEW q \in Calls PROVE CallInv(q)' /\ reply'[q] # Existing(None)
  <2>1. CASE q = c
    BY <2>1, Zenon DEF CallInv, HoldsEntry, InFlightPC, InTransaction, OnPool
  <2>2. CASE q # c
    <3>1. /\ pc'[q] = pc[q] /\ key'[q] = key[q] /\ reply'[q] = reply[q]
          /\ found'[q] = found[q] /\ orphaned'[q] = orphaned[q]
      BY <2>2, Zenon DEF OthersUnchanged
    <3>2. HoldsEntry(q) => key[q] \in Keys /\ key[q] # key[c]
      BY <1>1, <2>2, OwnInv, Zenon DEF CallInv, HoldsEntry, InFlightPC, InTransaction
    <3>3. pc[q] \in {"get_resource", "get_resource_pool", "rollback", "find_key_pool"} =>
            key[q] \in Keys /\ key[q] # key[c]
      BY <1>1, OwnInv, Zenon DEF CallInv, InFlightPC, InTransaction, OnPool
    <3> QED BY <1>2, <2>2, <3>1, <3>2, <3>3, OwnInv DEF CallInv, HoldsEntry
  <2> QED BY <2>1, <2>2, Zenon
<1>4. ASSUME NEW k \in Keys PROVE KeyInv(k)'
  BY <1>2, InsertsAssumption, Zenon DEF IndInv, KeyInv
<1> QED BY <1>3, <1>4, Zenon DEF IndInv, NeverEmpty, Existing, Store!Existing

-----------------------------------------------------------------------------
(* Types. *)

(* The two ways to leave a statement keep the locals typed. *)
LEMMA GotoType ==
  ASSUME CallsTypeOK, NEW c \in Calls, NEW label \in InFlightPC, Goto(c, label),
         \/ UNCHANGED found
         \/ \E d \in Calls : found' = [found EXCEPT ![c] = d],
         UNCHANGED orphaned
  PROVE  CallsTypeOK' /\ OthersUnchanged(c)
  BY Zenon DEF CallsTypeOK, Goto, OthersUnchanged

LEMMA AnswerType ==
  ASSUME CallsTypeOK, NEW c \in Calls, NEW r \in Reply, Answer(c, r),
         \/ UNCHANGED orphaned
         \/ \E end \in {"rollback", "commit"} : orphaned' = [orphaned EXCEPT ![c] = end]
  PROVE  /\ CallsTypeOK' /\ OthersUnchanged(c)
         /\ pc'[c] = "done" /\ reply'[c] = r /\ key'[c] = key[c]
<1>1. CallsTypeOK'
  <2>1. pc' \in [Calls -> {"idle", "done"} \cup InFlightPC]
    BY Zenon DEF CallsTypeOK, Answer
  <2>2. reply' \in [Calls -> Reply \cup {None}] /\ key' = key
    BY Zenon DEF CallsTypeOK, Answer
  <2>3. found' \in [Calls -> Calls \cup {None}]
    BY Zenon DEF CallsTypeOK, Answer
  <2>4. orphaned' \in [Calls -> {"rollback", "commit", None}]
    BY Zenon DEF CallsTypeOK
  <2> QED BY <2>1, <2>2, <2>3, <2>4, Zenon DEF CallsTypeOK, Reply, Store!Reply
<1> QED BY <1>1, Zenon DEF CallsTypeOK, Answer, OthersUnchanged

(* TypeOK is CallsTypeOK and the types of the tables. *)
LEMMA Types ==
  TypeOK <=> /\ CallsTypeOK
             /\ stored \subseteq Calls
             /\ index \in [Keys -> Calls \cup {None}]
             /\ entry \in [Keys -> Calls \cup {None}]
  BY Zenon DEF TypeOK, CallsTypeOK

LEMMA TypesNext ==
  TypeOK' <=> /\ CallsTypeOK'
              /\ stored' \subseteq Calls
              /\ index' \in [Keys -> Calls \cup {None}]
              /\ entry' \in [Keys -> Calls \cup {None}]
  BY Zenon DEF TypeOK, CallsTypeOK

(* A commit keeps the tables typed. *)
LEMMA ApplyType ==
  ASSUME TypeOK, NEW c \in Calls, Apply(c), CallsTypeOK'
  PROVE  TypeOK'
  BY TypesNext, Zenon DEF TypeOK, Apply

-----------------------------------------------------------------------------
(* One lemma for each kind of statement. *)

LEMMA CallStep ==
  ASSUME IndInv, NEW c \in Calls, Call(c)
  PROVE  IndInv'
<1>1. PICK k \in Keys \cup {NoKey} : key' = [key EXCEPT ![c] = k]
  BY Zenon DEF Call, Store!Invoke
<1>2. /\ pc[c] = "idle" /\ UNCHANGED <<stored, index, reply, found, entry, orphaned>>
      /\ pc' = [pc EXCEPT ![c] = IF k = NoKey THEN "insert" ELSE "begin"]
  <2>1. key'[c] = k
    BY <1>1, Zenon DEF IndInv, TypeOK
  <2> QED BY <2>1, Zenon DEF Call, Store!Invoke, session
<1>3. /\ pc'[c] = (IF k = NoKey THEN "insert" ELSE "begin") /\ key'[c] = k
      /\ OthersUnchanged(c)
  BY <1>1, <1>2, Zenon DEF IndInv, TypeOK, OthersUnchanged
<1>4. TypeOK'
  <2>1. key' \in [Calls -> Keys \cup {NoKey, None}]
    BY <1>1, Zenon DEF IndInv, TypeOK
  <2>2. pc' \in [Calls -> {"idle", "done"} \cup InFlightPC]
    BY <1>2, Zenon DEF IndInv, TypeOK, InFlightPC, OnPool
  <2> QED BY <1>2, <2>1, <2>2, Zenon DEF IndInv, TypeOK, Reply, Store!Reply, InFlightPC,
                                 InTransaction, OnPool
<1>5. CallInv(c)' /\ reply'[c] # Existing(None)
  BY <1>2, <1>3, OwnInv DEF CallInv, HoldsEntry, InFlightPC, InTransaction, OnPool
<1> QED BY <1>2, <1>3, <1>4, <1>5, QuietStep, Zenon

(* A statement that moves to another and leaves the tables alone. *)
LEMMA MoveStep ==
  ASSUME IndInv, NEW c \in Calls, NEW label \in InFlightPC, Goto(c, label),
         UNCHANGED <<stored, index, session>>,
         \/ UNCHANGED found
         \/ \E d \in Calls : found' = [found EXCEPT ![c] = d],
         pc[c] \in InFlightPC \ {"insert"}, label \notin {"insert", "commit"},
         label \in {"get_resource", "get_resource_pool"} =>
           found'[c] # None /\ found'[c] = index[key[c]],
         label \in {"rollback", "find_key_pool"} => index[key[c]] # None
  PROVE  IndInv'
<1>1. CallsTypeOK /\ TypeOK
  BY Types, Zenon DEF IndInv
<1>2. CallsTypeOK' /\ OthersUnchanged(c)
  BY <1>1, GotoType, Zenon DEF session
<1>3. TypeOK'
  BY <1>1, <1>2, TypesNext, Zenon DEF TypeOK, session
<1>4. /\ pc'[c] = label /\ key'[c] = key[c] /\ reply'[c] = reply[c]
      /\ orphaned'[c] = orphaned[c] /\ UNCHANGED <<stored, index, entry>>
  BY <1>1, Zenon DEF Goto, CallsTypeOK, session
<1>5. pc[c] # "done" /\ label # "done"
  BY Zenon DEF InFlightPC, InTransaction, OnPool
<1>6. CallInv(c)' /\ reply'[c] # Existing(None)
  BY <1>4, <1>5, OwnInv, Zenon DEF CallInv, HoldsEntry
<1> QED BY <1>2, <1>3, <1>4, <1>6, QuietStep, Zenon

(* A statement that answers and leaves the tables alone. *)
LEMMA ReturnStep ==
  ASSUME IndInv, NEW c \in Calls, NEW r \in Reply, Answer(c, r),
         UNCHANGED <<stored, index, session>>, r # Existing(None),
         pc[c] \in InFlightPC
  PROVE  IndInv'
<1>1. CallsTypeOK /\ TypeOK
  BY Types, Zenon DEF IndInv
<1>2. /\ CallsTypeOK' /\ OthersUnchanged(c)
      /\ pc'[c] = "done" /\ reply'[c] = r /\ key'[c] = key[c]
  BY <1>1, AnswerType, Zenon DEF session
<1>3. TypeOK'
  BY <1>1, <1>2, TypesNext, Zenon DEF TypeOK, session
<1>4. orphaned'[c] = None
  BY OwnInv, Zenon DEF CallInv, session, InFlightPC, InTransaction, OnPool
<1>5. CallInv(c)'
  BY <1>2, <1>4, Zenon DEF CallInv, HoldsEntry, InFlightPC, InTransaction, OnPool
<1> QED BY <1>2, <1>3, <1>5, QuietStep, Zenon DEF session

(* A single INSERT, whether or not its answer arrives. *)
LEMMA InsertStep ==
  ASSUME IndInv, NEW c \in Calls, NEW r \in Reply, Answer(c, r),
         pc[c] = "insert", stored' = stored \cup {c},
         UNCHANGED <<index, session>>, r # Existing(None)
  PROVE  IndInv'
<1>1. CallsTypeOK /\ TypeOK
  BY Types, Zenon DEF IndInv
<1>2. /\ CallsTypeOK' /\ OthersUnchanged(c)
      /\ pc'[c] = "done" /\ reply'[c] = r /\ key'[c] = key[c]
  BY <1>1, AnswerType, Zenon DEF session
<1>3. TypeOK'
  BY <1>1, <1>2, TypesNext, Zenon DEF TypeOK, session
<1>4. orphaned'[c] = None
  BY OwnInv, Zenon DEF CallInv, session
<1>5. ASSUME NEW q \in Calls PROVE CallInv(q)' /\ reply'[q] # Existing(None)
  <2>1. CASE q = c
    BY <1>2, <1>4, <2>1, Zenon DEF CallInv, HoldsEntry, InFlightPC, InTransaction, OnPool
  <2>2. CASE q # c
    <3>1. /\ pc'[q] = pc[q] /\ key'[q] = key[q] /\ reply'[q] = reply[q]
          /\ found'[q] = found[q] /\ orphaned'[q] = orphaned[q]
      BY <1>2, <2>2, Zenon DEF OthersUnchanged
    <3> QED BY <2>2, <3>1, OwnInv, Zenon DEF CallInv, HoldsEntry, session
  <2> QED BY <2>1, <2>2, Zenon
<1>6. ASSUME NEW k \in Keys PROVE KeyInv(k)'
  BY Zenon DEF IndInv, KeyInv, session
<1> QED BY <1>3, <1>5, <1>6, Zenon DEF IndInv, NeverEmpty, Existing, Store!Existing

(* The INSERT of a key that is free takes its entry. *)
LEMMA TakeKey ==
  ASSUME IndInv, NEW c \in Calls, pc[c] = "insert_key", KeyFree(c),
         entry' = [entry EXCEPT ![key[c]] = c], Goto(c, "commit"),
         UNCHANGED <<stored, index, found, orphaned>>
  PROVE  IndInv'
<1>1. CallsTypeOK /\ TypeOK
  BY Types, Zenon DEF IndInv
<1>2. key[c] \in Keys /\ c \notin stored /\ reply[c] = None /\ orphaned[c] = None
  BY OwnInv, Zenon DEF CallInv, InFlightPC, InTransaction
<1>3. CallsTypeOK' /\ OthersUnchanged(c)
  BY <1>1, GotoType, Zenon DEF InFlightPC, InTransaction
<1>4. TypeOK'
  BY <1>1, <1>2, <1>3, TypesNext, Zenon DEF TypeOK
<1>5. /\ pc'[c] = "commit" /\ key' = key /\ reply' = reply
      /\ entry'[key[c]] = c /\ \A k \in Keys : k # key[c] => entry'[k] = entry[k]
  BY <1>1, <1>2, Zenon DEF TypeOK, Goto
<1>6. ASSUME NEW q \in Calls PROVE CallInv(q)' /\ reply'[q] # Existing(None)
  <2>1. CASE q = c
    BY <1>2, <1>5, <2>1, OwnInv, Zenon DEF CallInv, HoldsEntry
  <2>2. CASE q # c
    <3>1. pc'[q] = pc[q]
      BY <1>3, <2>2, Zenon DEF OthersUnchanged
    <3>2. HoldsEntry(q) => key[q] \in Keys /\ key[q] # key[c]
      BY OwnInv, InsertsAssumption DEF CallInv, HoldsEntry, KeyFree, InFlightPC, InTransaction
    <3> QED BY <1>5, <3>1, <3>2, OwnInv, Zenon DEF CallInv, HoldsEntry
  <2> QED BY <2>1, <2>2, Zenon
<1>7. ASSUME NEW k \in Keys PROVE KeyInv(k)'
  BY <1>5, Zenon DEF IndInv, KeyInv, KeyFree
<1> QED BY <1>4, <1>6, <1>7, Zenon DEF IndInv, NeverEmpty, Existing, Store!Existing

(* A call fails; the server still has to end a transaction with an entry. *)
LEMMA FailStep ==
  ASSUME IndInv, NEW c \in Calls, CallFails(c)
  PROVE  IndInv'
<1>1. CallsTypeOK /\ TypeOK
  BY Types, Zenon DEF IndInv
<1>2. Failed \in Reply /\ Failed # Existing(None)
  BY Replies, Zenon
<1>3. /\ CallsTypeOK' /\ OthersUnchanged(c)
      /\ pc'[c] = "done" /\ reply'[c] = Failed /\ key'[c] = key[c]
  BY <1>1, <1>2, AnswerType, Zenon DEF CallFails
<1>4. TypeOK'
  BY <1>1, <1>3, TypesNext, Zenon DEF TypeOK, CallFails
<1>5. pc[c] \in InFlightPC /\ UNCHANGED <<stored, index, entry>>
  BY Zenon DEF CallFails
<1>6. c \notin stored /\ orphaned[c] = None
  BY <1>5, OwnInv, Zenon DEF CallInv, InFlightPC, InTransaction, OnPool
<1>7. orphaned'[c] # None => pc[c] = "commit"
  BY <1>1, <1>6, Zenon DEF CallFails, TypeOK
<1>8. pc[c] = "commit" => key[c] \in Keys /\ entry[key[c]] = c
  BY OwnInv, Zenon DEF CallInv, HoldsEntry, InFlightPC, InTransaction
<1>9. CallInv(c)'
  BY <1>3, <1>5, <1>6, <1>7, <1>8, Zenon
     DEF CallInv, HoldsEntry, InFlightPC, InTransaction, OnPool
<1> QED BY <1>2, <1>3, <1>4, <1>5, <1>9, QuietStep, Zenon

LEMMA CommitStep ==
  ASSUME IndInv, NEW c \in Calls, Commit(c)
  PROVE  IndInv'
<1>1. CallsTypeOK /\ TypeOK
  BY Types, Zenon DEF IndInv
<1>2. Created(c) \in Reply /\ Created(c) # Existing(None)
  BY Replies, Zenon
<1>3. /\ CallsTypeOK' /\ OthersUnchanged(c)
      /\ pc'[c] = "done" /\ reply'[c] = Created(c) /\ key'[c] = key[c]
  BY <1>1, <1>2, AnswerType, Zenon DEF Commit
<1>4. HoldsEntry(c) /\ key[c] \in Keys /\ orphaned[c] = None
  BY OwnInv, Zenon DEF Commit, HoldsEntry, CallInv, InFlightPC, InTransaction
<1>5. TypeOK' /\ Apply(c) /\ orphaned'[c] = None
  BY <1>1, <1>3, <1>4, ApplyType, Zenon DEF Commit
<1> QED BY <1>2, <1>3, <1>4, <1>5, ApplyStep, Zenon

LEMMA ServerEndsStep ==
  ASSUME IndInv, NEW c \in Calls, ServerEnds(c)
  PROVE  IndInv'
<1>1. CallsTypeOK /\ TypeOK
  BY Types, Zenon DEF IndInv
<1>2. orphaned[c] # None
  BY InsertsAssumption, Zenon DEF ServerEnds
<1>3. /\ pc[c] = "done" /\ key[c] \in Keys /\ HoldsEntry(c) /\ entry[key[c]] = c
      /\ c \notin stored
  BY <1>2, OwnInv, Zenon DEF CallInv, HoldsEntry
<1>4. /\ CallsTypeOK' /\ OthersUnchanged(c) /\ orphaned'[c] = None
      /\ UNCHANGED <<pc, found, key, reply>>
  BY <1>1, Zenon DEF ServerEnds, locals, CallsTypeOK, OthersUnchanged
<1>5. CASE orphaned[c] = "commit"
  <2>1. Apply(c)
    BY <1>5, Zenon DEF ServerEnds
  <2>2. TypeOK'
    BY <1>1, <1>4, <2>1, ApplyType, Zenon
  <2> QED BY <1>3, <1>4, <2>1, <2>2, OwnInv, ApplyStep, Zenon
<1>6. CASE orphaned[c] # "commit"
  <2>1. entry' = [entry EXCEPT ![key[c]] = None] /\ UNCHANGED <<stored, index>>
    BY <1>6, Zenon DEF ServerEnds
  <2>2. TypeOK'
    BY <1>1, <1>3, <1>4, <2>1, TypesNext, Zenon DEF TypeOK
  <2>3. /\ entry'[key[c]] = None
        /\ \A k \in Keys : k # key[c] => entry'[k] = entry[k]
    BY <1>1, <1>3, <2>1, Zenon DEF TypeOK
  <2>4. ASSUME NEW q \in Calls PROVE CallInv(q)' /\ reply'[q] # Existing(None)
    <3>1. CASE q = c
      BY <1>3, <1>4, <2>1, <3>1, OwnInv, Zenon
         DEF CallInv, HoldsEntry, InFlightPC, InTransaction, OnPool
    <3>2. CASE q # c
      <4>1. orphaned'[q] = orphaned[q]
        BY <1>4, <3>2, Zenon DEF OthersUnchanged
      <4>2. HoldsEntry(q) => key[q] \in Keys /\ key[q] # key[c]
        BY <1>3, <3>2, OwnInv, Zenon DEF CallInv, HoldsEntry, InFlightPC, InTransaction
      <4> QED BY <1>4, <2>1, <2>3, <4>1, <4>2, OwnInv, Zenon DEF CallInv, HoldsEntry
    <3> QED BY <3>1, <3>2, Zenon
  <2>5. ASSUME NEW k \in Keys PROVE KeyInv(k)'
    BY <2>1, <2>3, Zenon DEF IndInv, KeyInv
  <2> QED BY <2>2, <2>4, <2>5, Zenon DEF IndInv, NeverEmpty, Existing, Store!Existing
<1> QED BY <1>5, <1>6, Zenon

(* A SELECT of the key that finds it. *)
LEMMA ReadKeyFacts ==
  ASSUME IndInv, NEW c \in Calls, NEW next, key[c] \in Keys, ReadKey(c, next)
  PROVE  /\ Goto(c, next)
         /\ \E d \in Calls : found' = [found EXCEPT ![c] = d]
         /\ found'[c] # None /\ found'[c] = index[key[c]]
<1>1. index[key[c]] \in Calls
  BY Zenon DEF ReadKey, IndInv, TypeOK
<1> QED BY <1>1, Zenon DEF ReadKey, IndInv, TypeOK

(* A call with a key that is in flight. *)
LEMMA Keyed ==
  ASSUME IndInv, NEW c \in Calls, pc[c] \in InFlightPC \ {"insert"}
  PROVE  key[c] \in Keys
  BY OwnInv, Zenon DEF CallInv

LEMMA ReadResourceStep ==
  ASSUME IndInv, NEW c \in Calls, ReadResource(c),
         pc[c] \in {"get_resource", "get_resource_pool"}
  PROVE  IndInv'
<1>1. found[c] \in Calls
  BY OwnInv, Zenon DEF IndInv, TypeOK, CallInv
<1>2. PICK r : Answer(c, r) /\ r = IF found[c] \in stored THEN Existing(found[c]) ELSE Failed
  BY Zenon DEF ReadResource
<1>3. r \in Reply /\ r # Existing(None)
  BY <1>1, <1>2, Replies, Zenon
<1> QED BY <1>2, <1>3, ReturnStep, Zenon
           DEF ReadResource, InFlightPC, InTransaction, OnPool

LEMMA StatementStep ==
  ASSUME IndInv, NEW c \in Calls, Statement(c)
  PROVE  IndInv'
<1> USE DEF InFlightPC, InTransaction, OnPool
<1>1. CASE Insert(c)
  BY <1>1, Replies, InsertStep, Zenon DEF Insert
<1>2. CASE InsertAnswerLost(c)
  BY <1>2, Replies, InsertStep, Zenon DEF InsertAnswerLost
<1>3. CASE Begin(c)
  BY <1>3, MoveStep, Zenon DEF Begin
<1>4. CASE getIdempotencyTx(c)
  <2>1. key[c] \in Keys /\ pc[c] = "find_key" /\ UNCHANGED <<stored, index, session>>
    BY <1>4, Keyed, Zenon DEF getIdempotencyTx
  <2>2. CASE ReadKey(c, "get_resource")
    BY <2>1, <2>2, ReadKeyFacts, MoveStep, Zenon
  <2>3. CASE Goto(c, "insert_row") /\ UNCHANGED found
    BY <2>1, <2>3, MoveStep, Zenon
  <2> QED BY <1>4, <2>2, <2>3, Zenon DEF getIdempotencyTx
<1>5. CASE GetResource(c) \/ GetResourceOnPool(c)
  BY <1>5, ReadResourceStep, Zenon DEF GetResource, GetResourceOnPool
<1>6. CASE InsertRow(c)
  BY <1>6, MoveStep, Zenon DEF InsertRow
<1>7. CASE InsertKey(c)
  <2>1. CASE KeyFree(c) /\ entry' = [entry EXCEPT ![key[c]] = c] /\ Goto(c, "commit")
    BY <1>7, <2>1, TakeKey, Zenon DEF InsertKey
  <2>2. CASE KeyViolated(c) /\ Goto(c, "rollback") /\ UNCHANGED entry
    BY <1>7, <2>2, MoveStep, Zenon DEF InsertKey, KeyViolated, session
  <2> QED BY <1>7, <2>1, <2>2, Zenon DEF InsertKey
<1>8. CASE Commit(c)
  BY <1>8, CommitStep, Zenon
<1>9. CASE Rollback(c)
  BY <1>9, OwnInv, MoveStep, Zenon DEF Rollback, CallInv
<1>10. CASE FindKeyOnPool(c)
  <2>1. /\ key[c] \in Keys /\ pc[c] = "find_key_pool" /\ UNCHANGED <<stored, index, session>>
        /\ index[key[c]] # None
    BY <1>10, Keyed, OwnInv, Zenon DEF FindKeyOnPool, CallInv
  <2>2. ReadKey(c, "get_resource_pool")
    BY <1>10, <2>1, Zenon DEF FindKeyOnPool
  <2> QED BY <2>1, <2>2, ReadKeyFacts, MoveStep, Zenon
<1> QED BY <1>1, <1>2, <1>3, <1>4, <1>5, <1>6, <1>7, <1>8, <1>9, <1>10, Zenon
           DEF Statement

LEMMA StutterStep ==
  ASSUME IndInv, UNCHANGED vars
  PROVE  IndInv'
<1>1. UNCHANGED <<stored, index, key, reply, pc, found, entry, orphaned>>
  BY Zenon DEF vars, locals, session
<1>2. TypeOK'
  BY <1>1, Zenon DEF IndInv, TypeOK, Reply, Store!Reply
<1>3. NeverEmpty'
  BY <1>1, Zenon DEF IndInv, NeverEmpty, Existing, Store!Existing
<1>4. \A c \in Calls : CallInv(c)'
  BY <1>1, OwnInv, Zenon DEF CallInv, HoldsEntry
<1>5. \A k \in Keys : KeyInv(k)'
  BY <1>1, Zenon DEF IndInv, KeyInv
<1> QED BY <1>2, <1>3, <1>4, <1>5, Zenon DEF IndInv

-----------------------------------------------------------------------------
(* The inductive invariant holds: whoever has inserted a key holds it      *)
(* alone, and a unique violation means that the key is committed.          *)
THEOREM Invariance == Spec => []IndInv
<1>1. Init => IndInv
  <2> SUFFICES ASSUME Init PROVE IndInv
    OBVIOUS
  <2>1. /\ stored = {} /\ index = [k \in Keys |-> None] /\ entry = [k \in Keys |-> None]
        /\ key = [c \in Calls |-> None] /\ reply = [c \in Calls |-> None]
        /\ pc = [c \in Calls |-> "idle"] /\ found = [c \in Calls |-> None]
        /\ orphaned = [c \in Calls |-> None]
    BY Zenon DEF Init, Store!Init
  <2>2. TypeOK
    BY <2>1, Zenon DEF TypeOK
  <2>3. NeverEmpty
    <3>1. Existing(None) \in Reply
      BY Zenon DEF Existing, Store!Existing, Reply, Store!Reply
    <3>2. Existing(None) # None
      BY <3>1, InsertsAssumption, Zenon
    <3> QED BY <2>1, <3>2, Zenon DEF NeverEmpty
  <2>4. \A c \in Calls : CallInv(c)
    BY <2>1, Zenon DEF CallInv, HoldsEntry, InFlightPC, InTransaction, OnPool
  <2>5. \A k \in Keys : KeyInv(k)
    BY <2>1, Zenon DEF KeyInv
  <2> QED BY <2>2, <2>3, <2>4, <2>5, Zenon DEF IndInv
<1>2. IndInv /\ [Next]_vars => IndInv'
  BY CallStep, StatementStep, FailStep, ServerEndsStep, StutterStep, Zenon DEF Next
<1> QED BY <1>1, <1>2, PTL DEF Spec

(* The key of a unique violation is there when walletForIdempotency reads  *)
(* it: no call returns an empty resource without an error.                 *)
THEOREM NoEmptyResource == Spec => []NeverEmpty
<1>1. IndInv => NeverEmpty
  BY Zenon DEF IndInv
<1> QED BY <1>1, Invariance, PTL

-----------------------------------------------------------------------------
(* Which step of IdempotentStore each statement is. *)

LEMMA InvisibleStep ==
  ASSUME UNCHANGED <<stored, index, key, reply>>
  PROVE  UNCHANGED Store!vars
  BY Zenon DEF Store!vars

(* The two steps that create: a single INSERT and a commit. *)
LEMMA InsertCreates ==
  ASSUME IndInv, NEW c \in Calls, pc[c] = "insert", stored' = stored \cup {c},
         UNCHANGED index, Answer(c, Created(c)) \/ Answer(c, Failed)
  PROVE  Store!Create(c)
<1>1. key[c] = NoKey /\ reply[c] = None /\ c \notin stored
  BY OwnInv, Zenon DEF CallInv
<1> QED BY <1>1, InsertsAssumption, Zenon DEF Store!Create, Answer, Created, Failed

LEMMA ApplyCreates ==
  ASSUME IndInv, NEW c \in Calls, HoldsEntry(c), Apply(c), UNCHANGED key,
         \/ reply[c] = None /\ reply' = [reply EXCEPT ![c] = Created(c)]
         \/ reply[c] = Failed /\ UNCHANGED reply
  PROVE  Store!Create(c)
<1>1. key[c] \in Keys /\ entry[key[c]] = c /\ c \notin stored
  BY OwnInv, Zenon DEF CallInv, HoldsEntry, InFlightPC, InTransaction
<1>2. index[key[c]] = None /\ key[c] # None /\ key[c] # NoKey
  BY <1>1, InsertsAssumption, Zenon DEF IndInv, KeyInv
<1> QED BY <1>1, <1>2, Zenon DEF Store!Create, Apply, Created, Failed

(* A read of the resource returns what the key is bound to. *)
LEMMA ReadReturns ==
  ASSUME IndInv, NEW c \in Calls, ReadResource(c),
         pc[c] \in {"get_resource", "get_resource_pool"}
  PROVE  Store!Return(c)
<1>1. key[c] \in Keys
  BY Keyed, Zenon DEF InFlightPC, InTransaction, OnPool
<1>2. reply[c] = None /\ found[c] = index[key[c]] /\ found[c] # None
  BY OwnInv, Zenon DEF CallInv
<1>3. found[c] \in stored
  BY <1>1, <1>2, Zenon DEF IndInv, KeyInv
<1> QED BY <1>1, <1>2, <1>3, Zenon DEF Store!Return, ReadResource, Answer, Existing

LEMMA FailureFails ==
  ASSUME IndInv, NEW c \in Calls, CallFails(c)
  PROVE  Store!Fail(c)
<1>1. pc[c] \in InFlightPC /\ reply[c] = None
  BY OwnInv, Zenon DEF CallFails, CallInv, InFlightPC, InTransaction, OnPool
<1>2. key[c] # None
  BY <1>1, OwnInv, InsertsAssumption, Zenon DEF CallInv
<1> QED BY <1>1, <1>2, Zenon DEF Store!Fail, CallFails, Answer, Failed

LEMMA ServerEndsCreates ==
  ASSUME IndInv, NEW c \in Calls, ServerEnds(c)
  PROVE  Store!Create(c) \/ UNCHANGED Store!vars
<1>1. CASE orphaned[c] = "commit"
  <2>1. orphaned[c] # None
    BY <1>1, InsertsAssumption, Zenon
  <2>2. HoldsEntry(c) /\ reply[c] = Failed
    BY <2>1, OwnInv, Zenon DEF HoldsEntry, CallInv
  <2> QED BY <1>1, <2>2, ApplyCreates, Zenon DEF ServerEnds
<1>2. CASE orphaned[c] # "commit"
  BY <1>2, InvisibleStep, Zenon DEF ServerEnds
<1> QED BY <1>1, <1>2, Zenon

LEMMA StoreStatement ==
  ASSUME IndInv, NEW c \in Calls, Statement(c)
  PROVE  Store!Create(c) \/ Store!Return(c) \/ UNCHANGED Store!vars
<1>1. CASE Insert(c) \/ InsertAnswerLost(c)
  BY <1>1, InsertCreates, Zenon DEF Insert, InsertAnswerLost
<1>2. CASE Commit(c)
  <2>1. HoldsEntry(c) /\ reply[c] = None
    BY <1>2, OwnInv, Zenon DEF Commit, HoldsEntry, CallInv
  <2> QED BY <1>2, <2>1, ApplyCreates, Zenon DEF Commit, Answer
<1>3. CASE GetResource(c) \/ GetResourceOnPool(c)
  BY <1>3, ReadReturns, Zenon DEF GetResource, GetResourceOnPool
<1>4. CASE Begin(c) \/ getIdempotencyTx(c) \/ InsertRow(c) \/ InsertKey(c) \/ Rollback(c)
  <2>1. UNCHANGED <<stored, index, key, reply>>
    BY <1>4, Zenon DEF Begin, getIdempotencyTx, ReadKey, InsertRow, InsertKey, Rollback, Goto
  <2> QED BY <2>1, InvisibleStep, Zenon
<1>5. CASE FindKeyOnPool(c)
  <2>1. index[key[c]] # None
    BY <1>5, OwnInv, Zenon DEF FindKeyOnPool, CallInv
  <2>2. UNCHANGED <<stored, index, key, reply>>
    BY <1>5, <2>1, Zenon DEF FindKeyOnPool, ReadKey, Goto
  <2> QED BY <2>2, InvisibleStep, Zenon
<1> QED BY <1>1, <1>2, <1>3, <1>4, <1>5, Zenon DEF Statement

(* The transactions of PostgresStore keep the promise of IdempotentStore:  *)
(* each call takes effect at one instant, for any number of racing calls,  *)
(* failures and late commits.                                              *)
THEOREM Refinement == Spec => ImplementsIdempotentStore
<1>1. Init => Store!Init
  BY Zenon DEF Init
<1>2. IndInv /\ [Next]_vars => [Store!Next]_(Store!vars)
  <2> SUFFICES ASSUME IndInv, [Next]_vars PROVE Store!Next \/ UNCHANGED Store!vars
    OBVIOUS
  <2>1. CASE UNCHANGED vars
    BY <2>1, InvisibleStep, Zenon DEF vars
  <2>2. ASSUME NEW c \in Calls, Call(c) PROVE Store!Next
    BY <2>2, Zenon DEF Call, Store!Next
  <2>3. ASSUME NEW c \in Calls, Statement(c) \/ CallFails(c) \/ ServerEnds(c)
        PROVE  Store!Next \/ UNCHANGED Store!vars
    BY <2>3, StoreStatement, FailureFails, ServerEndsCreates, Zenon DEF Store!Next
  <2> QED BY <2>1, <2>2, <2>3, Zenon DEF Next
<1> QED BY <1>1, <1>2, Invariance, PTL DEF Spec, ImplementsIdempotentStore, Store!Spec
=============================================================================
