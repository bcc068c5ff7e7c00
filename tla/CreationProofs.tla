--------------------------- MODULE CreationProofs ---------------------------
(***************************************************************************)
(* The safety of Creation, for all values of the constants: every action   *)
(* preserves IndInv, and IndInv implies the properties.  What the audit    *)
(* log holds needs some history on top of it, HistoryInv.  The last part   *)
(* shows that Creation implements IdempotentStore.                         *)
(*                                                                         *)
(* A handler touches the store in one step only.  QuietStep shows that any *)
(* other step of a handler preserves IndInv when it does the right thing   *)
(* by its own request; InsertStep shows the same of the one step that      *)
(* stores a resource together with its key.                                *)
(***************************************************************************)
EXTENDS CreationStore, TLAPS

(* Requests other than r are left alone. *)
OthersUnchanged(r) ==
  \A q \in Requests \ {r} :
    /\ pc'[q] = pc[q] /\ call'[q] = call[q] /\ body'[q] = body[q]
    /\ draft'[q] = draft[q] /\ reply'[q] = reply[q]

(* What TypeOK says of the handlers. *)
HandlersTypeOK ==
  /\ pc \in [Requests -> {"idle", "done"} \cup InFlightPC]
  /\ ctx \in [Requests -> {"live", "cancelled"}]
  /\ call \in [Requests -> Call \cup {None}]
  /\ body \in [Requests -> Bodies \cup {None}]
  /\ draft \in [Requests -> Proposal \cup {None}]
  /\ reply \in [Requests -> [status : {"none", "Created", "BadRequest", "NotFound", "InternalServerError"},
                             resource : Requests \cup {None}]]

(* A scope is told by its first component. *)
LEMMA ScopeShape ==
  ASSUME NEW s \in Scope
  PROVE  /\ s[1] = "wallet" => s[2] \in Chains /\ s = <<"wallet", s[2]>>
         /\ s[1] = "transaction" => s[2] \in Requests /\ s = <<"transaction", s[2]>>
<1>1. CASE s \in {"wallet"} \X Chains
  BY <1>1
<1>2. CASE s \in {"transaction"} \X Requests
  BY <1>2
<1> QED BY <1>1, <1>2, Zenon DEF Scope

(* Requests with a key find its record. *)
LEMMA KeyTyped ==
  ASSUME NEW r \in Requests, call[r] \in Call, call[r].key # None
  PROVE  KeyOf(r) \in Scope \X Keys
  BY Zenon DEF KeyOf, Call

(* The part of the invariant about one request and what it made. *)
LEMMA OwnInv ==
  ASSUME IndInv, NEW r \in Requests
  PROVE  HandlerInv(r) /\ ResourceInv(r) /\ ReplyInv(r)
  BY Zenon DEF IndInv

(* That part depends on these variables only. *)
LEMMA SameRequest ==
  ASSUME IndInv, NEW r \in Requests,
         UNCHANGED <<wallets, transactions, idempotency, records>>,
         UNCHANGED <<pc, call, body, draft, reply>>
  PROVE  HandlerInv(r)' /\ ResourceInv(r)' /\ ReplyInv(r)'
<1>1. \A x \in Requests : Stored(x)' = Stored(x) /\ KeyOf(x)' = KeyOf(x)
  BY Zenon DEF Stored, KeyOf
<1>2. HandlerInv(r)'
  BY <1>1, OwnInv, Zenon DEF HandlerInv, InFlight
<1>3. ResourceInv(r)'
  BY <1>1, OwnInv, Zenon DEF ResourceInv
<1>4. ReplyInv(r)'
  BY <1>1, OwnInv DEF ReplyInv
<1> QED BY <1>2, <1>3, <1>4, Zenon

(* A step that leaves the store alone and moves only request r. *)
LEMMA QuietStep ==
  ASSUME IndInv, TypeOK', NEW r \in Requests, OthersUnchanged(r),
         UNCHANGED store, records \subseteq records',
         HandlerInv(r)', ReplyInv(r)',
         Stored(r) => pc'[r] \in {"audit", "done"} /\ call'[r] = call[r]
  PROVE  IndInv'
<1>1. \A x \in Requests : Stored(x)' = Stored(x)
  BY Zenon DEF Stored, store
<1>2. \A x \in Requests : Stored(x) => call'[x] = call[x] /\ KeyOf(x)' = KeyOf(x)
  BY Zenon DEF OthersUnchanged, KeyOf
<1>3. ASSUME NEW q \in Requests PROVE HandlerInv(q)'
  <2>1. CASE q = r
    BY <2>1, Zenon
  <2>2. CASE q # r
    <3>1. /\ pc'[q] = pc[q] /\ call'[q] = call[q] /\ body'[q] = body[q]
          /\ draft'[q] = draft[q]
      BY <2>2, Zenon DEF OthersUnchanged
    <3> QED BY <3>1, <1>1, ZenonT(60) DEF IndInv, HandlerInv, InFlight, store
  <2> QED BY <2>1, <2>2, Zenon
<1>4. ASSUME NEW x \in Requests PROVE ResourceInv(x)'
  <2>1. Stored(x) => pc'[x] \in {"audit", "done"}
    BY Zenon DEF OthersUnchanged, IndInv, ResourceInv
  <2> QED BY <1>1, <1>2, <2>1, Zenon DEF IndInv, ResourceInv, Stored, store
<1>5. ASSUME NEW q \in Requests PROVE ReplyInv(q)'
  <2>1. CASE q = r
    BY <2>1, Zenon
  <2>2. CASE q # r
    <3>1. pc'[q] = pc[q] /\ call'[q] = call[q] /\ reply'[q] = reply[q] /\ KeyOf(q)' = KeyOf(q)
      BY <2>2, Zenon DEF OthersUnchanged, KeyOf
    <3> QED BY <3>1, <1>1, <1>2 DEF IndInv, ReplyInv, store
  <2> QED BY <2>1, <2>2, Zenon
<1>6. ASSUME NEW k \in Scope \X Keys PROVE RecordInv(k)'
  <2>1. idempotency[k] # None => idempotency[k] \in Requests
    BY DEF IndInv, TypeOK
  <2> QED BY <1>1, <1>2, <2>1, Zenon DEF IndInv, RecordInv, store
<1> QED BY <1>3, <1>4, <1>5, <1>6, Zenon DEF IndInv

(* The step that stores the resource of request r, and its key. *)
LEMMA InsertStep ==
  ASSUME IndInv, TypeOK', NEW r \in Requests, OthersUnchanged(r),
         UNCHANGED <<call, records>>,
         pc'[r] \in {"audit", "done"}, reply'[r].status # "Created",
         Existing(r) = None, SaveKey(r),
         \/ pc[r] = "store_wallet" /\ InsertWallet(r)
         \/ pc[r] = "store_transaction" /\ InsertTransaction(r)
  PROVE  IndInv'
<1>1. /\ call[r] \in Call /\ ~Stored(r)
      /\ call[r].scope \in Scope
  BY DEF IndInv, HandlerInv, ResourceInv, InFlight, InFlightPC, CreatePC, ProposePC, Call
<1>2. /\ Stored(r)'
      /\ wallets'[r] # None => call[r].scope = <<"wallet", wallets'[r]>>
      /\ transactions'[r] # None => call[r].scope = <<"transaction", transactions'[r].wallet>>
  <2>1. CASE pc[r] = "store_wallet" /\ InsertWallet(r)
    <3>1. call[r].scope[2] \in Chains /\ call[r].scope = <<"wallet", call[r].scope[2]>>
      BY <1>1, <2>1, ScopeShape, Zenon DEF IndInv, HandlerInv, CreatePC
    <3>2. wallets'[r] = call[r].scope[2] /\ transactions'[r] = None
      BY <1>1, <2>1 DEF InsertWallet, IndInv, TypeOK, Stored
    <3> QED BY <3>1, <3>2, CreationAssumption DEF Stored
  <2>2. CASE pc[r] = "store_transaction" /\ InsertTransaction(r)
    <3>1. call[r].scope = <<"transaction", call[r].scope[2]>>
      BY <1>1, <2>2, ScopeShape, Zenon DEF IndInv, HandlerInv, ProposePC
    <3>2. draft[r] \in Proposal /\ draft[r].wallet = call[r].scope[2]
      BY <2>2, Zenon DEF IndInv, HandlerInv
    <3>3. transactions'[r] = draft[r] /\ wallets'[r] = None
      BY <1>1, <2>2 DEF InsertTransaction, IndInv, TypeOK, Stored
    <3> QED BY <3>1, <3>2, <3>3, CreationAssumption DEF Stored
  <2> QED BY <2>1, <2>2, Zenon
<1>3. \A x \in Requests \ {r} :
        /\ wallets'[x] = wallets[x] /\ transactions'[x] = transactions[x]
        /\ Stored(x)' = Stored(x)
  BY DEF InsertWallet, InsertTransaction, IndInv, TypeOK, Stored
<1>4. \A x \in Requests : KeyOf(x)' = KeyOf(x)
  BY Zenon DEF KeyOf
<1>5. \A k \in Scope \X Keys : idempotency[k] # None => idempotency'[k] = idempotency[k]
  BY DEF SaveKey, Existing, IndInv, TypeOK
<1>6. call[r].key # None => idempotency'[KeyOf(r)] = r
  BY <1>1, KeyTyped DEF SaveKey, IndInv, TypeOK
<1>7. ASSUME NEW q \in Requests PROVE HandlerInv(q)'
  <2>1. CASE q = r
    <3>1. InFlight(r)' => call'[r] \in Call
      BY <1>1, Zenon
    <3> QED BY <1>2, <2>1, <3>1, Zenon DEF HandlerInv, CreatePC, ProposePC
  <2>2. CASE q # r
    <3>1. /\ pc'[q] = pc[q] /\ call'[q] = call[q] /\ body'[q] = body[q]
          /\ draft'[q] = draft[q] /\ Stored(q)' = Stored(q)
      BY <1>3, <2>2 DEF OthersUnchanged
    <3>2. pc[q] = "build" => wallets'[call[q].scope[2]] # None
      <4>1. pc[q] = "build" =>
              call[q].scope[2] \in Requests /\ wallets[call[q].scope[2]] # None
        BY ScopeShape, Zenon DEF IndInv, HandlerInv, ProposePC, InFlight, InFlightPC, Call
      <4> QED BY <1>1, <1>3, <4>1, Zenon DEF Stored
    <3> QED BY <3>1, <3>2 DEF IndInv, HandlerInv, InFlight
  <2> QED BY <2>1, <2>2, Zenon
<1>8. ASSUME NEW x \in Requests PROVE ResourceInv(x)'
  <2>1. CASE x = r
    BY <1>1, <1>2, <1>4, <1>6, <2>1, Zenon DEF ResourceInv
  <2>2. CASE x # r
    <3>1. /\ Stored(x)' = Stored(x) /\ wallets'[x] = wallets[x]
          /\ transactions'[x] = transactions[x] /\ pc'[x] = pc[x] /\ call'[x] = call[x]
      BY <1>3, <2>2, ZenonT(60) DEF OthersUnchanged
    <3>2. ASSUME Stored(x), call[x].key # None PROVE idempotency'[KeyOf(x)] = x
      <4>1. call[x] \in Call /\ idempotency[KeyOf(x)] = x
        BY <3>2, Zenon DEF IndInv, ResourceInv
      <4>2. KeyOf(x) \in Scope \X Keys
        BY <3>2, <4>1, KeyTyped, Zenon
      <4> QED BY <1>5, <4>1, <4>2, CreationAssumption
    <3>3. ResourceInv(x)
      BY Zenon DEF IndInv
    <3> QED BY <1>4, <3>1, <3>2, <3>3 DEF ResourceInv
  <2> QED BY <2>1, <2>2, Zenon
<1>9. ASSUME NEW q \in Requests PROVE ReplyInv(q)'
  <2>1. CASE q = r
    BY <2>1, Zenon DEF ReplyInv
  <2>2. CASE q # r
    <3> SUFFICES ASSUME reply'[q].status = "Created" PROVE ReplyInv(q)'
      BY Zenon DEF ReplyInv
    <3>1. pc'[q] = pc[q] /\ call'[q] = call[q] /\ reply'[q] = reply[q]
      BY <2>2 DEF OthersUnchanged
    <3>2. ReplyInv(q) /\ reply[q].status = "Created"
      BY <3>1, ZenonT(60) DEF IndInv
    <3>3. /\ reply[q].resource \in Requests
          /\ \/ wallets'[reply[q].resource] # None
             \/ transactions'[reply[q].resource] # None
      BY <1>2, <1>3, <3>2 DEF ReplyInv, Stored
    <3>4. ASSUME call[q].key # None PROVE idempotency'[KeyOf(q)] = reply[q].resource
      <4>1. /\ idempotency[KeyOf(q)] = reply[q].resource
            /\ KeyOf(q) \in Scope \X Keys
        BY <3>2, <3>4, KeyTyped, Zenon DEF ReplyInv
      <4> QED BY <1>5, <3>3, <4>1, CreationAssumption
    <3> QED BY <1>4, <3>1, <3>2, <3>3, <3>4 DEF ReplyInv, Stored
  <2> QED BY <2>1, <2>2, Zenon
<1>10. ASSUME NEW k \in Scope \X Keys PROVE RecordInv(k)'
  <2>1. CASE idempotency'[k] = idempotency[k]
    <3>1. idempotency[k] # None => idempotency[k] \in Requests
      BY DEF IndInv, TypeOK
    <3> QED BY <1>2, <1>3, <1>4, <2>1, <3>1 DEF IndInv, RecordInv
  <2>2. CASE idempotency'[k] # idempotency[k]
    <3>1. call[r].key # None /\ k = KeyOf(r)
      BY <1>1, <2>2, KeyTyped DEF SaveKey, IndInv, TypeOK
    <3> QED BY <1>1, <1>2, <1>4, <1>6, <3>1, ZenonT(60) DEF RecordInv
  <2> QED BY <2>1, <2>2, Zenon
<1> QED BY <1>7, <1>8, <1>9, <1>10, Zenon DEF IndInv

-----------------------------------------------------------------------------
(* One lemma per action. *)

(* The effect of ending a handler, and of moving it on. *)
LEMMA RespondMoves ==
  ASSUME IndInv, NEW r \in Requests,
         NEW status \in {"Created", "BadRequest", "NotFound", "InternalServerError"},
         NEW x \in Requests \cup {None}, Respond(r, status, x)
  PROVE  /\ OthersUnchanged(r) /\ UNCHANGED call
         /\ pc'[r] = "done" /\ reply'[r] = [status |-> status, resource |-> x]
         /\ reply'[r].status = status /\ reply'[r].resource = x
         /\ HandlersTypeOK' /\ HandlerInv(r)'
<1>1. OthersUnchanged(r) /\ UNCHANGED call
  BY DEF Respond, OthersUnchanged, IndInv, TypeOK
<1>2. pc'[r] = "done" /\ reply'[r] = [status |-> status, resource |-> x]
  BY DEF Respond, IndInv, TypeOK
<1>3. HandlerInv(r)'
  BY <1>2, ZenonT(60) DEF HandlerInv, InFlight, InFlightPC, CreatePC, ProposePC
<1>4. HandlersTypeOK'
  BY DEF Respond, IndInv, TypeOK, HandlersTypeOK
<1>5. reply'[r].status = status /\ reply'[r].resource = x
  BY <1>2
<1> QED BY <1>1, <1>2, <1>3, <1>4, <1>5, ZenonT(60)

(* The types of the shared variables stay as long as nothing changes them. *)
LEMMA TypesKept ==
  ASSUME IndInv, HandlersTypeOK', UNCHANGED <<store, auditEvents, memory, pendingNonce>>
  PROVE  TypeOK'
  BY DEF IndInv, TypeOK, HandlersTypeOK, store, memory

(* A refusal is a quiet step. *)
LEMMA RefuseStep ==
  ASSUME IndInv, NEW r \in Requests, NEW status \in {"BadRequest", "NotFound", "InternalServerError"},
         Refuse(r, status), UNCHANGED <<store, auditEvents, memory, pendingNonce>>
  PROVE  IndInv'
<1>1. Respond(r, status, None)
  BY ZenonT(60) DEF Refuse
<1>2. /\ OthersUnchanged(r) /\ UNCHANGED call
      /\ pc'[r] = "done" /\ reply'[r] = [status |-> status, resource |-> None]
      /\ HandlerInv(r)' /\ HandlersTypeOK'
      /\ reply'[r].status = status
  BY <1>1, RespondMoves
<1>3. TypeOK'
  BY <1>2, TypesKept, Zenon
<1>4. ReplyInv(r)'
  BY <1>2, Zenon DEF ReplyInv
<1> QED BY <1>2, <1>3, <1>4, QuietStep, ZenonT(60) DEF memory

(* Initially nothing is stored, running or answered. *)
LEMMA InitInv ==
  ASSUME Init
  PROVE  IndInv
<1>1. TypeOK
  BY ZenonT(60) DEF Init, TypeOK, NoReply
<1>2. ASSUME NEW r \in Requests PROVE HandlerInv(r) /\ ResourceInv(r) /\ ReplyInv(r)
  <2>1. /\ pc[r] = "idle" /\ wallets[r] = None /\ transactions[r] = None
        /\ reply[r].status = "none"
    BY Zenon DEF Init, NoReply
  <2> QED BY <2>1 DEF HandlerInv, ResourceInv, ReplyInv, Stored, InFlight, InFlightPC,
                      CreatePC, ProposePC
<1>3. \A k \in Scope \X Keys : RecordInv(k)
  BY Zenon DEF Init, RecordInv
<1> QED BY <1>1, <1>2, <1>3, Zenon DEF IndInv

(* A wallet request starts, or is refused at once. *)
LEMMA CreateWalletInv ==
  ASSUME IndInv, NEW r \in Requests, NEW chain \in Chains \cup {None},
         NEW key \in Keys \cup {None}, CreateWallet(r, chain, key)
  PROVE  IndInv'
<1>1. pc[r] = "idle" /\ UNCHANGED <<store, auditEvents, memory, pendingNonce, locals>>
  BY Zenon DEF CreateWallet
<1>2. ~Stored(r) /\ reply[r].status # "Created"
  BY <1>1, OwnInv DEF ResourceInv, ReplyInv
<1>3. CASE chain \in Chains
  <2>1. /\ call' = [call EXCEPT ![r] = [scope |-> <<"wallet", chain>>, key |-> key]]
        /\ pc' = [pc EXCEPT ![r] = "create_material"] /\ UNCHANGED reply
    BY <1>3, Zenon DEF CreateWallet
  <2>2. [scope |-> <<"wallet", chain>>, key |-> key] \in Call
    BY <1>3, Zenon DEF Call, Scope
  <2>3. /\ TypeOK' /\ OthersUnchanged(r) /\ pc'[r] = "create_material"
        /\ call'[r] = [scope |-> <<"wallet", chain>>, key |-> key]
    BY <1>1, <2>1, <2>2 DEF IndInv, TypeOK, OthersUnchanged, store, memory, locals,
       InFlightPC, CreatePC
  <2>4. HandlerInv(r)'
    BY <2>2, <2>3 DEF HandlerInv, CreatePC, ProposePC
  <2>5. ReplyInv(r)'
    BY <1>2, <2>1, Zenon DEF ReplyInv
  <2> QED BY <1>1, <1>2, <2>3, <2>4, <2>5, QuietStep, Zenon DEF memory
<1>4. CASE chain \notin Chains
  <2>1. /\ pc' = [pc EXCEPT ![r] = "done"] /\ UNCHANGED call
        /\ reply' = [reply EXCEPT ![r] = [status |-> "BadRequest", resource |-> None]]
    BY <1>4, Zenon DEF CreateWallet
  <2>2. /\ TypeOK' /\ OthersUnchanged(r) /\ pc'[r] = "done"
        /\ reply'[r] = [status |-> "BadRequest", resource |-> None]
    BY <1>1, <2>1 DEF IndInv, TypeOK, OthersUnchanged, store, memory, locals
  <2>3. HandlerInv(r)'
    BY <2>2, Zenon DEF HandlerInv, InFlight, InFlightPC, CreatePC, ProposePC
  <2>4. ReplyInv(r)'
    BY <2>2 DEF ReplyInv
  <2> QED BY <1>1, <1>2, <2>2, <2>3, <2>4, QuietStep, ZenonT(60) DEF memory
<1> QED BY <1>3, <1>4, Zenon

(* A proposal request starts. *)
LEMMA ProposeTransactionInv ==
  ASSUME IndInv, NEW r \in Requests, NEW w \in Requests, NEW key \in Keys \cup {None},
         NEW b \in Bodies, ProposeTransaction(r, w, key, b)
  PROVE  IndInv'
<1> DEFINE c == [scope |-> <<"transaction", w>>, key |-> key]
<1>1. /\ pc[r] = "idle"
      /\ UNCHANGED <<store, auditEvents, memory, pendingNonce, ctx, draft, reply>>
      /\ call' = [call EXCEPT ![r] = c] /\ body' = [body EXCEPT ![r] = b]
      /\ pc' = [pc EXCEPT ![r] = "get_wallet"]
  BY Zenon DEF ProposeTransaction
<1>2. ~Stored(r) /\ reply[r].status # "Created"
  BY <1>1, ZenonT(60) DEF IndInv, ResourceInv, ReplyInv
<1>3. c \in Call /\ c.scope[1] = "transaction"
  BY Zenon DEF Call, Scope
<1> HIDE DEF c
<1>4. /\ TypeOK' /\ OthersUnchanged(r) /\ pc'[r] = "get_wallet"
      /\ call'[r] = c /\ body'[r] = b
  BY <1>1, <1>3 DEF IndInv, TypeOK, OthersUnchanged, store, memory, InFlightPC, ProposePC
<1>5. HandlerInv(r)'
  BY <1>3, <1>4, Zenon DEF HandlerInv, CreatePC, ProposePC
<1>6. ReplyInv(r)'
  BY <1>1, <1>2, Zenon DEF ReplyInv
<1> QED BY <1>1, <1>2, <1>4, <1>5, <1>6, QuietStep, Zenon DEF memory

(* The types of what an insertion writes. *)
LEMMA SaveKeyTyped ==
  ASSUME IndInv, NEW r \in Requests, call[r] \in Call, SaveKey(r)
  PROVE  idempotency' \in [Scope \X Keys -> Requests \cup {None}]
<1>1. idempotency \in [Scope \X Keys -> Requests \cup {None}]
  BY Zenon DEF IndInv, TypeOK
<1>2. CASE call[r].key = None
  BY <1>1, <1>2, Zenon DEF SaveKey
<1>3. CASE call[r].key # None
  <2>1. KeyOf(r) \in Scope \X Keys
    BY <1>3, KeyTyped, Zenon
  <2>2. idempotency' = [idempotency EXCEPT ![KeyOf(r)] = r]
    BY <1>3, Zenon DEF SaveKey
  <2> QED BY <1>1, <2>1, <2>2, Zenon
<1> QED BY <1>2, <1>3, Zenon

(* Moving a handler on without touching its arguments or the store. *)
LEMMA GotoStep ==
  ASSUME IndInv, NEW r \in Requests, NEW label \in InFlightPC, Goto(r, label),
         UNCHANGED store, TypeOK', records \subseteq records',
         \A q \in Requests \ {r} : body'[q] = body[q] /\ draft'[q] = draft[q],
         pc[r] \in InFlightPC \ {"audit"}, HandlerInv(r)'
  PROVE  IndInv'
<1>1. OthersUnchanged(r) /\ UNCHANGED call
  BY DEF Goto, OthersUnchanged, IndInv, TypeOK
<1>2. ~Stored(r) /\ reply[r].status # "Created"
  BY OwnInv DEF ResourceInv, ReplyInv, InFlightPC, CreatePC, ProposePC
<1>3. ReplyInv(r)'
  BY <1>2, Zenon DEF ReplyInv, Goto
<1> QED BY <1>1, <1>2, <1>3, QuietStep, Zenon

(* The signer has made the key of the new wallet. *)
LEMMA MaterialCreatedInv ==
  ASSUME IndInv, NEW r \in Requests, MaterialCreated(r)
  PROVE  IndInv'
<1>1. /\ pc[r] = "create_material" /\ Goto(r, "store_wallet")
      /\ records' = records \cup {r}
      /\ UNCHANGED <<store, auditEvents, nonces, pendingNonce, locals>>
  BY Zenon DEF MaterialCreated, AtCall
<1>2. TypeOK'
  BY <1>1 DEF IndInv, TypeOK, Goto, store, locals, InFlightPC, CreatePC
<1>3. pc'[r] = "store_wallet" /\ call'[r] = call[r]
  BY <1>1 DEF Goto, IndInv, TypeOK
<1>4. HandlerInv(r)'
  BY <1>1, <1>3, Zenon DEF IndInv, HandlerInv, InFlight, InFlightPC, CreatePC, ProposePC
<1> QED BY <1>1, <1>2, <1>4, GotoStep, Zenon DEF locals, InFlightPC, CreatePC

(* The wallet exists and the amount is allowed, or the request is refused. *)
LEMMA GetWalletInv ==
  ASSUME IndInv, NEW r \in Requests, GetWallet(r)
  PROVE  IndInv'
<1>1. pc[r] = "get_wallet" /\ UNCHANGED <<store, auditEvents, memory, pendingNonce>>
  BY Zenon DEF GetWallet, AtCall
<1>2. CASE Refuse(r, "BadRequest") \/ Refuse(r, "NotFound")
  BY <1>1, <1>2, RefuseStep
<1>3. CASE wallets[call[r].scope[2]] # None /\ Goto(r, "build") /\ UNCHANGED locals
  <2>1. TypeOK'
    BY <1>1, <1>3, ZenonT(60)
       DEF IndInv, TypeOK, Goto, store, memory, locals, InFlightPC, ProposePC
  <2>2. /\ pc'[r] = "build" /\ call'[r] = call[r] /\ body'[r] = body[r]
        /\ wallets' = wallets
    BY <1>1, <1>3 DEF Goto, IndInv, TypeOK, locals, store
  <2>3. HandlerInv(r)'
    BY <1>1, <1>3, <2>2, Zenon
       DEF IndInv, HandlerInv, InFlight, InFlightPC, CreatePC, ProposePC
  <2> QED BY <1>1, <1>3, <2>1, <2>3, GotoStep, Zenon
             DEF locals, memory, InFlightPC, ProposePC
<1> QED BY <1>2, <1>3, ZenonT(60) DEF GetWallet

(* The draft spends from the wallet that the request names. *)
LEMMA BuildTransactionInv ==
  ASSUME IndInv, NEW r \in Requests, BuildTransaction(r)
  PROVE  IndInv'
<1> DEFINE w == call[r].scope[2]
           a == Address(w)
           nonce == IF wallets[w] # "evm" THEN None
                    ELSE IF EvmRpc THEN populateFromRPC(a) ELSE nonces[a]
           d == [wallet |-> w, nonce |-> nonce]
<1>1. /\ pc[r] = "build" /\ Goto(r, "store_transaction")
      /\ draft' = [draft EXCEPT ![r] = d] /\ body' = [body EXCEPT ![r] = None]
      /\ nonces' = nonces \/ nonces' = [nonces EXCEPT ![a] = @ + 1]
      /\ UNCHANGED <<store, auditEvents, records, pendingNonce, ctx>>
  BY Zenon DEF BuildTransaction, AtCall, nextNonce
<1>2. w \in Requests /\ a \in Addresses
  BY <1>1, ScopeShape, Zenon
     DEF IndInv, HandlerInv, ProposePC, InFlight, InFlightPC, Call,
                          Address, Addresses
<1>3. nonce \in Nat \cup {None}
  <2>1. nonces[a] \in Nat /\ pendingNonce[a] \in Nat
    BY <1>2 DEF IndInv, TypeOK
  <2> QED BY <2>1, Zenon DEF populateFromRPC
<1>4. d \in Proposal /\ d.wallet = w
  BY <1>2, <1>3, Zenon DEF Proposal
<1> HIDE DEF nonce, d, a
<1>5. nonces' \in [Addresses -> Nat]
  BY <1>1, <1>2 DEF IndInv, TypeOK
<1>6. TypeOK'
  BY <1>1, <1>4, <1>5, ZenonT(60) DEF IndInv, TypeOK, Goto, store, InFlightPC, ProposePC
<1>7. pc'[r] = "store_transaction" /\ call'[r] = call[r] /\ draft'[r] = d
  BY <1>1 DEF Goto, IndInv, TypeOK
<1>8. HandlerInv(r)'
  BY <1>1, <1>4, <1>7, Zenon
     DEF IndInv, HandlerInv, InFlight, InFlightPC, CreatePC, ProposePC
<1>9. \A q \in Requests \ {r} : body'[q] = body[q] /\ draft'[q] = draft[q]
  BY <1>1 DEF IndInv, TypeOK
<1> QED BY <1>1, <1>6, <1>8, <1>9, GotoStep, Zenon DEF InFlightPC, ProposePC

(* A key that is known already: the client gets the resource it names. *)
LEMMA ReplayStep ==
  ASSUME IndInv, NEW r \in Requests, pc[r] \in InFlightPC, Existing(r) # None,
         Respond(r, "Created", Existing(r)),
         UNCHANGED <<store, auditEvents, memory, pendingNonce>>
  PROVE  IndInv'
<1>1. call[r] \in Call
  BY Zenon DEF IndInv, HandlerInv, InFlight
<1>2. call[r].key # None /\ Existing(r) = idempotency[KeyOf(r)]
  BY Zenon DEF Existing
<1>3. KeyOf(r) \in Scope \X Keys
  BY <1>1, <1>2, KeyTyped, Zenon
<1>4. PICK x \in Requests : x = Existing(r)
  BY <1>2, <1>3, ZenonT(60) DEF IndInv, TypeOK
<1>5. Stored(x) /\ call[x].scope = call[r].scope
  <2>1. Stored(x) /\ call[x] \in Call /\ KeyOf(x) = KeyOf(r)
    BY <1>2, <1>3, <1>4, Zenon DEF IndInv, RecordInv
  <2> QED BY <2>1, Zenon DEF KeyOf
<1>6. /\ OthersUnchanged(r) /\ UNCHANGED call /\ pc'[r] = "done"
      /\ reply'[r].status = "Created" /\ reply'[r].resource = x
      /\ HandlersTypeOK' /\ HandlerInv(r)'
  <2>1. Respond(r, "Created", x)
    BY <1>4, Zenon
  <2> QED BY <2>1, RespondMoves, Zenon
<1>7. TypeOK'
  BY <1>6, TypesKept, Zenon
<1>8. ReplyInv(r)'
  <2>1. KeyOf(r)' = KeyOf(r) /\ idempotency' = idempotency /\ Stored(x)'
    BY <1>5, <1>6, Zenon DEF KeyOf, Stored, store
  <2> QED BY <1>1, <1>2, <1>4, <1>5, <1>6, <2>1, ZenonT(60) DEF ReplyInv
<1> QED BY <1>6, <1>7, <1>8, QuietStep, Zenon DEF memory

(* Both handlers end in this step. *)
LEMMA StoreStep ==
  ASSUME IndInv, NEW r \in Requests, Existing(r) = None, SaveKey(r),
         \/ pc[r] = "store_wallet" /\ InsertWallet(r)
         \/ pc[r] = "store_transaction" /\ InsertTransaction(r),
         \/ Goto(r, "audit") /\ UNCHANGED locals
         \/ Refuse(r, "InternalServerError"),
         UNCHANGED <<auditEvents, memory, pendingNonce>>
  PROVE  IndInv'
<1>1. call[r] \in Call
  BY Zenon DEF IndInv, HandlerInv, InFlight, InFlightPC, CreatePC, ProposePC
<1>2. /\ wallets' \in [Requests -> Chains \cup {None}]
      /\ transactions' \in [Requests -> Proposal \cup {None}]
  <2>1. CASE pc[r] = "store_wallet" /\ InsertWallet(r)
    <3>1. call[r].scope[2] \in Chains
      BY <1>1, <2>1, ScopeShape, Zenon DEF IndInv, HandlerInv, CreatePC, Call
    <3> QED BY <2>1, <3>1 DEF InsertWallet, IndInv, TypeOK
  <2>2. CASE pc[r] = "store_transaction" /\ InsertTransaction(r)
    BY <2>2 DEF InsertTransaction, IndInv, TypeOK, HandlerInv
  <2> QED BY <2>1, <2>2, Zenon
<1>3. idempotency' \in [Scope \X Keys -> Requests \cup {None}]
  BY <1>1, SaveKeyTyped, Zenon
<1>4. reply[r].status # "Created"
  BY OwnInv DEF ReplyInv
<1>5. CASE Goto(r, "audit") /\ UNCHANGED locals
  <2>1. /\ OthersUnchanged(r) /\ UNCHANGED call /\ pc'[r] = "audit"
        /\ reply'[r].status # "Created"
    BY <1>4, <1>5 DEF Goto, OthersUnchanged, locals, IndInv, TypeOK
  <2>2. TypeOK'
    BY <1>2, <1>3, <1>5 DEF Goto, locals, memory, IndInv, TypeOK, InFlightPC
  <2> QED BY <2>1, <2>2, InsertStep, ZenonT(60) DEF memory
<1>6. CASE Refuse(r, "InternalServerError")
  <2>1. Respond(r, "InternalServerError", None)
    BY <1>6, Zenon DEF Refuse
  <2>2. /\ OthersUnchanged(r) /\ UNCHANGED call /\ pc'[r] = "done"
        /\ reply'[r].status = "InternalServerError" /\ HandlersTypeOK'
    BY <2>1, RespondMoves, Zenon
  <2>3. TypeOK'
    BY <1>2, <1>3, <2>2 DEF memory, IndInv, TypeOK, HandlersTypeOK
  <2>4. reply'[r].status # "Created"
    BY <2>2, Zenon
  <2> QED BY <2>2, <2>3, <2>4, InsertStep, ZenonT(60) DEF memory
<1> QED BY <1>5, <1>6, Zenon

(* CreateWallet reaches the store. *)
LEMMA CreateWalletIdempotentlyInv ==
  ASSUME IndInv, NEW r \in Requests, CreateWalletIdempotently(r)
  PROVE  IndInv'
<1>1. pc[r] = "store_wallet" /\ UNCHANGED <<auditEvents, memory, pendingNonce>>
  BY Zenon DEF CreateWalletIdempotently, AtCall
<1>2. CASE Existing(r) # None /\ Respond(r, "Created", Existing(r)) /\ UNCHANGED store
  BY <1>1, <1>2, ReplayStep, Zenon DEF InFlightPC, CreatePC
<1>3. CASE /\ Existing(r) = None /\ InsertWallet(r) /\ SaveKey(r)
           /\ (Goto(r, "audit") /\ UNCHANGED locals) \/ Refuse(r, "InternalServerError")
  BY <1>1, <1>3, StoreStep, Zenon
<1> QED BY <1>2, <1>3, ZenonT(60) DEF CreateWalletIdempotently, StoreResource

(* ProposeTransaction reaches the store. *)
LEMMA CreateTransactionIdempotentlyInv ==
  ASSUME IndInv, NEW r \in Requests, CreateTransactionIdempotently(r)
  PROVE  IndInv'
<1>1. pc[r] = "store_transaction" /\ UNCHANGED <<auditEvents, memory, pendingNonce>>
  BY Zenon DEF CreateTransactionIdempotently, AtCall
<1>2. CASE Existing(r) # None /\ Respond(r, "Created", Existing(r)) /\ UNCHANGED store
  BY <1>1, <1>2, ReplayStep, Zenon DEF InFlightPC, ProposePC
<1>3. CASE /\ Existing(r) = None /\ InsertTransaction(r) /\ SaveKey(r)
           /\ (Goto(r, "audit") /\ UNCHANGED locals) \/ Refuse(r, "InternalServerError")
  BY <1>1, <1>3, StoreStep, Zenon
<1> QED BY <1>2, <1>3, ZenonT(60) DEF CreateTransactionIdempotently, StoreResource

(* The new resource is audited and answered. *)
LEMMA ResourceAuditedInv ==
  ASSUME IndInv, NEW r \in Requests, ResourceAudited(r)
  PROVE  IndInv'
<1>1. /\ pc[r] = "audit" /\ UNCHANGED <<store, memory, pendingNonce>>
      /\ auditEvents' = auditEvents \cup {[id |-> r, resourceID |-> r]}
  BY Zenon DEF ResourceAudited, AtCall
<1>2. Stored(r) /\ call[r] \in Call /\ (call[r].key # None => idempotency[KeyOf(r)] = r)
  BY <1>1, Zenon DEF IndInv, HandlerInv, ResourceInv
<1>3. /\ OthersUnchanged(r) /\ UNCHANGED call /\ pc'[r] = "done"
      /\ HandlersTypeOK' /\ HandlerInv(r)'
      /\ reply'[r].status = "Created" => reply'[r].resource = r
  <2>1. CASE Respond(r, "Created", r)
    BY <2>1, RespondMoves, ZenonT(60)
  <2>2. CASE Respond(r, "InternalServerError", None)
    BY <2>2, RespondMoves, ZenonT(60)
  <2> QED BY <2>1, <2>2, Zenon DEF ResourceAudited, Refuse
<1>4. TypeOK'
  BY <1>1, <1>3 DEF IndInv, TypeOK, HandlersTypeOK, store, memory
<1>5. ReplyInv(r)'
  <2>1. KeyOf(r)' = KeyOf(r) /\ idempotency' = idempotency /\ Stored(r)'
    BY <1>1, <1>2, <1>3, ZenonT(60) DEF KeyOf, Stored, store
  <2> QED BY <1>2, <1>3, <2>1, ZenonT(60) DEF ReplyInv
<1> QED BY <1>1, <1>3, <1>4, <1>5, QuietStep, ZenonT(60) DEF memory

(* A cancelled context changes nothing yet. *)
LEMMA CancelInv ==
  ASSUME IndInv, NEW r \in Requests, Cancel(r)
  PROVE  IndInv'
<1>1. /\ ctx' = [ctx EXCEPT ![r] = "cancelled"]
      /\ UNCHANGED <<store, auditEvents, memory, pendingNonce, pc, call, body, draft, reply>>
  BY Zenon DEF Cancel
<1>2. TypeOK' /\ OthersUnchanged(r)
  BY <1>1, ZenonT(60) DEF IndInv, TypeOK, OthersUnchanged, store, memory
<1>3. HandlerInv(r)' /\ ReplyInv(r)'
  BY <1>1, SameRequest, Zenon DEF store, memory
<1>4. Stored(r) => pc'[r] \in {"audit", "done"} /\ call'[r] = call[r]
  BY <1>1, Zenon DEF IndInv, ResourceInv
<1> QED BY <1>1, <1>2, <1>3, <1>4, QuietStep, Zenon DEF memory

(* The node's nonces are not part of the argument. *)
LEMMA NodeAcceptsInv ==
  ASSUME IndInv, NEW t \in Requests, NodeAccepts(t)
  PROVE  IndInv'
<1> DEFINE a == Address(transactions[t].wallet)
<1>1. /\ pendingNonce' = [pendingNonce EXCEPT ![a] = @ + 1]
      /\ transactions[t] # None
      /\ UNCHANGED <<store, auditEvents, memory, pc, locals, call, reply>>
  BY Zenon DEF NodeAccepts
<1>2. a \in Addresses
  BY <1>1, ZenonT(60) DEF IndInv, TypeOK, Proposal, Address, Addresses
<1>3. TypeOK' /\ OthersUnchanged(t)
  BY <1>1, <1>2 DEF IndInv, TypeOK, OthersUnchanged, store, memory, locals
<1>4. HandlerInv(t)' /\ ReplyInv(t)'
  BY <1>1, SameRequest, Zenon DEF store, memory, locals
<1>5. Stored(t) => pc'[t] \in {"audit", "done"} /\ call'[t] = call[t]
  BY <1>1, Zenon DEF IndInv, ResourceInv
<1> QED BY <1>1, <1>3, <1>4, <1>5, QuietStep, Zenon DEF memory

(* A restart ends all handlers and keeps what is stored. *)
LEMMA CrashInv ==
  ASSUME IndInv, Crash
  PROVE  IndInv'
<1>1. /\ UNCHANGED <<wallets, transactions, idempotency, call, reply>>
      /\ \A x \in Requests : Stored(x)' = Stored(x) /\ KeyOf(x)' = KeyOf(x)
  BY Zenon DEF Crash, store, Stored, KeyOf
<1>2. TypeOK'
  BY DEF Crash, IndInv, TypeOK, store
<1>3. ASSUME NEW r \in Requests PROVE pc'[r] = IF InFlight(r) THEN "done" ELSE pc[r]
  BY Zenon DEF Crash
<1>4. ASSUME NEW r \in Requests PROVE pc'[r] \in {"idle", "done"}
  <2>1. pc[r] \in {"idle", "done"} \cup InFlightPC
    BY DEF IndInv, TypeOK
  <2> QED BY <1>3, <2>1, Zenon DEF InFlight
<1>5. ASSUME NEW r \in Requests PROVE HandlerInv(r)'
  BY <1>4, Zenon DEF HandlerInv, InFlight, InFlightPC, CreatePC, ProposePC
<1>6. ASSUME NEW r \in Requests PROVE ResourceInv(r)'
  <2>1. ResourceInv(r)
    BY OwnInv, Zenon
  <2>2. Stored(r) => pc'[r] = "done"
    BY <1>3, <2>1, Zenon DEF ResourceInv, InFlight, InFlightPC
  <2> QED BY <1>1, <2>1, <2>2, Zenon DEF ResourceInv
<1>7. ASSUME NEW r \in Requests PROVE ReplyInv(r)'
  <2>1. ReplyInv(r)
    BY OwnInv, Zenon
  <2>2. pc[r] = "done" => pc'[r] = "done"
    BY <1>3, Zenon
  <2> QED BY <1>1, <2>1, <2>2, ZenonT(60) DEF ReplyInv
<1>8. ASSUME NEW k \in Scope \X Keys PROVE RecordInv(k)'
  <2>1. RecordInv(k) /\ idempotency[k] \in Requests \cup {None}
    BY DEF IndInv, TypeOK
  <2> QED BY <1>1, <2>1, Zenon DEF RecordInv
<1> QED BY <1>2, <1>5, <1>6, <1>7, <1>8, Zenon DEF IndInv

(* A step that changes nothing. *)
LEMMA StutterInv ==
  ASSUME IndInv, UNCHANGED vars
  PROVE  IndInv'
<1>1. UNCHANGED <<wallets, transactions, idempotency, auditEvents, records, nonces,
                  pendingNonce, pc, ctx, body, draft, call, reply>>
  BY Zenon DEF vars, store, memory, locals
<1>2. TypeOK'
  BY <1>1, ZenonT(60) DEF IndInv, TypeOK
<1>3. \A r \in Requests : HandlerInv(r)' /\ ResourceInv(r)' /\ ReplyInv(r)'
  BY <1>1, SameRequest, Zenon
<1>4. \A k \in Scope \X Keys : RecordInv(k)'
  BY <1>1, Zenon DEF IndInv, RecordInv, Stored, KeyOf
<1> QED BY <1>2, <1>3, <1>4, Zenon DEF IndInv

(* Every step preserves the invariant. *)
LEMMA NextInv ==
  ASSUME IndInv, [Next]_vars
  PROVE  IndInv'
<1>1. ASSUME NEW r \in Requests, HandlerStep(r) PROVE IndInv'
  <2>1. CASE MaterialFails(r) \/ BuildFails(r) \/ StoreCallFails(r)
    BY <2>1, RefuseStep DEF MaterialFails, BuildFails, StoreCallFails
  <2> QED BY <1>1, <2>1, MaterialCreatedInv, CreateWalletIdempotentlyInv, GetWalletInv,
             BuildTransactionInv, CreateTransactionIdempotentlyInv, ResourceAuditedInv,
             Zenon
          DEF HandlerStep
<1> QED BY <1>1, CreateWalletInv, ProposeTransactionInv, CancelInv, NodeAcceptsInv,
           CrashInv, StutterInv, Zenon DEF Next

-----------------------------------------------------------------------------
(* Keys, resources and answers agree in every reachable state. *)
THEOREM Invariance == Spec => []IndInv
<1>1. Init => IndInv
  BY InitInv, Zenon
<1>2. IndInv /\ [Next]_vars => IndInv'
  BY NextInv, Zenon
<1> QED BY <1>1, <1>2, PTL DEF Spec

(* The tables, the nonces and the state of the handlers keep their types. *)
THEOREM TypeCorrect == Spec => []TypeOK
<1>1. IndInv => TypeOK
  BY Zenon DEF IndInv
<1> QED BY <1>1, Invariance, PTL

(* CreateWallet and ProposeTransaction make one resource per key. *)
THEOREM KeysCreateOnce == Spec => []KeyCreatesOnce
<1>1. IndInv => KeyCreatesOnce
  <2> SUFFICES ASSUME IndInv, NEW x \in Requests, NEW y \in Requests,
                      Stored(x), Stored(y), SameKey(x, y)
               PROVE  x = y
    BY Zenon DEF KeyCreatesOnce
  <2>1. KeyOf(x) = KeyOf(y) /\ call[x].key # None /\ call[y].key # None
    BY Zenon DEF SameKey, KeyOf
  <2> QED BY <2>1, Zenon DEF IndInv, ResourceInv
<1> QED BY <1>1, Invariance, PTL

(* Repeated keys get the same, stored, resource. *)
THEOREM AnswersAgree == Spec => []RepliesAgree
<1>1. IndInv => RepliesAgree
  <2> SUFFICES ASSUME IndInv, NEW r \in Requests, NEW q \in Requests
               PROVE  /\ reply[r].status = "Created" => Stored(reply[r].resource)
                      /\ SameKey(r, q) /\ reply[r].status = "Created" /\ reply[q].status = "Created" =>
                           reply[r].resource = reply[q].resource
    BY Zenon DEF RepliesAgree
  <2>1. SameKey(r, q) => KeyOf(r) = KeyOf(q) /\ call[r].key # None /\ call[q].key # None
    BY Zenon DEF SameKey, KeyOf
  <2> QED BY <2>1 DEF IndInv, ReplyInv
<1> QED BY <1>1, Invariance, PTL

(* A replayed answer is a resource of the scope that was asked for. *)
THEOREM AnswersInScope == Spec => []ReplyIsInScope
<1>1. IndInv => ReplyIsInScope
  <2> SUFFICES ASSUME IndInv, NEW r \in Requests, reply[r].status = "Created"
               PROVE  LET x == reply[r].resource
                      IN  \/ call[r].scope = <<"wallet", wallets[x]>>
                          \/ /\ transactions[x] # None
                             /\ call[r].scope = <<"transaction", transactions[x].wallet>>
    BY Zenon DEF ReplyIsInScope
  <2>1. /\ reply[r].resource \in Requests /\ Stored(reply[r].resource)
        /\ call[reply[r].resource].scope = call[r].scope
    BY Zenon DEF IndInv, ReplyInv
  <2> QED BY <2>1, ZenonT(60) DEF IndInv, ResourceInv, Stored
<1> QED BY <1>1, Invariance, PTL

(* CreateWallet never stores a wallet whose key the process has lost. *)
THEOREM WalletsHaveMaterial == Spec => StoredWithMaterial
<1> DEFINE Kept == \A w \in Requests :
                     wallets[w] = None /\ wallets'[w] # None => w \in records'
<1>1. ASSUME IndInv, [Next]_vars PROVE Kept
  <2> SUFFICES ASSUME NEW w \in Requests, wallets'[w] # wallets[w]
               PROVE  w \in records'
    OBVIOUS
  <2>1. PICK r \in Requests : HandlerStep(r)
    <3>1. ~UNCHANGED wallets
      OBVIOUS
    <3>2. ~UNCHANGED vars /\ ~Crash
      BY <3>1, Zenon DEF vars, store, Crash
    <3>3. \A r \in Requests : ~Cancel(r) /\ ~NodeAccepts(r)
      BY <3>1, Zenon DEF store, Cancel, NodeAccepts
    <3>4. \A r, x \in Requests, k \in Keys \cup {None}, b \in Bodies :
            ~ProposeTransaction(r, x, k, b)
      BY <3>1, Zenon DEF store, ProposeTransaction
    <3>5. \A r \in Requests, c \in Chains \cup {None}, k \in Keys \cup {None} :
            ~CreateWallet(r, c, k)
      BY <3>1, Zenon DEF store, CreateWallet
    <3> QED BY <1>1, <3>2, <3>3, <3>4, <3>5, Zenon DEF Next
  <2>2. CreateWalletIdempotently(r) \/ CreateTransactionIdempotently(r)
    <3>1. ~UNCHANGED store
      BY Zenon DEF store
    <3> QED BY <2>1, <3>1, ZenonT(60) DEF HandlerStep, MaterialCreated, MaterialFails, GetWallet,
       BuildTransaction, BuildFails, ResourceAudited, StoreCallFails
  <2>3. pc[r] = "store_wallet" /\ InsertWallet(r) /\ UNCHANGED records
    BY <2>2, ZenonT(60) DEF CreateWalletIdempotently, CreateTransactionIdempotently, StoreResource,
       AtCall, InsertTransaction, store, memory
  <2>4. r = w
    BY <1>1, <2>3 DEF InsertWallet, IndInv, TypeOK
  <2> QED BY <1>1, <2>3, <2>4, Zenon DEF IndInv, HandlerInv
<1>2. IndInv /\ [Next]_vars => [Kept]_vars
  BY <1>1, Zenon
<1> QED BY <1>2, Invariance, PTL DEF Spec, StoredWithMaterial

-----------------------------------------------------------------------------
(* The history of the audit events and of the answers, which IndInv leaves *)
(* out: an event is about a stored resource and carries its ID; a request  *)
(* has no arguments before it is made and no answer before it is done.     *)
EventInv == \A e \in auditEvents : e.id = e.resourceID /\ Stored(e.resourceID)

FlowInv(r) ==
  /\ pc[r] = "idle" => call[r] = None
  /\ pc[r] # "done" => reply[r].status = "none"

HistoryInv == EventInv /\ \A r \in Requests : FlowInv(r)

(* A step of a handler moves it on or ends it. *)
LEMMA HandlerMoves ==
  ASSUME NEW r \in Requests, HandlerStep(r)
  PROVE  /\ pc[r] \in InFlightPC
         /\ \/ \E label \in InFlightPC : Goto(r, label)
            \/ \E status \in {"Created", "BadRequest", "NotFound", "InternalServerError"} :
                 \E x : Respond(r, status, x)
<1>1. CASE MaterialCreated(r)
  BY <1>1 DEF MaterialCreated, AtCall, InFlightPC, CreatePC
<1>2. CASE MaterialFails(r)
  BY <1>2 DEF MaterialFails, Refuse, InFlightPC, CreatePC
<1>3. CASE CreateWalletIdempotently(r)
  BY <1>3 DEF CreateWalletIdempotently, StoreResource, Refuse, AtCall, InFlightPC, CreatePC
<1>4. CASE GetWallet(r)
  BY <1>4 DEF GetWallet, Refuse, AtCall, InFlightPC, ProposePC
<1>5. CASE BuildTransaction(r)
  BY <1>5 DEF BuildTransaction, AtCall, InFlightPC, ProposePC
<1>6. CASE BuildFails(r)
  BY <1>6 DEF BuildFails, Refuse, InFlightPC, ProposePC
<1>7. CASE CreateTransactionIdempotently(r)
  BY <1>7 DEF CreateTransactionIdempotently, StoreResource, Refuse, AtCall, InFlightPC, ProposePC
<1>8. CASE ResourceAudited(r)
  BY <1>8 DEF ResourceAudited, Refuse, AtCall, InFlightPC
<1>9. CASE StoreCallFails(r)
  BY <1>9 DEF StoreCallFails, Refuse, InFlightPC, CreatePC, ProposePC
<1> QED BY <1>1, <1>2, <1>3, <1>4, <1>5, <1>6, <1>7, <1>8, <1>9, Zenon DEF HandlerStep

LEMMA FlowStep ==
  ASSUME IndInv, [Next]_vars, \A r \in Requests : FlowInv(r), NEW q \in Requests
  PROVE  FlowInv(q)'
<1>1. FlowInv(q) /\ pc[q] \in {"idle", "done"} \cup InFlightPC
  BY DEF IndInv, TypeOK
<1>2. ASSUME NEW r \in Requests, HandlerStep(r) PROVE FlowInv(q)'
  <2>1. ASSUME NEW label \in InFlightPC, Goto(r, label) PROVE FlowInv(q)'
    <3>1. label # "idle" /\ label # "done"
      BY Zenon DEF InFlightPC, CreatePC, ProposePC
    <3>2. pc[r] # "idle" /\ pc[r] # "done"
      BY <1>2, HandlerMoves DEF InFlightPC, CreatePC, ProposePC
    <3> QED BY <1>1, <2>1, <3>1, <3>2 DEF Goto, FlowInv, IndInv, TypeOK
  <2>2. ASSUME NEW status \in {"Created", "BadRequest", "NotFound", "InternalServerError"},
               NEW x, Respond(r, status, x)
        PROVE  FlowInv(q)'
    BY <1>1, <2>2, ZenonT(60) DEF Respond, FlowInv, IndInv, TypeOK
  <2> QED BY <1>2, <2>1, <2>2, HandlerMoves
<1>3. ASSUME NEW r \in Requests, NEW c \in Chains \cup {None}, NEW k \in Keys \cup {None},
             CreateWallet(r, c, k)
      PROVE  FlowInv(q)'
  <2>1. q # r => pc'[q] = pc[q] /\ call'[q] = call[q] /\ reply'[q] = reply[q]
    BY <1>3, ZenonT(60) DEF CreateWallet, IndInv, TypeOK
  <2>2. /\ pc[r] = "idle"
        /\ \/ pc'[r] = "done"
           \/ pc'[r] = "create_material" /\ reply' = reply
    <3>1. DOMAIN pc = Requests
      BY Zenon DEF IndInv, TypeOK
    <3> QED BY <1>3, <3>1 DEF CreateWallet
  <2> QED BY <1>1, <2>1, <2>2, ZenonT(60) DEF FlowInv
<1>4. ASSUME NEW r \in Requests, NEW w \in Requests, NEW k \in Keys \cup {None},
             NEW b \in Bodies, ProposeTransaction(r, w, k, b)
      PROVE  FlowInv(q)'
  BY <1>1, <1>4 DEF ProposeTransaction, FlowInv, IndInv, TypeOK
<1>5. CASE Crash
  <2>1. pc'[q] = (IF InFlight(q) THEN "done" ELSE pc[q]) /\ UNCHANGED <<call, reply>>
    BY <1>5, Zenon DEF Crash
  <2> QED BY <1>1, <2>1, Zenon DEF FlowInv, InFlight
<1>6. ASSUME UNCHANGED <<pc, call, reply>> PROVE FlowInv(q)'
  BY <1>1, <1>6, Zenon DEF FlowInv
<1>7. ASSUME NEW r \in Requests, Cancel(r) \/ NodeAccepts(r) PROVE FlowInv(q)'
  BY <1>6, <1>7, Zenon DEF Cancel, NodeAccepts
<1>8. CASE UNCHANGED vars
  BY <1>6, <1>8, Zenon DEF vars
<1> QED BY <1>2, <1>3, <1>4, <1>5, <1>7, <1>8, Zenon DEF Next

(* A stored resource stays as it is. *)
LEMMA StoredStays ==
  ASSUME IndInv, [Next]_vars, NEW x \in Requests, Stored(x)
  PROVE  /\ wallets'[x] = wallets[x] /\ transactions'[x] = transactions[x]
         /\ Stored(x)'
<1> DEFINE Stays == wallets'[x] = wallets[x] /\ transactions'[x] = transactions[x]
<1>1. ASSUME UNCHANGED store PROVE Stays
  BY <1>1, Zenon DEF store
<1>2. ASSUME NEW r \in Requests, Existing(r) = None,
             \/ pc[r] = "store_wallet" /\ InsertWallet(r)
             \/ pc[r] = "store_transaction" /\ InsertTransaction(r)
      PROVE  Stays
  <2>1. r # x
    BY <1>2, Zenon DEF IndInv, ResourceInv
  <2> QED BY <1>2, <2>1 DEF InsertWallet, InsertTransaction, IndInv, TypeOK
<1>3. ASSUME NEW r \in Requests, HandlerStep(r) PROVE Stays
  <2>1. CASE CreateWalletIdempotently(r) \/ CreateTransactionIdempotently(r)
    BY <1>1, <1>2, <2>1, ZenonT(60) DEF CreateWalletIdempotently, CreateTransactionIdempotently,
       StoreResource, AtCall
  <2>2. CASE ~(CreateWalletIdempotently(r) \/ CreateTransactionIdempotently(r))
    BY <1>1, <1>3, <2>2, ZenonT(60) DEF HandlerStep, MaterialCreated, MaterialFails, GetWallet,
       BuildTransaction, BuildFails, ResourceAudited, StoreCallFails
  <2> QED BY <2>1, <2>2, Zenon
<1>4. ASSUME NEW r \in Requests, NEW c \in Chains \cup {None}, NEW k \in Keys \cup {None},
             CreateWallet(r, c, k)
      PROVE  Stays
  BY <1>1, <1>4, Zenon DEF CreateWallet
<1>5. ASSUME NEW r \in Requests, NEW w \in Requests, NEW k \in Keys \cup {None},
             NEW b \in Bodies, ProposeTransaction(r, w, k, b)
      PROVE  Stays
  BY <1>1, <1>5, Zenon DEF ProposeTransaction
<1>6. ASSUME NEW r \in Requests, Cancel(r) \/ NodeAccepts(r) PROVE Stays
  BY <1>1, <1>6, Zenon DEF Cancel, NodeAccepts
<1>7. ASSUME Crash \/ UNCHANGED vars PROVE Stays
  BY <1>1, <1>7, Zenon DEF Crash, vars
<1>8. Stays
  BY <1>3, <1>4, <1>5, <1>6, <1>7, Zenon DEF Next
<1> QED BY <1>8, Zenon DEF Stored

(* The only event that a step appends is that of a stored resource. *)
LEMMA EventStep ==
  ASSUME IndInv, [Next]_vars, EventInv
  PROVE  EventInv'
<1> DEFINE Appended(r) == /\ pc[r] = "audit"
                          /\ auditEvents' = auditEvents \cup {[id |-> r, resourceID |-> r]}
<1>1. UNCHANGED auditEvents \/ \E r \in Requests : Appended(r)
  <2>1. ASSUME NEW r \in Requests, HandlerStep(r)
        PROVE  UNCHANGED auditEvents \/ Appended(r)
    <3>1. CASE ResourceAudited(r)
      BY <3>1, Zenon DEF ResourceAudited, AtCall
    <3>2. CASE ~ResourceAudited(r)
      BY <2>1, <3>2, ZenonT(60) DEF HandlerStep, MaterialCreated, MaterialFails, GetWallet,
         BuildTransaction, BuildFails, StoreCallFails, CreateWalletIdempotently,
         CreateTransactionIdempotently
    <3> QED BY <3>1, <3>2, Zenon
  <2>2. CASE ~\E r \in Requests : HandlerStep(r)
    BY <2>2, Zenon DEF Next, CreateWallet, ProposeTransaction, Cancel, NodeAccepts, Crash, vars
  <2> QED BY <2>1, <2>2, Zenon
<1>2. \A e \in auditEvents : e \in [id : Requests, resourceID : Requests]
  BY ZenonT(60) DEF IndInv, TypeOK
<1>3. \A e \in auditEvents : e.id = e.resourceID /\ Stored(e.resourceID)'
  BY <1>2, StoredStays, Zenon DEF EventInv
<1>4. ASSUME NEW r \in Requests, Appended(r) PROVE EventInv'
  <2>1. Stored(r)'
    BY <1>4, StoredStays, Zenon DEF IndInv, HandlerInv
  <2>2. ASSUME NEW e \in auditEvents' PROVE e.id = e.resourceID /\ Stored(e.resourceID)'
    <3>1. CASE e \in auditEvents
      BY <1>3, <3>1, Zenon
    <3>2. CASE e = [id |-> r, resourceID |-> r]
      <4>1. e.id = r /\ e.resourceID = r
        BY <3>2, Zenon
      <4> QED BY <2>1, <4>1, Zenon
    <3> QED BY <1>4, <2>2, <3>1, <3>2, Zenon
  <2> QED BY <2>2, Zenon DEF EventInv
<1>5. CASE UNCHANGED auditEvents
  BY <1>3, <1>5, Zenon DEF EventInv
<1> QED BY <1>1, <1>4, <1>5, Zenon

LEMMA History == Spec => [](IndInv /\ HistoryInv)
<1>1. Init => HistoryInv
  <2>1. Init => EventInv
    BY Zenon DEF Init, EventInv
  <2>2. ASSUME Init, NEW r \in Requests PROVE FlowInv(r)
    <3>1. call[r] = None /\ reply[r] = NoReply
      BY <2>2, Zenon DEF Init
    <3>2. NoReply.status = "none"
      BY DEF NoReply
    <3> QED BY <3>1, <3>2, Zenon DEF FlowInv
  <2> QED BY <2>1, <2>2, Zenon DEF HistoryInv
<1>2. IndInv /\ HistoryInv /\ [Next]_vars => HistoryInv'
  BY FlowStep, EventStep, Zenon DEF HistoryInv
<1> QED BY <1>1, <1>2, Invariance, PTL DEF Spec

(* CreateWallet and ProposeTransaction append one event per resource, and  *)
(* none for a replay: the second event would have to repeat the ID of the  *)
(* first.                                                                  *)
THEOREM CreationsAuditedOnce == Spec => []CreationAuditedOnce
<1>1. IndInv /\ HistoryInv => CreationAuditedOnce
  <2> SUFFICES ASSUME IndInv, HistoryInv, NEW e \in auditEvents
               PROVE  /\ Stored(e.resourceID)
                      /\ \A f \in auditEvents : e.resourceID = f.resourceID => e = f
    BY Zenon DEF CreationAuditedOnce
  <2>1. \A f \in auditEvents : /\ f \in [id : Requests, resourceID : Requests]
                               /\ f.id = f.resourceID
    BY ZenonT(60) DEF IndInv, TypeOK, HistoryInv, EventInv
  <2> QED BY <2>1 DEF HistoryInv, EventInv
<1> QED BY <1>1, History, PTL

-----------------------------------------------------------------------------
(* What becomes of a creation when nothing but the chain may fail. *)

AuditsHappen ==
  /\ \A r \in Requests : ctx[r] = "live"
  /\ \A x \in Requests : Stored(x) =>
       pc[x] = "audit" \/ \E e \in auditEvents : e.resourceID = x

(* A step of a handler keeps the contexts live and leaves the handlers of  *)
(* other requests where they are.                                          *)
LEMMA HandlerStaysLive ==
  ASSUME IndInv, NEW r \in Requests, HandlerStep(r), \A q \in Requests : ctx[q] = "live"
  PROVE  /\ \A q \in Requests : ctx'[q] = "live"
         /\ \A q \in Requests \ {r} : pc'[q] = pc[q]
<1>1. /\ pc \in [Requests -> {"idle", "done"} \cup InFlightPC]
      /\ ctx \in [Requests -> {"live", "cancelled"}]
  BY ZenonT(60) DEF IndInv, TypeOK
<1>2. \A q \in Requests \ {r} : pc'[q] = pc[q]
  <2>1. ASSUME NEW label, pc' = [pc EXCEPT ![r] = label]
        PROVE  \A q \in Requests \ {r} : pc'[q] = pc[q]
    BY <1>1, <2>1, Zenon
  <2>2. ASSUME NEW label \in InFlightPC, Goto(r, label)
        PROVE  \A q \in Requests \ {r} : pc'[q] = pc[q]
    BY <2>1, <2>2, Zenon DEF Goto
  <2>3. ASSUME NEW status \in {"Created", "BadRequest", "NotFound", "InternalServerError"},
               NEW x, Respond(r, status, x)
        PROVE  \A q \in Requests \ {r} : pc'[q] = pc[q]
    BY <2>1, <2>3, ZenonT(60) DEF Respond
  <2> QED BY <2>2, <2>3, HandlerMoves
<1>3. UNCHANGED ctx \/ ctx' = [ctx EXCEPT ![r] = "live"]
  BY ZenonT(60) DEF HandlerStep, MaterialCreated, MaterialFails, GetWallet, BuildTransaction,
     BuildFails, CreateWalletIdempotently, CreateTransactionIdempotently, StoreResource,
     ResourceAudited, StoreCallFails, Refuse, Respond, locals
<1>4. \A q \in Requests : ctx'[q] = "live"
  BY <1>1, <1>3, Zenon
<1> QED BY <1>2, <1>4

(* What a handler's step does to the resource of its own request. *)
LEMMA HandlerAudits ==
  ASSUME Faults \subseteq {"chain_error"}, IndInv, AuditsHappen,
         NEW r \in Requests, HandlerStep(r), Stored(r)'
  PROVE  pc'[r] = "audit" \/ \E e \in auditEvents' : e.resourceID = r
<1>1. pc \in [Requests -> {"idle", "done"} \cup InFlightPC]
  BY ZenonT(60) DEF IndInv, TypeOK
<1>2. ~MayLoseAck /\ ~MayFail(r)
  <2>1. "lost_ack" \notin Faults /\ "store_error" \notin Faults
    OBVIOUS
  <2>2. ctx[r] # "cancelled"
    BY DEF AuditsHappen
  <2> QED BY <2>1, <2>2, Zenon DEF MayLoseAck, MayFail
<1>3. ASSUME NEW label, Goto(r, label) PROVE pc'[r] = label
  BY <1>1, <1>3, Zenon DEF Goto
<1>4. CASE ResourceAudited(r)
  <2>1. [id |-> r, resourceID |-> r] \in auditEvents'
    BY <1>4, Zenon DEF ResourceAudited
  <2>2. [id |-> r, resourceID |-> r].resourceID = r
    BY Zenon
  <2> QED BY <2>1, <2>2, Zenon
<1>5. ASSUME pc[r] \in {"store_wallet", "store_transaction"}, UNCHANGED auditEvents,
             \/ Existing(r) # None /\ UNCHANGED store
             \/ Goto(r, "audit")
      PROVE  pc'[r] = "audit" \/ \E e \in auditEvents' : e.resourceID = r
  <2>1. CASE UNCHANGED store
    <3>1. Stored(r)
      BY <2>1, Zenon DEF Stored, store
    <3>2. pc[r] \in {"audit", "done"}
      BY <3>1, Zenon DEF IndInv, ResourceInv
    <3> QED BY <1>5, <3>2
  <2> QED BY <1>3, <1>5, <2>1, Zenon
<1>6. CASE CreateWalletIdempotently(r) \/ CreateTransactionIdempotently(r)
  BY <1>2, <1>5, <1>6, Zenon
     DEF CreateWalletIdempotently, CreateTransactionIdempotently, StoreResource, AtCall
<1>7. CASE ~ResourceAudited(r) /\ ~CreateWalletIdempotently(r) /\ ~CreateTransactionIdempotently(r)
  <2>1. UNCHANGED store /\ pc[r] \in {"create_material", "get_wallet", "build"}
    BY <1>2, <1>7, ZenonT(60) DEF HandlerStep, MaterialCreated, MaterialFails, GetWallet,
       BuildTransaction, BuildFails, StoreCallFails, AtCall
  <2>2. Stored(r)
    BY <2>1, Zenon DEF Stored, store
  <2>3. pc[r] \in {"audit", "done"}
    BY <2>2, Zenon DEF IndInv, ResourceInv
  <2> QED BY <2>1, <2>3
<1> QED BY <1>4, <1>6, <1>7, Zenon

(* Events are never taken back. *)
LEMMA EventsStay == ASSUME [Next]_vars PROVE auditEvents \subseteq auditEvents'
<1>1. ASSUME NEW r \in Requests, HandlerStep(r) PROVE auditEvents \subseteq auditEvents'
  BY <1>1, ZenonT(60) DEF HandlerStep, MaterialCreated, MaterialFails, GetWallet,
     BuildTransaction, BuildFails, StoreCallFails, CreateWalletIdempotently,
     CreateTransactionIdempotently, ResourceAudited
<1>2. CASE ~\E r \in Requests : HandlerStep(r)
  BY <1>2, Zenon DEF Next, CreateWallet, ProposeTransaction, Cancel, NodeAccepts, Crash, vars
<1> QED BY <1>1, <1>2, Zenon

(* Other resources are as they were; what is in the log stays there. *)
LEMMA AuditsStep ==
  ASSUME Faults \subseteq {"chain_error"}, IndInv, AuditsHappen, [Next]_vars
  PROVE  AuditsHappen'
<1>1. auditEvents \subseteq auditEvents'
  BY EventsStay
<1>2. "cancel" \notin Faults /\ "crash" \notin Faults
  OBVIOUS
<1>3. TypeOK
  BY Zenon DEF IndInv
<1>4. ASSUME UNCHANGED <<store, ctx>>,
             \A x \in Requests : pc[x] = "audit" => pc'[x] = "audit"
      PROVE  AuditsHappen'
  BY <1>1, <1>4, Zenon DEF AuditsHappen, Stored, store
<1>5. ASSUME NEW r \in Requests, HandlerStep(r) PROVE AuditsHappen'
  <2>1. /\ \A q \in Requests : ctx'[q] = "live"
        /\ \A q \in Requests \ {r} : pc'[q] = pc[q]
    BY <1>5, HandlerStaysLive, Zenon DEF AuditsHappen
  <2>2. \A q \in Requests \ {r} : wallets'[q] = wallets[q] /\ transactions'[q] = transactions[q]
    <3>1. UNCHANGED store \/ InsertWallet(r) \/ InsertTransaction(r)
      BY <1>5, ZenonT(60) DEF HandlerStep, MaterialCreated, MaterialFails, GetWallet,
         BuildTransaction, BuildFails, StoreCallFails, CreateWalletIdempotently,
         CreateTransactionIdempotently, StoreResource, ResourceAudited
    <3>2. CASE UNCHANGED store
      BY <3>2, Zenon DEF store
    <3>3. CASE InsertWallet(r)
      BY <1>3, <3>3 DEF InsertWallet, TypeOK
    <3>4. CASE InsertTransaction(r)
      BY <1>3, <3>4 DEF InsertTransaction, TypeOK
    <3> QED BY <3>1, <3>2, <3>3, <3>4, Zenon
  <2>3. ASSUME NEW x \in Requests, Stored(x)'
        PROVE  pc'[x] = "audit" \/ \E e \in auditEvents' : e.resourceID = x
    <3>1. CASE x = r
      BY <1>5, <2>3, <3>1, HandlerAudits, Zenon
    <3>2. CASE x # r
      <4>1. Stored(x) /\ pc'[x] = pc[x]
        BY <2>1, <2>2, <2>3, <3>2, Zenon DEF Stored
      <4> QED BY <1>1, <4>1, Zenon DEF AuditsHappen
    <3> QED BY <3>1, <3>2
  <2> QED BY <2>1, <2>3, Zenon DEF AuditsHappen
<1>6. ASSUME NEW r \in Requests, NEW c \in Chains \cup {None}, NEW k \in Keys \cup {None},
             CreateWallet(r, c, k)
      PROVE  AuditsHappen'
  <2>1. \A x \in Requests : pc[x] = "audit" => pc'[x] = "audit"
    BY <1>3, <1>6 DEF CreateWallet, TypeOK
  <2> QED BY <1>4, <1>6, <2>1, Zenon DEF CreateWallet, locals
<1>7. ASSUME NEW r \in Requests, NEW w \in Requests, NEW k \in Keys \cup {None},
             NEW b \in Bodies, ProposeTransaction(r, w, k, b)
      PROVE  AuditsHappen'
  <2>1. \A x \in Requests : pc[x] = "audit" => pc'[x] = "audit"
    BY <1>3, <1>7 DEF ProposeTransaction, TypeOK
  <2> QED BY <1>4, <1>7, <2>1, Zenon DEF ProposeTransaction
<1>8. ASSUME NEW r \in Requests, NodeAccepts(r) PROVE AuditsHappen'
  BY <1>4, <1>8, Zenon DEF NodeAccepts, locals
<1>9. CASE UNCHANGED vars
  BY <1>4, <1>9, Zenon DEF vars, locals
<1> QED BY <1>2, <1>5, <1>6, <1>7, <1>8, <1>9, Zenon DEF Next, Cancel, Crash

(* As long as no store call fails, no client hangs up and no process dies, *)
(* the event that appendAudit leaves behind the insert is never missing:   *)
(* when the handlers have returned, whoever was answered 201 finds the     *)
(* creation of its resource in the log.                                    *)
THEOREM CreationsAreAudited ==
  ASSUME Faults \subseteq {"chain_error"}
  PROVE  Spec => []AcknowledgedIsAudited
<1>1. Init => AuditsHappen
  <2>1. ASSUME Init, NEW x \in Requests PROVE ctx[x] = "live" /\ ~Stored(x)
    BY <2>1, Zenon DEF Init, Stored
  <2> QED BY <2>1, Zenon DEF AuditsHappen
<1>2. IndInv /\ AuditsHappen /\ [Next]_vars => AuditsHappen'
  BY AuditsStep
<1>3. IndInv /\ AuditsHappen => AcknowledgedIsAudited
  <2> SUFFICES ASSUME IndInv, AuditsHappen, \A q \in Requests : ~InFlight(q),
                      NEW r \in Requests, reply[r].status = "Created"
               PROVE  \E e \in auditEvents : e.resourceID = reply[r].resource
    BY Zenon DEF AcknowledgedIsAudited
  <2>1. PICK x \in Requests : x = reply[r].resource /\ Stored(x)
    <3>1. ReplyInv(r)
      BY Zenon DEF IndInv
    <3> QED BY <3>1 DEF ReplyInv
  <2>2. pc[x] # "audit"
    BY Zenon DEF InFlight, InFlightPC
  <2> QED BY <2>1, <2>2, Zenon DEF AuditsHappen
<1> QED BY <1>1, <1>2, <1>3, Invariance, PTL DEF Spec

-----------------------------------------------------------------------------
(* The nonces. *)

(* What a request has stored, or may store, changes only when it builds a  *)
(* transaction.                                                            *)
LEMMA GivenMoves ==
  ASSUME IndInv, [Next]_vars, NEW t \in Requests, ~BuildTransaction(t)
  PROVE  Given(t)' \in {Given(t), None}
<1> DEFINE Kept == draft'[t] \in {draft[t], None}
           Inserted == /\ pc[t] = "store_transaction"
                       /\ transactions' = [transactions EXCEPT ![t] = draft[t]]
<1>1. ASSUME NEW r \in Requests, HandlerStep(r) PROVE Kept
  <2>1. CASE r = t /\ BuildTransaction(r)
    BY <2>1
  <2>2. CASE r # t /\ BuildTransaction(r)
    BY <2>2, ZenonT(60) DEF BuildTransaction, IndInv, TypeOK
  <2>3. CASE ~BuildTransaction(r)
    <3>1. draft' = draft \/ draft' = [draft EXCEPT ![r] = None]
      BY <1>1, <2>3, ZenonT(60)
         DEF HandlerStep, MaterialCreated, MaterialFails, GetWallet, BuildFails,
             ResourceAudited, StoreCallFails, CreateWalletIdempotently,
             CreateTransactionIdempotently, StoreResource, Refuse, Respond, locals
    <3> QED BY <3>1 DEF IndInv, TypeOK
  <2> QED BY <2>1, <2>2, <2>3, Zenon
<1>2. Kept
  <2>1. CASE ~\E r \in Requests : HandlerStep(r)
    BY <2>1, Zenon DEF Next, CreateWallet, ProposeTransaction, Cancel, NodeAccepts, Crash,
       vars, locals
  <2> QED BY <1>1, <2>1, Zenon
<1>3. ASSUME NEW r \in Requests, HandlerStep(r)
      PROVE  transactions'[t] = transactions[t] \/ Inserted
  <2>1. CASE CreateTransactionIdempotently(r)
    <3>1. UNCHANGED transactions \/ (pc[r] = "store_transaction" /\ InsertTransaction(r))
      BY <2>1, Zenon DEF CreateTransactionIdempotently, StoreResource, AtCall, store
    <3>2. CASE r = t
      BY <3>1, <3>2, Zenon DEF InsertTransaction
    <3>3. CASE r # t
      BY <3>1, <3>3 DEF InsertTransaction, IndInv, TypeOK
    <3> QED BY <3>2, <3>3, Zenon
  <2>2. CASE ~CreateTransactionIdempotently(r)
    BY <1>3, <2>2, ZenonT(60)
       DEF HandlerStep, MaterialCreated, MaterialFails, GetWallet, BuildTransaction,
           BuildFails, ResourceAudited, StoreCallFails, CreateWalletIdempotently,
           StoreResource, InsertWallet, store
  <2> QED BY <2>1, <2>2, Zenon
<1>4. transactions'[t] = transactions[t] \/ Inserted
  <2>1. CASE ~\E r \in Requests : HandlerStep(r)
    BY <2>1, Zenon DEF Next, CreateWallet, ProposeTransaction, Cancel, NodeAccepts, Crash,
       vars, store
  <2> QED BY <1>3, <2>1, Zenon
<1>5. CASE transactions'[t] = transactions[t]
  BY <1>2, <1>5, Zenon DEF Given
<1>6. CASE Inserted
  <2>1. transactions[t] = None /\ draft[t] # None
    BY <1>6, CreationAssumption, ZenonT(60) DEF IndInv, HandlerInv, ResourceInv, Stored
  <2>2. transactions'[t] = draft[t]
    BY <1>6 DEF IndInv, TypeOK
  <2> QED BY <2>1, <2>2, Zenon DEF Given
<1> QED BY <1>4, <1>5, <1>6, Zenon

(* Building a transaction gives it the node's nonce, or the adapter's next *)
(* one.                                                                    *)
LEMMA BuildGives ==
  ASSUME IndInv, NEW r \in Requests, BuildTransaction(r)
  PROVE  /\ UNCHANGED <<wallets, records, pendingNonce>>
         /\ Given(r)' \in Proposal
         /\ wallets[Given(r).wallet'] # None
         /\ Given(r).nonce' # None =>
              LET a == Payer(r)'
              IN  /\ EvmRpc => Given(r).nonce' = pendingNonce[a]
                  /\ ~EvmRpc => /\ Given(r).nonce' = nonces[a]
                                /\ nonces' = [nonces EXCEPT ![a] = @ + 1]
         /\ \A a \in Addresses : nonces'[a] >= nonces[a]
<1> DEFINE w == call[r].scope[2]
           n == IF wallets[w] # "evm" THEN None
                ELSE IF EvmRpc THEN populateFromRPC(Address(w)) ELSE nonces[Address(w)]
<1>1. /\ pc[r] = "build" /\ w \in Requests /\ wallets[w] # None /\ transactions[r] = None
  <2>1. pc[r] = "build"
    BY Zenon DEF BuildTransaction, AtCall
  <2>2. call[r] \in Call /\ call[r].scope[1] = "transaction" /\ wallets[w] # None
    BY <2>1, Zenon DEF IndInv, HandlerInv, InFlight, InFlightPC, ProposePC
  <2>3. transactions[r] = None
    BY <2>1, Zenon DEF IndInv, ResourceInv, Stored
  <2> QED BY <2>1, <2>2, <2>3, ScopeShape, Zenon DEF Call
<1>2. Address(w) \in Addresses
  BY <1>1, Zenon DEF Address, Addresses
<1>3. n \in Nat \cup {None}
  BY <1>2 DEF populateFromRPC, IndInv, TypeOK
<1>4. draft'[r] = [wallet |-> w, nonce |-> n] /\ UNCHANGED <<store, records, pendingNonce>>
  BY ZenonT(60) DEF BuildTransaction, IndInv, TypeOK
<1>5. Given(r)' = [wallet |-> w, nonce |-> n]
  BY <1>1, <1>4, Zenon DEF Given, store
<1>6. Given(r)' \in Proposal /\ Given(r).wallet' = w /\ Given(r).nonce' = n
  BY <1>1, <1>3, <1>5 DEF Proposal
<1>7. Payer(r)' = Address(w)
  BY <1>6, Zenon DEF Payer, Address
<1>8. n # None => /\ wallets[w] = "evm"
                  /\ EvmRpc => n = pendingNonce[Address(w)]
                  /\ ~EvmRpc => n = nonces[Address(w)]
  BY Zenon DEF populateFromRPC
<1>9. IF wallets[w] = "evm" /\ ~EvmRpc THEN nonces' = [nonces EXCEPT ![Address(w)] = @ + 1]
                                       ELSE UNCHANGED nonces
  BY Zenon DEF BuildTransaction, nextNonce
<1>10. \A a \in Addresses : nonces'[a] >= nonces[a]
  BY <1>2, <1>9 DEF IndInv, TypeOK
<1> QED BY <1>1, <1>4, <1>6, <1>7, <1>8, <1>9, <1>10, Zenon DEF store

(* The other steps advance the node's nonces at most, and reset the        *)
(* adapter's only together with the keys.                                  *)
LEMMA CountersMove ==
  ASSUME IndInv, [Next]_vars, \A r \in Requests : ~BuildTransaction(r)
  PROVE  /\ \A a \in Addresses : pendingNonce'[a] >= pendingNonce[a]
         /\ UNCHANGED nonces \/ records' = {}
<1>1. ASSUME NEW r \in Requests, HandlerStep(r) PROVE UNCHANGED <<nonces, pendingNonce>>
  BY <1>1, ZenonT(60)
     DEF HandlerStep, MaterialCreated, MaterialFails, CreateWalletIdempotently, GetWallet,
         BuildFails, CreateTransactionIdempotently, ResourceAudited, StoreCallFails, memory
<1>2. CASE ~\E r \in Requests : HandlerStep(r)
  <2>1. UNCHANGED nonces \/ records' = {}
    BY <1>2, ZenonT(60)
       DEF Next, CreateWallet, ProposeTransaction, Cancel, NodeAccepts, Crash, memory, vars
  <2>2. ASSUME NEW r \in Requests, NodeAccepts(r)
        PROVE  \A a \in Addresses : pendingNonce'[a] >= pendingNonce[a]
    BY <2>2 DEF NodeAccepts, IndInv, TypeOK
  <2>3. CASE ~\E r \in Requests : NodeAccepts(r)
    <3>1. UNCHANGED pendingNonce
      BY <1>2, <2>3, Zenon DEF Next, CreateWallet, ProposeTransaction, Cancel, Crash, vars
    <3> QED BY <2>1, <3>1 DEF IndInv, TypeOK
  <2> QED BY <2>1, <2>2, <2>3, Zenon
<1>3. CASE UNCHANGED <<nonces, pendingNonce>>
  BY <1>3 DEF IndInv, TypeOK
<1> QED BY <1>1, <1>2, <1>3, Zenon

(* The key of a wallet that a proposal spends from is never made anew. *)
LEMMA KeysAreOld ==
  ASSUME IndInv, [Next]_vars, NEW w \in records', w \in Requests, wallets[w] # None
  PROVE  w \in records
<1>1. UNCHANGED records \/ records' = {} \/ \E r \in Requests : MaterialCreated(r)
  <2>1. ASSUME NEW r \in Requests, HandlerStep(r)
        PROVE  UNCHANGED records \/ MaterialCreated(r)
    BY <2>1, ZenonT(60)
       DEF HandlerStep, MaterialFails, CreateWalletIdempotently, GetWallet, BuildTransaction,
           BuildFails, CreateTransactionIdempotently, ResourceAudited, StoreCallFails, memory
  <2>2. CASE ~\E r \in Requests : HandlerStep(r)
    BY <2>2, Zenon
       DEF Next, CreateWallet, ProposeTransaction, Cancel, NodeAccepts, Crash, memory, vars
  <2> QED BY <2>1, <2>2, Zenon
<1>2. pc[w] # "create_material"
  BY Zenon DEF IndInv, ResourceInv, Stored
<1> QED BY <1>1, <1>2, Zenon DEF MaterialCreated, AtCall

(* Every step preserves what is said of the nonces. *)
LEMMA NonceStep ==
  ASSUME IndInv, NonceInv, [Next]_vars
  PROVE  NonceInv'
<1> DEFINE Wallet(t) == Given(t).wallet
           Nonce(t) == Given(t).nonce
<1>0. /\ nonces \in [Addresses -> Nat] /\ nonces' \in [Addresses -> Nat]
      /\ pendingNonce \in [Addresses -> Nat] /\ pendingNonce' \in [Addresses -> Nat]
  BY NextInv, ZenonT(60) DEF IndInv, TypeOK
<1>1. ASSUME NEW t \in Requests, ~BuildTransaction(t), Given(t)' # None
      PROVE  /\ Given(t)' = Given(t) /\ Given(t) \in Proposal
             /\ Wallet(t)' = Wallet(t) /\ Wallet(t) \in Requests
             /\ Nonce(t)' = Nonce(t) /\ Nonce(t) \in Nat \cup {None}
             /\ Payer(t)' = Payer(t) /\ Payer(t) \in Addresses
             /\ wallets[Wallet(t)] # None /\ wallets'[Wallet(t)] # None
  <2>1. Given(t)' = Given(t) /\ Given(t) # None
    BY <1>1, GivenMoves, Zenon
  <2>2. Given(t) \in Proposal /\ wallets[Wallet(t)] # None
    BY <2>1, Zenon DEF NonceInv
  <2>3. Wallet(t) \in Requests /\ Nonce(t) \in Nat \cup {None}
    BY <2>2 DEF Proposal
  <2>4. wallets'[Wallet(t)] # None
    BY <2>2, <2>3, StoredStays, Zenon DEF Stored
  <2>5. Payer(t)' = Payer(t) /\ Payer(t) \in Addresses
    BY <2>1, <2>3, Zenon DEF Payer, Address, Addresses
  <2> QED BY <2>1, <2>2, <2>3, <2>4, <2>5, Zenon
<1>2. ASSUME NEW r \in Requests, BuildTransaction(r)
      PROVE  /\ Wallet(r)' \in Requests /\ Payer(r)' \in Addresses
             /\ \A t \in Requests : BuildTransaction(t) => t = r
  <2>1. Wallet(r)' \in Requests
    BY <1>2, BuildGives DEF Proposal
  <2>2. Payer(r)' \in Addresses
    BY <2>1, Zenon DEF Payer, Address, Addresses
  <2>3. ASSUME NEW t \in Requests, BuildTransaction(t) PROVE t = r
    BY <1>2, <2>3, ZenonT(60) DEF BuildTransaction, AtCall, Goto, IndInv, TypeOK
  <2> QED BY <2>1, <2>2, <2>3, Zenon
<1>3. ASSUME NEW t \in Requests, Given(t)' # None
      PROVE  Given(t)' \in Proposal /\ wallets'[Wallet(t)'] # None
  <2>1. CASE BuildTransaction(t)
    BY <2>1, BuildGives, Zenon
  <2> QED BY <1>1, <1>3, <2>1, Zenon
<1>4. ASSUME EvmRpc, NEW t \in Requests, Nonced(t)'
      PROVE  Nonce(t)' <= pendingNonce'[Payer(t)']
  <2>1. CASE BuildTransaction(t)
    <3>1. Nonce(t)' = pendingNonce'[Payer(t)'] /\ pendingNonce' = pendingNonce
      BY <1>4, <2>1, BuildGives, Zenon DEF Nonced
    <3>2. pendingNonce[Payer(t)'] \in Nat
      BY <1>0, <1>2, <2>1
    <3> QED BY <3>1, <3>2
  <2>2. CASE ~BuildTransaction(t)
    <3>1. /\ Given(t)' # None /\ Nonced(t) /\ Nonce(t) \in Nat
          /\ Nonce(t)' = Nonce(t) /\ Payer(t)' = Payer(t) /\ Payer(t) \in Addresses
      BY <1>1, <1>4, <2>2, Zenon DEF Nonced
    <3>2. Nonce(t) <= pendingNonce[Payer(t)]
      BY <1>4, <3>1, Zenon DEF NonceInv
    <3>3. pendingNonce[Payer(t)] \in Nat /\ pendingNonce'[Payer(t)] \in Nat
      BY <1>0, <3>1
    <3>4. pendingNonce'[Payer(t)] >= pendingNonce[Payer(t)]
      <4>1. CASE \E r \in Requests : BuildTransaction(r)
        <5>1. pendingNonce' = pendingNonce
          BY <4>1, BuildGives, Zenon
        <5> QED BY <3>3, <5>1
      <4> QED BY <3>1, <4>1, CountersMove, ZenonT(30)
    <3>5. Nonce(t) <= pendingNonce'[Payer(t)]
      <4>1. Nonce(t) \in Nat
        BY <3>1, Zenon
      <4> QED BY <3>2, <3>3, <3>4, <4>1
    <3> QED BY <3>1, <3>5, Zenon
  <2> QED BY <2>1, <2>2, Zenon
<1>5. ASSUME ~EvmRpc, NEW t \in Requests, ~BuildTransaction(t), Nonced(t)',
             Wallet(t)' \in records'
      PROVE  /\ Nonced(t) /\ Wallet(t) \in records
             /\ Nonce(t)' = Nonce(t) /\ Nonce(t) \in Nat
             /\ Payer(t)' = Payer(t) /\ Payer(t) \in Addresses
             /\ Nonce(t) < nonces[Payer(t)]
  <2>1. Given(t)' # None
    BY <1>5, Zenon DEF Nonced
  <2>2. Nonced(t) /\ Nonce(t) \in Nat
    BY <1>1, <1>5, <2>1, Zenon DEF Nonced
  <2>3. Wallet(t) \in records
    BY <1>1, <1>5, <2>1, KeysAreOld, Zenon
  <2> QED BY <1>1, <1>5, <2>1, <2>2, <2>3, Zenon DEF NonceInv
<1>6. ASSUME ~EvmRpc, NEW t \in Requests, Nonced(t)', Wallet(t)' \in records'
      PROVE  Nonce(t)' < nonces'[Payer(t)']
  <2>1. CASE BuildTransaction(t)
    <3>1. /\ Nonce(t)' = nonces[Payer(t)']
          /\ nonces' = [nonces EXCEPT ![Payer(t)'] = @ + 1]
      BY <1>6, <2>1, BuildGives, ZenonT(30) DEF Nonced
    <3> QED BY <1>2, <2>1, <3>1 DEF IndInv, TypeOK
  <2>2. CASE ~BuildTransaction(t)
    <3>1. nonces[Payer(t)] \in Nat /\ nonces'[Payer(t)] \in Nat
      BY <1>0, <1>5, <1>6, <2>2
    <3>2. nonces'[Payer(t)] >= nonces[Payer(t)]
      <4>1. CASE \E r \in Requests : BuildTransaction(r)
        BY <1>5, <1>6, <2>2, <4>1, BuildGives, Zenon
      <4>2. CASE ~\E r \in Requests : BuildTransaction(r)
        <5>1. nonces' = nonces
          BY <1>6, <4>2, CountersMove, Zenon
        <5> QED BY <3>1, <5>1
      <4> QED BY <4>1, <4>2, Zenon
    <3>3. /\ Nonce(t)' = Nonce(t) /\ Payer(t)' = Payer(t)
          /\ Nonce(t) \in Nat /\ Nonce(t) < nonces[Payer(t)]
      BY <1>5, <1>6, <2>2, Zenon
    <3>4. Nonce(t) < nonces'[Payer(t)]
      BY <3>1, <3>2, <3>3
    <3> QED BY <3>3, <3>4, Zenon
  <2> QED BY <2>1, <2>2, Zenon
<1>7. ASSUME ~EvmRpc, NEW t \in Requests, NEW u \in Requests, Nonced(t)', Nonced(u)',
             {Wallet(t)', Wallet(u)'} \subseteq records',
             Payer(t)' = Payer(u)', Nonce(t)' = Nonce(u)'
      PROVE  t = u
  <2>1. ASSUME NEW x \in Requests, NEW y \in Requests, Nonced(x)', Nonced(y)',
               Wallet(y)' \in records', Payer(x)' = Payer(y)', Nonce(x)' = Nonce(y)',
               BuildTransaction(x)
        PROVE  x = y
    <3>1. Nonce(x)' = nonces[Payer(x)']
      BY <1>7, <2>1, BuildGives, Zenon DEF Nonced
    <3>2. CASE ~BuildTransaction(y)
      <4>1. Nonce(y)' \in Nat /\ Nonce(y)' < nonces[Payer(y)']
        BY <1>5, <1>7, <2>1, <3>2
      <4> QED BY <2>1, <3>1, <4>1
    <3> QED BY <1>2, <2>1, <3>2, Zenon
  <2>2. CASE BuildTransaction(t) \/ BuildTransaction(u)
    BY <1>7, <2>1, <2>2
  <2>3. CASE ~BuildTransaction(t) /\ ~BuildTransaction(u)
    <3>1. /\ Nonced(t) /\ Nonced(u) /\ {Wallet(t), Wallet(u)} \subseteq records
          /\ Payer(t) = Payer(u) /\ Nonce(t) = Nonce(u)
      BY <1>5, <1>7, <2>3
    <3> QED BY <1>7, <3>1, Zenon DEF NonceInv
  <2> QED BY <2>2, <2>3, Zenon
<1> QED BY <1>3, <1>4, <1>6, <1>7, Zenon DEF NonceInv

(* Whatever races, fails or restarts, the nonces that were handed out      *)
(* agree with the counters they were taken from.                           *)
THEOREM NonceInvariance == Spec => []SafetyInv
<1>1. Init => NonceInv
  BY ZenonT(60) DEF Init, NonceInv, Nonced, Given
<1>2. IndInv /\ NonceInv /\ [Next]_vars => NonceInv'
  BY NonceStep, Zenon
<1>3. IndInv /\ NonceInv => SafetyInv
  BY Zenon DEF SafetyInv
<1> QED BY <1>1, <1>2, <1>3, Invariance, PTL DEF Spec

(* Without a node, the adapter's mutex and its counter keep the nonces of  *)
(* one address apart, as long as the keys that could sign them live.       *)
THEOREM UniqueNonces ==
  ASSUME ~EvmRpc
  PROVE  Spec => []NoncesAreUnique
<1>1. SafetyInv => NoncesAreUnique
  <2> SUFFICES ASSUME SafetyInv, NEW t \in Requests, NEW u \in Requests,
                      transactions[t] # None, transactions[u] # None,
                      {transactions[t].wallet, transactions[u].wallet} \subseteq records,
                      transactions[t].nonce # None,
                      Address(transactions[t].wallet) = Address(transactions[u].wallet),
                      transactions[t].nonce = transactions[u].nonce
               PROVE  t = u
    BY Zenon DEF NoncesAreUnique
  <2>1. Given(t) = transactions[t] /\ Given(u) = transactions[u]
    BY Zenon DEF Given
  <2>2. Nonced(t) /\ Nonced(u) /\ Payer(t) = Payer(u)
    BY <2>1, Zenon DEF Nonced, Payer
  <2> QED BY <2>1, <2>2, Zenon DEF SafetyInv, NonceInv
<1> QED BY <1>1, NonceInvariance, PTL

(* With a node, populateFromRPC gives no proposal a nonce from the future. *)
THEOREM ReachableNonces ==
  ASSUME EvmRpc
  PROVE  Spec => []NoncesAreReachable
<1>1. SafetyInv => NoncesAreReachable
  BY Zenon DEF SafetyInv, NonceInv, NoncesAreReachable, Nonced, Given, Payer
<1> QED BY <1>1, NonceInvariance, PTL

-----------------------------------------------------------------------------
(* The refinement of IdempotentStore. *)

(* What the mapping makes of a step of one request that leaves the store   *)
(* alone.                                                                  *)
LEMMA OneCall ==
  ASSUME IndInv, NEW r \in Requests, OthersUnchanged(r), UNCHANGED store
  PROVE  /\ storedBar' = storedBar /\ UNCHANGED idempotency
         /\ Stored(r)' = Stored(r)
         /\ keyBar' = [keyBar EXCEPT ![r] = KeyOfCall(r)']
         /\ replyBar' = [replyBar EXCEPT ![r] = ReplyOf(r)']
<1>1. \A q \in Requests : Stored(q)' = Stored(q)
  BY Zenon DEF Stored, store
<1>2. ASSUME NEW q \in Requests \ {r}
      PROVE  KeyOfCall(q)' = KeyOfCall(q) /\ ReplyOf(q)' = ReplyOf(q)
  <2>1. call'[q] = call[q] /\ reply'[q] = reply[q]
    BY Zenon DEF OthersUnchanged
  <2>2. KeyOfCall(q)' = KeyOfCall(q)
    BY <2>1, Zenon DEF KeyOfCall, KeyOf
  <2>3. ReplyOf(q)' = ReplyOf(q)
    BY <1>1, <2>1 DEF ReplyOf
  <2> QED BY <2>2, <2>3, Zenon
<1>3. storedBar' = storedBar /\ UNCHANGED idempotency
  BY <1>1, Zenon DEF storedBar, store
<1>4. keyBar' = [keyBar EXCEPT ![r] = KeyOfCall(r)']
  BY <1>2, Zenon DEF keyBar
<1>5. replyBar' = [replyBar EXCEPT ![r] = ReplyOf(r)']
  BY <1>2, Zenon DEF replyBar
<1> QED BY <1>1, <1>3, <1>4, <1>5, Zenon

LEMMA KeysKept ==
  ASSUME UNCHANGED call
  PROVE  keyBar' = keyBar
  BY Zenon DEF keyBar, KeyOfCall, KeyOf

(* A step that the store does not see. *)
LEMMA UnseenStep ==
  ASSUME IndInv, NEW r \in Requests, OthersUnchanged(r), UNCHANGED <<store, call>>,
         Stored(r) \/ call[r] = None \/ reply'[r] = reply[r]
  PROVE  UNCHANGED Store!vars
<1>1. keyBar' = keyBar
  BY KeysKept, Zenon
<1>2. ReplyOf(r)' = ReplyOf(r)
  <2>1. Stored(r)' = Stored(r)
    BY OneCall, Zenon
  <2>2. CASE Stored(r)
    BY <2>1, <2>2, Zenon DEF ReplyOf
  <2>3. CASE ~Stored(r) /\ call[r] = None
    BY <2>1, <2>3, Zenon DEF ReplyOf
  <2>4. CASE ~Stored(r) /\ reply'[r] = reply[r]
    BY <2>1, <2>4, ZenonT(60) DEF ReplyOf
  <2> QED BY <2>2, <2>3, <2>4, Zenon
<1>3. replyBar' = replyBar
  BY <1>2, OneCall, Zenon DEF replyBar
<1> QED BY <1>1, <1>3, OneCall, Zenon DEF Store!vars

(* The key of a request that has been made. *)
LEMMA CallHasKey ==
  ASSUME NEW r \in Requests, call[r] \in Call
  PROVE  /\ call[r] # None /\ KeyOfCall(r) # None
         /\ call[r].key = None => KeyOfCall(r) = <<>>
         /\ call[r].key # None => /\ KeyOfCall(r) = KeyOf(r)
                                  /\ KeyOf(r) \in CreationKeys /\ KeyOf(r) # <<>>
<1>1. call[r] # None
  BY StoreAssumption, Zenon
<1>2. CASE call[r].key = None
  BY <1>1, <1>2, StoreAssumption, Zenon DEF KeyOfCall
<1>3. CASE call[r].key # None
  <2>1. KeyOf(r) \in CreationKeys /\ KeyOf(r) # <<>>
    BY <1>3, KeyTyped, Zenon DEF CreationKeys, KeyOf
  <2> QED BY <1>1, <1>3, <2>1, StoreAssumption, Zenon DEF KeyOfCall
<1> QED BY <1>1, <1>2, <1>3, Zenon

(* A request that is made is a call of the store. *)
LEMMA RequestInvokes ==
  ASSUME IndInv, NEW r \in Requests, FlowInv(r), pc[r] = "idle", OthersUnchanged(r),
         UNCHANGED <<store, reply>>, call'[r] \in Call
  PROVE  Store!Invoke(r)
<1>1. call[r] = None /\ ~Stored(r) /\ reply[r].status = "none" /\ call'[r] # None
  <2>1. call'[r] # None
    BY StoreAssumption, Zenon
  <2> QED BY <2>1, OwnInv, Zenon DEF FlowInv, ResourceInv
<1>2. keyBar[r] = None
  BY <1>1, Zenon DEF keyBar, KeyOfCall
<1>3. KeyOfCall(r)' \in CreationKeys \cup {<<>>}
  BY <1>1, Zenon DEF KeyOfCall, KeyOf, CreationKeys, Call
<1>4. Stored(r)' = Stored(r)
  BY OneCall, Zenon
<1>5. ReplyOf(r)' = ReplyOf(r)
  BY <1>1, <1>4, Zenon DEF ReplyOf
<1>6. replyBar' = replyBar
  BY <1>5, OneCall, Zenon DEF replyBar
<1> QED BY <1>2, <1>3, <1>6, OneCall, Zenon DEF Store!Invoke

(* A refusal before the resource is stored fails the call; one after it is *)
(* not seen by the store.                                                  *)
LEMMA RefusalFails ==
  ASSUME IndInv, NEW r \in Requests, FlowInv(r), InFlight(r),
         NEW status \in {"BadRequest", "NotFound", "InternalServerError"}, Refuse(r, status), UNCHANGED store
  PROVE  Store!Fail(r) \/ UNCHANGED Store!vars
<1>1. /\ OthersUnchanged(r) /\ UNCHANGED call
      /\ reply'[r] = [status |-> status, resource |-> None]
      /\ reply'[r].status = status
  <2>1. Respond(r, status, None)
    BY Zenon DEF Refuse
  <2>2. /\ status \in {"Created", "BadRequest", "NotFound", "InternalServerError"}
        /\ None \in Requests \cup {None}
    OBVIOUS
  <2> QED BY <2>1, <2>2, RespondMoves
<1>2. CASE Stored(r)
  BY <1>1, <1>2, UnseenStep, ZenonT(60)
<1>3. CASE ~Stored(r)
  <2>1. call[r] \in Call /\ reply[r].status = "none"
    BY OwnInv, ZenonT(60) DEF HandlerInv, FlowInv, InFlight, InFlightPC, CreatePC, ProposePC
  <2>2. call[r] # None /\ KeyOfCall(r) # None
    BY <2>1, CallHasKey, ZenonT(60)
  <2>3. keyBar' = keyBar
    BY <1>1, KeysKept, ZenonT(60)
  <2>4. ReplyOf(r) = None /\ ReplyOf(r)' = Store!Failed
    <3>1. Stored(r)' = Stored(r)
      BY <1>1, OneCall, Zenon
    <3> QED BY <1>1, <1>3, <2>1, <2>2, <3>1, ZenonT(60) DEF ReplyOf, Store!Failed
  <2>5. keyBar[r] # None /\ replyBar[r] = None
    BY <2>2, <2>4, ZenonT(60) DEF keyBar, replyBar
  <2> QED BY <1>1, <2>3, <2>4, <2>5, OneCall, ZenonT(60) DEF Store!Fail
<1> QED BY <1>2, <1>3, ZenonT(60)

(* A replay returns what the key is bound to. *)
LEMMA ReplayReturns ==
  ASSUME IndInv, NEW r \in Requests, FlowInv(r), InFlight(r), pc[r] # "audit",
         Existing(r) # None, Respond(r, "Created", Existing(r)), UNCHANGED store
  PROVE  Store!Return(r)
<1>1. call[r] \in Call /\ reply[r].status = "none" /\ ~Stored(r)
  BY OwnInv, Zenon
     DEF HandlerInv, ResourceInv, FlowInv, InFlight, InFlightPC, CreatePC, ProposePC
<1>2. call[r].key # None /\ Existing(r) = idempotency[KeyOf(r)]
  BY Zenon DEF Existing
<1>3. call[r] # None /\ KeyOfCall(r) = KeyOf(r) /\ KeyOf(r) \in CreationKeys
  BY <1>1, <1>2, CallHasKey, Zenon
<1>4. Existing(r) \in Requests
  BY <1>2, <1>3, ZenonT(60) DEF IndInv, TypeOK, CreationKeys
<1>5. /\ OthersUnchanged(r) /\ UNCHANGED call
      /\ reply'[r].status = "Created" /\ reply'[r].resource = Existing(r)
  BY <1>4, RespondMoves, ZenonT(60)
<1>6. ReplyOf(r) = None /\ ReplyOf(r)' = Store!Existing(Existing(r))
  <2>1. Stored(r)' = Stored(r)
    BY <1>5, OneCall, Zenon
  <2>2. ReplyOf(r) = None
    BY <1>1, Zenon DEF ReplyOf
  <2>3. ~Stored(r)' /\ call'[r] # None
    BY <1>1, <1>3, <1>5, <2>1, ZenonT(60)
  <2>4. ReplyOf(r)' = [resource |-> Existing(r), created |-> FALSE, err |-> FALSE]
    BY <1>5, <2>3, ZenonT(60) DEF ReplyOf
  <2> QED BY <2>2, <2>4, ZenonT(30) DEF Store!Existing
<1>7. keyBar[r] = KeyOf(r) /\ keyBar' = keyBar /\ replyBar[r] = None
  BY <1>3, <1>5, <1>6, KeysKept, Zenon DEF keyBar, replyBar
<1>8. replyBar' = [replyBar EXCEPT ![r] = Store!Existing(idempotency[keyBar[r]])]
  BY <1>2, <1>5, <1>6, <1>7, OneCall, ZenonT(60)
<1> QED BY <1>2, <1>3, <1>5, <1>7, <1>8, OneCall, ZenonT(60) DEF Store!Return

(* The insertion of the resource with its key creates it. *)
LEMMA InsertionCreates ==
  ASSUME IndInv, NEW r \in Requests, FlowInv(r), Existing(r) = None, SaveKey(r),
         \/ pc[r] = "store_wallet" /\ InsertWallet(r)
         \/ pc[r] = "store_transaction" /\ InsertTransaction(r),
         Goto(r, "audit") \/ Refuse(r, "InternalServerError")
  PROVE  Store!Create(r)
<1>1. call[r] \in Call /\ reply[r].status = "none" /\ ~Stored(r)
  BY OwnInv, ZenonT(60)
     DEF HandlerInv, ResourceInv, FlowInv, InFlight, InFlightPC, CreatePC, ProposePC
<1>2. call[r] # None /\ KeyOfCall(r) # None
  BY <1>1, CallHasKey, ZenonT(60)
<1>3. UNCHANGED call /\ \A q \in Requests \ {r} : reply'[q] = reply[q]
  <2>1. reply \in [Requests -> [status : {"none", "Created", "BadRequest", "NotFound", "InternalServerError"},
                               resource : Requests \cup {None}]]
    BY Zenon DEF IndInv, TypeOK
  <2> QED BY <2>1 DEF Goto, Refuse, Respond
<1>4. Stored(r)'
  <2>1. CASE InsertWallet(r) /\ pc[r] = "store_wallet"
    <3>1. call[r].scope[2] \in Chains
      BY <1>1, <2>1, ScopeShape, ZenonT(60) DEF IndInv, HandlerInv, CreatePC, Call
    <3> QED BY <2>1, <3>1, CreationAssumption, ZenonT(60) DEF InsertWallet, Stored, IndInv, TypeOK
  <2>2. CASE InsertTransaction(r) /\ pc[r] = "store_transaction"
    <3>1. draft[r] \in Proposal
      BY <2>2, OwnInv, ZenonT(60) DEF HandlerInv
    <3> QED BY <2>2, <3>1, CreationAssumption DEF InsertTransaction, Stored, IndInv, TypeOK
  <2> QED BY <2>1, <2>2, ZenonT(60)
<1>5. \A q \in Requests \ {r} : Stored(q)' = Stored(q)
  BY ZenonT(60) DEF InsertWallet, InsertTransaction, Stored, IndInv, TypeOK
<1>6. r \notin storedBar /\ storedBar' = storedBar \cup {r}
  BY <1>1, <1>4, <1>5, ZenonT(60) DEF storedBar
<1>7. keyBar' = keyBar /\ keyBar[r] = KeyOfCall(r)
  BY <1>3, KeysKept, ZenonT(60) DEF keyBar
<1>8. replyBar[r] = None /\ replyBar' = [replyBar EXCEPT ![r] = Store!Created(r)]
  <2>1. ReplyOf(r) = None /\ ReplyOf(r)' = Store!Created(r)
    BY <1>1, <1>4, ZenonT(60) DEF ReplyOf, Store!Created
  <2>2. ASSUME NEW q \in Requests \ {r} PROVE ReplyOf(q)' = ReplyOf(q)
    <3>1. Stored(q)' = Stored(q) /\ call'[q] = call[q] /\ reply'[q] = reply[q]
      BY <1>3, <1>5, ZenonT(60)
    <3> QED BY <3>1, ZenonT(60) DEF ReplyOf
  <2> QED BY <2>1, <2>2, ZenonT(60) DEF replyBar
<1>9. \/ keyBar[r] = <<>> /\ UNCHANGED idempotency
      \/ /\ keyBar[r] # <<>> /\ idempotency[keyBar[r]] = None
         /\ idempotency' = [idempotency EXCEPT ![keyBar[r]] = r]
  BY <1>1, <1>7, CallHasKey, ZenonT(60) DEF SaveKey, Existing
<1> QED BY <1>2, <1>6, <1>7, <1>8, <1>9, Zenon DEF Store!Create

(* Every step of a handler is a step of the store, or none. *)
LEMMA HandlerRefines ==
  ASSUME IndInv, NEW r \in Requests, FlowInv(r), HandlerStep(r)
  PROVE  Store!Create(r) \/ Store!Return(r) \/ Store!Fail(r) \/ UNCHANGED Store!vars
<1>1. InFlight(r)
  BY HandlerMoves DEF InFlight
<1>2. ASSUME NEW status \in {"BadRequest", "NotFound", "InternalServerError"}, Refuse(r, status), UNCHANGED store
      PROVE  Store!Fail(r) \/ UNCHANGED Store!vars
  BY <1>1, <1>2, RefusalFails
<1>3. ASSUME NEW label, Goto(r, label), UNCHANGED store,
             \A q \in Requests \ {r} : body'[q] = body[q] /\ draft'[q] = draft[q]
      PROVE  UNCHANGED Store!vars
  <2>1. OthersUnchanged(r) /\ UNCHANGED <<call, reply>>
    BY <1>3, ZenonT(60) DEF Goto, OthersUnchanged, IndInv, TypeOK
  <2> QED BY <1>3, <2>1, UnseenStep, Zenon
<1>4. CASE MaterialFails(r) \/ BuildFails(r) \/ StoreCallFails(r)
  BY <1>2, <1>4, SMTT(30) DEF MaterialFails, BuildFails, StoreCallFails
<1>5. CASE MaterialCreated(r)
  BY <1>3, <1>5, ZenonT(30) DEF MaterialCreated, locals
<1>6. CASE GetWallet(r)
  BY <1>2, <1>3, <1>6, ZenonT(60) DEF GetWallet, locals
<1>7. CASE BuildTransaction(r)
  <2>1. Goto(r, "store_transaction") /\ UNCHANGED store
    BY <1>7, Zenon DEF BuildTransaction
  <2>2. PICK d : draft' = [draft EXCEPT ![r] = d] /\ body' = [body EXCEPT ![r] = None]
    BY <1>7, Zenon DEF BuildTransaction
  <2>3. \A q \in Requests \ {r} : body'[q] = body[q] /\ draft'[q] = draft[q]
    BY <2>2 DEF IndInv, TypeOK
  <2> QED BY <1>3, <2>1, <2>3, Zenon
<1>8. ASSUME NEW Insert, StoreResource(r, Insert), pc[r] \in {"store_wallet", "store_transaction"},
             Insert => \/ pc[r] = "store_wallet" /\ InsertWallet(r)
                       \/ pc[r] = "store_transaction" /\ InsertTransaction(r)
      PROVE  Store!Create(r) \/ Store!Return(r)
  BY <1>1, <1>8, ReplayReturns, InsertionCreates, ZenonT(60) DEF StoreResource
<1>9. CASE CreateWalletIdempotently(r)
  BY <1>8, <1>9, Zenon DEF CreateWalletIdempotently, AtCall
<1>10. CASE CreateTransactionIdempotently(r)
  BY <1>8, <1>10, Zenon DEF CreateTransactionIdempotently, AtCall
<1>11. CASE ResourceAudited(r)
  <2>1. Stored(r) /\ UNCHANGED store /\ (Respond(r, "Created", r) \/ Respond(r, "InternalServerError", None))
    BY <1>11, OwnInv, ZenonT(60) DEF ResourceAudited, AtCall, HandlerInv, Refuse
  <2>2. UNCHANGED call
    BY <2>1, ZenonT(60) DEF Respond
  <2>3. OthersUnchanged(r)
    BY <2>1 DEF Respond, OthersUnchanged, IndInv, TypeOK
  <2> QED BY <2>1, <2>2, <2>3, UnseenStep, ZenonT(60)
<1> QED BY <1>4, <1>5, <1>6, <1>7, <1>9, <1>10, <1>11, Zenon DEF HandlerStep

(* CreateWallet and ProposeTransaction use the store as IdempotentStore    *)
(* promises it, for any number of requests, keys, failures and restarts:   *)
(* each one creates its own resource, or is answered with the one that its *)
(* key is bound to at that instant.                                        *)
THEOREM Refinement == Spec => ImplementsIdempotentStore
<1>1. Init => Store!Init
  <2> SUFFICES ASSUME Init PROVE Store!Init
    OBVIOUS
  <2>1. ASSUME NEW r \in Requests PROVE ~Stored(r) /\ call[r] = None
    BY Zenon DEF Init, Stored
  <2>2. storedBar = {}
    BY <2>1, Zenon DEF storedBar
  <2>3. keyBar = [r \in Requests |-> None] /\ replyBar = [r \in Requests |-> None]
    BY <2>1, Zenon DEF keyBar, replyBar, KeyOfCall, ReplyOf
  <2> QED BY <2>2, <2>3, Zenon DEF Init, Store!Init, CreationKeys
<1>2. IndInv /\ HistoryInv /\ [Next]_vars => [Store!Next]_(Store!vars)
  <2> SUFFICES ASSUME IndInv, HistoryInv, [Next]_vars
               PROVE  Store!Next \/ UNCHANGED Store!vars
    OBVIOUS
  <2>1. ASSUME NEW r \in Requests, HandlerStep(r)
        PROVE  Store!Next \/ UNCHANGED Store!vars
    BY <2>1, HandlerRefines, Zenon DEF HistoryInv, Store!Next
  <2>2. ASSUME NEW r \in Requests, NEW c \in Chains \cup {None},
               NEW k \in Keys \cup {None}, CreateWallet(r, c, k)
        PROVE  Store!Next \/ UNCHANGED Store!vars
    <3>1. /\ pc[r] = "idle" /\ UNCHANGED <<store, body, draft>> /\ FlowInv(r)
          /\ call[r] = None
      BY <2>2, Zenon DEF CreateWallet, locals, HistoryInv, FlowInv
    <3>2. OthersUnchanged(r)
      BY <2>2, ZenonT(60) DEF CreateWallet, locals, OthersUnchanged, IndInv, TypeOK
    <3>3. CASE c \in Chains
      <4>1. call'[r] \in Call /\ UNCHANGED reply
        <5>1. /\ call' = [call EXCEPT ![r] = [scope |-> <<"wallet", c>>, key |-> k]]
              /\ UNCHANGED reply /\ DOMAIN call = Requests
          BY <2>2, <3>3, ZenonT(60) DEF CreateWallet, IndInv, TypeOK
        <5>2. <<"wallet", c>> \in Scope
          BY <3>3, ZenonT(60) DEF Scope
        <5> QED BY <5>1, <5>2, ZenonT(60) DEF Call
      <4> QED BY <3>1, <3>2, <4>1, RequestInvokes, Zenon DEF Store!Next
    <3>4. CASE c \notin Chains
      BY <2>2, <3>1, <3>2, <3>4, UnseenStep, ZenonT(60) DEF CreateWallet
    <3> QED BY <3>3, <3>4, Zenon
  <2>3. ASSUME NEW r \in Requests, NEW w \in Requests, NEW k \in Keys \cup {None},
               NEW b \in Bodies, ProposeTransaction(r, w, k, b)
        PROVE  Store!Next
    <3>1. /\ pc[r] = "idle" /\ UNCHANGED <<store, reply>> /\ FlowInv(r)
          /\ call'[r] \in Call
      BY <2>3, ZenonT(60) DEF ProposeTransaction, HistoryInv, Call, Scope, IndInv, TypeOK
    <3>2. OthersUnchanged(r)
      BY <2>3, ZenonT(60) DEF ProposeTransaction, OthersUnchanged, IndInv, TypeOK
    <3> QED BY <3>1, <3>2, RequestInvokes, Zenon DEF Store!Next
  <2>4. ASSUME UNCHANGED <<store, call, reply>> PROVE UNCHANGED Store!vars
    <3>1. \A r \in Requests : Stored(r)' = Stored(r) /\ ReplyOf(r)' = ReplyOf(r)
      BY <2>4, ZenonT(60) DEF store, Stored, ReplyOf
    <3>2. storedBar' = storedBar /\ replyBar' = replyBar /\ keyBar' = keyBar
      BY <2>4, <3>1, KeysKept, Zenon DEF storedBar, replyBar
    <3> QED BY <2>4, <3>2, Zenon DEF Store!vars, store
  <2>5. CASE Crash \/ UNCHANGED vars
    BY <2>4, <2>5, Zenon DEF Crash, vars
  <2>6. ASSUME NEW r \in Requests, Cancel(r) \/ NodeAccepts(r) PROVE UNCHANGED Store!vars
    BY <2>4, <2>6, Zenon DEF Cancel, NodeAccepts
  <2> QED BY <2>1, <2>2, <2>3, <2>5, <2>6, Zenon DEF Next
<1> QED BY <1>1, <1>2, History, PTL DEF Spec, ImplementsIdempotentStore, Store!Spec
=============================================================================
