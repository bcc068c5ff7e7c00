------------------------------ MODULE AuditLog ------------------------------
(***************************************************************************)
(* The audit log and its queries.  appendAudit stamps an event with the    *)
(* time and then calls the store, so events may reach the log in another   *)
(* order than their stamps.  MemoryStore lists by position in the log,     *)
(* PostgresStore by stamp.                                                 *)
(*                                                                         *)
(* The clock is the one that all handlers share; it does not go back, and  *)
(* several events may have the same reading of it.  A list is one step in  *)
(* both stores, under the read lock or in one statement, and it changes    *)
(* nothing: it is an operator on the log.                                  *)
(***************************************************************************)
EXTENDS Numerals, Lists, FiniteSets, Functions

CONSTANTS
  Events,        \* audit events, each appended by a handler of its own
  Resources,     \* resource IDs
  MaxLimit,      \* the longest page that may be asked for: 200
  DefaultLimit,  \* the page length when none may be: 100
  MaxClock       \* bound on the clock

AuditEvent == [resourceID : Resources, createdAt : 0..MaxClock]

ASSUME AuditLogAssumption ==
  /\ MaxLimit \in 1..MaxInt64 /\ DefaultLimit \in 1..MaxLimit
  /\ MaxClock \in Nat
  /\ None \notin Resources /\ None \notin AuditEvent

VARIABLES
  clock,  \* what s.now() returns
  log,    \* the stored events, in the order of their appends
  event,  \* the resource and the stamp of each event; None before it
  past    \* history: what was in the log when an event was stamped

vars == <<clock, log, event, past>>

-----------------------------------------------------------------------------
Logged == Range(log)

TypeOK ==
  /\ clock \in 0..MaxClock
  /\ log \in Seq(Events) /\ IsInjective(log)
  /\ event \in [Events -> AuditEvent \cup {None}]
  /\ past \in [Events -> SUBSET Events]

Init ==
  /\ clock = 0
  /\ log = <<>>
  /\ event = [e \in Events |-> None]
  /\ past = [e \in Events |-> {}]

Tick ==
  /\ clock < MaxClock
  /\ clock' = clock + 1
  /\ UNCHANGED <<log, event, past>>

(* appendAudit up to the call of the store. *)
StampOfRequest(e, r) ==
  /\ event[e] = None
  /\ \E t \in 0..clock :
       event' = [event EXCEPT ![e] = [resourceID |-> r, createdAt |-> t]]
  /\ past' = [past EXCEPT ![e] = Logged]
  /\ UNCHANGED <<clock, log>>

appendAudit(e, r) ==
  /\ event[e] = None
  /\ event' = [event EXCEPT ![e] = [resourceID |-> r, createdAt |-> clock]]
  /\ past' = [past EXCEPT ![e] = Logged]
  /\ UNCHANGED <<clock, log>>

(* The store appends.  If it fails instead, the event is never appended.   *)
AppendTwice(e) ==
  /\ event[e] # None
  /\ Len(log) < Cardinality(Events)
  /\ log' = Append(log, e)
  /\ UNCHANGED <<clock, event, past>>

AppendAuditEvent(e) ==
  /\ event[e] # None
  /\ e \notin Logged
  /\ log' = Append(log, e)
  /\ UNCHANGED <<clock, event, past>>

Next ==
  \/ Tick
  \/ \E e \in Events :
       \/ \E r \in Resources : appendAudit(e, r)
       \/ AppendAuditEvent(e)

Spec == Init /\ [][Next]_vars

-----------------------------------------------------------------------------
(* Queries. *)

Matches(e, r) == r = None \/ event[e].resourceID = r

Matching(r) == {e \in Logged : Matches(e, r)}

Limit(limit) == IF limit <= 0 \/ limit > MaxLimit THEN DefaultLimit ELSE limit

Page(s, limit) == SubSeq(s, 1, IF Len(s) < Limit(limit) THEN Len(s) ELSE Limit(limit))

(* MemoryStore walks the log backwards. *)
Backwards(s) == [i \in 1..Len(s) |-> s[(Len(s) - i) + 1]]

MemoryListUnfiltered(r, limit) ==
  Kept(Page(Backwards(log), limit), Matching(r))

MemoryList(r, limit) ==
  Page(Kept(Backwards(log), Matching(r)), limit)

(* PostgresStore: ORDER BY created_at DESC, which leaves equal stamps in   *)
(* any order.                                                              *)
ByStamp(s) ==
  \A i, j \in DOMAIN s : i < j => event[s[i]].createdAt >= event[s[j]].createdAt

Orders(M) == Injection(1..Cardinality(M), M)

PostgresList(r, limit) ==
  {Page(s, limit) : s \in {s \in Orders(Matching(r)) : ByStamp(s)}}

ListAuditEvents(store, r, limit) ==
  IF store = "memory" THEN {MemoryList(r, limit)} ELSE PostgresList(r, limit)

(* The handler: no limit is 100, and what is no integer is refused. *)
listAuditEvents(store, r, raw) ==
  CASE raw = None -> ListAuditEvents(store, r, DefaultLimit)
    [] raw # None /\ ParseInt(raw) = Malformed -> {}
    [] OTHER -> ListAuditEvents(store, r, raw)

-----------------------------------------------------------------------------
RawLimits == Texts \cup {None}
Filters == Resources \cup {None}
Stores == {"memory", "postgres"}

(* What a client may count on for a limit: a legal one is honoured, any    *)
(* other integer and no limit at all mean the default.  What is no integer *)
(* of 64 bits is refused.                                                  *)
IsRefused(raw) == raw # None /\ (raw = Malformed \/ raw > MaxInt64)

Expected(raw) == IF raw \in 1..MaxLimit THEN raw ELSE DefaultLimit

(* A page of either store is full or complete: it has as many events of    *)
(* the resource as the limit allows, each once, and it leaves some out     *)
(* only when it is full.  There is no page exactly when the limit is       *)
(* refused.                                                                *)
PageIsFull ==
  \A store \in Stores, r \in Filters, raw \in RawLimits :
    LET pages == listAuditEvents(store, r, raw)
    IN  /\ pages = {} <=> IsRefused(raw)
        /\ \A page \in pages :
             /\ IsInjective(page) /\ Range(page) \subseteq Matching(r)
             /\ \/ Range(page) = Matching(r) /\ Len(page) <= Expected(raw)
                \/ Len(page) = Expected(raw)

(* Effects are listed above their causes: when an event was in the log     *)
(* before another was stamped, no page of either store shows the older one *)
(* and leaves the later one out, or shows it above the later one.  Only    *)
(* PostgresStore may swap two with equal stamps.                           *)
Tied(e, d) == event[e].createdAt = event[d].createdAt

ListedAbove(page, e, d) ==
  \A i \in DOMAIN page : page[i] = d => \E j \in 1..(i - 1) : page[j] = e

EffectsAboveCauses ==
  \A r \in Filters, raw \in RawLimits :
    \A e \in Matching(r) : \A d \in past[e] :
      /\ \A page \in listAuditEvents("memory", r, raw) : ListedAbove(page, e, d)
      /\ Tied(e, d) \/ \A page \in listAuditEvents("postgres", r, raw) :
                         ListedAbove(page, e, d)

(* What the order of a page rests on, and why it is stable: a stamp is     *)
(* read before the store is called, so an event carries the largest stamp  *)
(* of all that its handler could see, and it enters the log behind them.   *)
LogInv ==
  /\ TypeOK
  /\ \A e \in Logged : event[e] # None
  /\ \A e \in Events :
       /\ event[e] # None => event[e].createdAt <= clock
       /\ past[e] # {} => event[e] # None
       /\ past[e] \subseteq Logged
       /\ \A d \in past[e] : event[d].createdAt <= event[e].createdAt
  /\ \A i, j \in DOMAIN log : log[j] \in past[log[i]] => j < i
=============================================================================
