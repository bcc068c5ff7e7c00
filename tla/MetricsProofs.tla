--------------------------- MODULE MetricsProofs ----------------------------
(***************************************************************************)
(* The safety of Metrics, for any number of requests, scrapes and series:  *)
(* every step preserves IndInv, and IndInv implies that no request is      *)
(* counted twice or missed and that a scrape is a snapshot.  Only three    *)
(* steps can disturb what IndInv says of the counters: the two that write  *)
(* a value back, and the scrape's step from one loop to the other.         *)
(***************************************************************************)
EXTENDS Metrics, FiniteSetTheorems, TLAPS

(* What IndInv says of one request. *)
RequestInv(r) == LockInv(r) /\ MeterInv(r) /\ ScrapeInv(r)

Timing == {"observe", "store_sample"}

-----------------------------------------------------------------------------
(* Requests between the two calls of the middleware. *)

LEMMA BetweenIsFinite ==
  ASSUME NEW s
  PROVE  IsFiniteSet(Between(s)) /\ Cardinality(Between(s)) \in Nat
<1>1. Between(s) \in SUBSET Requests
  BY Zenon DEF Between
<1> QED BY <1>1, MetricsAssumption, FS_Subset, FS_CardinalityType, Zenon

(* A step that writes no value and moves nobody from one call to the other *)
(* keeps the counts in agreement.                                          *)
LEMMA SameCounts ==
  ASSUME CountsAgree, UNCHANGED <<counters, latencies>>,
         \A q \in Requests :
           /\ pc'[q] \in Timing <=> pc[q] \in Timing
           /\ pc[q] \in Timing => labels'[q] = labels[q]
  PROVE  CountsAgree'
<1>1. \A s : Between(s)' = Between(s)
  BY Zenon DEF Between, Timing
<1> QED BY <1>1, Zenon DEF CountsAgree

(* Initially nobody holds the lock and nothing is counted. *)
LEMMA InitInv == Init => IndInv
<1> SUFFICES ASSUME Init PROVE IndInv
  OBVIOUS
<1>1. Zero \in Count
  BY Zenon DEF Zero, Count
<1>2. TypeOK
  BY <1>1, Zenon DEF Init, TypeOK
<1>3. ASSUME NEW r \in Requests PROVE RequestInv(r)
  <2>1. pc[r] = "idle" /\ labels[r] = None /\ writer = None /\ readers = {}
        /\ page[r].latencies = Zero /\ page[r].counters = Zero
    BY Zenon DEF Init
  <2>2. LockInv(r)
    BY <2>1, MetricsAssumption, Zenon DEF LockInv
  <2>3. MeterInv(r)
    BY <2>1, Zenon DEF MeterInv, MeterPC
  <2>4. ScrapeInv(r)
    BY <2>1 DEF ScrapeInv, Zero
  <2> QED BY <2>2, <2>3, <2>4, Zenon DEF RequestInv
<1>4. CountsAgree
  <2>1. \A s : Between(s) = {}
    BY Zenon DEF Init, Between
  <2>2. \A s : Cardinality(Between(s)) = 0
    BY <2>1, FS_EmptySet, Zenon
  <2> QED BY <2>2 DEF Init, Zero, CountsAgree
<1> QED BY <1>2, <1>3, <1>4, Zenon DEF IndInv, RequestInv

-----------------------------------------------------------------------------
(* A request that does not move keeps its invariant, unless somebody else  *)
(* writes a value that it has read.                                        *)
LEMMA OtherKept ==
  ASSUME NEW q \in Requests, RequestInv(q),
         pc'[q] = pc[q], labels'[q] = labels[q], old'[q] = old[q], page'[q] = page[q],
         q \in readers' <=> q \in readers, writer' = q <=> writer = q,
         Locked(q) => readers' = {},
         UNCHANGED counters \/ pc[q] \notin {"store_count", "write_latencies"},
         UNCHANGED latencies \/ pc[q] # "store_sample"
  PROVE  RequestInv(q)'
<1>1. LockInv(q)'
  BY Zenon DEF RequestInv, LockInv, Locked
<1>2. MeterInv(q)'
  BY Zenon DEF RequestInv, MeterInv, MeterPC
<1>3. ScrapeInv(q)'
  BY Zenon DEF RequestInv, ScrapeInv
<1> QED BY <1>1, <1>2, <1>3, Zenon DEF RequestInv

(* A request or a scrape arrives. *)
LEMMA ArrivesInv ==
  ASSUME IndInv, NEW r \in Requests, Arrives(r)
  PROVE  IndInv'
<1>1. /\ pc[r] = "idle" /\ pc'[r] \in {"handler", "rlock"}
      /\ \A q \in Requests : q # r => pc'[q] = pc[q]
      /\ UNCHANGED <<counters, latencies, writer, readers, labels, old, page>>
  BY Zenon DEF Arrives, Goto, lock, IndInv, TypeOK
<1>2. TypeOK'
  BY <1>1, Zenon DEF Arrives, Goto, IndInv, TypeOK, InFlightPC, ScrapePC
<1>3. RequestInv(r)'
  BY <1>1, Zenon
     DEF IndInv, RequestInv, LockInv, Locked, MeterInv, MeterPC, ScrapeInv, ScrapePC
<1>4. ASSUME NEW q \in Requests, q # r PROVE RequestInv(q)'
  <2>1. RequestInv(q)
    BY Zenon DEF IndInv, RequestInv
  <2> QED BY <1>1, <1>4, <2>1, OtherKept, Zenon DEF Locked
<1>5. CountsAgree'
  BY <1>1, SameCounts, Zenon DEF IndInv, Timing
<1> QED BY <1>2, <1>3, <1>4, <1>5, Zenon DEF IndInv, RequestInv

(* The handler returns. *)
LEMMA ServeHTTPInv ==
  ASSUME IndInv, NEW r \in Requests, ServeHTTP(r)
  PROVE  IndInv'
<1>1. /\ pc[r] = "handler" /\ pc'[r] = "inc" /\ labels'[r] \in Series
      /\ \A q \in Requests : q # r => pc'[q] = pc[q] /\ labels'[q] = labels[q]
      /\ UNCHANGED <<counters, latencies, writer, readers, old, page>>
  BY Zenon DEF ServeHTTP, Served, Goto, lock, IndInv, TypeOK
<1>2. TypeOK'
  BY <1>1, Zenon DEF ServeHTTP, Served, Goto, IndInv, TypeOK, InFlightPC, MeterPC
<1>3. RequestInv(r)'
  BY <1>1, Zenon
     DEF IndInv, RequestInv, LockInv, Locked, MeterInv, MeterPC, ScrapeInv, ScrapePC
<1>4. ASSUME NEW q \in Requests, q # r PROVE RequestInv(q)'
  <2>1. RequestInv(q)
    BY Zenon DEF IndInv, RequestInv
  <2> QED BY <1>1, <1>4, <2>1, OtherKept, Zenon DEF Locked
<1>5. CountsAgree'
  BY <1>1, SameCounts, Zenon DEF IndInv, Timing
<1> QED BY <1>2, <1>3, <1>4, <1>5, Zenon DEF IndInv, RequestInv

(* A writer announces itself, while readers may still be inside. *)
LEMMA AnnounceInv ==
  ASSUME IndInv, NEW r \in Requests, Announce(r)
  PROVE  IndInv'
<1>1. /\ pc[r] \in {"inc", "observe"} /\ writer = None /\ writer' = r
      /\ UNCHANGED <<counters, latencies, readers, pc, labels, old, page>>
  BY Zenon DEF Announce
<1>2. TypeOK'
  BY <1>1, Zenon DEF IndInv, TypeOK
<1>3. RequestInv(r)'
  BY <1>1, Zenon
     DEF IndInv, RequestInv, LockInv, Locked, MeterInv, MeterPC, ScrapeInv, ScrapePC
<1>4. ASSUME NEW q \in Requests, q # r PROVE RequestInv(q)'
  <2>1. RequestInv(q) /\ q # None
    BY MetricsAssumption, Zenon DEF IndInv, RequestInv
  <2> QED BY <1>1, <1>4, <2>1, OtherKept, Zenon DEF Locked
<1>5. CountsAgree'
  BY <1>1, SameCounts, Zenon DEF IndInv, Timing
<1> QED BY <1>2, <1>3, <1>4, <1>5, Zenon DEF IndInv, RequestInv

(* Inc and ObserveDuration read the value that they will replace: nobody   *)
(* else can be between reading and writing.                                *)
LEMMA ReadInv ==
  ASSUME IndInv, NEW r \in Requests,
         \/ pc[r] = "inc" /\ Read(r, counters, "store_count")
         \/ pc[r] = "observe" /\ Read(r, latencies, "store_sample")
  PROVE  IndInv'
<1>1. /\ \/ pc[r] = "inc" /\ pc'[r] = "store_count" /\ old'[r] = counters[labels[r]]
         \/ pc[r] = "observe" /\ pc'[r] = "store_sample" /\ old'[r] = latencies[labels[r]]
      /\ \A q \in Requests : q # r => pc'[q] = pc[q] /\ old'[q] = old[q]
      /\ UNCHANGED <<counters, latencies, writer, readers, labels, page>>
      /\ Locked(r)
  BY Zenon DEF Read, Goto, lock, IndInv, TypeOK
<1>2. TypeOK'
  <2>1. labels[r] \in Series
    BY <1>1, Zenon DEF IndInv, MeterInv, MeterPC
  <2>2. counters[labels[r]] \in Nat /\ latencies[labels[r]] \in Nat
    BY <2>1, Zenon DEF IndInv, TypeOK, Count
  <2> QED BY <1>1, <2>2 DEF Read, Goto, IndInv, TypeOK, InFlightPC, MeterPC
<1>3. RequestInv(r)'
  BY <1>1, Zenon
     DEF IndInv, RequestInv, LockInv, Locked, MeterInv, MeterPC, ScrapeInv, ScrapePC
<1>4. ASSUME NEW q \in Requests, q # r PROVE RequestInv(q)'
  <2>1. RequestInv(q)
    BY Zenon DEF IndInv, RequestInv
  <2> QED BY <1>1, <1>4, <2>1, OtherKept, Zenon DEF Locked
<1>5. CountsAgree'
  BY <1>1, SameCounts, Zenon DEF IndInv, Timing
<1> QED BY <1>2, <1>3, <1>4, <1>5, Zenon DEF IndInv, RequestInv

(* mu.Unlock by the only request under the lock: the readers it lets in    *)
(* have written nothing yet, and the others see no difference.             *)
LEMMA UnlockInv ==
  ASSUME IndInv, NEW r \in Requests, NEW label,
         pc[r] \in {"store_count", "store_sample"}, Unlock(r, label),
         UNCHANGED <<labels, old, page>>,
         NEW q \in Requests, q # r
  PROVE  RequestInv(q)'
<1>1. RequestInv(q) /\ Locked(r) /\ q # None
  BY MetricsAssumption, Zenon DEF IndInv, RequestInv, LockInv
<1>2. writer' = None /\ writer = r /\ readers = {}
  BY <1>1, Zenon DEF Unlock, Locked
<1>3. CASE pc[q] = "blocked"
  <2>1. q \in readers' /\ pc'[q] = "write_counters"
    BY <1>3, Zenon DEF Unlock
  <2>2. LockInv(q)'
    BY <1>1, <1>2, <2>1, Zenon DEF LockInv
  <2>3. MeterInv(q)'
    BY <1>1, <1>3, <2>1, Zenon DEF RequestInv, MeterInv, MeterPC
  <2>4. ScrapeInv(q)'
    BY <1>1, <1>3, <2>1, Zenon DEF RequestInv, ScrapeInv, ScrapePC
  <2> QED BY <2>2, <2>3, <2>4, Zenon DEF RequestInv
<1>4. CASE pc[q] # "blocked"
  <2>1. pc'[q] = pc[q] /\ (q \in readers' <=> q \in readers)
    BY <1>4, Zenon DEF Unlock
  <2>2. pc[q] \notin {"store_count", "store_sample", "write_latencies"}
    BY <1>1, <1>2, Zenon DEF RequestInv, LockInv, Locked
  <2> QED BY <1>1, <1>2, <2>1, <2>2, OtherKept, Zenon DEF Locked
<1> QED BY <1>3, <1>4, Zenon

(* Inc writes the count back and unlocks: the request is counted and not   *)
(* timed yet.                                                              *)
LEMMA StoreCountInv ==
  ASSUME IndInv, NEW r \in Requests, pc[r] = "store_count",
         counters' = [counters EXCEPT ![labels[r]] = old[r] + 1],
         Unlock(r, "observe"), UNCHANGED <<latencies, labels, old, page>>
  PROVE  IndInv'
<1>1. /\ labels[r] \in Series /\ old[r] = counters[labels[r]] /\ old[r] \in Nat
      /\ \A s \in Series : counters[s] \in Nat /\ latencies[s] \in Nat
  BY Zenon DEF IndInv, MeterInv, MeterPC, TypeOK, Count
<1>2. /\ writer' = None /\ pc'[r] = "observe" /\ r \notin readers'
      /\ \A q \in Requests : q # r => pc'[q] = IF pc[q] = "blocked" THEN "write_counters" ELSE pc[q]
  BY Zenon DEF IndInv, Unlock, LockInv
<1>3. TypeOK'
  <2>1. counters' \in Count
    BY <1>1 DEF IndInv, TypeOK, Count
  <2>2. pc' \in [Requests -> {"idle", "done"} \cup InFlightPC]
    BY Zenon DEF IndInv, TypeOK, Unlock, InFlightPC, ScrapePC, MeterPC
  <2>3. writer' \in Requests \cup {None} /\ readers' \in SUBSET Requests
    BY Zenon DEF IndInv, TypeOK, Unlock
  <2> QED BY <2>1, <2>2, <2>3, Zenon DEF IndInv, TypeOK
<1>4. RequestInv(r)'
  BY <1>1, <1>2, MetricsAssumption, Zenon
     DEF IndInv, RequestInv, LockInv, MeterInv, MeterPC, ScrapeInv, ScrapePC
<1>5. ASSUME NEW q \in Requests, q # r PROVE RequestInv(q)'
  BY <1>5, UnlockInv
<1>6. ASSUME NEW s \in Series
      PROVE  counters'[s] = latencies'[s] + Cardinality(Between(s)')
  <2>1. counters[s] = latencies[s] + Cardinality(Between(s))
    BY Zenon DEF IndInv, CountsAgree
  <2>2. Cardinality(Between(s)) \in Nat /\ IsFiniteSet(Between(s))
    BY BetweenIsFinite, Zenon
  <2>3. CASE s = labels[r]
    <3>1. Between(s)' = Between(s) \cup {r} /\ r \notin Between(s)
      BY <1>2, <2>3, Zenon DEF Between
    <3>2. Cardinality(Between(s)') = Cardinality(Between(s)) + 1
      BY <2>2, <3>1, FS_AddElement, Zenon
    <3>3. counters'[s] = counters[s] + 1
      BY <1>1, <2>3, Zenon DEF IndInv, TypeOK, Count
    <3> QED BY <1>1, <2>1, <2>2, <3>2, <3>3
  <2>4. CASE s # labels[r]
    <3>1. Between(s)' = Between(s)
      BY <1>2, <2>4, Zenon DEF Between
    <3>2. counters'[s] = counters[s]
      BY <2>4, Zenon DEF IndInv, TypeOK, Count
    <3> QED BY <2>1, <3>1, <3>2, Zenon
  <2> QED BY <2>3, <2>4, Zenon
<1> QED BY <1>3, <1>4, <1>5, <1>6, Zenon DEF IndInv, RequestInv, CountsAgree

(* ObserveDuration writes the sample back and unlocks: the request is      *)
(* timed as well.                                                          *)
LEMMA StoreSampleInv ==
  ASSUME IndInv, NEW r \in Requests, pc[r] = "store_sample",
         latencies' = [latencies EXCEPT ![labels[r]] = old[r] + 1],
         Unlock(r, "done"), UNCHANGED <<counters, labels, old, page>>
  PROVE  IndInv'
<1>1. /\ labels[r] \in Series /\ old[r] = latencies[labels[r]] /\ old[r] \in Nat
      /\ \A s \in Series : counters[s] \in Nat /\ latencies[s] \in Nat
  BY Zenon DEF IndInv, MeterInv, MeterPC, TypeOK, Count
<1>2. /\ writer' = None /\ pc'[r] = "done" /\ r \notin readers'
      /\ \A q \in Requests : q # r => pc'[q] = IF pc[q] = "blocked" THEN "write_counters" ELSE pc[q]
  BY Zenon DEF IndInv, Unlock, LockInv
<1>3. TypeOK'
  <2>1. latencies' \in Count
    BY <1>1 DEF IndInv, TypeOK, Count
  <2>2. pc' \in [Requests -> {"idle", "done"} \cup InFlightPC]
    BY Zenon DEF IndInv, TypeOK, Unlock, InFlightPC, ScrapePC, MeterPC
  <2>3. writer' \in Requests \cup {None} /\ readers' \in SUBSET Requests
    BY Zenon DEF IndInv, TypeOK, Unlock
  <2> QED BY <2>1, <2>2, <2>3, Zenon DEF IndInv, TypeOK
<1>4. RequestInv(r)'
  BY <1>1, <1>2, MetricsAssumption, Zenon
     DEF IndInv, RequestInv, LockInv, MeterInv, MeterPC, ScrapeInv, ScrapePC
<1>5. ASSUME NEW q \in Requests, q # r PROVE RequestInv(q)'
  BY <1>5, UnlockInv
<1>6. ASSUME NEW s \in Series
      PROVE  counters'[s] = latencies'[s] + Cardinality(Between(s)')
  <2>1. counters[s] = latencies[s] + Cardinality(Between(s))
    BY Zenon DEF IndInv, CountsAgree
  <2>2. Cardinality(Between(s)) \in Nat /\ IsFiniteSet(Between(s))
    BY BetweenIsFinite, Zenon
  <2>3. CASE s = labels[r]
    <3>1. Between(s)' = Between(s) \ {r} /\ r \in Between(s)
      BY <1>2, <2>3, Zenon DEF Between
    <3>2. Cardinality(Between(s)') = Cardinality(Between(s)) - 1
      BY <2>2, <3>1, FS_RemoveElement, ZenonT(60)
    <3>3. latencies'[s] = latencies[s] + 1
      BY <1>1, <2>3, Zenon DEF IndInv, TypeOK, Count
    <3> QED BY <1>1, <2>1, <2>2, <3>2, <3>3
  <2>4. CASE s # labels[r]
    <3>1. Between(s)' = Between(s)
      BY <1>2, <2>4, Zenon DEF Between
    <3>2. latencies'[s] = latencies[s]
      BY <2>4, Zenon DEF IndInv, TypeOK, Count
    <3> QED BY <2>1, <3>1, <3>2, Zenon
  <2> QED BY <2>3, <2>4, Zenon
<1> QED BY <1>3, <1>4, <1>5, <1>6, Zenon DEF IndInv, RequestInv, CountsAgree

-----------------------------------------------------------------------------
(* A scrape enters, or waits for the writer that has announced itself. *)
LEMMA RLockInv ==
  ASSUME IndInv, NEW r \in Requests, RLock(r)
  PROVE  IndInv'
<1>1. /\ pc[r] = "rlock"
      /\ \/ writer = None /\ readers' = readers \cup {r} /\ pc'[r] = "write_counters"
         \/ readers' = readers /\ pc'[r] = "blocked"
      /\ \A q \in Requests : q # r => pc'[q] = pc[q]
      /\ UNCHANGED <<counters, latencies, writer, labels, old, page>>
  BY Zenon DEF RLock, Goto, IndInv, TypeOK
<1>2. TypeOK'
  BY <1>1, Zenon DEF RLock, Goto, IndInv, TypeOK, InFlightPC, ScrapePC
<1>3. RequestInv(r)'
  BY <1>1, Zenon
     DEF IndInv, RequestInv, LockInv, Locked, MeterInv, MeterPC, ScrapeInv, ScrapePC
<1>4. ASSUME NEW q \in Requests, q # r PROVE RequestInv(q)'
  <2>1. RequestInv(q) /\ q # None
    BY MetricsAssumption, Zenon DEF IndInv, RequestInv
  <2> QED BY <1>1, <1>4, <2>1, OtherKept, Zenon DEF Locked
<1>5. CountsAgree'
  BY <1>1, SameCounts, Zenon DEF IndInv, Timing
<1> QED BY <1>2, <1>3, <1>4, <1>5, Zenon DEF IndInv, RequestInv

(* The first loop of a scrape writes the counters as they are. *)
LEMMA WriteCountersInv ==
  ASSUME IndInv, NEW r \in Requests, WriteCounters(r)
  PROVE  IndInv'
<1>1. /\ pc[r] = "write_counters" /\ pc'[r] = "write_latencies"
      /\ page'[r].counters = counters /\ page'[r].latencies = page[r].latencies
      /\ \A q \in Requests : q # r => pc'[q] = pc[q] /\ page'[q] = page[q]
      /\ UNCHANGED <<counters, latencies, writer, readers, labels, old>>
  BY Zenon DEF WriteCounters, Goto, lock, IndInv, TypeOK
<1>2. TypeOK'
  BY <1>1, Zenon DEF WriteCounters, Goto, IndInv, TypeOK, InFlightPC, ScrapePC
<1>3. RequestInv(r)'
  <2>1. LockInv(r)' /\ MeterInv(r)'
    BY <1>1, Zenon DEF IndInv, LockInv, Locked, MeterInv, MeterPC
  <2>2. \A s \in Series : Zero[s] <= counters[s]
    BY DEF IndInv, TypeOK, Count, Zero
  <2>3. ScrapeInv(r)'
    BY <1>1, <2>2, Zenon DEF IndInv, ScrapeInv, ScrapePC
  <2> QED BY <2>1, <2>3, Zenon DEF RequestInv
<1>4. ASSUME NEW q \in Requests, q # r PROVE RequestInv(q)'
  <2>1. RequestInv(q)
    BY Zenon DEF IndInv, RequestInv
  <2> QED BY <1>1, <1>4, <2>1, OtherKept, Zenon DEF Locked
<1>5. CountsAgree'
  BY <1>1, SameCounts, Zenon DEF IndInv, Timing
<1> QED BY <1>2, <1>3, <1>4, <1>5, Zenon DEF IndInv, RequestInv

(* The second loop writes the latencies, none of which can exceed the      *)
(* counter of its series, and the scrape gives up the lock.                *)
LEMMA WriteLatenciesInv ==
  ASSUME IndInv, NEW r \in Requests, WriteLatencies(r)
  PROVE  IndInv'
<1>1. /\ pc[r] = "write_latencies" /\ pc'[r] = "inc" /\ labels'[r] \in Series
      /\ page'[r].counters = page[r].counters /\ page'[r].latencies = latencies
      /\ readers' = readers \ {r}
      /\ \A q \in Requests : q # r => /\ pc'[q] = pc[q] /\ labels'[q] = labels[q]
                                      /\ page'[q] = page[q]
      /\ UNCHANGED <<counters, latencies, writer, old>>
  BY ZenonT(60) DEF WriteLatencies, Served, Goto, IndInv, TypeOK
<1>2. TypeOK'
  BY <1>1, Zenon DEF WriteLatencies, Served, Goto, IndInv, TypeOK, InFlightPC, MeterPC
<1>3. RequestInv(r)'
  <2>1. LockInv(r)' /\ MeterInv(r)'
    BY <1>1, Zenon DEF IndInv, LockInv, Locked, MeterInv, MeterPC
  <2>2. ASSUME NEW s \in Series PROVE latencies[s] <= counters[s]
    <3>1. counters[s] = latencies[s] + Cardinality(Between(s))
      BY Zenon DEF IndInv, CountsAgree
    <3>2. Cardinality(Between(s)) \in Nat /\ latencies[s] \in Nat
      BY BetweenIsFinite, Zenon DEF IndInv, TypeOK, Count
    <3> QED BY <3>1, <3>2
  <2>3. ScrapeInv(r)'
    BY <1>1, <2>2, Zenon DEF IndInv, ScrapeInv, ScrapePC
  <2> QED BY <2>1, <2>3, Zenon DEF RequestInv
<1>4. ASSUME NEW q \in Requests, q # r PROVE RequestInv(q)'
  <2>1. RequestInv(q)
    BY Zenon DEF IndInv, RequestInv
  <2> QED BY <1>1, <1>4, <2>1, OtherKept, Zenon DEF Locked
<1>5. CountsAgree'
  BY <1>1, SameCounts, Zenon DEF IndInv, Timing
<1> QED BY <1>2, <1>3, <1>4, <1>5, Zenon DEF IndInv, RequestInv

-----------------------------------------------------------------------------
(* Every step of every request preserves the invariant. *)
LEMMA NextInv == IndInv /\ [Next]_vars => IndInv'
<1> SUFFICES ASSUME IndInv, [Next]_vars PROVE IndInv'
  OBVIOUS
<1>1. CASE UNCHANGED vars
  <2>1. UNCHANGED <<counters, latencies, writer, readers, pc, labels, old, page>>
    BY <1>1, Zenon DEF vars, lock
  <2>2. \A s : Between(s)' = Between(s)
    BY <2>1, Zenon DEF Between
  <2>3. CountsAgree'
    BY <2>1, <2>2, Zenon DEF IndInv, CountsAgree
  <2> QED BY <2>1, <2>3, Zenon DEF IndInv, TypeOK, LockInv, Locked, MeterInv, ScrapeInv
<1>2. CASE Next
  <2>1. PICK r \in Requests : Arrives(r) \/ RequestStep(r)
    BY <1>2, Zenon DEF Next
  <2>2. CASE Arrives(r)
    BY <2>2, ArrivesInv, Zenon
  <2>3. CASE ServeHTTP(r)
    BY <2>3, ServeHTTPInv, Zenon
  <2>4. CASE Announce(r)
    BY <2>4, AnnounceInv, Zenon
  <2>5. CASE Inc(r)
    BY <2>5, ReadInv, StoreCountInv, Zenon DEF Inc
  <2>6. CASE ObserveDuration(r)
    BY <2>6, ReadInv, StoreSampleInv, Zenon DEF ObserveDuration
  <2>7. CASE RLock(r)
    BY <2>7, RLockInv, Zenon
  <2>8. CASE WriteCounters(r)
    BY <2>8, WriteCountersInv, Zenon
  <2>9. CASE WriteLatencies(r)
    BY <2>9, WriteLatenciesInv, Zenon
  <2> QED BY <2>1, <2>2, <2>3, <2>4, <2>5, <2>6, <2>7, <2>8, <2>9, Zenon
         DEF RequestStep, LockStep
<1> QED BY <1>1, <1>2, Zenon

(* The lock protects the meters: whoever is about to write a value back    *)
(* has read the current one, whatever the requests and the scrapes do.     *)
THEOREM Invariance == Spec => []IndInv
<1> QED BY InitInv, NextInv, PTL DEF Spec

(* Inc and ObserveDuration lose no update: in every series the requests    *)
(* counted are the requests timed and those between the two calls.         *)
THEOREM CountsAlwaysAgree == Spec => []CountsAgree
<1>1. IndInv => CountsAgree
  BY Zenon DEF IndInv
<1> QED BY <1>1, Invariance, PTL

(* What WritePrometheus writes is a snapshot, however slowly its client    *)
(* reads and however many requests end meanwhile.                          *)
THEOREM ScrapesAreSnapshots == Spec => []ScrapeIsASnapshot
<1>1. IndInv => ScrapeIsASnapshot
  BY Zenon DEF IndInv, ScrapeInv, ScrapeIsASnapshot
<1> QED BY <1>1, Invariance, PTL
=============================================================================
