------------------------------ MODULE Metrics ------------------------------
(***************************************************************************)
(* observability.Metrics and the middleware that feeds it.  Every request  *)
(* ends with Inc and then ObserveDuration, each under the write lock; a    *)
(* scrape holds the read lock while it writes all the counters and then    *)
(* all the latencies to its client, and is itself a request.               *)
(*                                                                         *)
(* The lock is Go's RWMutex: a writer first announces itself, which keeps  *)
(* new readers out, then waits for the readers inside, and on leaving lets *)
(* in the readers that came meanwhile before the next writer.              *)
(***************************************************************************)
EXTENDS Naturals, FiniteSets

CONSTANTS
  Requests,  \* HTTP requests
  Series,    \* label sets: method, route and status
  None       \* no writer, no labels

ASSUME MetricsAssumption == None \notin Requests \cup Series /\ IsFiniteSet(Requests)

VARIABLES
  counters,   \* custody_http_requests_total, per series
  latencies,  \* the number of samples of the duration, per series
  writer,     \* the request that holds or has announced the write lock
  readers,    \* the requests that hold the read lock
  pc,         \* the call each request makes next
  labels,     \* the labels of each request, once its handler has returned
  old,        \* the value a request has read and is about to replace
  page        \* what a scrape has written so far

lock == <<writer, readers>>
vars == <<counters, latencies, lock, pc, labels, old, page>>

-----------------------------------------------------------------------------
ScrapePC == {"rlock", "blocked", "write_counters", "write_latencies"}
MeterPC == {"inc", "store_count", "observe", "store_sample"}
InFlightPC == {"handler"} \cup ScrapePC \cup MeterPC

Zero == [s \in Series |-> 0]

Init ==
  /\ counters = Zero /\ latencies = Zero
  /\ writer = None /\ readers = {}
  /\ pc = [r \in Requests |-> "idle"]
  /\ labels = [r \in Requests |-> None]
  /\ old = [r \in Requests |-> 0]
  /\ page = [r \in Requests |-> [counters |-> Zero, latencies |-> Zero]]

Goto(r, label) == pc' = [pc EXCEPT ![r] = label]

-----------------------------------------------------------------------------
(* The middleware. *)

(* A request of the API or a scrape arrives. *)
Arrives(r) ==
  /\ pc[r] = "idle"
  /\ \E label \in {"handler", "rlock"} : Goto(r, label)
  /\ UNCHANGED <<counters, latencies, lock, labels, old, page>>

(* next.ServeHTTP returns; the recorder has the status. *)
Served(r) ==
  /\ \E s \in Series : labels' = [labels EXCEPT ![r] = s]
  /\ Goto(r, "inc")

ServeHTTP(r) ==
  /\ pc[r] = "handler"
  /\ Served(r)
  /\ UNCHANGED <<counters, latencies, lock, old, page>>

(* mu.Lock in Inc and ObserveDuration. *)
Announce(r) ==
  /\ pc[r] \in {"inc", "observe"}
  /\ writer = None
  /\ writer' = r
  /\ UNCHANGED <<counters, latencies, readers, pc, labels, old, page>>

(* mu.Unlock: the readers that are blocked are let in. *)
Unlock(r, label) ==
  LET blocked == {q \in Requests : pc[q] = "blocked"}
  IN  /\ writer' = None
      /\ readers' = readers \cup blocked
      /\ pc' = [q \in Requests |->
                  IF q \in blocked THEN "write_counters"
                  ELSE IF q = r THEN label ELSE pc[q]]

LockedNotAtAll(r) == TRUE

Locked(r) == writer = r /\ readers = {}

(* Both calls read the value of their series and write it back. *)
Read(r, value, label) ==
  /\ Locked(r)
  /\ old' = [old EXCEPT ![r] = value[labels[r]]]
  /\ Goto(r, label)
  /\ UNCHANGED <<counters, latencies, lock, labels, page>>

Inc(r) ==
  \/ pc[r] = "inc" /\ Read(r, counters, "store_count")
  \/ /\ pc[r] = "store_count"
     /\ counters' = [counters EXCEPT ![labels[r]] = old[r] + 1]
     /\ Unlock(r, "observe")
     /\ UNCHANGED <<latencies, labels, old, page>>

ObserveDuration(r) ==
  \/ pc[r] = "observe" /\ Read(r, latencies, "store_sample")
  \/ /\ pc[r] = "store_sample"
     /\ latencies' = [latencies EXCEPT ![labels[r]] = old[r] + 1]
     /\ Unlock(r, "done")
     /\ UNCHANGED <<counters, labels, old, page>>

-----------------------------------------------------------------------------
(* WritePrometheus.  Each of its two loops takes as long as the client     *)
(* takes to read.                                                          *)

RLockNothing(r) ==
  /\ pc[r] = "rlock"
  /\ Goto(r, "write_counters")
  /\ UNCHANGED <<counters, latencies, lock, labels, old, page>>

RLock(r) ==
  /\ pc[r] = "rlock"
  /\ \/ writer = None /\ readers' = readers \cup {r} /\ Goto(r, "write_counters")
     \/ writer # None /\ Goto(r, "blocked") /\ UNCHANGED readers
  /\ UNCHANGED <<counters, latencies, writer, labels, old, page>>

WriteCounters(r) ==
  /\ pc[r] = "write_counters"
  /\ page' = [page EXCEPT ![r].counters = counters]
  /\ Goto(r, "write_latencies")
  /\ UNCHANGED <<counters, latencies, lock, labels, old>>

WriteLatenciesLocked(r) ==
  /\ pc[r] = "write_latencies"
  /\ page' = [page EXCEPT ![r].latencies = latencies]
  /\ Served(r)
  /\ UNCHANGED <<counters, latencies, lock, old>>

WriteLatencies(r) ==
  /\ pc[r] = "write_latencies"
  /\ page' = [page EXCEPT ![r].latencies = latencies]
  /\ readers' = readers \ {r}
  /\ Served(r)
  /\ UNCHANGED <<counters, latencies, writer, old>>

-----------------------------------------------------------------------------
(* The steps that wait for nothing but the lock. *)
LockStep(r) == Announce(r) \/ Inc(r) \/ ObserveDuration(r) \/ RLock(r)

RequestStep(r) ==
  ServeHTTP(r) \/ LockStep(r) \/ WriteCounters(r) \/ WriteLatencies(r)

Next == \E r \in Requests : Arrives(r) \/ RequestStep(r)

Spec == Init /\ [][Next]_vars

(* Go schedules every goroutine that can run.  Nothing is assumed of the   *)
(* clients: http.Server has a timeout for the header of a request only, so *)
(* a client may keep a handler waiting for its body forever, or a scrape   *)
(* at any point of its page, under the read lock.                          *)
FairSpec == Spec /\ \A r \in Requests : WF_vars(LockStep(r))

-----------------------------------------------------------------------------
(* Requests that are counted but not timed yet. *)
Between(s) == {r \in Requests : labels[r] = s /\ pc[r] \in {"observe", "store_sample"}}

(* No request is counted twice or missed, and a request is counted before  *)
(* it is timed.                                                            *)
CountsAgree ==
  \A s \in Series : counters[s] = latencies[s] + Cardinality(Between(s))

(* A scrape is a snapshot, however slowly its client reads: in no series   *)
(* has it more samples than requests, although the counters were written   *)
(* first, and none that it wrote is out of date when it gives up the lock. *)
ScrapeIsASnapshot ==
  \A r \in Requests : pc[r] \in {"write_latencies", "inc"} =>
    \A s \in Series :
      /\ page[r].latencies[s] <= page[r].counters[s]
      /\ pc[r] = "write_latencies" => page[r].counters[s] = counters[s]

(* Scrapes and requests never wait for each other forever; nothing but a   *)
(* client that stops reading its scrape for good can keep them waiting,    *)
(* and such a client stops every request of the process at its Inc.  As    *)
(* long as no scrape stalls, each request whose handler has returned is    *)
(* counted and timed, and each scrape that waits for the lock gets in,     *)
(* whatever becomes of the clients and handlers outside the lock.          *)
Writing(r) == pc[r] \in {"write_counters", "write_latencies"}

NoScrapeStalls == \A r \in Requests : []<>~Writing(r)

OnlyStalledScrapesBlock ==
  NoScrapeStalls =>
    \A r \in Requests :
      /\ pc[r] \in MeterPC ~> pc[r] = "done"
      /\ pc[r] \in {"rlock", "blocked"} ~> Writing(r)

-----------------------------------------------------------------------------
(* The inductive invariant.  Whoever is between reading a value and        *)
(* writing it back is alone under the lock, so the value is current;       *)
(* whoever is between the two loops of a scrape keeps all writers out, so  *)
(* the counters that it wrote are.                                         *)

Count == [Series -> Nat]

TypeOK ==
  /\ counters \in Count /\ latencies \in Count
  /\ writer \in Requests \cup {None} /\ readers \in SUBSET Requests
  /\ pc \in [Requests -> {"idle", "done"} \cup InFlightPC]
  /\ labels \in [Requests -> Series \cup {None}]
  /\ old \in [Requests -> Nat]
  /\ page \in [Requests -> [counters : Count, latencies : Count]]

LockInv(r) ==
  /\ r \in readers <=> pc[r] \in {"write_counters", "write_latencies"}
  /\ pc[r] \in {"store_count", "store_sample"} => Locked(r)
  /\ writer = r => pc[r] \in MeterPC

MeterInv(r) ==
  /\ pc[r] \in MeterPC \cup {"done"} => labels[r] \in Series
  /\ pc[r] \notin MeterPC \cup {"done"} => labels[r] = None
  /\ pc[r] = "store_count" => old[r] = counters[labels[r]]
  /\ pc[r] = "store_sample" => old[r] = latencies[labels[r]]

ScrapeInv(r) ==
  /\ pc[r] \in {"idle", "handler"} \cup ScrapePC => page[r].latencies = Zero
  /\ pc[r] = "write_latencies" => page[r].counters = counters
  /\ \A s \in Series : page[r].latencies[s] <= page[r].counters[s]

IndInv ==
  /\ TypeOK
  /\ \A r \in Requests : LockInv(r) /\ MeterInv(r) /\ ScrapeInv(r)
  /\ CountsAgree
=============================================================================
