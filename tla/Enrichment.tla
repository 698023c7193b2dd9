------------------------------ MODULE Enrichment ------------------------------
(***************************************************************************)
(* How an address that visits comes to have an ip_intel row, and how the   *)
(* row is kept: the hand-off from the tailer (_queue_new_ips in            *)
(* src/log_processor.py), the enrichment worker (src/enricher.py) with the *)
(* queries it uses (src/queries/intel.py), and the archive operations that *)
(* take rows away and bring them back meanwhile (src/archive.py).          *)
(*                                                                         *)
(* Granularity: selecting a batch, asking about it and storing the answers *)
(* are separate steps, for the worker awaits a thread or the network       *)
(* between them; everything else may happen there.  Each transaction is    *)
(* one step.  What a source says is reduced to the day it was last heard   *)
(* on; pauses and back-off are left out, a worker that waits is one that   *)
(* takes no step.                                                          *)
(***************************************************************************)
EXTENDS Integers, Sequences, FiniteSets, Functions

CONSTANTS
    Addr,           \* addresses
    Source,         \* sources beside ip-api: Shodan, reverse DNS, Tor, DNSBL
    BatchSize,      \* settings.enrichment_batch_size
    QueueMax,       \* maxsize of the queue
    SeenMax,        \* _SEEN_IPS_MAXLEN
    TTL,            \* settings.enrichment_cache_ttl_days
    MaxDay,         \* bound: days that pass
    MaxItems,       \* bound: items in one answer of ip-api
    MaxEvents,      \* bound: batches of lines, archive operations, failures,
                    \* incomplete answers and restarts, together
    None            \* there is no row

Day == 1..MaxDay

\* ip_intel: fetched_at, and the day whose answer a source's columns hold,
\* 0 for the defaults of a new row.
Row == [fetched : Day, heard : [Source -> 0..MaxDay]]

ASSUME EnrichmentAssumption ==
    /\ BatchSize \in Nat \ {0} /\ QueueMax \in Nat \ {0} /\ SeenMax \in Nat \ {0}
    /\ TTL \in Nat /\ MaxDay \in Nat \ {0}
    /\ MaxItems \in Nat /\ MaxEvents \in Nat /\ IsFiniteSet(Addr)
    /\ None \notin Row

VARIABLES
    now,            \* the day
    visits,         \* addresses with rows in visits
    archived,       \* addresses in an archive
    shelf,          \* the ip_intel row an archive holds
    intel,          \* ip_intel
    unpurged,       \* a pass archived and has not purged yet
    handing,        \* batch_ips the tailer still has to hand over
    seen,           \* seen_ips
    order,          \* seen_ips_order
    queue,          \* new_ips_queue
    pending,        \* the worker's list
    worker,         \* what the worker is waiting for, and what it holds
    events          \* how many of the bounded events happened

tailerVars == <<handing, seen, order>>
storeVars == <<visits, archived, shelf, intel, unpurged>>
vars == <<now, storeVars, tailerVars, queue, pending, worker, events>>

Idle == [pc |-> "idle", batch |-> {}, day |-> 0, found |-> <<>>, failed |-> {}]

Known == {a \in Addr : intel[a] # None}
Stale == {a \in Known : intel[a].fetched + TTL < now}

Init ==
    /\ now = 1
    /\ visits = {} /\ archived = {} /\ unpurged = FALSE
    /\ shelf = [a \in Addr |-> None] /\ intel = [a \in Addr |-> None]
    /\ handing = {} /\ seen = {} /\ order = <<>> /\ queue = <<>>
    /\ pending = <<>> /\ worker = Idle
    /\ events = 0

-----------------------------------------------------------------------------
(* The tailer *)

\* A batch of lines was committed; its addresses are handed over next.
Commit(ips) ==
    /\ handing = {} /\ ips # {} /\ events < MaxEvents
    /\ visits' = visits \cup ips
    /\ handing' = ips
    /\ events' = events + 1
    /\ UNCHANGED <<now, archived, shelf, intel, unpurged, seen, order, queue,
                   pending, worker>>

\* Broken variant of Remember: the set forgets nothing.
RememberWithoutEviction(a) ==
    LET full == Len(order) = SeenMax
    IN  /\ seen' = seen \cup {a}
        /\ order' = Append(IF full THEN Tail(order) ELSE order, a)

\* seen_ips mirrors the deque, which forgets its oldest entry when it is full.
Remember(a) ==
    LET full == Len(order) = SeenMax
    IN  /\ seen' = (IF full THEN seen \ {Head(order)} ELSE seen) \cup {a}
        /\ order' = Append(IF full THEN Tail(order) ELSE order, a)

\* Broken variant of Offer: the put never waits.
OfferUnbounded(a) == queue' = Append(queue, a)

\* The put waits for room, and gives up after _QUEUE_PUT_TIMEOUT_S.
Offer(a) ==
    IF Len(queue) < QueueMax THEN queue' = Append(queue, a) ELSE queue' = queue

HandOver(a) ==
    /\ a \in handing
    /\ handing' = handing \ {a}
    /\ IF a \in seen THEN UNCHANGED <<seen, order, queue>>
                     ELSE Remember(a) /\ Offer(a)
    /\ UNCHANGED <<now, storeVars, pending, worker, events>>

-----------------------------------------------------------------------------
(* The worker *)

\* SELECT ... LIMIT n without an ORDER BY: any n of them, or all.
UpTo(n, S) == {T \in SUBSET S : /\ Cardinality(T) <= n
                                /\ T = S \/ Cardinality(T) = n}

Room(ips) == BatchSize - Cardinality(ips)

\* Broken variant of GetUnenriched: the database is not asked.
GetUnenrichedNone == {}

GetUnenriched == visits \ Known

\* Broken variant of Wanted: nothing is checked again.
WantedFromQueue(ips) == ips

\* Broken variant of Wanted: only missing rows count.
WantedNeverEnriched(ips) == {a \in ips : intel[a] = None}

\* What is fresh already is dropped, wherever it came from.
Wanted(ips) == {a \in ips : intel[a] = None \/ a \in Stale}

\* _select_batch(): the list, topped up from the database.  A list that holds
\* an address twice is topped up by one less.
Select ==
    LET n       == IF Len(queue) < BatchSize - Len(pending) THEN Len(queue)
                                                            ELSE BatchSize - Len(pending)
        drained == pending \o SubSeq(queue, 1, n)
        twice   == Len(drained) - Cardinality(Range(drained))
    IN  /\ worker.pc = "idle"
        /\ queue' = SubSeq(queue, n + 1, Len(queue))
        /\ \E new \in UpTo(Room(Range(drained)) - twice, GetUnenriched) :
             LET list == Range(drained) \cup new
             IN  \E old \in UpTo(Room(list) - twice, Stale) :
                   LET batch == Wanted(list \cup old)
                   IN  worker' = IF batch = {} THEN Idle
                                 ELSE [Idle EXCEPT !.pc = "ask", !.batch = batch]
        /\ pending' = <<>>
        /\ UNCHANGED <<now, storeVars, tailerVars, events>>

\* The database is locked: what was drained stays in the list.
SelectFails ==
    LET n == IF Len(queue) < BatchSize - Len(pending) THEN Len(queue)
                                                      ELSE BatchSize - Len(pending)
    IN  /\ worker.pc = "idle" /\ events < MaxEvents
        /\ queue' = SubSeq(queue, n + 1, Len(queue))
        /\ pending' = pending \o SubSeq(queue, 1, n)
        /\ events' = events + 1
        /\ UNCHANGED <<now, storeVars, tailerVars, worker>>

\* An item counts for an address the batch asked about, the first time only.
Counted(items, status) ==
    {a \in worker.batch :
        \E i \in DOMAIN items : /\ items[i] = <<a, status>>
                                /\ \A j \in 1..i - 1 : items[j][1] # a}

Items == UNION {[1..n -> Addr \X {"success", "fail"}] : n \in 0..MaxItems}

\* ip-api answers, and each source does or does not about each address; the
\* day is taken when all of them are through.
Answer ==
    /\ worker.pc = "ask"
    /\ \E items \in Items :
         LET good == Counted(items, "success")
             bad  == Counted(items, "fail")
             all  == worker.batch \subseteq good \cup bad
         IN  /\ all \/ events < MaxEvents
             /\ events' = IF all THEN events ELSE events + 1
             /\ \E found \in [good -> SUBSET Source] :
                  worker' = IF good \cup bad = {} THEN Idle
                            ELSE [worker EXCEPT !.pc = "store", !.day = now,
                                                !.found = found, !.failed = bad]
    /\ UNCHANGED <<now, storeVars, tailerVars, queue, pending>>

\* No usable answer, or a 429: the batch is forgotten.
AskFails ==
    /\ worker.pc = "ask" /\ events < MaxEvents
    /\ worker' = Idle
    /\ events' = events + 1
    /\ UNCHANGED <<now, storeVars, tailerVars, queue, pending>>

\* Broken variant of Upsert: silence is written as an answer.
UpsertDefaults(a, heard, day) ==
    [fetched |-> day, heard |-> [s \in Source |-> IF s \in heard THEN day ELSE 0]]

\* upsert_ip_intel(): only the columns of a source that answered.
Upsert(a, heard, day) ==
    IF intel[a] = None
    THEN [fetched |-> day, heard |-> [s \in Source |-> IF s \in heard THEN day ELSE 0]]
    ELSE [fetched |-> day,
          heard   |-> [s \in Source |-> IF s \in heard THEN day ELSE intel[a].heard[s]]]

\* mark_enrichment_failed(): a stub, or only the day of the row.
MarkFailed(a, day) ==
    IF intel[a] = None THEN [fetched |-> day, heard |-> [s \in Source |-> 0]]
                       ELSE [intel[a] EXCEPT !.fetched = day]

\* What was found is of the day it was found, a failure of the day it is written.
Persist ==
    /\ worker.pc = "store"
    /\ intel' = [a \in Addr |->
                   IF a \in DOMAIN worker.found THEN Upsert(a, worker.found[a], worker.day)
                   ELSE IF a \in worker.failed THEN MarkFailed(a, now)
                   ELSE intel[a]]
    /\ worker' = Idle
    /\ UNCHANGED <<now, visits, archived, shelf, unpurged, tailerVars, queue,
                   pending, events>>

PersistFails ==
    /\ worker.pc = "store" /\ events < MaxEvents
    /\ worker' = Idle
    /\ events' = events + 1
    /\ UNCHANGED <<now, storeVars, tailerVars, queue, pending>>

-----------------------------------------------------------------------------
(* Archive operations, as far as they touch ip_intel *)

\* purge_orphaned_intel()
Purged(rows, present) == [a \in Addr |-> IF a \in present THEN rows[a] ELSE None]

\* archive_month(): the zip takes a copy of the row, the visits go.  The purge
\* is a later transaction of the same pass.
Archive(a) ==
    /\ events < MaxEvents /\ a \in visits
    /\ visits' = visits \ {a} /\ archived' = archived \cup {a}
    /\ shelf' = [shelf EXCEPT ![a] = intel[a]]
    /\ unpurged' = TRUE
    /\ events' = events + 1
    /\ UNCHANGED <<now, intel, tailerVars, queue, pending, worker>>

PassPurges ==
    /\ unpurged
    /\ intel' = Purged(intel, visits)
    /\ unpurged' = FALSE
    /\ UNCHANGED <<now, visits, archived, shelf, tailerVars, queue, pending,
                   worker, events>>

\* Broken variant of InsertMissing: the archived row always wins.
InsertArchived(a) == IF shelf[a] = None THEN intel[a] ELSE shelf[a]

\* restore_month(): a row only where there is none.
InsertMissing(a) == IF intel[a] = None THEN shelf[a] ELSE intel[a]

Restore(a) ==
    /\ events < MaxEvents /\ a \in archived
    /\ visits' = visits \cup {a}
    /\ intel' = [intel EXCEPT ![a] = InsertMissing(a)]
    /\ events' = events + 1
    /\ UNCHANGED <<now, archived, shelf, unpurged, tailerVars, queue, pending,
                   worker>>

\* release_month(), which needs the archive, and delete_month(), which does not,
\* purge in their own transaction.
Release(a) ==
    /\ events < MaxEvents /\ a \in visits
    /\ visits' = visits \ {a}
    /\ intel' = Purged(intel, visits \ {a})
    /\ events' = events + 1
    /\ UNCHANGED <<now, archived, shelf, unpurged, tailerVars, queue, pending,
                   worker>>

-----------------------------------------------------------------------------

\* The process ends and starts again: everything in memory is gone.
Restart ==
    /\ events < MaxEvents
    /\ handing' = {} /\ seen' = {} /\ order' = <<>> /\ queue' = <<>>
    /\ pending' = <<>> /\ worker' = Idle /\ unpurged' = FALSE
    /\ events' = events + 1
    /\ UNCHANGED <<now, visits, archived, shelf, intel>>

DayPasses ==
    /\ now < MaxDay
    /\ now' = now + 1
    /\ UNCHANGED <<storeVars, tailerVars, queue, pending, worker, events>>

Next ==
    \/ \E ips \in SUBSET Addr : Commit(ips)
    \/ \E a \in Addr : HandOver(a)
    \/ Select \/ SelectFails
    \/ Answer \/ AskFails
    \/ Persist \/ PersistFails
    \/ \E a \in Addr : Archive(a) \/ Restore(a) \/ Release(a)
    \/ PassPurges
    \/ Restart
    \/ DayPasses

\* The tailer and the worker are supervised tasks that loop for ever.  Every
\* action that may fail instead is bounded by events, so that an answer to
\* everything asked comes in the end.
Fairness ==
    /\ WF_vars(\E a \in Addr : HandOver(a))
    /\ WF_vars(Select) /\ WF_vars(Answer) /\ WF_vars(Persist)

Spec == Init /\ [][Next]_vars /\ Fairness

-----------------------------------------------------------------------------
(* Properties *)

\* Types, and what the worker holds in each of its states.
TypeOK ==
    /\ now \in Day
    /\ visits \subseteq Addr /\ archived \subseteq Addr /\ unpurged \in BOOLEAN
    /\ shelf \in [Addr -> Row \cup {None}] /\ intel \in [Addr -> Row \cup {None}]
    /\ handing \subseteq Addr /\ seen \subseteq Addr
    /\ order \in Seq(Addr) /\ Len(order) <= SeenMax
    /\ queue \in Seq(Addr) /\ Len(queue) <= QueueMax
    /\ pending \in Seq(Addr) /\ Len(pending) <= BatchSize
    /\ worker.pc \in {"idle", "ask", "store"}
    /\ worker.batch \subseteq Addr /\ Cardinality(worker.batch) <= BatchSize
    /\ (worker.pc = "idle") <=> (worker = Idle)
    /\ worker.pc = "store" => /\ worker.day \in Day
                              /\ worker.found \in [DOMAIN worker.found -> SUBSET Source]
                              /\ DOMAIN worker.found \cap worker.failed = {}
    /\ events \in 0..MaxEvents

\* The set the tailer tests and the deque that bounds it hold the same
\* addresses, each once: nothing is kept out of the queue for ever by an entry
\* that can no longer be evicted (the comment in _queue_new_ips).
SeenMirrorsOrder ==
    /\ seen = Range(order)
    /\ \A i, j \in DOMAIN order : order[i] = order[j] => i = j

\* A restart queues every active address again, and each costs quota: an
\* address is asked about only if its row is missing or past the TTL, unless
\* a restore put a row there while the question was under way.
NoEarlyQuestion ==
    \A a \in worker.batch : intel[a] = None \/ a \in Stale \/ intel[a] = shelf[a]

\* An outage of a source is not an answer: what was heard from a source stays
\* in the row until the same source is heard again, across failed and partial
\* rounds, stubs, purges and restores (the docstring of upsert_ip_intel).
OutageErasesNothing ==
    [][\A a \in Known : intel'[a] # None =>
          \A s \in Source : intel'[a].heard[s] >= intel[a].heard[s]]_vars

\* A row never goes back in time, whoever writes it: an archived row fills a
\* gap and does not replace what was learnt since (insert_missing_intel).
RowsOnlyGetFresher ==
    [][\A a \in Known : intel'[a] # None => intel'[a].fetched >= intel[a].fetched]_vars

\* Every visitor is looked up in the end, although a full queue drops
\* addresses, seen_ips keeps them from being offered again and a restart
\* forgets the queue.
EveryVisitorIsLookedUp ==
    \A a \in Addr : a \in visits ~> (a \in Known \/ a \notin visits)

\* A row past its TTL is refreshed in the end, although addresses without a
\* row go first.
StaleRowsAreRefreshed ==
    \A a \in Addr : a \in Stale ~> a \notin Stale
===============================================================================
