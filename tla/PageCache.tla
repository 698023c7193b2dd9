------------------------------ MODULE PageCache ------------------------------
(***************************************************************************)
(* The short-lived caches behind the pages: src/routes/_cache.py.          *)
(*                                                                         *)
(* Handlers fill the aggregate cache from worker threads, the earliest     *)
(* date is loaded by a background refresh or after a write, and a write    *)
(* drops both.  Nothing holds a lock: a fill reads the database between    *)
(* looking the key up and storing the value, and the sweep of expired      *)
(* entries deletes one key after the other.                                *)
(*                                                                         *)
(* The database is the number of writes it has seen; a cached value is the *)
(* number it was computed from.  The events of the log tailer are the      *)
(* trickle the time-to-live is for and are left out: every write here is   *)
(* one that goes through write() or the retention task.                    *)
(***************************************************************************)
EXTENDS Integers, FiniteSets

CONSTANTS
    Thread,         \* worker threads with a page's query
    Key,            \* aggregates and their windows
    MaxEntries,     \* _AGG_MAX_ENTRIES
    TTL,            \* how long the callers of each key reuse it: _AGG_TTL_S or
                    \* _BASELINE_TTL_S
    DateTTL,        \* _EARLIEST_DATE_TTL_S
    MaxTime,        \* bound: the clock
    MaxWrites,      \* bound: writes
    EmptyAfter,     \* the writes after which the database holds no visit
    None            \* nothing is cached

Version == 0..MaxWrites
Entry == [at : 0..MaxTime, value : Version]

\* What the constants must be; MCService assumes it.
PageCacheAssumption ==
    /\ MaxEntries \in Nat \ {0} /\ TTL \in [Key -> Nat \ {0}] /\ DateTTL \in Nat
    /\ MaxTime \in Nat /\ MaxWrites \in Nat
    /\ EmptyAfter \subseteq Version
    /\ None \notin Entry

VARIABLES
    clock,          \* time.time()
    version,        \* the database
    began,          \* history: the database when the clock reached a time
    agg,            \* _agg_cache
    earliest,       \* _earliest_date_cache and _earliest_date_cached_at
    fill,           \* the _cached() call of each thread
    load,           \* _load_earliest_date(): by _refresh_soon, and after a write
    writer,         \* the request or task that writes
    told,           \* history: the write whose refresh ended last
    raced           \* history: a fill or load was under way at that refresh

vars == <<clock, version, began, agg, earliest, fill, load, writer, told, raced>>

Resting == [pc |-> "idle"]

Cached == {k \in Key : agg[k] # None}

Init ==
    /\ clock = 0 /\ version = 0 /\ began = [t \in 0..MaxTime |-> 0]
    /\ agg = [k \in Key |-> None] /\ earliest = None
    /\ fill = [t \in Thread |-> Resting]
    /\ load = [l \in {"soon", "write"} |-> Resting]
    /\ writer = "idle" /\ told = 0 /\ raced = FALSE

-----------------------------------------------------------------------------
(* _cached() *)

Expired(k, at, ttl) == agg[k] # None /\ at - agg[k].at >= ttl

\* A miss: the time is taken before the value is produced.
Miss(t, k) ==
    /\ fill[t].pc = "idle"
    /\ agg[k] = None \/ Expired(k, clock, TTL[k])
    /\ fill' = [fill EXCEPT ![t] = [pc |-> "produce", key |-> k, at |-> clock]]
    /\ UNCHANGED <<clock, version, began, agg, earliest, load, writer, told, raced>>

\* Broken variant of Produce: the time is taken when the value is there.
ProduceThenStamp(t) ==
    /\ fill[t].pc = "produce"
    /\ \E at \in fill[t].at..MaxTime :
         fill' = [fill EXCEPT ![t] = [pc |-> "store", key |-> fill[t].key,
                                      at |-> at, value |-> version]]
    /\ UNCHANGED <<clock, version, began, agg, earliest, load, writer, told, raced>>

Produce(t) ==
    /\ fill[t].pc = "produce"
    /\ fill' = [fill EXCEPT ![t] = [pc |-> "store", key |-> fill[t].key,
                                    at |-> fill[t].at, value |-> version]]
    /\ UNCHANGED <<clock, version, began, agg, earliest, load, writer, told, raced>>

\* What the sweep found expired, once the dict is full: by the caller's time-to-live,
\* whatever the other entries have.
Garbage(t) == IF Cardinality(Cached) < MaxEntries THEN {}
              ELSE {k \in Cached : Expired(k, fill[t].at, TTL[fill[t].key])}

Listed(t) ==
    /\ fill[t].pc = "store" /\ Garbage(t) # {}
    /\ fill' = [fill EXCEPT ![t] = [pc |-> "sweep", key |-> @.key, at |-> @.at,
                                    value |-> @.value, todo |-> Garbage(t)]]
    /\ UNCHANGED <<clock, version, began, agg, earliest, load, writer, told, raced>>

\* Listing them fails when the dict changes size meanwhile.
ListFails(t) ==
    /\ fill[t].pc = "store" /\ Cardinality(Cached) >= MaxEntries
    /\ writer = "refresh" \/ \E u \in Thread \ {t} : fill[u].pc \in {"store", "sweep"}
    /\ fill' = [fill EXCEPT ![t] = [pc |-> "error"]]
    /\ UNCHANGED <<clock, version, began, agg, earliest, load, writer, told, raced>>

\* del raises a KeyError when another sweep or a write was there first.
Sweep(t) ==
    /\ fill[t].pc = "sweep" /\ fill[t].todo # {}
    /\ \E k \in fill[t].todo :
         IF agg[k] = None
         THEN /\ fill' = [fill EXCEPT ![t] = [pc |-> "error"]]
              /\ UNCHANGED agg
         ELSE /\ agg' = [agg EXCEPT ![k] = None]
              /\ fill' = [fill EXCEPT ![t].todo = @ \ {k}]
    /\ UNCHANGED <<clock, version, began, earliest, load, writer, told, raced>>

Store(t) ==
    /\ \/ fill[t].pc = "store" /\ Garbage(t) = {}
       \/ fill[t].pc = "sweep" /\ fill[t].todo = {}
    /\ agg' = [agg EXCEPT ![fill[t].key] = [at |-> fill[t].at, value |-> fill[t].value]]
    /\ fill' = [fill EXCEPT ![t] = Resting]
    /\ UNCHANGED <<clock, version, began, earliest, load, writer, told, raced>>

\* The handler answers with a 500, or the caller swallows the error.
Report(t) ==
    /\ fill[t].pc = "error"
    /\ fill' = [fill EXCEPT ![t] = Resting]
    /\ UNCHANGED <<clock, version, began, agg, earliest, load, writer, told, raced>>

-----------------------------------------------------------------------------
(* The earliest date *)

\* A render that finds no date, or an old one, starts one refresh.
RefreshSoon ==
    /\ load["soon"].pc = "idle"
    /\ earliest # None => clock - earliest.at > DateTTL
    /\ load' = [load EXCEPT !["soon"] = [pc |-> "read"]]
    /\ UNCHANGED <<clock, version, began, agg, earliest, fill, writer, told, raced>>

LoadRead(l) ==
    /\ load[l].pc = "read"
    /\ load' = [load EXCEPT ![l] = [pc |-> "keep", value |-> version]]
    /\ UNCHANGED <<clock, version, began, agg, earliest, fill, writer, told, raced>>

\* An empty database leaves what is cached alone.
LoadKeep(l) ==
    /\ load[l].pc = "keep"
    /\ earliest' = IF load[l].value \in EmptyAfter THEN earliest
                   ELSE [at |-> clock, value |-> load[l].value]
    /\ load' = [load EXCEPT ![l] = Resting]
    /\ UNCHANGED <<clock, version, began, agg, fill, writer, told, raced>>

-----------------------------------------------------------------------------
(* write() and the retention task *)

Commit ==
    /\ writer = "idle" /\ version < MaxWrites
    /\ version' = version + 1
    /\ writer' = "refresh"
    /\ UNCHANGED <<clock, began, agg, earliest, fill, load, told, raced>>

\* Broken variant of Clear: the date is reloaded but the summaries stay.
ClearDateOnly ==
    /\ writer = "refresh"
    /\ earliest' = None
    /\ load' = [load EXCEPT !["write"] = [pc |-> "read"]]
    /\ raced' = \/ \E t \in Thread : fill[t].pc # "idle"
                \/ load["soon"].pc # "idle"
    /\ writer' = "loading"
    /\ UNCHANGED <<clock, version, began, agg, fill, told>>

\* refresh_after_write() up to its await.
Clear ==
    /\ writer = "refresh"
    /\ agg' = [k \in Key |-> None] /\ earliest' = None
    /\ load' = [load EXCEPT !["write"] = [pc |-> "read"]]
    /\ raced' = \/ \E t \in Thread : fill[t].pc # "idle"
                \/ load["soon"].pc # "idle"
    /\ writer' = "loading"
    /\ UNCHANGED <<clock, version, began, fill, told>>

Refreshed ==
    /\ writer = "loading" /\ load["write"].pc = "idle"
    /\ writer' = "idle" /\ told' = version
    /\ UNCHANGED <<clock, version, began, agg, earliest, fill, load, raced>>

Tick ==
    /\ clock < MaxTime
    /\ clock' = clock + 1
    /\ began' = [began EXCEPT ![clock + 1] = version]
    /\ UNCHANGED <<version, agg, earliest, fill, load, writer, told, raced>>

Next ==
    \/ \E t \in Thread, k \in Key : Miss(t, k)
    \/ \E t \in Thread : \/ Produce(t) \/ Listed(t) \/ ListFails(t) \/ Sweep(t)
                        \/ Store(t) \/ Report(t)
    \/ RefreshSoon
    \/ \E l \in {"soon", "write"} : LoadRead(l) \/ LoadKeep(l)
    \/ Commit \/ Clear \/ Refreshed
    \/ Tick

Spec == Init /\ [][Next]_vars

-----------------------------------------------------------------------------
(* Properties *)

\* Types.
TypeOK ==
    /\ clock \in 0..MaxTime /\ version \in Version /\ told \in Version
    /\ agg \in [Key -> Entry \cup {None}] /\ earliest \in Entry \cup {None}
    /\ \A t \in Thread : fill[t].pc \in {"idle", "produce", "store", "sweep", "error"}
    /\ \A t \in Thread : fill[t].pc = "sweep" => fill[t].todo \subseteq Key
    /\ writer \in {"idle", "refresh", "loading"} /\ raced \in BOOLEAN

\* A summary is never older than its time-to-live says: it was computed from
\* the database as it was at its timestamp or later, however long the query
\* took and whatever was stored in between.
NeverOlderThanSaid == \A k \in Cached : agg[k].value >= began[agg[k].at]

\* What somebody just changed is seen: after the refresh of a write, unless a
\* query was under way during it, no cached value is older than the write.
QuietWritesAreSeen ==
    ~raced /\ writer = "idle" =>
        /\ \A k \in Cached : agg[k].value >= told
        /\ earliest # None => earliest.value >= told
===============================================================================
