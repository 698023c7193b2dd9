----------------------------- MODULE ServiceProofs -----------------------------
(***************************************************************************)
(* What holds of the parts of the service for every set of tasks, threads, *)
(* processes, rows and addresses and for every bound.  Each part has an    *)
(* inductive invariant of its own; the steps of the others leave it alone. *)
(***************************************************************************)
EXTENDS MCService, FiniteSetTheorems, FunctionTheorems, Sequences, TLAPS

\* A step of the whole is a step of one part, and none of any other.
LEMMA PartsStep ==
    ASSUME [Next]_vars
    PROVE  /\ [PageCache!Next]_pageVars /\ [Backup!Next]_backupVars
           /\ [Pacing!Next]_paceVars /\ [Export!Next]_exportVars
           /\ [Shutdown!Next]_serviceVars /\ [Upgrade!Next]_upgradeVars
           /\ part' = part
BY DEF Next, vars, RunPages, RunBackup, OnlyBackup, RunPacing, RunExport, RunShutdown,
       RunUpgrade

-----------------------------------------------------------------------------
(* The end of the service *)

\* A thread whose task went through run_db() has work left only while the task
\* works, and a service that is down has no task left.
ShutdownInv ==
    /\ Shutdown!TypeOK
    /\ \A t \in Shielded : task[t] # "working" => thread[t] = 0
    /\ service = "down" => \A t \in Task : task[t] = "ended"

\* At the start no thread has work left.
LEMMA ShutdownInit == Init => ShutdownInv
BY ServiceAssumption
   DEF Init, ShutdownInv, Shutdown!Init, Shutdown!TypeOK, Shutdown!ShutdownAssumption

\* Only a task that works starts a thread, and it waits for the one it started.
LEMMA ShutdownStep ==
    ASSUME ShutdownInv, [Shutdown!Next]_serviceVars
    PROVE  ShutdownInv'
<1> USE ServiceAssumption DEF ShutdownInv, Shutdown!TypeOK, Shutdown!ShutdownAssumption
<1>1. ASSUME NEW t \in Task, Shutdown!Begin(t) PROVE ShutdownInv'
  BY <1>1 DEF Shutdown!Begin
<1>2. ASSUME NEW t \in Task, Shutdown!Commit(t) PROVE ShutdownInv'
  BY <1>2 DEF Shutdown!Commit
<1>3. ASSUME NEW t \in Task, Shutdown!Fail(t) PROVE ShutdownInv'
  BY <1>3 DEF Shutdown!Fail
<1>4. ASSUME NEW t \in Task, Shutdown!Finish(t) PROVE ShutdownInv'
  BY <1>4 DEF Shutdown!Finish
<1>5. ASSUME NEW t \in Task, Shutdown!Unwind(t) PROVE ShutdownInv'
  BY <1>5 DEF Shutdown!Unwind
<1>6. CASE Shutdown!Stop
  BY <1>6 DEF Shutdown!Stop
<1>7. CASE Shutdown!Down
  BY <1>7 DEF Shutdown!Down
<1>8. CASE UNCHANGED serviceVars
  BY <1>8 DEF serviceVars
<1> QED BY <1>1, <1>2, <1>3, <1>4, <1>5, <1>6, <1>7, <1>8 DEF Shutdown!Next

\* "Makes cancellation mean what it says" (run_db): nothing that was started
\* through run_db() is committed after its task or the service is gone.
THEOREM ShutdownIsClean == Spec => []NothingLandsLater
<1>1. ShutdownInv /\ [Next]_vars => ShutdownInv'
  BY PartsStep, ShutdownStep
<1>2. ShutdownInv => NothingLandsLater
  BY ServiceAssumption
     DEF ShutdownInv, NothingLandsLater, Shutdown!NothingLandsLater,
         Shutdown!ShutdownAssumption
<1> QED BY ShutdownInit, <1>1, <1>2, PTL DEF Spec

-----------------------------------------------------------------------------
(* The page caches *)

Version == PageCache!Version
Instant == 0..MaxTime

\* What a _cached() call and a load of the earliest date hold in each state.
Fill == [pc : {"idle", "error"}]
        \cup [pc : {"produce"}, key : Key, at : Instant]
        \cup [pc : {"store"}, key : Key, at : Instant, value : Version]
        \cup [pc : {"sweep"}, key : Key, at : Instant, value : Version, todo : SUBSET Key]
Load == [pc : {"idle", "read"}] \cup [pc : {"keep"}, value : Version]

PageTypes ==
    /\ clock \in Instant /\ version \in Version
    /\ began \in [Instant -> Version]
    /\ agg \in [Key -> PageCache!Entry \cup {None}]
    /\ earliest \in PageCache!Entry \cup {None}
    /\ fill \in [Thread -> Fill] /\ load \in [{"soon", "write"} -> Load]
    /\ writer \in {"idle", "refresh", "loading"}
    /\ told \in Version /\ raced \in BOOLEAN

\* No time lies ahead of the clock, and what is stored, or about to be, was read
\* from the database as it was at its time or later.
PageTimes ==
    /\ \A at \in Instant : at <= clock => began[at] <= version
    /\ \A k \in Key : agg[k] # None => /\ agg[k].at <= clock
                                       /\ agg[k].value >= began[agg[k].at]
    /\ \A t \in Thread :
         /\ fill[t].pc \in {"produce", "store", "sweep"} => fill[t].at <= clock
         /\ fill[t].pc \in {"store", "sweep"} => fill[t].value >= began[fill[t].at]

\* The write whose traces must be gone: the one being refreshed for, else the last.
Floor == IF writer = "loading" THEN version ELSE told

\* Unless a query was under way at the refresh, nothing that is cached or about to
\* be is older than that write.
PageValues ==
    /\ told <= version
    /\ ~raced /\ writer # "refresh" =>
         /\ \A k \in Key : agg[k] # None => agg[k].value >= Floor
         /\ earliest # None => earliest.value >= Floor
         /\ \A t \in Thread : fill[t].pc \in {"store", "sweep"} => fill[t].value >= Floor
         /\ \A l \in {"soon", "write"} : load[l].pc = "keep" => load[l].value >= Floor

PageInv == PageTypes /\ PageTimes /\ PageValues

\* At the start there are no requests and no entries.
LEMMA PageInit == Init => PageInv
<1> USE ServiceAssumption DEF PageCache!PageCacheAssumption, PageCache!Version, Version, Instant
<1> SUFFICES ASSUME PageCache!Init PROVE PageInv
  BY DEF Init
<1> USE DEF PageCache!Init
<1>1. PageTypes
  <2>1. PageCache!Resting \in Fill /\ PageCache!Resting \in Load
    BY DEF Fill, Load, PageCache!Resting
  <2>2. fill \in [Thread -> Fill] /\ load \in [{"soon", "write"} -> Load]
    BY <2>1
  <2>3. agg \in [Key -> PageCache!Entry \cup {None}] /\ earliest \in PageCache!Entry \cup {None}
    OBVIOUS
  <2>4. 0 \in Version /\ 0 \in Instant
    OBVIOUS
  <2> QED BY <2>2, <2>3, <2>4 DEF PageTypes
<1>2. PageTimes
  BY DEF PageTimes, PageCache!Resting
<1>3. PageValues
  BY DEF PageValues, Floor, PageCache!Resting
<1> QED BY <1>1, <1>2, <1>3 DEF PageInv

\* Fills, sweeps, clears and writes keep every entry at or above the version it may claim.
LEMMA PageStep ==
    ASSUME PageInv, [PageCache!Next]_pageVars
    PROVE  PageInv'
<1> USE ServiceAssumption
    DEF PageCache!PageCacheAssumption, PageCache!Version, Version, Instant, PageInv,
        PageTypes, PageTimes, PageValues, Floor, Fill, Load, PageCache!Entry,
        PageCache!Resting
<1>1. ASSUME NEW t \in Thread, NEW k \in Key, PageCache!Miss(t, k) PROVE PageInv'
  BY SMTT(30), <1>1 DEF PageCache!Miss
<1>2. ASSUME NEW t \in Thread, PageCache!Produce(t) PROVE PageInv'
  <2>1. fill'[t] = [pc |-> "store", key |-> fill[t].key, at |-> fill[t].at, value |-> version]
    BY <1>2 DEF PageCache!Produce
  <2>2. fill[t].key \in Key /\ fill[t].at \in Instant /\ fill[t].at <= clock
    BY <1>2 DEF PageCache!Produce
  <2>3. fill'[t] \in Fill
    BY <2>1, <2>2
  <2>4. fill' = [fill EXCEPT ![t] = fill'[t]]
    BY <1>2, <2>1 DEF PageCache!Produce
  <2>5. UNCHANGED <<clock, version, began, agg, earliest, load, writer, told, raced>>
    BY <1>2 DEF PageCache!Produce
  <2>6. \A u \in Thread \ {t} : fill'[u] = fill[u]
    BY <2>4
  <2>7. /\ fill'[t].pc = "store" /\ fill'[t].at = fill[t].at /\ fill'[t].value = version
        /\ fill'[t].value >= began[fill'[t].at]
    BY <2>1, <2>2, <2>5
  <2>8. PageTypes'
    BY <2>3, <2>4, <2>5
  <2>9. PageTimes'
    BY <2>2, <2>5, <2>6, <2>7
  <2>10. PageValues'
    <3>1. Floor' = Floor /\ version >= Floor
      BY <2>5
    <3>2. SUFFICES ASSUME ~raced, writer # "refresh"
                   PROVE  /\ told <= version
                          /\ \A k \in Key : agg[k] # None => agg[k].value >= Floor
                          /\ earliest # None => earliest.value >= Floor
                          /\ \A u \in Thread :
                               fill'[u].pc \in {"store", "sweep"} => fill'[u].value >= Floor
                          /\ \A l \in {"soon", "write"} :
                               load[l].pc = "keep" => load[l].value >= Floor
      BY <2>5, <3>1
    <3> QED BY <2>6, <2>7, <3>1, <3>2
  <2> QED BY <2>8, <2>9, <2>10
<1>3. ASSUME NEW t \in Thread, PageCache!Listed(t) PROVE PageInv'
  BY <1>3 DEF PageCache!Listed, PageCache!Garbage, PageCache!Cached
<1>4. ASSUME NEW t \in Thread, PageCache!ListFails(t) PROVE PageInv'
  BY <1>4 DEF PageCache!ListFails
<1>5. ASSUME NEW t \in Thread, PageCache!Sweep(t) PROVE PageInv'
  <2>1. PICK k \in fill[t].todo :
           IF agg[k] = None
           THEN fill' = [fill EXCEPT ![t] = [pc |-> "error"]] /\ UNCHANGED agg
           ELSE /\ agg' = [agg EXCEPT ![k] = None]
                /\ fill' = [fill EXCEPT ![t].todo = @ \ {k}]
    BY <1>5 DEF PageCache!Sweep
  <2>2. UNCHANGED <<clock, version, began, earliest, load, writer, told, raced>>
    BY <1>5 DEF PageCache!Sweep
  <2>3. k \in Key /\ fill[t] \in [pc : {"sweep"}, key : Key, at : Instant, value : Version,
                                 todo : SUBSET Key]
    BY <1>5 DEF PageCache!Sweep
  <2>4. CASE agg[k] = None
    <3>1. fill' = [fill EXCEPT ![t] = [pc |-> "error"]] /\ UNCHANGED agg
      BY <2>1, <2>4
    <3> QED BY <2>2, <3>1
  <2>5. CASE agg[k] # None
    <3>1. /\ agg' = [agg EXCEPT ![k] = None]
          /\ fill' = [fill EXCEPT ![t].todo = @ \ {k}]
      BY <2>1, <2>5
    <3>2. /\ fill'[t] \in Fill /\ fill'[t].pc = "sweep"
          /\ fill'[t].at = fill[t].at /\ fill'[t].value = fill[t].value
      BY <2>3, <3>1
    <3>3. \A u \in Thread \ {t} : fill'[u] = fill[u]
      BY <3>1
    <3>4. PageTypes'
      BY <2>2, <2>3, <3>1, <3>2, <3>3
    <3>5. \A j \in Key : agg'[j] # None => agg'[j] = agg[j] /\ agg[j] # None
      BY <3>1, <2>3
    <3>6. fill[t].pc = "sweep"
      BY <2>3
    <3>7. PageTimes'
      BY <2>2, <2>3, <3>2, <3>3, <3>5, <3>6
    <3>8. PageValues'
      BY <2>2, <2>3, <3>2, <3>3, <3>5, <3>6
    <3> QED BY <3>4, <3>7, <3>8
  <2> QED BY <2>4, <2>5
<1>6. ASSUME NEW t \in Thread, PageCache!Store(t) PROVE PageInv'
  BY <1>6 DEF PageCache!Store
<1>7. ASSUME NEW t \in Thread, PageCache!Report(t) PROVE PageInv'
  BY <1>7 DEF PageCache!Report
<1>8. CASE PageCache!RefreshSoon
  BY <1>8 DEF PageCache!RefreshSoon
<1>9. ASSUME NEW l \in {"soon", "write"}, PageCache!LoadRead(l) PROVE PageInv'
  BY <1>9 DEF PageCache!LoadRead
<1>10. ASSUME NEW l \in {"soon", "write"}, PageCache!LoadKeep(l) PROVE PageInv'
  BY <1>10 DEF PageCache!LoadKeep
<1>11. CASE PageCache!Commit
  BY <1>11 DEF PageCache!Commit
<1>12. CASE PageCache!Clear
  BY <1>12 DEF PageCache!Clear
<1>13. CASE PageCache!Refreshed
  BY <1>13 DEF PageCache!Refreshed
<1>14. CASE PageCache!Tick
  BY SMTT(30), <1>14 DEF PageCache!Tick
<1>15. CASE UNCHANGED pageVars
  BY <1>15 DEF pageVars
<1> QED BY <1>1, <1>2, <1>3, <1>4, <1>5, <1>6, <1>7, <1>8, <1>9, <1>10, <1>11, <1>12,
           <1>13, <1>14, <1>15
        DEF PageCache!Next

\* A cached summary was computed from the database as it was at its timestamp or
\* later, for any number of threads, keys and writes (_cached).
THEOREM SummariesAreHonest == Spec => []NeverOlderThanSaid
<1>1. PageInv /\ [Next]_vars => PageInv'
  BY PartsStep, PageStep
<1>2. PageInv => NeverOlderThanSaid
  BY DEF PageInv, PageTimes, NeverOlderThanSaid, PageCache!NeverOlderThanSaid,
         PageCache!Cached
<1> QED BY PageInit, <1>1, <1>2, PTL DEF Spec

\* After the refresh of a write that no query overlapped, no cached value is older
\* than the write (refresh_after_write).
THEOREM WritesAreSeen == Spec => []QuietWritesAreSeen
<1>1. PageInv /\ [Next]_vars => PageInv'
  BY PartsStep, PageStep
<1>2. PageInv => QuietWritesAreSeen
  BY DEF PageInv, PageValues, Floor, QuietWritesAreSeen, PageCache!QuietWritesAreSeen,
         PageCache!Cached
<1> QED BY PageInit, <1>1, <1>2, PTL DEF Spec

-----------------------------------------------------------------------------
(* The pacing of the providers *)

\* An instance has its own copy of the cardinality; the two agree.
LEMMA PacingCardinality ==
    ASSUME NEW S
    PROVE  Cardinality(S) = Pacing!Cardinality(S)
BY Zenon DEF Pacing!Cardinality, Cardinality

Turns == {l \in Lookup : lookup[l].pc = "turn"}

PaceTypes ==
    /\ time \in Nat /\ nextAt \in Nat /\ resumeAt \in Nat
    /\ lookup \in [Lookup -> [pc : {"queued", "turn", "asked", "answered", "silent"},
                              at : Nat]]
    /\ lastSent \in Nat \cup {-1} /\ overrun \in Nat
    /\ tor \in [exits : {"none", "some", "empty"}, loaded : Nat, failed : Nat]
    /\ asked \in Nat \cup {-1}

\* The turns lie ahead, an interval apart from each other, from the request sent
\* last and from the next one to be given.
TurnsApart ==
    /\ \A l \in Turns :
         /\ time <= lookup[l].at /\ lookup[l].at + Interval <= nextAt
         /\ lastSent >= 0 => lastSent + Interval <= lookup[l].at
         /\ \A m \in Turns \ {l} : \/ lookup[l].at + Interval <= lookup[m].at
                                   \/ lookup[m].at + Interval <= lookup[l].at
    /\ lastSent >= 0 => lastSent + Interval <= nextAt
    /\ ~crowded

\* The failure that holds the next download back is the one the history noted.
FailureKept == /\ asked >= 0 => asked > 0 /\ tor.failed = asked
               /\ ~hasty

\* What may still be sent in a cooldown is among those whom the semaphore admitted
\* beside the lookup that was refused.
OverrunCounted ==
    /\ IsFiniteSet(Pacing!Inside) /\ Cardinality(Pacing!Inside) <= Concurrency
    /\ overrun < Concurrency
    /\ Pacing!InCooldown => overrun + Cardinality(Turns) < Concurrency

PaceInv == PaceTypes /\ TurnsApart /\ FailureKept /\ OverrunCounted

\* At the start no worker holds the gate and nothing was asked.
LEMMA PaceInit == Init => PaceInv
<1> USE ServiceAssumption DEF Pacing!PacingAssumption
<1> SUFFICES ASSUME Pacing!Init PROVE PaceInv
  BY DEF Init
<1> USE DEF Pacing!Init, Pacing!Queued
<1>1. PaceTypes
  BY DEF PaceTypes
<1>2. Turns = {} /\ Pacing!Inside = {}
  BY DEF Turns, Pacing!Inside
<1>3. TurnsApart /\ FailureKept
  BY <1>2 DEF TurnsApart, FailureKept
<1>4. OverrunCounted
  BY <1>2, FS_EmptySet DEF OverrunCounted, Pacing!InCooldown
<1> QED BY <1>1, <1>3, <1>4 DEF PaceInv

\* A lookup that ends leaves the semaphore, and no turn of its own behind.
LEMMA LookupEnds ==
    ASSUME PaceInv, NEW l \in Lookup, NEW how \in {"answered", "silent"},
           Pacing!End(l, how)
    PROVE  /\ lookup' \in [Lookup -> [pc : {"queued", "turn", "asked", "answered", "silent"},
                                      at : Nat]]
           /\ Turns' = Turns \ {l} /\ Pacing!Inside' = Pacing!Inside \ {l}
           /\ \A m \in Turns' : m \in Turns /\ lookup'[m] = lookup[m]
BY DEF PaceInv, PaceTypes, Pacing!End, Turns, Pacing!Inside

\* A turn at the gate, an answer, a push-back or a cancellation keeps the turns apart.
LEMMA PaceStep ==
    ASSUME PaceInv, [Pacing!Next]_paceVars
    PROVE  PaceInv'
<1> USE ServiceAssumption DEF Pacing!PacingAssumption
<1>0. /\ PaceTypes /\ TurnsApart /\ FailureKept /\ OverrunCounted
      /\ Turns \subseteq Pacing!Inside
      /\ IsFiniteSet(Turns) /\ Cardinality(Turns) \in Nat
      /\ Cardinality(Pacing!Inside) \in Nat
      /\ \A m \in Turns : m \in Lookup /\ lookup[m].at \in Nat
      /\ {time, nextAt} \subseteq Nat /\ lastSent \in Nat \cup {-1} /\ Interval \in Nat \ {0}
  <2>1. PaceTypes /\ TurnsApart /\ FailureKept /\ OverrunCounted
    BY DEF PaceInv
  <2>2. Turns \subseteq Pacing!Inside /\ IsFiniteSet(Pacing!Inside)
    BY <2>1 DEF Turns, Pacing!Inside, OverrunCounted
  <2>3. /\ \A m \in Turns : m \in Lookup /\ lookup[m].at \in Nat
        /\ {time, nextAt} \subseteq Nat /\ lastSent \in Nat \cup {-1}
    BY <2>1 DEF Turns, PaceTypes
  <2> QED BY <2>1, <2>2, <2>3, FS_Subset, FS_CardinalityType
<1>1. ASSUME NEW l \in Lookup, NEW how \in {"answered", "silent"}, Pacing!End(l, how),
             UNCHANGED <<time, nextAt, lastSent, crowded, tor, asked, hasty>>,
             resumeAt' \in Nat, overrun' \in Nat, overrun' < Concurrency,
             Pacing!InCooldown' => overrun' + Cardinality(Turns \ {l}) < Concurrency
      PROVE  PaceInv'
  <2>1. /\ lookup' \in [Lookup -> [pc : {"queued", "turn", "asked", "answered", "silent"},
                                   at : Nat]]
        /\ Turns' = Turns \ {l} /\ Pacing!Inside' = Pacing!Inside \ {l}
        /\ \A m \in Turns' : m \in Turns /\ lookup'[m] = lookup[m]
    BY <1>1, LookupEnds
  <2>2. PaceTypes'
    BY <1>0, <1>1, <2>1 DEF PaceTypes
  <2>3. TurnsApart'
    BY <1>0, <1>1, <2>1 DEF TurnsApart
  <2>4. FailureKept'
    BY <1>0, <1>1 DEF FailureKept
  <2>5. IsFiniteSet(Pacing!Inside') /\ Cardinality(Pacing!Inside') <= Concurrency
    <3>1. IsFiniteSet(Pacing!Inside) /\ Cardinality(Pacing!Inside) <= Concurrency
      BY <1>0 DEF OverrunCounted
    <3> HIDE DEF Pacing!PacingAssumption
    <3>2. /\ IsFiniteSet(Pacing!Inside \ {l})
          /\ Cardinality(Pacing!Inside \ {l}) <= Cardinality(Pacing!Inside)
      BY <3>1, FS_Subset
    <3> QED BY <1>0, <2>1, <3>1, <3>2, FS_CardinalityType, ServiceAssumption DEF Pacing!PacingAssumption
  <2>6. OverrunCounted'
    BY <1>1, <2>1, <2>5 DEF OverrunCounted
  <2> QED BY <2>2, <2>3, <2>4, <2>6 DEF PaceInv
<1>2. ASSUME NEW l \in Lookup, Pacing!SkipInCooldown(l) PROVE PaceInv'
  <2>1. l \notin Turns
    BY <1>2 DEF Pacing!SkipInCooldown, Turns
  <2>2. Turns \ {l} = Turns
    BY <2>1
  <2> QED BY <1>0, <1>1, <1>2, <2>2
          DEF Pacing!SkipInCooldown, Pacing!torVars, Pacing!InCooldown, PaceTypes, OverrunCounted
<1>3. ASSUME NEW l \in Lookup, Pacing!Answered(l) PROVE PaceInv'
  <2>1. l \notin Turns
    BY <1>3 DEF Pacing!Answered, Turns
  <2>2. Turns \ {l} = Turns
    BY <2>1
  <2>3. PICK how \in {"answered", "silent"} : Pacing!End(l, how)
    BY <1>3 DEF Pacing!Answered
  <2> QED BY <1>0, <1>1, <1>3, <2>2, <2>3
          DEF Pacing!Answered, Pacing!torVars, Pacing!InCooldown, PaceTypes, OverrunCounted
<1>4. ASSUME NEW l \in Lookup, Pacing!PushedBack(l) PROVE PaceInv'
  <2>1. l \in Pacing!Inside /\ l \notin Turns
    BY <1>4 DEF Pacing!PushedBack, Turns, Pacing!Inside
  <2>2. Turns \ {l} = Turns /\ Turns \subseteq Pacing!Inside \ {l}
    BY <1>0, <2>1
  <2>3. Cardinality(Turns) < Concurrency
    <3>1. IsFiniteSet(Pacing!Inside) /\ Cardinality(Pacing!Inside) <= Concurrency
      BY <1>0 DEF OverrunCounted
    <3>2. /\ IsFiniteSet(Pacing!Inside \ {l})
          /\ Cardinality(Pacing!Inside \ {l}) = Cardinality(Pacing!Inside) - 1
      BY <2>1, <3>1, FS_RemoveElement
    <3>3. Cardinality(Turns) <= Cardinality(Pacing!Inside \ {l})
      BY <2>2, <3>2, FS_Subset
    <3> QED BY <1>0, <3>1, <3>2, <3>3, FS_CardinalityType
  <2>4. resumeAt' \in Nat
    BY <1>0, <1>4 DEF Pacing!PushedBack, Pacing!Greatest, PaceTypes
  <2>5. /\ overrun' \in Nat /\ overrun' < Concurrency
        /\ overrun' + Cardinality(Turns \ {l}) < Concurrency
    BY SMTT(30), <1>0, <1>4, <2>2, <2>3 DEF Pacing!PushedBack, PaceTypes, OverrunCounted
  <2> QED BY <1>1, <1>4, <2>4, <2>5 DEF Pacing!PushedBack, Pacing!torVars
<1>5. ASSUME NEW l \in Lookup, Pacing!TakeTurn(l) PROVE PaceInv'
  <2> DEFINE at == Pacing!Greatest(time, nextAt)
  <2>1. /\ at \in Nat /\ at >= time /\ at >= nextAt /\ l \notin Pacing!Inside
        /\ lookup' = [lookup EXCEPT ![l] = [pc |-> "turn", at |-> at]]
        /\ nextAt' = at + Interval /\ ~ Pacing!InCooldown
        /\ Cardinality(Pacing!Inside) < Concurrency
        /\ UNCHANGED <<time, resumeAt, lastSent, crowded, overrun, tor, asked, hasty>>
    BY <1>0, <1>5, PacingCardinality
       DEF Pacing!TakeTurn, Pacing!Greatest, Pacing!torVars, PaceTypes, Pacing!Inside
  <2> HIDE DEF at
  <2>2. /\ Turns' = Turns \cup {l} /\ Pacing!Inside' = Pacing!Inside \cup {l}
        /\ lookup'[l].at = at /\ \A m \in Turns : m # l /\ lookup'[m] = lookup[m]
    BY <1>0, <2>1 DEF Turns, Pacing!Inside, PaceTypes
  <2>3. PaceTypes'
    BY <1>0, <2>1 DEF PaceTypes
  <2>4. TurnsApart'
    <3>1. \A m \in Turns : lookup[m].at + Interval <= at /\ lookup'[m].at = lookup[m].at
      BY <1>0, <2>1, <2>2 DEF TurnsApart
    <3>2. lastSent >= 0 => lastSent + Interval <= at
      BY <1>0, <2>1 DEF TurnsApart
    <3> QED BY <1>0, <2>1, <2>2, <3>1, <3>2 DEF TurnsApart
  <2>5. FailureKept'
    BY <1>0, <2>1 DEF FailureKept
  <2>6. IsFiniteSet(Pacing!Inside') /\ Cardinality(Pacing!Inside') <= Concurrency
    <3>1. IsFiniteSet(Pacing!Inside)
      BY <1>0 DEF OverrunCounted
    <3>2. /\ IsFiniteSet(Pacing!Inside \cup {l})
          /\ Cardinality(Pacing!Inside \cup {l}) = Cardinality(Pacing!Inside) + 1
      BY <2>1, <3>1, FS_AddElement
    <3> QED BY <1>0, <2>1, <2>2, <3>2
  <2>7. OverrunCounted'
    BY <1>0, <2>1, <2>6 DEF OverrunCounted, Pacing!InCooldown
  <2> QED BY <2>3, <2>4, <2>5, <2>7 DEF PaceInv
<1>6. ASSUME NEW l \in Lookup, Pacing!Send(l) PROVE PaceInv'
  <2>1. /\ l \in Turns /\ lookup[l].at <= time
        /\ lookup' = [lookup EXCEPT ![l] = [pc |-> "asked", at |-> 0]]
        /\ lastSent' = time
        /\ crowded' = (crowded \/ (lastSent >= 0 /\ time - lastSent < Interval))
        /\ overrun' = IF Pacing!InCooldown THEN overrun + 1 ELSE overrun
        /\ UNCHANGED <<time, nextAt, resumeAt, tor, asked, hasty>>
    BY <1>6 DEF Pacing!Send, Turns, Pacing!torVars
  <2>2. /\ Turns' = Turns \ {l} /\ Pacing!Inside' = Pacing!Inside
        /\ \A m \in Turns' : lookup'[m] = lookup[m]
    BY <1>0, <2>1 DEF Turns, Pacing!Inside, PaceTypes
  <2>3. PaceTypes'
    BY <1>0, <2>1 DEF PaceTypes
  <2>4. /\ lookup[l].at = time
        /\ lastSent >= 0 => lastSent + Interval <= time
        /\ \A m \in Turns \ {l} : time + Interval <= lookup[m].at
        /\ time + Interval <= nextAt
    <3> DEFINE at == [m \in Turns |-> lookup[m].at]
    <3>1. /\ at[l] >= time /\ at[l] <= time /\ at[l] \in Nat /\ at[l] + Interval <= nextAt
          /\ lastSent >= 0 => lastSent + Interval <= at[l]
      BY <1>0, <2>1 DEF TurnsApart
    <3>2. at[l] = time
      BY <1>0, <3>1
    <3>3. ASSUME NEW m \in Turns \ {l} PROVE time + Interval <= at[m]
      <4>1. at[m] \in Nat /\ at[m] >= time /\ (at[l] + Interval <= at[m] \/ at[m] + Interval <= at[l])
        BY <1>0, <2>1 DEF TurnsApart
      <4> QED BY <1>0, <3>2, <4>1
    <3> QED BY <2>1, <3>1, <3>2, <3>3
  <2>5. ~crowded'
    <3>1. ~crowded
      BY <1>0 DEF TurnsApart
    <3>2. ~ (lastSent >= 0 /\ time - lastSent < Interval)
      BY <1>0, <2>4
    <3> QED BY <2>1, <3>1, <3>2, Zenon
  <2>6. TurnsApart'
    <3>1. ASSUME NEW m \in Turns'
          PROVE  /\ m \in Turns \ {l} /\ lookup'[m] = lookup[m]
      BY <2>2
    <3> QED BY <1>0, <2>1, <2>2, <2>4, <2>5, <3>1 DEF TurnsApart
  <2>7. FailureKept'
    BY <1>0, <2>1 DEF FailureKept
  <2>8. Cardinality(Turns') = Cardinality(Turns) - 1
    BY <1>0, <2>1, <2>2, FS_RemoveElement
  <2>9. OverrunCounted'
    <3>1. Pacing!InCooldown' = Pacing!InCooldown
      BY <2>1 DEF Pacing!InCooldown
    <3>2. Cardinality(Turns) > 0 /\ overrun \in Nat
      BY <1>0, <2>1, FS_EmptySet DEF PaceTypes
    <3> QED BY <1>0, <2>1, <2>2, <2>8, <3>1, <3>2 DEF OverrunCounted
  <2> QED BY <2>3, <2>6, <2>7, <2>9 DEF PaceInv
<1>7. ASSUME Pacing!NextBatch, UNCHANGED <<time, nextAt, resumeAt, lastSent, crowded, overrun>>,
             tor' \in [exits : {"none", "some", "empty"}, loaded : Nat, failed : Nat],
             asked' \in Nat \cup {-1}, FailureKept'
      PROVE  PaceInv'
  <2>1. PaceTypes'
    BY <1>0, <1>7 DEF PaceTypes, Pacing!NextBatch, Pacing!Queued
  <2>2. Turns' = {} /\ Pacing!Inside' = {}
    BY <1>7 DEF Pacing!NextBatch, Pacing!Queued, Turns, Pacing!Inside
  <2>3. TurnsApart'
    BY <1>0, <1>7, <2>2 DEF TurnsApart
  <2>4. OverrunCounted'
    BY <1>0, <1>7, <2>2, FS_EmptySet DEF OverrunCounted, PaceTypes
  <2> QED BY <1>7, <2>1, <2>3, <2>4 DEF PaceInv
<1>8. CASE Pacing!TorLoads
  <2> USE <1>0, <1>8 DEF Pacing!TorLoads, Pacing!TorHistory, Pacing!Download, Pacing!CoolingOff,
                       PaceTypes, FailureKept
  <2>1. tor' \in [exits : {"none", "some", "empty"}, loaded : Nat, failed : Nat]
    OBVIOUS
  <2>2. asked' \in Nat \cup {-1}
    OBVIOUS
  <2>3. asked' >= 0 => asked' > 0 /\ tor'.failed = asked'
    OBVIOUS
  <2>4. ~hasty'
    <3>1. ~ (asked >= 0 /\ time - asked < TorRetry)
      OBVIOUS
    <3>2. ~hasty /\ hasty' = (hasty \/ (asked >= 0 /\ time - asked < TorRetry))
      BY Zenon
    <3> QED BY ONLY <3>1, <3>2, Zenon
  <2> QED BY <1>7, <2>1, <2>2, <2>3, <2>4
<1>9. CASE Pacing!TorFails
  <2> USE <1>0, <1>9 DEF Pacing!TorFails, Pacing!TorHistory, Pacing!Download, Pacing!CoolingOff,
                       PaceTypes, FailureKept
  <2>1. tor' \in [exits : {"none", "some", "empty"}, loaded : Nat, failed : Nat]
    OBVIOUS
  <2>2. asked' \in Nat \cup {-1}
    OBVIOUS
  <2>3. asked' >= 0 => asked' > 0 /\ tor'.failed = asked'
    OBVIOUS
  <2>4. ~hasty'
    <3>1. ~ (asked >= 0 /\ time - asked < TorRetry)
      OBVIOUS
    <3>2. ~hasty /\ hasty' = (hasty \/ (asked >= 0 /\ time - asked < TorRetry))
      BY Zenon
    <3> QED BY ONLY <3>1, <3>2, Zenon
  <2> QED BY <1>7, <2>1, <2>2, <2>3, <2>4
<1>10. CASE Pacing!TorCached
  <2>1. FailureKept' /\ tor' = tor /\ asked' = asked
    BY <1>0, <1>10 DEF Pacing!TorCached, Pacing!torVars, FailureKept
  <2> QED BY <1>0, <1>7, <1>10, <2>1 DEF Pacing!TorCached, PaceTypes
<1>11. CASE Pacing!Tick
  <2>1. /\ time' = time + 1 /\ \A l \in Turns : time < lookup[l].at
        /\ UNCHANGED <<nextAt, resumeAt, lookup, lastSent, crowded, overrun, tor, asked, hasty>>
    BY <1>11 DEF Pacing!Tick, Pacing!MayTick, Pacing!shodanVars, Pacing!torVars, Turns
  <2>2. UNCHANGED <<Turns, Pacing!Inside>>
    BY <2>1 DEF Turns, Pacing!Inside
  <2>3. PaceTypes' /\ FailureKept'
    BY <1>0, <2>1 DEF PaceTypes, FailureKept
  <2>4. \A l \in Turns : time + 1 <= lookup[l].at
    BY <1>0, <2>1 DEF PaceTypes, Turns
  <2>5. TurnsApart'
    BY <1>0, <2>1, <2>2, <2>4 DEF TurnsApart
  <2>6. OverrunCounted'
    BY <1>0, <2>1, <2>2 DEF OverrunCounted, Pacing!InCooldown, PaceTypes
  <2> QED BY <2>3, <2>5, <2>6 DEF PaceInv
<1>12. CASE UNCHANGED paceVars
  BY <1>12 DEF paceVars, PaceInv, PaceTypes, TurnsApart, FailureKept, OverrunCounted, Turns,
               Pacing!Inside, Pacing!InCooldown
<1> QED BY <1>2, <1>3, <1>4, <1>5, <1>6, <1>8, <1>9, <1>10, <1>11, <1>12 DEF Pacing!Next

\* No two lookups leave within an interval and torproject.org is not asked again
\* within the retry delay of a failure, for any number of lookups, any limit of the
\* semaphore, any interval and any retry delay (_RateGate, _load_tor_exits).
THEOREM ProvidersAreSpared == Spec => []Paced
<1>1. PaceInv /\ [Next]_vars => PaceInv'
  BY PartsStep, PaceStep
<1>2. PaceInv => Paced
  BY DEF PaceInv, TurnsApart, FailureKept, Paced, Pacing!Paced
<1> QED BY PaceInit, <1>1, <1>2, PTL DEF Spec

\* After a 429 fewer requests go out than the semaphore admits (_fetch_shodan).
THEOREM PushBackIsHeeded == Spec => []OverrunIsBounded
<1>1. PaceInv /\ [Next]_vars => PaceInv'
  BY PartsStep, PaceStep
<1>2. PaceInv => OverrunIsBounded
  BY DEF PaceInv, OverrunCounted, OverrunIsBounded, Pacing!OverrunIsBounded
<1> QED BY PaceInit, <1>1, <1>2, PTL DEF Spec
-----------------------------------------------------------------------------
(* The upgrade of the database *)

\* A database with nothing lost and nothing made up: what Shodan said is in a child
\* table or still in its column, and neither holds anything else that is readable.
Sound(db, facts) ==
    /\ db \in Upgrade!Database
    /\ \A f \in Field :
         /\ \A x \in facts[f] : x \in db.child[f] \/ (f \in DOMAIN db.legacy /\ x \in db.legacy[f])
         /\ db.child[f] \subseteq facts[f]
         /\ f \in DOMAIN db.legacy => Upgrade!Readable(f, db.legacy[f]) \subseteq facts[f]

\* An open transaction belongs to a process that copies, drops or commits; it only
\* adds rows and only drops columns.
TxnSound ==
    txn # None =>
        /\ txn \in [by : Process, db : Upgrade!Database] /\ Sound(txn.db, known)
        /\ caller[txn.by].pc \in {"copying", "indexing"}
        /\ DOMAIN txn.db.legacy \subseteq DOMAIN database.legacy
        /\ \A f \in Field : database.child[f] \subseteq txn.db.child[f]

\* A database with only some of its columns has nothing more to copy.
HalfDropped ==
    DOMAIN database.legacy # Field =>
        \A f \in DOMAIN database.legacy : Upgrade!Readable(f, database.legacy[f]) = {}

\* What a process that copies has done so far is in the database it sees, or there
\* was nothing; it starts with all columns, and those it has yet to drop are all that
\* are left.
CopyDone(p) ==
    /\ caller[p].pc = "copying" =>
         /\ DOMAIN Upgrade!View(p).legacy \subseteq caller[p].saw
         /\ caller[p].todo # {} => caller[p].saw = Field
         /\ ~ (txn # None /\ txn.by = p) =>
              \A f \in DOMAIN database.legacy :
                \A x \in Upgrade!Readable(f, database.legacy[f]) : x[1] \in caller[p].todo
         /\ \A f \in Field : \A x \in known[f] :
              x[1] \notin caller[p].todo => x \in Upgrade!View(p).child[f]
    /\ caller[p].pc = "indexing" => DOMAIN Upgrade!View(p).legacy = {}
    /\ caller[p].pc = "serving" => DOMAIN database.legacy = {}

UpgradeTypes ==
    /\ known \in [Field -> SUBSET Upgrade!Fact]
    /\ \A f \in Field : Upgrade!Readable(f, known[f]) = known[f]
    /\ caller \in [Process -> [pc : {"off", "adding", "copying", "indexing", "serving"},
                               saw : SUBSET Field, todo : SUBSET Address]]

UpgradeInv ==
    part = "upgrade" => /\ UpgradeTypes /\ Sound(database, known) /\ TxnSound /\ HalfDropped
                        /\ \A p \in Process : CopyDone(p)

\* The database an upgrade finds has its facts in the old columns, some in child tables too.
LEMMA UpgradeInit == Init => UpgradeInv
<1> SUFFICES ASSUME Upgrade!Init
             PROVE  /\ UpgradeTypes /\ Sound(database, known) /\ TxnSound /\ HalfDropped
                    /\ \A p \in Process : CopyDone(p)
  BY DEF Init, UpgradeInv
<1>1. PICK said \in [Field -> SUBSET Upgrade!Fact], again \in SUBSET Address :
         /\ known = [f \in Field |-> Upgrade!Readable(f, said[f])]
         /\ database = [legacy |-> said, added |-> {},
                        child |-> [f \in Field |-> {x \in known[f] : x[1] \in again}]]
  BY DEF Upgrade!Init
<1>2. /\ txn = None /\ caller = [p \in Process |-> Upgrade!Off]
  BY DEF Upgrade!Init
<1>3. said \in Upgrade!Legacy /\ DOMAIN said = Field
  BY DEF Upgrade!Legacy
<1>4. \A f \in Field : known[f] = Upgrade!Readable(f, said[f]) /\ known[f] \subseteq said[f]
  BY <1>1 DEF Upgrade!Readable
<1>5. UpgradeTypes
  BY <1>1, <1>2, <1>4 DEF UpgradeTypes, Upgrade!Off, Upgrade!Readable
<1>6. Sound(database, known)
  BY <1>1, <1>3, <1>4 DEF Sound, Upgrade!Database
<1>7. TxnSound /\ \A p \in Process : CopyDone(p)
  BY <1>2 DEF TxnSound, CopyDone, Upgrade!Off
<1>8. HalfDropped
  BY <1>1, <1>3 DEF HalfDropped
<1> QED BY <1>5, <1>6, <1>7, <1>8

\* Dropping a column leaves the other columns as they are.
LEMMA DropColumn ==
    ASSUME NEW l \in Upgrade!Legacy, NEW f
    PROVE  LET left == [g \in DOMAIN l \ {f} |-> l[g]]
           IN  /\ left \in Upgrade!Legacy /\ DOMAIN left = DOMAIN l \ {f}
               /\ \A g \in DOMAIN left : left[g] = l[g]
<1>1. PICK S \in SUBSET Field : l \in [S -> SUBSET Upgrade!Fact]
  BY DEF Upgrade!Legacy
<1>2. [g \in DOMAIN l \ {f} |-> l[g]] \in [S \ {f} -> SUBSET Upgrade!Fact]
  BY <1>1
<1> QED BY <1>1, <1>2 DEF Upgrade!Legacy

\* A process that has no transaction of its own sees what is committed.
LEMMA ViewOfOther ==
    ASSUME NEW p \in Process, txn # None => txn.by # p
    PROVE  Upgrade!View(p) = database
BY DEF Upgrade!View

\* What a process sees is sound.
LEMMA ViewSound ==
    ASSUME Sound(database, known), TxnSound, NEW p \in Process
    PROVE  Sound(Upgrade!View(p), known) /\ Upgrade!View(p) \in Upgrade!Database
BY DEF Upgrade!View, TxnSound, Sound

\* What an open transaction has done disappears with it, and its owner is off.
LEMMA UpgradeAborts ==
    ASSUME UpgradeTypes, Sound(database, known), TxnSound, \A q \in Process : CopyDone(q),
           None \notin [by : Process, db : Upgrade!Database],
           NEW p \in Process, Upgrade!Abort(p)
    PROVE  UpgradeTypes' /\ Sound(database, known)' /\ TxnSound' /\ \A q \in Process : CopyDone(q)'
<1>1. /\ txn' = IF Upgrade!Mine(p) THEN None ELSE txn
      /\ caller' = [caller EXCEPT ![p] = Upgrade!Off]
      /\ UNCHANGED <<database, known>>
  BY DEF Upgrade!Abort
<1>2. UpgradeTypes' /\ Sound(database, known)'
  BY <1>1 DEF UpgradeTypes, Upgrade!Off, Sound
<1>3. txn' = None \/ (txn' = txn /\ txn # None /\ txn.by # p)
  BY <1>1 DEF Upgrade!Mine
<1>4. TxnSound'
  BY <1>1, <1>3 DEF TxnSound, Sound, UpgradeTypes
<1>5. ASSUME NEW q \in Process PROVE CopyDone(q)'
  <2>1. CASE q = p
    BY <1>1, <2>1 DEF CopyDone, UpgradeTypes, Upgrade!Off
  <2>2. CASE q # p
    <3>1. caller'[q] = caller[q]
      BY <1>1, <2>2 DEF UpgradeTypes
    <3>2. Upgrade!View(q)' = Upgrade!View(q)
      BY <1>1, <2>2 DEF Upgrade!View, Upgrade!Mine
    <3>3. (txn' # None /\ txn'.by = q) <=> (txn # None /\ txn.by = q)
      BY <1>1, <2>2 DEF Upgrade!Mine
    <3> QED BY <1>1, <3>1, <3>2, <3>3 DEF CopyDone
  <2> QED BY <2>1, <2>2
<1> QED BY <1>2, <1>4, <1>5

\* Columns go one by one only where nothing was copied.
LEMMA HalfDroppedStep ==
    ASSUME UpgradeInv, [Upgrade!Next]_upgradeVars, part = "upgrade"
    PROVE  HalfDropped'
<1>1. /\ Sound(database, known) /\ HalfDropped /\ \A p \in Process : CopyDone(p)
  BY DEF UpgradeInv
<1>2. ASSUME database'.legacy = database.legacy PROVE HalfDropped'
  BY <1>1, <1>2 DEF HalfDropped
<1>3. ASSUME NEW p \in Process, Upgrade!AddColumn(p) PROVE HalfDropped'
  BY <1>1, <1>2, <1>3 DEF Upgrade!AddColumn, Sound, Upgrade!Database
<1>4. ASSUME NEW a \in Address, Upgrade!ShodanAnswers(a) PROVE HalfDropped'
  <2>1. database'.legacy = database.legacy
    BY <1>1, <1>4 DEF Upgrade!ShodanAnswers, Sound, Upgrade!Database
  <2> QED BY <1>2, <2>1
<1>5. ASSUME NEW p \in Process, Upgrade!Drop(p) PROVE HalfDropped'
  <2>1. CASE txn # None
    BY <1>2, <1>5, <2>1 DEF Upgrade!Drop
  <2>2. CASE txn = None
    <3>1. PICK f \in caller[p].saw :
            database' = [database EXCEPT !.legacy = [g \in DOMAIN @ \ {f} |-> @[g]]]
      BY <1>5, <2>2 DEF Upgrade!Drop, Upgrade!View
    <3>2. /\ DOMAIN database'.legacy = DOMAIN database.legacy \ {f}
          /\ \A g \in DOMAIN database'.legacy : database'.legacy[g] = database.legacy[g]
      BY <1>1, <3>1, DropColumn DEF Sound, Upgrade!Database
    <3>3. \A g \in DOMAIN database.legacy : Upgrade!Readable(g, database.legacy[g]) = {}
      BY <1>1, <1>5, <2>2 DEF CopyDone, Upgrade!Drop
    <3> QED BY <3>2, <3>3 DEF HalfDropped
  <2> QED BY <2>1, <2>2
<1>6. ASSUME NEW p \in Process, Upgrade!Index(p) PROVE HalfDropped'
  BY <1>1, <1>6 DEF Upgrade!Index, CopyDone, HalfDropped
<1>7. ASSUME NEW p \in Process, \/ Upgrade!Start(p) \/ Upgrade!Look(p) \/ Upgrade!Copy(p)
                               \/ Upgrade!LosesRace(p) \/ Upgrade!SelectFails(p)
                               \/ Upgrade!Fails(p)
      PROVE  HalfDropped'
  BY <1>2, <1>7 DEF Upgrade!Start, Upgrade!Look, Upgrade!Copy, Upgrade!LosesRace,
                    Upgrade!SelectFails, Upgrade!Fails, Upgrade!Abort
<1>8. CASE UNCHANGED upgradeVars
  BY <1>2, <1>8 DEF upgradeVars
<1> QED BY <1>3, <1>4, <1>5, <1>6, <1>7, <1>8 DEF Upgrade!Next, Upgrade!Steps

\* Each statement of init_db(), its commit or its end half way keeps every fact in reach.
LEMMA UpgradeStep ==
    ASSUME UpgradeInv, [Upgrade!Next]_upgradeVars, part' = part
    PROVE  UpgradeInv'
<1> SUFFICES ASSUME part = "upgrade"
             PROVE  /\ UpgradeTypes' /\ Sound(database, known)' /\ TxnSound'
                    /\ \A p \in Process : CopyDone(p)'
  BY HalfDroppedStep DEF UpgradeInv
<1>0. /\ UpgradeTypes /\ Sound(database, known) /\ TxnSound /\ \A p \in Process : CopyDone(p)
      /\ Server \in Process /\ None \notin [by : Process, db : Upgrade!Database]
  BY ServiceAssumption DEF UpgradeInv, Upgrade!UpgradeAssumption
<1>1. ASSUME NEW p \in Process, Upgrade!Start(p)
      PROVE  UpgradeTypes' /\ Sound(database, known)' /\ TxnSound' /\ \A q \in Process : CopyDone(q)'
  <2>1. /\ caller[p].pc = "off" /\ caller' = [caller EXCEPT ![p].pc = "adding"]
        /\ UNCHANGED <<database, txn, known>>
    BY <1>1 DEF Upgrade!Start
  <2>2. UpgradeTypes' /\ Sound(database, known)' /\ TxnSound'
    BY <1>0, <2>1 DEF UpgradeTypes, Sound, TxnSound
  <2>3. \A q \in Process : CopyDone(q)'
    BY <1>0, <2>1 DEF CopyDone, UpgradeTypes, Upgrade!View
  <2> QED BY <2>2, <2>3
<1>2. ASSUME NEW p \in Process, Upgrade!AddColumn(p)
      PROVE  UpgradeTypes' /\ Sound(database, known)' /\ TxnSound' /\ \A q \in Process : CopyDone(q)'
  <2>1. PICK c \in Added : database' = [database EXCEPT !.added = @ \cup {c}]
    BY <1>2 DEF Upgrade!AddColumn, Upgrade!Missing
  <2>2. txn = None /\ UNCHANGED <<txn, caller, known>>
    BY <1>2 DEF Upgrade!AddColumn
  <2>3. /\ database' \in Upgrade!Database
        /\ database'.legacy = database.legacy /\ database'.child = database.child
    BY <1>0, <2>1 DEF Sound, Upgrade!Database
  <2>4. UpgradeTypes' /\ Sound(database, known)' /\ TxnSound'
    BY <1>0, <2>2, <2>3 DEF UpgradeTypes, Sound, TxnSound
  <2>5. \A q \in Process : CopyDone(q)'
    BY <1>0, <2>2, <2>3 DEF CopyDone, Upgrade!View
  <2> QED BY <2>4, <2>5
<1>3. ASSUME NEW p \in Process, Upgrade!Look(p)
      PROVE  UpgradeTypes' /\ Sound(database, known)' /\ TxnSound' /\ \A q \in Process : CopyDone(q)'
  <2> DEFINE saw == DOMAIN database.legacy
  <2>1. /\ caller[p].pc = "adding" /\ UNCHANGED <<database, txn, known>>
        /\ caller' = [caller EXCEPT ![p] =
                        [pc |-> IF saw = {} THEN "indexing" ELSE "copying", saw |-> saw,
                         todo |-> IF saw = {} THEN {} ELSE Address]]
    BY <1>3 DEF Upgrade!Look, Upgrade!Pending
  <2>2. saw \in {{}, Field}
    BY <1>3 DEF Upgrade!Look
  <2>3. UpgradeTypes' /\ Sound(database, known)'
    BY <1>0, <2>1, <2>2 DEF UpgradeTypes, Sound
  <2>4. /\ caller'[p].pc = IF saw = {} THEN "indexing" ELSE "copying"
        /\ caller'[p].saw = saw /\ saw # {} => caller'[p].todo = Address
        /\ \A q \in Process : q # p => caller'[q] = caller[q]
    BY <1>0, <2>1 DEF UpgradeTypes
  <2>5. txn # None => txn.by # p /\ txn.by \in Process
    BY <1>0, <2>1 DEF TxnSound
  <2>6. TxnSound'
    BY <1>0, <2>1, <2>4, <2>5 DEF TxnSound, Sound
  <2>7. Upgrade!View(p) = database /\ \A q \in Process : Upgrade!View(q)' = Upgrade!View(q)
    BY <2>1, <2>5 DEF Upgrade!View
  <2>8. /\ \A f \in Field : \A x \in known[f] : x[1] \in Address
        /\ \A f \in saw : \A x \in Upgrade!Readable(f, database.legacy[f]) : x[1] \in Address
    BY <1>0, <2>2 DEF UpgradeTypes, Upgrade!Fact, Sound
  <2>9. CopyDone(p)'
    BY <1>0, <2>1, <2>2, <2>4, <2>7, <2>8 DEF CopyDone
  <2>10. \A q \in Process : q # p => CopyDone(q)'
    BY <1>0, <2>1, <2>4, <2>7 DEF CopyDone
  <2> QED BY <2>3, <2>6, <2>9, <2>10
<1>4. ASSUME NEW p \in Process, Upgrade!Copy(p)
      PROVE  UpgradeTypes' /\ Sound(database, known)' /\ TxnSound' /\ \A q \in Process : CopyDone(q)'
  <2> DEFINE db == Upgrade!View(p)
  <2>1. PICK a \in caller[p].todo :
          LET facts == [f \in Field |->
                          {x \in Upgrade!Readable(f, db.legacy[f]) : x[1] = a}]
          IN  /\ caller' = [caller EXCEPT ![p].todo = @ \ {a}]
              /\ IF \A f \in Field : facts[f] = {} THEN txn' = txn
                 ELSE /\ Upgrade!Mine(p)
                      /\ txn' = [by |-> p,
                                 db |-> [db EXCEPT !.child =
                                           [f \in Field |-> @[f] \cup facts[f]]]]
    BY <1>4 DEF Upgrade!Copy
  <2> DEFINE facts == [f \in Field |-> {x \in Upgrade!Readable(f, db.legacy[f]) : x[1] = a}]
  <2>2. /\ caller[p].pc = "copying" /\ UNCHANGED <<database, known>>
        /\ caller' = [caller EXCEPT ![p].todo = @ \ {a}]
    BY <1>4, <2>1 DEF Upgrade!Copy
  <2>3. /\ Sound(db, known) /\ db \in Upgrade!Database
        /\ Field \subseteq DOMAIN db.legacy
    BY <1>0, <1>4, <2>1, ViewSound DEF CopyDone, Upgrade!Copy, Upgrade!Overtaken
  <2>4. \A f \in Field : facts[f] \subseteq known[f]
    BY <2>3 DEF Sound
  <2>5. \A f \in Field : \A x \in known[f] : x[1] = a => x \in db.child[f] \cup facts[f]
    BY <1>0, <2>3 DEF Sound, UpgradeTypes, Upgrade!Readable
  <2>6. UpgradeTypes' /\ Sound(database, known)'
    BY <1>0, <2>2 DEF UpgradeTypes, Sound
  <2>7. /\ caller'[p].pc = "copying" /\ caller'[p].saw = caller[p].saw
        /\ caller'[p].todo = caller[p].todo \ {a}
        /\ \A q \in Process : q # p => caller'[q] = caller[q]
        /\ \A q \in Process : caller'[q].pc = caller[q].pc
    BY <1>0, <2>2 DEF UpgradeTypes
  <2>8. CASE \A f \in Field : facts[f] = {}
    <3>1. txn' = txn
      BY <2>1, <2>8
    <3>2. TxnSound'
      BY <1>0, <2>2, <2>7, <3>1 DEF TxnSound, Sound
    <3>3. \A q \in Process : Upgrade!View(q)' = Upgrade!View(q)
      BY <2>2, <3>1 DEF Upgrade!View
    <3>4. ASSUME ~ (txn # None /\ txn.by = p), NEW f \in DOMAIN database.legacy,
                 NEW x \in Upgrade!Readable(f, database.legacy[f])
          PROVE  x[1] \in caller[p].todo \ {a}
      <4>1. db = database /\ f \in Field /\ x[1] \in caller[p].todo
        BY <1>0, <2>2, <3>4 DEF Upgrade!View, CopyDone, Sound, Upgrade!Database, Upgrade!Legacy
      <4>2. x \notin facts[f]
        BY <2>8, <4>1
      <4> QED BY <3>4, <4>1, <4>2
    <3> HIDE DEF facts
    <3>5. CopyDone(p)'
      BY <1>0, <2>2, <2>5, <2>7, <2>8, <3>1, <3>3, <3>4 DEF CopyDone
    <3>6. \A q \in Process : q # p => CopyDone(q)'
      BY <1>0, <2>2, <2>7, <3>1, <3>3 DEF CopyDone
    <3> QED BY <2>6, <3>2, <3>5, <3>6
  <2>9. CASE ~ \A f \in Field : facts[f] = {}
    <3> DEFINE new == [db EXCEPT !.child = [f \in Field |-> @[f] \cup facts[f]]]
    <3>1. Upgrade!Mine(p) /\ txn' = [by |-> p, db |-> new]
      BY <2>1, <2>9
    <3>2. /\ new \in Upgrade!Database /\ new.legacy = db.legacy
          /\ \A f \in Field : new.child[f] = db.child[f] \cup facts[f]
      BY <1>0, <2>3, <2>4 DEF Upgrade!Database, UpgradeTypes
    <3> HIDE DEF new, facts
    <3>3. Sound(new, known)
      BY <2>2, <2>3, <2>4, <3>2 DEF Sound
    <3>4. txn' # None /\ txn'.by = p /\ txn'.db = new /\ txn' \in [by : Process, db : Upgrade!Database]
      BY <1>0, <3>1, <3>2
    <3>5. /\ DOMAIN db.legacy \subseteq DOMAIN database.legacy
          /\ \A f \in Field : database.child[f] \subseteq db.child[f]
      BY <1>0 DEF TxnSound, Upgrade!View
    <3>6. TxnSound'
      BY <2>2, <2>7, <3>2, <3>3, <3>4, <3>5 DEF TxnSound, Sound
    <3>7. Upgrade!View(p)' = new /\ \A q \in Process : q # p => Upgrade!View(q)' = Upgrade!View(q)
      BY <2>2, <3>1, <3>4 DEF Upgrade!View, Upgrade!Mine
    <3>8. CopyDone(p)'
      BY <1>0, <2>2, <2>5, <2>7, <3>2, <3>4, <3>7 DEF CopyDone
    <3>9. \A q \in Process : q # p => CopyDone(q)'
      BY <1>0, <2>2, <2>7, <3>1, <3>4, <3>7 DEF CopyDone, Upgrade!Mine
    <3> QED BY <2>6, <3>6, <3>8, <3>9
  <2> QED BY <2>8, <2>9
<1>5. ASSUME NEW p \in Process, Upgrade!Drop(p)
      PROVE  UpgradeTypes' /\ Sound(database, known)' /\ TxnSound' /\ \A q \in Process : CopyDone(q)'
  <2> DEFINE db == Upgrade!View(p)
  <2>1. PICK f \in caller[p].saw :
          LET left == [db EXCEPT !.legacy = [g \in DOMAIN @ \ {f} |-> @[g]]]
          IN  /\ IF txn = None THEN database' = left /\ txn' = None
                 ELSE database' = database /\ txn' = [txn EXCEPT !.db = left]
              /\ caller' = [caller EXCEPT ![p].saw = @ \ {f},
                               ![p].pc = IF caller[p].saw = {f} THEN "indexing" ELSE @]
    BY <1>5 DEF Upgrade!Drop
  <2> DEFINE left == [db EXCEPT !.legacy = [g \in DOMAIN @ \ {f} |-> @[g]]]
  <2>2. /\ caller[p].pc = "copying" /\ caller[p].todo = {} /\ Upgrade!Mine(p) /\ known' = known
        /\ caller' = [caller EXCEPT ![p].saw = @ \ {f},
                               ![p].pc = IF caller[p].saw = {f} THEN "indexing" ELSE @]
    BY <1>5, <2>1 DEF Upgrade!Drop
  <2>3. Sound(db, known) /\ db \in Upgrade!Database
    BY <1>0, ViewSound
  <2>4. /\ left \in Upgrade!Database /\ left.child = db.child
        /\ DOMAIN left.legacy = DOMAIN db.legacy \ {f}
        /\ \A g \in DOMAIN left.legacy : left.legacy[g] = db.legacy[g]
    BY <2>3, DropColumn DEF Upgrade!Database
  <2> HIDE DEF left
  <2>5. \A g \in Field : known[g] \subseteq db.child[g]
    BY <1>0, <2>2 DEF CopyDone
  <2>6. Sound(left, known)
    BY <2>2, <2>3, <2>4, <2>5 DEF Sound
  <2>7. UpgradeTypes'
    BY ZenonT(60), <1>0, <2>2 DEF UpgradeTypes
  <2>8. /\ caller'[p].pc = IF caller[p].saw = {f} THEN "indexing" ELSE "copying"
        /\ caller'[p].saw = caller[p].saw \ {f} /\ caller'[p].todo = {}
        /\ \A q \in Process : q # p => caller'[q] = caller[q]
    BY <1>0, <2>2 DEF UpgradeTypes
  <2>9. /\ DOMAIN left.legacy \subseteq caller[p].saw \ {f}
        /\ caller[p].saw = {f} => DOMAIN left.legacy = {}
    BY <1>0, <2>2, <2>4 DEF CopyDone
  <2>10. CASE txn = None
    <3>1. database' = left /\ txn' = None /\ db = database
      BY <2>1, <2>10 DEF left, Upgrade!View
    <3>2. Sound(database, known)' /\ TxnSound'
      BY <2>2, <2>6, <3>1 DEF TxnSound, Sound
    <3>3. \A q \in Process : Upgrade!View(q)' = left /\ Upgrade!View(q) = database
      BY <2>10, <3>1 DEF Upgrade!View
    <3>4. \A g \in DOMAIN database'.legacy : Upgrade!Readable(g, database'.legacy[g]) = {}
      <4>1. \A g \in DOMAIN database.legacy : Upgrade!Readable(g, database.legacy[g]) = {}
        BY <1>0, <2>2, <2>10 DEF CopyDone
      <4> QED BY <2>4, <3>1, <4>1
    <3>5. CopyDone(p)'
      BY <2>2, <2>4, <2>5, <2>8, <2>9, <3>1, <3>3, <3>4 DEF CopyDone
    <3>6. ASSUME NEW q \in Process, q # p PROVE CopyDone(q)'
      <4>1. CopyDone(q) /\ caller'[q] = caller[q]
        BY <1>0, <2>8, <3>6
      <4> QED BY <2>2, <2>4, <3>1, <3>3, <3>4, <4>1 DEF CopyDone
    <3> QED BY <2>7, <3>2, <3>5, <3>6
  <2>11. CASE txn # None
    <3>1. database' = database /\ txn' = [txn EXCEPT !.db = left] /\ txn.by = p /\ db = txn.db
      BY <2>1, <2>2, <2>11 DEF left, Upgrade!View, Upgrade!Mine
    <3>2. /\ txn' \in [by : Process, db : Upgrade!Database] /\ txn' # None
          /\ txn'.by = p /\ txn'.db = left
      BY <1>0, <2>4, <2>11, <3>1 DEF TxnSound
    <3>3. Sound(database, known)'
      BY <1>0, <2>2, <3>1 DEF Sound
    <3>4. TxnSound'
      <4>1. Sound(txn.db, known)'
        BY <2>2, <2>6, <3>2 DEF Sound
      <4>2. /\ DOMAIN txn.db.legacy \subseteq DOMAIN database.legacy
            /\ \A g \in Field : database.child[g] \subseteq txn.db.child[g]
        BY <1>0, <2>11 DEF TxnSound
      <4>3. /\ DOMAIN left.legacy \subseteq DOMAIN database.legacy
            /\ \A g \in Field : database.child[g] \subseteq left.child[g]
        BY <2>4, <3>1, <4>2
      <4> QED BY <2>8, <3>1, <3>2, <4>1, <4>3 DEF TxnSound
    <3>5. Upgrade!View(p)' = left /\ \A q \in Process : q # p => Upgrade!View(q)' = Upgrade!View(q)
      BY <2>11, <3>1, <3>2 DEF Upgrade!View
    <3>6. CopyDone(p)'
      <4>1. \A g \in Field : known'[g] \subseteq left.child[g]
        BY <2>2, <2>4, <2>5
      <4>2. caller'[p].pc \in {"copying", "indexing"}
        BY <2>8
      <4>3. /\ DOMAIN left.legacy \subseteq caller'[p].saw
            /\ caller'[p].pc = "indexing" => DOMAIN left.legacy = {}
        BY <2>8, <2>9
      <4> QED BY <2>8, <3>2, <3>5, <4>1, <4>2, <4>3 DEF CopyDone
    <3>7. ASSUME NEW q \in Process, q # p PROVE CopyDone(q)'
      <4>1. CopyDone(q) /\ caller'[q] = caller[q]
        BY <1>0, <2>8, <3>7
      <4> QED BY <2>2, <3>1, <3>5, <3>7, <4>1 DEF CopyDone
    <3> QED BY <2>7, <3>3, <3>4, <3>6, <3>7
  <2> QED BY <2>10, <2>11
<1>6. ASSUME NEW p \in Process, Upgrade!Index(p)
      PROVE  UpgradeTypes' /\ Sound(database, known)' /\ TxnSound' /\ \A q \in Process : CopyDone(q)'
  <2> DEFINE db == Upgrade!View(p)
  <2>1. /\ caller[p].pc = "indexing" /\ Upgrade!Mine(p) /\ database' = db /\ txn' = None
        /\ caller' = [caller EXCEPT ![p].pc = IF p = Server THEN "serving" ELSE "off"]
        /\ known' = known
    BY <1>6 DEF Upgrade!Index
  <2>2. Sound(db, known) /\ DOMAIN db.legacy = {}
    BY <1>0, <2>1, ViewSound DEF CopyDone
  <2>3. /\ DOMAIN db.legacy \subseteq DOMAIN database.legacy
        /\ \A f \in Field : database.child[f] \subseteq db.child[f]
    BY <1>0 DEF TxnSound, Upgrade!View
  <2>4. UpgradeTypes' /\ Sound(database, known)' /\ TxnSound'
    BY <1>0, <2>1, <2>2 DEF UpgradeTypes, Sound, TxnSound
  <2>5. \A q \in Process : /\ Upgrade!View(q)' = db
                           /\ Upgrade!View(q) = IF q = p THEN db ELSE database
    BY <2>1 DEF Upgrade!View, Upgrade!Mine
  <2>6. /\ \A q \in Process : q # p => caller'[q] = caller[q]
        /\ caller'[p].pc \in {"serving", "off"}
    BY <1>0, <2>1 DEF UpgradeTypes
  <2> HIDE DEF db
  <2>7. CopyDone(p)'
    BY <2>1, <2>2, <2>6 DEF CopyDone
  <2>8. ASSUME NEW q \in Process, q # p PROVE CopyDone(q)'
    <3>1. CopyDone(q) /\ caller'[q] = caller[q] /\ Upgrade!View(q) = database
      BY <1>0, <2>5, <2>6, <2>8
    <3> QED BY <2>1, <2>2, <2>3, <2>5, <3>1 DEF CopyDone
  <2> QED BY <2>4, <2>7, <2>8
<1>7. ASSUME NEW p \in Process,
             Upgrade!LosesRace(p) \/ Upgrade!SelectFails(p) \/ Upgrade!Fails(p)
      PROVE  UpgradeTypes' /\ Sound(database, known)' /\ TxnSound' /\ \A q \in Process : CopyDone(q)'
  BY <1>0, <1>7, UpgradeAborts DEF Upgrade!LosesRace, Upgrade!SelectFails, Upgrade!Fails
<1>8. ASSUME NEW a \in Address, Upgrade!ShodanAnswers(a)
      PROVE  UpgradeTypes' /\ Sound(database, known)' /\ TxnSound' /\ \A q \in Process : CopyDone(q)'
  <2> DEFINE said(vs, prev) == {x \in prev : x[1] # a} \cup {<<a, v>> : v \in vs}
  <2>1. PICK vs \in SUBSET (Value \ Unreadable) :
          /\ database' = [database EXCEPT !.child = [f \in Field |-> said(vs, @[f])]]
          /\ known' = [f \in Field |-> said(vs, known[f])]
    BY <1>8 DEF Upgrade!ShodanAnswers
  <2>2. /\ caller[Server].pc = "serving" /\ txn = None /\ UNCHANGED <<txn, caller>>
    BY <1>8 DEF Upgrade!ShodanAnswers
  <2>3. DOMAIN database.legacy = {} /\ \A f \in Field : database.child[f] = known[f]
    BY <1>0, <2>2 DEF CopyDone, Sound
  <2>4. \A f \in Field : said(vs, known[f]) \subseteq Upgrade!Fact
    BY <1>0 DEF UpgradeTypes, Upgrade!Fact
  <2>5. \A f \in Field : Upgrade!Readable(f, said(vs, known[f])) = said(vs, known[f])
    BY <1>0 DEF UpgradeTypes, Upgrade!Readable
  <2>6. /\ \A f \in Field : /\ database'.child[f] = said(vs, known[f])
                            /\ known'[f] = said(vs, known[f])
        /\ database'.legacy = database.legacy
    BY <1>0, <2>1, <2>3 DEF Sound, Upgrade!Database
  <2>7. known' \in [Field -> SUBSET Upgrade!Fact] /\ database' \in Upgrade!Database
    BY <1>0, <2>1, <2>3, <2>4 DEF Sound, Upgrade!Database
  <2> HIDE DEF said
  <2>8. UpgradeTypes'
    BY <1>0, <2>2, <2>5, <2>6, <2>7 DEF UpgradeTypes
  <2>9. Sound(database, known)' /\ TxnSound'
    BY <2>2, <2>3, <2>6, <2>7 DEF Sound, TxnSound
  <2>10. \A q \in Process : CopyDone(q)'
    BY <1>0, <2>2, <2>3, <2>6 DEF CopyDone, Upgrade!View
  <2> QED BY <2>8, <2>9, <2>10
<1>9. CASE UNCHANGED upgradeVars
  BY <1>0, <1>9 DEF upgradeVars, UpgradeTypes, Sound, TxnSound, CopyDone, Upgrade!View
<1> QED BY <1>1, <1>2, <1>3, <1>4, <1>5, <1>6, <1>7, <1>8, <1>9
       DEF Upgrade!Next, Upgrade!Steps

\* An upgrade loses nothing that older versions recorded and brings nothing back,
\* whatever ends it and whoever runs it beside, for any set of processes, addresses,
\* fields and values (the comment on the backfill in init_db).
THEOREM UpgradeKeepsFacts == Spec => []FactsSurvive
<1>1. UpgradeInv /\ [Next]_vars => UpgradeInv'
  BY PartsStep, UpgradeStep
<1>2. UpgradeInv => FactsSurvive
  <2> SUFFICES ASSUME UpgradeInv, part = "upgrade" PROVE Upgrade!FactsSurvive
    BY DEF FactsSurvive
  <2>1. Sound(database, known) /\ CopyDone(Server) /\ known \in [Field -> SUBSET Upgrade!Fact]
    BY ServiceAssumption DEF UpgradeInv, UpgradeTypes, Upgrade!UpgradeAssumption
  <2>2. \A f \in Field :
          known[f] \subseteq database.child[f] \cup
                             (IF f \in DOMAIN database.legacy THEN database.legacy[f] ELSE {})
    BY <2>1 DEF Sound
  <2>3. ASSUME caller[Server].pc = "serving"
        PROVE  DOMAIN database.legacy = {} /\ database.child = known
    <3>1. DOMAIN database.legacy = {}
      BY <2>1, <2>3 DEF CopyDone
    <3>2. \A f \in Field : database.child[f] = known[f]
      BY <2>1, <3>1 DEF Sound
    <3>3. database.child \in [Field -> SUBSET Upgrade!Fact]
      BY <2>1 DEF Sound, Upgrade!Database
    <3> QED BY <2>1, <3>1, <3>2, <3>3
  <2>4. HalfDropped
    BY DEF UpgradeInv
  <2> QED BY <2>2, <2>3, <2>4 DEF Upgrade!FactsSurvive, HalfDropped
<1> QED BY UpgradeInit, <1>1, <1>2, PTL DEF Spec
-----------------------------------------------------------------------------
(* The backups *)

\* Backup has an instance of FiniteSets of its own: it counts the same way.
LEMMA BackupCardinality ==
    ASSUME NEW S
    PROVE  Cardinality(S) = Backup!Cardinality(S)
BY Zenon DEF Backup!Cardinality, Cardinality

Day == Backup!Day
Change == 0..MaxVersion
Names(files) == {d \in Day : files[d] # None}

\* What create_snapshot() and prune() hold in each state.
Snapshot == [pc : {"idle"}]
            \cup [pc : {"gzip"}, day : Day, data : Change]
            \cup [pc : {"rename"}, day : Day, data : Change, whole : {TRUE}]
            \cup [pc : {"sync", "list"}, day : Day]
            \cup [pc : {"prune"}, day : Day, surplus : SUBSET Day]

BackupTypes ==
    /\ today \in Day /\ changes \in Change /\ startOfDay \in [Day -> Change]
    /\ dir \in [Day -> Backup!File \cup {None}] /\ disk \in [Day -> Backup!File \cup {None}]
    /\ pass \in [Pass -> Snapshot] /\ promised \in BOOLEAN

\* A day's name stands for what was committed before that day.
Honest(files) == \A d \in Names(files) : /\ d <= today /\ files[d].whole
                                         /\ files[d].data >= startOfDay[d]

NamesHonest ==
    /\ \A d \in Day : d <= today => startOfDay[d] <= changes
    /\ Honest(dir) /\ Honest(disk)
    /\ \A p \in Pass : pass[p].pc \in {"gzip", "rename"} =>
         pass[p].day <= today /\ pass[p].data >= startOfDay[pass[p].day]

\* Whatever is listed for removal, by one pass or by several, a later name stays;
\* so what a pass has renamed, and a promise, is never without a file.
SomeSnapshotStays ==
    /\ \A p \in Pass : pass[p].pc = "prune" =>
         \A d \in pass[p].surplus : \E e \in Names(dir) : e > d
    /\ \A p \in Pass : /\ pass[p].pc \in {"sync", "list", "prune"} => Names(dir) # {}
                       /\ pass[p].pc \in {"list", "prune"} => Names(disk) # {}
    /\ promised => Names(dir) # {} /\ Names(disk) # {}

BackupInv == BackupTypes /\ NamesHonest /\ SomeSnapshotStays

\* At the start the directory is empty and no pass runs.
LEMMA BackupInit == Init => BackupInv
<1> USE ServiceAssumption DEF Backup!BackupAssumption, Backup!Day, Day, Change
<1> SUFFICES ASSUME Backup!Init PROVE BackupInv
  BY DEF Init
<1> USE DEF Backup!Init, Backup!Idle
<1>1. BackupTypes
  <2>1. Backup!Idle \in Snapshot
    BY DEF Snapshot
  <2>2. pass \in [Pass -> Snapshot]
    BY <2>1
  <2>3. 1 \in Day /\ 0 \in Change
    OBVIOUS
  <2>4. promised \in BOOLEAN
    BY Zenon
  <2>5. dir \in [Day -> Backup!File \cup {None}] /\ disk = dir
    OBVIOUS
  <2>6. today \in Day /\ changes \in Change /\ startOfDay \in [Day -> Change]
    BY <2>3
  <2> QED BY <2>2, <2>4, <2>5, <2>6 DEF BackupTypes
<1>2. Names(dir) = {} /\ Names(disk) = {}
  BY DEF Names
<1>3. NamesHonest /\ SomeSnapshotStays
  BY <1>2 DEF NamesHonest, Honest, SomeSnapshotStays
<1> QED BY <1>1, <1>3 DEF BackupInv

\* Only names that have a later one are listed for removal, whatever is kept.
LEMMA SurplusHasLater ==
    ASSUME NEW d \in Backup!Surplus
    PROVE  d \in Names(dir) /\ \E e \in Names(dir) : e > d
<1> DEFINE Later == {e \in Names(dir) : e > d}
<1>1. d \in Names(dir) /\ Cardinality(Later) >= Backup!Kept
  BY BackupCardinality DEF Backup!Surplus, Backup!Names, Names, Day
<1>2. Backup!Kept \in Int /\ Backup!Kept >= 1
  BY ServiceAssumption DEF Backup!Kept, Backup!BackupAssumption
<1>3. Later # {}
  BY <1>1, <1>2, FS_EmptySet
<1> QED BY <1>1, <1>3

\* Copying, renaming, syncing, pruning, a kill or a power cut leaves a sound snapshot.
LEMMA BackupStep ==
    ASSUME BackupInv, [Backup!Next]_backupVars
    PROVE  BackupInv'
<1> USE ServiceAssumption DEF Backup!BackupAssumption, Day, Backup!Day, Change
<1>0. BackupTypes /\ NamesHonest /\ SomeSnapshotStays
  BY DEF BackupInv
\* A pass that moves on, or ends, and leaves the files alone.
<1>1. ASSUME NEW p \in Pass, NEW s \in Snapshot, pass' = [pass EXCEPT ![p] = s],
             UNCHANGED <<today, changes, startOfDay, dir, disk>>,
             s.pc \in {"gzip", "rename"} =>
               s.day <= today /\ s.data >= startOfDay[s.day],
             s.pc = "prune" => \A d \in s.surplus : \E e \in Names(dir) : e > d,
             s.pc \in {"sync", "list", "prune"} => Names(dir) # {},
             s.pc \in {"list", "prune"} => Names(disk) # {},
             promised' \in BOOLEAN,
             promised' => Names(dir) # {} /\ Names(disk) # {}
      PROVE  BackupInv'
  <2>1. pass'[p] = s /\ \A q \in Pass : q # p => pass'[q] = pass[q]
    BY <1>0, <1>1 DEF BackupTypes
  <2>2. Names(dir)' = Names(dir) /\ Names(disk)' = Names(disk)
    BY <1>1 DEF Names
  <2>3. BackupTypes'
    BY <1>0, <1>1 DEF BackupTypes
  <2>4. NamesHonest'
    BY <1>0, <1>1, <2>1, <2>2 DEF NamesHonest, Honest
  <2>5. SomeSnapshotStays'
    BY <1>0, <1>1, <2>1, <2>2 DEF SomeSnapshotStays
  <2> QED BY <2>3, <2>4, <2>5 DEF BackupInv
<1>2. ASSUME NEW p \in Pass, Backup!Vacuum(p) PROVE BackupInv'
  <2> DEFINE s == [pc |-> "gzip", day |-> today, data |-> changes]
  <2>1. s \in Snapshot
    BY <1>0 DEF Snapshot, BackupTypes
  <2>2. pass' = [pass EXCEPT ![p] = s] /\ UNCHANGED <<today, changes, startOfDay, dir, disk, promised>>
    BY <1>2 DEF Backup!Vacuum, Backup!dbVars
  <2>3. startOfDay[today] <= changes /\ today <= today
    BY <1>0 DEF NamesHonest, BackupTypes
  <2> QED BY <1>0, <1>1, <2>1, <2>2, <2>3 DEF SomeSnapshotStays, BackupTypes
<1>3. ASSUME NEW p \in Pass, Backup!Compress(p) PROVE BackupInv'
  <2> DEFINE s == [pc |-> "rename", day |-> pass[p].day, data |-> pass[p].data, whole |-> TRUE]
  <2>1. pass[p].pc = "gzip" /\ pass[p] \in Snapshot
    BY <1>0, <1>3 DEF Backup!Compress, BackupTypes
  <2>2. s \in Snapshot
    BY <2>1 DEF Snapshot
  <2>3. pass' = [pass EXCEPT ![p] = s] /\ UNCHANGED <<today, changes, startOfDay, dir, disk, promised>>
    BY <1>0, <1>3 DEF Backup!Compress, Backup!dbVars, BackupTypes
  <2>4. s.day <= today /\ s.data >= startOfDay[s.day]
    BY <1>0, <2>1 DEF NamesHonest
  <2> QED BY <1>0, <1>1, <2>2, <2>3, <2>4 DEF SomeSnapshotStays, BackupTypes
<1>4. ASSUME NEW p \in Pass, Backup!Rename(p) PROVE BackupInv'
  <2> DEFINE d == pass[p].day
             file == [data |-> pass[p].data, whole |-> pass[p].whole]
             s == [pc |-> "sync", day |-> d]
  <2>1. pass[p] \in [pc : {"rename"}, day : Day, data : Change, whole : {TRUE}]
    BY <1>0, <1>4 DEF Backup!Rename, BackupTypes, Snapshot
  <2>2. /\ dir' = [dir EXCEPT ![d] = file] /\ pass' = [pass EXCEPT ![p] = s]
        /\ UNCHANGED <<today, changes, startOfDay, disk, promised>>
    BY <1>0, <1>4 DEF Backup!Rename, Backup!dbVars, BackupTypes
  <2>3. d \in Day /\ file \in Backup!File /\ file # None /\ file.whole /\ s \in Snapshot
    <3>1. d \in Day /\ s \in Snapshot
      BY <2>1 DEF Snapshot
    <3>2. file = [data |-> pass[p].data, whole |-> TRUE] /\ pass[p].data \in Change
      BY <2>1
    <3>3. file \in Backup!File /\ file.whole
      BY <3>2 DEF Backup!File
    <3>4. file # None
      BY <3>3
    <3> QED BY <3>1, <3>3, <3>4
  <2>4. /\ Names(dir)' = Names(dir) \cup {d} /\ Names(disk)' = Names(disk)
        /\ dir'[d] = file /\ \A e \in Day : e # d => dir'[e] = dir[e]
    BY <1>0, <2>2, <2>3 DEF Names, BackupTypes
  <2>5. pass'[p] = s /\ \A q \in Pass : q # p => pass'[q] = pass[q]
    BY <1>0, <2>2 DEF BackupTypes
  <2>6. BackupTypes'
    BY <1>0, <2>2, <2>3 DEF BackupTypes
  <2>7. d <= today /\ file.data >= startOfDay[d]
    BY <1>0, <2>1 DEF NamesHonest
  <2> HIDE DEF s, file, d
  <2>8. Honest(dir)' /\ Honest(disk)'
    BY <1>0, <2>2, <2>3, <2>4, <2>7 DEF NamesHonest, Honest, Names
  <2>9. NamesHonest'
    BY <1>0, <2>2, <2>5, <2>8 DEF NamesHonest, s
  <2>10. SomeSnapshotStays'
    <3>1. pass'[p].pc = "sync" /\ d \in Names(dir)' /\ Names(dir) \subseteq Names(dir)'
      BY <2>4, <2>5 DEF s
    <3> QED BY <1>0, <2>2, <2>4, <2>5, <3>1 DEF SomeSnapshotStays
  <2> QED BY <2>6, <2>9, <2>10 DEF BackupInv
<1>5. ASSUME NEW p \in Pass, Backup!SyncDir(p) PROVE BackupInv'
  <2> DEFINE s == [pass[p] EXCEPT !.pc = "list"]
  <2>1. pass[p].pc = "sync" /\ s \in [pc : {"list"}, day : Day]
    BY <1>0, <1>5 DEF Backup!SyncDir, BackupTypes, Snapshot
  <2>2. /\ disk' = dir /\ pass' = [pass EXCEPT ![p] = s]
        /\ UNCHANGED <<today, changes, startOfDay, dir, promised>>
    BY <1>0, <1>5 DEF Backup!SyncDir, Backup!dbVars, BackupTypes
  <2>3. /\ Names(dir)' = Names(dir) /\ Names(disk)' = Names(dir)
        /\ pass'[p] = s /\ \A q \in Pass : q # p => pass'[q] = pass[q]
    BY <1>0, <2>2 DEF Names, BackupTypes
  <2> HIDE DEF s
  <2>4. BackupTypes'
    BY <1>0, <2>1, <2>2 DEF BackupTypes, Snapshot
  <2>5. NamesHonest'
    BY <1>0, <2>1, <2>2, <2>3 DEF NamesHonest, Honest
  <2>6. SomeSnapshotStays'
    BY <1>0, <2>1, <2>2, <2>3 DEF SomeSnapshotStays
  <2> QED BY <2>4, <2>5, <2>6 DEF BackupInv
<1>6. ASSUME NEW p \in Pass, Backup!List(p) PROVE BackupInv'
  <2> DEFINE s == [pc |-> "prune", day |-> pass[p].day, surplus |-> Backup!Surplus]
  <2>1. pass[p].pc = "list" /\ pass[p].day \in Day
    BY <1>0, <1>6 DEF Backup!List, BackupTypes, Snapshot
  <2>2. pass' = [pass EXCEPT ![p] = s] /\ UNCHANGED <<today, changes, startOfDay, dir, disk, promised>>
    BY <1>0, <1>6 DEF Backup!List, Backup!dbVars, BackupTypes
  <2>3. s \in Snapshot
    BY <2>1 DEF Snapshot, Backup!Surplus, Backup!Names
  <2>4. \A d \in s.surplus : \E e \in Names(dir) : e > d
    BY SurplusHasLater
  <2>5. Names(dir) # {} /\ Names(disk) # {}
    BY <1>0, <2>1 DEF SomeSnapshotStays
  <2>6. s.pc = "prune" /\ promised \in BOOLEAN
    BY <1>0 DEF BackupTypes
  <2> HIDE DEF s
  <2> QED BY <1>1, <2>2, <2>3, <2>4, <2>5, <2>6
<1>7. ASSUME NEW p \in Pass, NEW d \in Day, Backup!Unlink(p, d) PROVE BackupInv'
  <2> DEFINE s == [pass[p] EXCEPT !.surplus = @ \ {d}]
  <2>1. pass[p].pc = "prune" /\ d \in pass[p].surplus
    BY <1>7 DEF Backup!Unlink
  <2>2. /\ dir' = [dir EXCEPT ![d] = None] /\ pass' = [pass EXCEPT ![p] = s]
        /\ UNCHANGED <<today, changes, startOfDay, disk, promised>>
    BY <1>0, <1>7 DEF Backup!Unlink, Backup!dbVars, BackupTypes
  <2>3. /\ s \in [pc : {"prune"}, day : Day, surplus : SUBSET Day]
        /\ s.surplus \subseteq pass[p].surplus
    BY <1>0, <2>1 DEF BackupTypes, Snapshot
  <2>4. /\ Names(dir)' = Names(dir) \ {d} /\ Names(disk)' = Names(disk)
        /\ \A e \in Names(dir)' : dir'[e] = dir[e]
    BY <1>0, <2>2 DEF Names, BackupTypes
  <2>5. pass'[p] = s /\ \A q \in Pass : q # p => pass'[q] = pass[q]
    BY <1>0, <2>2 DEF BackupTypes
  <2> HIDE DEF s
  <2>6. PICK e \in Names(dir) : e > d
    BY <1>0, <2>1 DEF SomeSnapshotStays
  <2>7. e \in Names(dir)' /\ \A c \in Day : c <= d => e > c
    BY <2>4, <2>6 DEF Names
  <2>8. ASSUME NEW q \in Pass, pass'[q].pc = "prune", NEW c \in pass'[q].surplus
        PROVE  \E b \in Names(dir)' : b > c
    <3>1. pass[q].pc = "prune" /\ c \in pass[q].surplus /\ c \in Day
      BY <1>0, <2>1, <2>3, <2>5, <2>8 DEF BackupTypes, Snapshot
    <3>2. PICK b \in Names(dir) : b > c
      BY <1>0, <3>1 DEF SomeSnapshotStays
    <3>3. b = d => e > c
      BY <2>7, <3>1, <3>2
    <3> QED BY <2>4, <2>7, <3>2, <3>3
  <2>9. BackupTypes'
    BY <1>0, <2>2, <2>3 DEF BackupTypes, Snapshot
  <2>10. NamesHonest'
    BY ZenonT(60), <1>0, <2>2, <2>3, <2>4, <2>5 DEF NamesHonest, Honest
  <2>11. SomeSnapshotStays'
    BY <1>0, <2>1, <2>2, <2>3, <2>4, <2>5, <2>7, <2>8 DEF SomeSnapshotStays
  <2> QED BY <2>9, <2>10, <2>11 DEF BackupInv
<1>8. Backup!Idle \in Snapshot /\ Backup!Idle.pc = "idle"
  BY DEF Snapshot, Backup!Idle
<1>9. ASSUME NEW p \in Pass, Backup!Stamp(p) PROVE BackupInv'
  <2>1. /\ pass[p].pc = "prune" /\ pass' = [pass EXCEPT ![p] = Backup!Idle] /\ promised' = TRUE
        /\ UNCHANGED <<today, changes, startOfDay, dir, disk>>
    BY <1>9 DEF Backup!Stamp, Backup!dbVars
  <2>2. Names(dir) # {} /\ Names(disk) # {}
    BY <1>0, <2>1 DEF SomeSnapshotStays
  <2> QED BY <1>1, <1>8, <2>1, <2>2
<1>10. ASSUME NEW p \in Pass, Backup!Fails(p) PROVE BackupInv'
  <2>1. /\ pass' = [pass EXCEPT ![p] = Backup!Idle]
        /\ UNCHANGED <<today, changes, startOfDay, dir, disk, promised>>
    BY <1>10 DEF Backup!Fails, Backup!dbVars
  <2>2. promised \in BOOLEAN /\ (promised => Names(dir) # {} /\ Names(disk) # {})
    BY <1>0 DEF SomeSnapshotStays, BackupTypes
  <2> QED BY <1>1, <1>8, <2>1, <2>2
\* What leaves the passes, the files and the days alone.
<1>11. ASSUME UNCHANGED <<today, changes, startOfDay, dir, disk, pass, promised>> PROVE BackupInv'
  BY <1>0, <1>11 DEF BackupInv, BackupTypes, NamesHonest, Honest, SomeSnapshotStays, Names
<1>12. ASSUME NEW p \in Pass, Backup!Skip(p) PROVE BackupInv'
  BY <1>11, <1>12 DEF Backup!Skip, Backup!dbVars
<1>13. CASE Backup!Sweep \/ Backup!HourPasses
  BY <1>11, <1>13 DEF Backup!Sweep, Backup!HourPasses, Backup!dbVars
\* The process or the machine ends: no pass is left.
<1>14. ASSUME pass' = [p \in Pass |-> Backup!Idle], dir' \in {dir, disk},
              UNCHANGED <<today, changes, startOfDay, disk, promised>>
       PROVE  BackupInv'
  <2>1. \A p \in Pass : pass'[p].pc = "idle"
    BY <1>8, <1>14
  <2>2. BackupTypes'
    BY <1>0, <1>8, <1>14 DEF BackupTypes
  <2>3. Names(disk)' = Names(disk) /\ Names(dir)' \in {Names(dir), Names(disk)}
    BY <1>14 DEF Names
  <2>4. NamesHonest'
    BY <1>0, <1>14, <2>1 DEF NamesHonest, Honest, Names
  <2>5. SomeSnapshotStays'
    BY <1>0, <1>14, <2>1, <2>3 DEF SomeSnapshotStays
  <2> QED BY <2>2, <2>4, <2>5 DEF BackupInv
<1>15. CASE Backup!Kill \/ Backup!PowerCut
  BY <1>14, <1>15 DEF Backup!Kill, Backup!PowerCut, Backup!dbVars
<1>16. CASE Backup!Writeback
  <2>1. disk' = dir /\ UNCHANGED <<today, changes, startOfDay, dir, pass, promised>>
    BY <1>16 DEF Backup!Writeback, Backup!dbVars
  <2>2. Names(disk)' = Names(dir) /\ Names(dir)' = Names(dir)
    BY <2>1 DEF Names
  <2>3. SomeSnapshotStays'
    BY <1>0, <2>1, <2>2 DEF SomeSnapshotStays
  <2>4. BackupTypes' /\ NamesHonest'
    BY <1>0, <2>1, <2>2 DEF BackupTypes, NamesHonest, Honest
  <2> QED BY <2>3, <2>4 DEF BackupInv
<1>17. CASE Backup!Change
  <2>1. /\ changes < MaxVersion /\ changes' = changes + 1
        /\ UNCHANGED <<today, startOfDay, dir, disk, pass, promised>>
    BY <1>17 DEF Backup!Change
  <2>2. BackupTypes' /\ NamesHonest'
    BY <1>0, <2>1 DEF BackupTypes, NamesHonest, Honest, Names
  <2>3. SomeSnapshotStays'
    BY <1>0, <2>1 DEF SomeSnapshotStays, Names
  <2> QED BY <2>2, <2>3 DEF BackupInv
<1>18. CASE Backup!Midnight
  <2>1. /\ today < MaxDay /\ today' = today + 1
        /\ startOfDay' = [startOfDay EXCEPT ![today + 1] = changes]
        /\ UNCHANGED <<changes, dir, disk, pass, promised>>
    BY <1>18 DEF Backup!Midnight
  <2>2. BackupTypes' /\ \A d \in Day : d <= today => startOfDay'[d] = startOfDay[d]
    BY <1>0, <2>1 DEF BackupTypes
  <2>3. \A d \in Day : d <= today' => startOfDay'[d] <= changes
    BY <1>0, <2>1, <2>2 DEF BackupTypes, NamesHonest
  <2>4. Honest(dir)' /\ Honest(disk)'
    BY <1>0, <2>1, <2>2 DEF BackupTypes, NamesHonest, Honest, Names
  <2>5. ASSUME NEW p \in Pass, pass[p].pc \in {"gzip", "rename"}
        PROVE  pass[p].day <= today' /\ pass[p].data >= startOfDay'[pass[p].day]
    <3>1. pass[p].day \in Day /\ pass[p].day <= today /\ pass[p].data >= startOfDay[pass[p].day]
      BY <1>0, <2>5 DEF BackupTypes, NamesHonest, Snapshot
    <3> QED BY <1>0, <2>1, <2>2, <3>1 DEF BackupTypes
  <2>6. SomeSnapshotStays'
    BY <1>0, <2>1 DEF SomeSnapshotStays, Names
  <2> QED BY <2>1, <2>2, <2>3, <2>4, <2>5, <2>6 DEF BackupInv, NamesHonest
<1>19. CASE UNCHANGED backupVars
  BY <1>11, <1>19 DEF backupVars
<1> QED BY <1>2, <1>3, <1>4, <1>5, <1>6, <1>7, <1>9, <1>10, <1>12, <1>13, <1>15, <1>16,
           <1>17, <1>18, <1>19
        DEF Backup!Next, Backup!PassNext

\* Once a pass was stamped as having written a snapshot a whole one survives a power
\* cut, and a snapshot holds all that was committed before its day: for any number of
\* overlapping passes and any number of copies to keep (create_snapshot, prune).
THEOREM BackupsAreSound == Spec => []SnapshotsAreSound
<1>1. BackupInv /\ [Next]_vars => BackupInv'
  BY PartsStep, BackupStep
<1>2. BackupInv => SnapshotsAreSound
  BY DEF BackupInv, NamesHonest, Honest, SomeSnapshotStays, SnapshotsAreSound,
         Backup!SnapshotSurvives, Backup!NameIsHonest, Backup!Names, Names, Day
<1> QED BY BackupInit, <1>1, <1>2, PTL DEF Spec

-----------------------------------------------------------------------------
(* The export: each row of its range once *)

\* An instance has its own copy of the cardinality; the two agree.
LEMMA ExportCardinality ==
    ASSUME NEW S
    PROVE  Cardinality(S) = Export!Cardinality(S)
BY Zenon DEF Export!Cardinality, Cardinality

-----------------------------------------------------------------------------
(* A page: the newest rows of a set *)

Row == Export!Row
Before(r, s) == Export!Before(r, s)

\* Timestamp and id order the rows totally.
LEMMA RowOrder ==
    ASSUME NEW r \in Row, NEW s \in Row
    PROVE  /\ ~ Before(r, r) /\ (r = s \/ Before(r, s) \/ Before(s, r))
           /\ \A t \in Row : Before(r, s) /\ Before(s, t) => Before(r, t)
<1>1. ASSUME NEW t \in Row
      PROVE  t.at \in Nat /\ t.id \in Nat /\ t = [at |-> t.at, id |-> t.id]
  <2>1. Moment \subseteq Nat /\ MaxId \in Nat
    BY ServiceAssumption DEF Export!ExportAssumption
  <2>2. t \in [at : Moment, id : 1..MaxId]
    BY DEF Row, Export!Row
  <2>3. t.at \in Moment /\ t.id \in 1..MaxId /\ t = [at |-> t.at, id |-> t.id]
    BY <2>2
  <2> QED BY <2>1, <2>3
<1>2. r.at = s.at /\ r.id = s.id => r = s
  BY <1>1
<1> QED BY <1>1, <1>2 DEF Before, Export!Before

Newer(S, r) == {s \in S : Before(r, s)}
Rank(S) == [r \in S |-> Cardinality(Newer(S, r))]

\* Of two rows the later one has fewer rows above it.
LEMMA RankFalls ==
    ASSUME NEW S \in SUBSET Row, IsFiniteSet(S), NEW r \in S, NEW s \in S, Before(r, s)
    PROVE  Rank(S)[s] \in Nat /\ Rank(S)[r] \in Nat /\ Rank(S)[s] < Rank(S)[r]
<1>1. Newer(S, s) \subseteq Newer(S, r) /\ s \in Newer(S, r) /\ s \notin Newer(S, s)
  BY RowOrder DEF Newer
<1>2. IsFiniteSet(Newer(S, r)) /\ IsFiniteSet(Newer(S, s))
  BY FS_Subset DEF Newer
<1>3. Cardinality(Newer(S, r)) \in Nat /\ Cardinality(Newer(S, s)) \in Nat
  BY <1>2, FS_CardinalityType
<1>4. /\ Cardinality(Newer(S, s)) <= Cardinality(Newer(S, r))
      /\ Cardinality(Newer(S, r)) # Cardinality(Newer(S, s))
  BY <1>1, <1>2, FS_Subset
<1> QED BY <1>3, <1>4 DEF Rank

\* Every place of the list is taken by one row.
LEMMA RankIsOnto ==
    ASSUME NEW S \in SUBSET Row, IsFiniteSet(S)
    PROVE  /\ Rank(S) \in Injection(S, 0..(Cardinality(S) - 1))
           /\ \A n \in 0..(Cardinality(S) - 1) : \E r \in S : Rank(S)[r] = n
<1> DEFINE size == Cardinality(S)
           Place == 0..(size - 1)
<1>1. size \in Nat
  BY FS_CardinalityType
<1>2. ASSUME NEW r \in S PROVE Rank(S)[r] \in Place
  <2>1. Newer(S, r) \subseteq S /\ r \notin Newer(S, r)
    BY RowOrder DEF Newer
  <2>2. IsFiniteSet(Newer(S, r)) /\ Cardinality(Newer(S, r)) <= size
        /\ Cardinality(Newer(S, r)) # size
    BY <2>1, FS_Subset
  <2>3. Cardinality(Newer(S, r)) \in Nat
    BY <2>2, FS_CardinalityType
  <2> QED BY <1>1, <2>2, <2>3 DEF Rank
<1>3. \A r, s \in S : Rank(S)[r] = Rank(S)[s] => r = s
  <2> SUFFICES ASSUME NEW r \in S, NEW s \in S, Rank(S)[r] = Rank(S)[s], r # s PROVE FALSE
    OBVIOUS
  <2>1. Before(r, s) \/ Before(s, r)
    BY RowOrder
  <2>2. ASSUME Before(r, s) PROVE FALSE
    BY <2>2, RankFalls
  <2>3. ASSUME Before(s, r) PROVE FALSE
    BY <2>3, RankFalls
  <2> QED BY <2>1, <2>2, <2>3
<1>4. Rank(S) \in Injection(S, Place)
  <2>1. Rank(S) \in [S -> Place]
    BY <1>2 DEF Rank
  <2> QED BY <1>3, <2>1 DEF Injection, IsInjective
<1>5. IsFiniteSet(Place) /\ Cardinality(Place) = size
  BY <1>1, FS_Interval
<1>6. Rank(S) \in Surjection(S, Place)
  BY <1>4, <1>5, FS_Injection
<1> QED BY <1>4, <1>6 DEF Surjection

IsPage(page, S) ==
    \A i \in DOMAIN page : Newer(S, page[i]) = {page[j] : j \in 1..i - 1}

\* There is a page of every size that the rows allow.
LEMMA PageExists ==
    ASSUME NEW S \in SUBSET Row, IsFiniteSet(S), NEW n \in 0..Cardinality(S)
    PROVE  \E page \in [1..n -> S] : IsPage(page, S)
<1> DEFINE at(i) == CHOOSE r \in S : Rank(S)[r] = i - 1
           page == [i \in 1..n |-> at(i)]
<1>1. Cardinality(S) \in Nat
  BY FS_CardinalityType
<1>2. \A i \in 1..n : page[i] \in S /\ Rank(S)[page[i]] = i - 1
  <2> TAKE i \in 1..n
  <2>1. i - 1 \in 0..(Cardinality(S) - 1)
    BY <1>1
  <2>2. \E r \in S : Rank(S)[r] = i - 1
    BY <2>1, RankIsOnto
  <2> QED BY <2>2
<1> HIDE DEF page, at
<1>3. page \in [1..n -> S] /\ DOMAIN page = 1..n
  BY <1>2 DEF page
<1>4. \A r, s \in S : Rank(S)[r] = Rank(S)[s] => r = s
  BY RankIsOnto DEF Injection, IsInjective
<1>5. ASSUME NEW i \in 1..n PROVE Newer(S, page[i]) = {page[j] : j \in 1..i - 1}
  <2>1. ASSUME NEW s \in Newer(S, page[i]) PROVE s \in {page[j] : j \in 1..i - 1}
    <3>1. s \in S /\ Before(page[i], s)
      BY DEF Newer
    <3>2. Rank(S)[s] \in Nat /\ Rank(S)[s] < i - 1
      BY <1>2, <3>1, RankFalls
    <3>3. Rank(S)[s] + 1 \in 1..i - 1 /\ Rank(S)[s] + 1 \in 1..n
      BY <3>2
    <3>4. Rank(S)[page[Rank(S)[s] + 1]] = Rank(S)[s]
      BY <1>2, <3>2, <3>3
    <3>5. page[Rank(S)[s] + 1] = s
      BY <1>2, <1>4, <3>1, <3>3, <3>4
    <3> QED BY <3>3, <3>5
  <2>2. ASSUME NEW j \in 1..i - 1 PROVE page[j] \in Newer(S, page[i])
    <3>1. j \in 1..n /\ page[j] \in S /\ Rank(S)[page[j]] = j - 1 /\ j - 1 < i - 1
      BY <1>2
    <3>2. page[i] \in S /\ Rank(S)[page[i]] = i - 1
      BY <1>2
    <3>3. page[i] # page[j]
      BY <3>1, <3>2
    <3>4. ~ Before(page[j], page[i])
      BY <3>1, <3>2, RankFalls
    <3> QED BY <3>1, <3>2, <3>3, <3>4, RowOrder DEF Newer
  <2> QED BY <2>1, <2>2
<1> QED BY <1>3, <1>5 DEF IsPage

\* A page has later rows first, and none newer than its last is missing.
LEMMA PageIsNewest ==
    ASSUME NEW S \in SUBSET Row, NEW n \in Nat, NEW page \in [1..n -> S], IsPage(page, S)
    PROVE  /\ \A i, j \in 1..n : j < i => Before(page[i], page[j])
           /\ \A r \in S : n > 0 /\ Before(page[n], r) => \E i \in 1..n : page[i] = r
<1>1. ASSUME NEW i \in 1..n, NEW j \in 1..n, j < i PROVE Before(page[i], page[j])
  <2>1. j \in 1..i - 1 /\ Newer(S, page[i]) = {page[k] : k \in 1..i - 1}
    BY <1>1 DEF IsPage
  <2> QED BY <2>1 DEF Newer
<1>2. ASSUME NEW r \in S, n > 0, Before(page[n], r) PROVE \E i \in 1..n : page[i] = r
  <2>1. n \in 1..n /\ n \in DOMAIN page
    BY <1>2
  <2>2. r \in Newer(S, page[n])
    BY <1>2 DEF Newer
  <2>3. r \in {page[j] : j \in 1..n - 1}
    BY <2>1, <2>2 DEF IsPage
  <2> QED BY <2>3
<1> QED BY <1>1, <1>2

\* What get_export_page() returns: such a page of what lies after the last row sent,
\* empty only when nothing does.
LEMMA PageReturned ==
    ASSUME Export!Rest \subseteq Row, IsFiniteSet(Export!Rest)
    PROVE  \E n \in Nat :
             /\ Export!GetExportPage \in [1..n -> Export!Rest]
             /\ IsPage(Export!GetExportPage, Export!Rest)
             /\ n = 0 => Export!Rest = {}
<1> DEFINE S == Export!Rest
           n == IF Cardinality(S) < PageSize THEN Cardinality(S) ELSE PageSize
<1>1. Cardinality(S) \in Nat /\ PageSize \in Nat \ {0}
  BY ServiceAssumption, FS_CardinalityType DEF Export!ExportAssumption
<1>2. n \in 0..Cardinality(S) /\ n \in Nat /\ (n = 0 => Cardinality(S) = 0)
  BY <1>1
<1>3. n = 0 => S = {}
  BY <1>2, FS_EmptySet
<1>4. \E page \in [1..n -> S] : IsPage(page, S)
  BY <1>2, PageExists
<1>5. Export!GetExportPage =
        CHOOSE page \in [1..n -> S] :
          \A i \in 1..n : {r \in S : Export!Before(page[i], r)} = {page[j] : j \in 1..i - 1}
  BY ExportCardinality DEF Export!GetExportPage
<1>6. \A page \in [1..n -> S] :
        IsPage(page, S) <=>
          \A i \in 1..n : {r \in S : Export!Before(page[i], r)} = {page[j] : j \in 1..i - 1}
  BY DEF IsPage, Newer, Before
<1> HIDE DEF n, S
<1>7. Export!GetExportPage \in [1..n -> S] /\ IsPage(Export!GetExportPage, S)
  BY <1>4, <1>5, <1>6
<1> QED BY <1>2, <1>3, <1>7 DEF S

-----------------------------------------------------------------------------
(* The export *)

Wanted(r) == Export!InRange(r, export.from, export.to)
Sent == {export.out[i] : i \in DOMAIN export.out}

ExportTypes ==
    /\ visits \subseteq Row /\ gone \subseteq Row /\ IsFiniteSet(visits)
    /\ lastId \in 0..MaxId /\ stay \subseteq visits
    /\ export \in [pc : {"idle"}]
                  \cup [pc : {"page", "done"}, from : Moment \cup {None}, to : Moment \cup {None},
                        after : Row \cup {None}, out : Seq(Row)]

\* What was sent is wanted, was sent once and is no older than the last row; what was
\* there all the time and is wanted was sent, or is older than the last row and the
\* export goes on.
SentWell ==
    export.pc # "idle" =>
        /\ export.after = None => export.out = <<>>
        /\ \A i \in DOMAIN export.out :
             /\ Wanted(export.out[i])
             /\ export.out[i] = export.after \/ Before(export.after, export.out[i])
             /\ \A j \in DOMAIN export.out : i # j => export.out[i] # export.out[j]
        /\ \A r \in stay : Wanted(r) =>
             \/ r \in Sent
             \/ export.pc = "page" /\ (export.after # None => Before(r, export.after))

ExportInv == ExportTypes /\ SentWell

\* Nothing has been sent before the first page.
LEMMA ExportInit == Init => ExportInv
<1> SUFFICES ASSUME Export!Init PROVE ExportInv
  BY DEF Init
<1>1. ExportTypes
  BY ServiceAssumption, FS_EmptySet
     DEF Export!Init, Export!Resting, ExportTypes, Export!ExportAssumption
<1>2. SentWell
  BY DEF Export!Init, Export!Resting, SentWell
<1> QED BY <1>1, <1>2 DEF ExportInv

\* A page goes out: nothing that was sent before, nothing unwanted, and what is still
\* missing is older than its last row.
LEMMA PageKeepsExact ==
    ASSUME ExportInv, Export!Page
    PROVE  ExportInv'
<1> DEFINE S == Export!Rest
           page == Export!GetExportPage
<1>1. /\ ExportTypes /\ SentWell /\ export.pc = "page"
      /\ UNCHANGED <<visits, gone, lastId, stay>>
  BY DEF ExportInv, Export!Page
<1>2. export \in [pc : {"page", "done"}, from : Moment \cup {None}, to : Moment \cup {None},
                  after : Row \cup {None}, out : Seq(Row)]
  BY <1>1 DEF ExportTypes
<1>3. S = {r \in visits : /\ Wanted(r)
                          /\ export.after # None => Before(r, export.after)}
  BY DEF Export!Rest, Wanted, Before
<1>4. S \subseteq Row /\ S \subseteq visits /\ IsFiniteSet(S)
  BY <1>1, <1>3, FS_Subset DEF ExportTypes
<1>5. PICK n \in Nat : /\ page \in [1..n -> S] /\ IsPage(page, S)
                       /\ n = 0 => S = {}
  BY <1>4, PageReturned
<1>6. page \in Seq(Row) /\ Len(page) = n /\ (page = <<>> <=> n = 0)
  BY <1>4, <1>5
<1>7. export' = IF page = <<>> THEN [export EXCEPT !.pc = "done"]
                ELSE [export EXCEPT !.out = @ \o page, !.after = page[Len(page)]]
  BY DEF Export!Page
<1> HIDE DEF page, S
<1>8. CASE n = 0
  <2>1. export' = [export EXCEPT !.pc = "done"] /\ S = {}
    BY <1>5, <1>6, <1>7, <1>8
  <2>2. ExportTypes'
    BY <1>1, <1>2, <2>1 DEF ExportTypes
  <2>3. /\ export'.pc = "done" /\ export'.from = export.from /\ export'.to = export.to
        /\ export'.after = export.after /\ export'.out = export.out
    BY <1>2, <2>1
  <2>4. Sent' = Sent /\ \A r : Wanted(r)' <=> Wanted(r)
    BY <2>3 DEF Sent, Wanted
  <2>5. \A r \in stay : Wanted(r) => r \in Sent
    BY <1>1, <1>3, <2>1 DEF SentWell, ExportTypes
  <2>6. SentWell'
    BY <1>1, <2>3, <2>4, <2>5 DEF SentWell
  <2> QED BY <2>2, <2>6 DEF ExportInv
<1>9. CASE n # 0
  <2> DEFINE last == page[n]
  <2>1. export' = [export EXCEPT !.out = @ \o page, !.after = last]
    BY <1>6, <1>7, <1>9
  <2>2. /\ export'.pc = "page" /\ export'.from = export.from /\ export'.to = export.to
        /\ export'.after = last /\ export'.out = export.out \o page
    BY <1>1, <1>2, <2>1
  <2>3. n \in 1..n /\ last \in S /\ last \in Row
    BY <1>4, <1>5, <1>9
  <2>4. ExportTypes'
    <3>1. export.out \o page \in Seq(Row)
      BY <1>2, <1>6
    <3>2. export' \in [pc : {"page", "done"}, from : Moment \cup {None}, to : Moment \cup {None},
                      after : Row \cup {None}, out : Seq(Row)]
      BY <1>2, <2>1, <2>2, <2>3, <3>1
    <3> QED BY <1>1, <3>2 DEF ExportTypes
  <2>5. /\ \A i, j \in 1..n : j < i => Before(page[i], page[j])
        /\ \A i, j \in 1..n : i # j => page[i] # page[j]
        /\ \A r \in S : Before(last, r) => \E i \in 1..n : page[i] = r
    <3>1. S \in SUBSET Row /\ n > 0
      BY <1>4, <1>9
    <3>2. \A r \in S : n > 0 /\ Before(page[n], r) => \E i \in 1..n : page[i] = r
      BY <1>5, <3>1, PageIsNewest
    <3>3. \A i, j \in 1..n : j < i => Before(page[i], page[j])
      BY <1>5, <3>1, PageIsNewest, Zenon
    <3>4. ASSUME NEW i \in 1..n, NEW j \in 1..n, i # j PROVE page[i] # page[j]
      <4>1. page[i] \in Row /\ page[j] \in Row
        BY <1>4, <1>5
      <4>2. Before(page[i], page[j]) \/ Before(page[j], page[i])
        BY <3>3, <3>4
      <4> QED BY <4>1, <4>2, RowOrder
    <3> QED BY <3>1, <3>2, <3>3, <3>4
  <2>6. \A i \in 1..n : page[i] \in S /\ page[i] \in Row /\ (i # n => Before(last, page[i]))
    BY <1>4, <1>5, <2>3, <2>5
  <2> HIDE DEF last
  <2> DEFINE out == export.out
             m == Len(out)
  <2>7. /\ out \in Seq(Row) /\ m \in Nat /\ DOMAIN out = 1..m
        /\ \A i \in 1..m : out[i] \in Row
    BY <1>2
  <2>8. /\ DOMAIN export'.out = 1..m + n
        /\ \A i \in 1..m : export'.out[i] = out[i]
        /\ \A i \in 1..n : export'.out[m + i] = page[i]
        /\ \A i \in m + 1..m + n : i - m \in 1..n /\ export'.out[i] = page[i - m]
    BY <1>6, <2>2, <2>7
  <2> HIDE DEF out, m
  <2>9. \A r : Wanted(r)' <=> Wanted(r)
    BY <2>2 DEF Wanted
  <2>10. \A i \in 1..m : /\ Wanted(out[i]) /\ Before(last, out[i])
                         /\ \A j \in 1..m : i # j => out[i] # out[j]
                         /\ \A j \in 1..n : out[i] # page[j]
    <3> SUFFICES ASSUME NEW i \in 1..m
                 PROVE  /\ Wanted(out[i]) /\ Before(last, out[i])
                        /\ \A j \in 1..m : i # j => out[i] # out[j]
                        /\ \A j \in 1..n : out[i] # page[j]
      OBVIOUS
    <3>1. /\ Wanted(out[i]) /\ export.after # None
          /\ out[i] = export.after \/ Before(export.after, out[i])
          /\ \A j \in 1..m : i # j => out[i] # out[j]
      BY <1>1, <2>7 DEF SentWell, out
    <3>2. export.after \in Row /\ out[i] \in Row
      BY <1>2, <2>7, <3>1
    <3>3. \A r \in S : r \in Row /\ Before(r, export.after)
      BY <1>3, <1>4, <3>1
    <3>4. \A r \in S : Before(r, out[i])
      BY <3>1, <3>2, <3>3, RowOrder
    <3>5. ~ Before(out[i], out[i])
      BY <3>2, RowOrder
    <3> QED BY <2>3, <2>6, <3>1, <3>4, <3>5
  <2>11. \A i \in 1..n : Wanted(page[i])
    BY <1>3, <2>6
  <2>12. ASSUME NEW i \in DOMAIN export'.out
         PROVE  /\ Wanted(export'.out[i])
                /\ export'.out[i] = last \/ Before(last, export'.out[i])
                /\ \A j \in DOMAIN export'.out : i # j => export'.out[i] # export'.out[j]
    <3>1. CASE i \in 1..m
      <4>1. ASSUME NEW j \in DOMAIN export'.out, i # j PROVE export'.out[i] # export'.out[j]
        <5>1. CASE j \in 1..m
          BY <2>8, <2>10, <3>1, <4>1, <5>1
        <5>2. CASE j \in m + 1..m + n
          BY <2>8, <2>10, <3>1, <5>2
        <5> QED BY <2>7, <2>8, <5>1, <5>2
      <4> QED BY <2>8, <2>10, <3>1, <4>1
    <3>2. CASE i \in m + 1..m + n
      <4>1. ASSUME NEW j \in DOMAIN export'.out, i # j PROVE export'.out[i] # export'.out[j]
        <5>1. CASE j \in 1..m
          BY <2>8, <2>10, <3>2, <5>1
        <5>2. CASE j \in m + 1..m + n
          <6>1. i - m # j - m /\ i - m \in 1..n /\ j - m \in 1..n
            BY <2>7, <2>8, <3>2, <4>1, <5>2
          <6> QED BY <2>5, <2>8, <3>2, <5>2, <6>1
        <5> QED BY <2>7, <2>8, <5>1, <5>2
      <4> QED BY <2>6, <2>8, <2>11, <3>2, <4>1 DEF last
    <3> QED BY <2>7, <2>8, <3>1, <3>2
  <2>13. \A i \in 1..n : page[i] \in Sent'
    <3> TAKE i \in 1..n
    <3>1. m + i \in DOMAIN export'.out /\ export'.out[m + i] = page[i]
      BY <2>7, <2>8
    <3> QED BY <3>1 DEF Sent
  <2>14. Sent \subseteq Sent'
    <3> SUFFICES ASSUME NEW i \in DOMAIN export.out PROVE export.out[i] \in Sent'
      BY DEF Sent
    <3>1. i \in DOMAIN export'.out /\ export'.out[i] = export.out[i]
      BY <2>7, <2>8 DEF out
    <3> QED BY <3>1 DEF Sent
  <2>15. ASSUME NEW r \in stay, Wanted(r)
         PROVE  r \in Sent' \/ Before(r, last)
    <3>1. r \in Sent \/ r \in S
      BY <1>1, <1>3, <2>15 DEF SentWell, ExportTypes
    <3>2. CASE r \in S
      <4>1. r = last \/ Before(r, last) \/ Before(last, r)
        BY <1>4, <2>3, <3>2, RowOrder
      <4> QED BY <2>3, <2>5, <2>13, <3>2, <4>1 DEF last
    <3> QED BY <2>14, <3>1, <3>2
  <2>16. last # None
    BY <2>3, ServiceAssumption DEF Export!ExportAssumption, Row
  <2>17. SentWell'
    BY <1>1, <2>2, <2>9, <2>12, <2>15, <2>16 DEF SentWell
  <2> QED BY <2>4, <2>17 DEF ExportInv
<1> QED BY <1>8, <1>9

\* A page sends what follows the last row sent; rows that come and go are not among stay.
LEMMA ExportStep ==
    ASSUME ExportInv, [Export!Next]_exportVars
    PROVE  ExportInv'
<1>0. ExportTypes /\ SentWell /\ MaxId \in Nat
  BY ServiceAssumption DEF ExportInv, Export!ExportAssumption
<1>1. ASSUME UNCHANGED export, visits' \subseteq Row, gone' \subseteq Row, IsFiniteSet(visits'),
             lastId' \in 0..MaxId, stay' \subseteq visits', stay' \subseteq stay
      PROVE  ExportInv'
  <2>1. Sent' = Sent /\ \A r : Wanted(r)' <=> Wanted(r)
    BY <1>1 DEF Sent, Wanted
  <2>2. ExportTypes'
    BY <1>0, <1>1 DEF ExportTypes
  <2>3. SentWell'
    BY <1>0, <1>1, <2>1 DEF SentWell
  <2> QED BY <2>2, <2>3 DEF ExportInv
<1>2. ASSUME NEW at \in Moment, Export!Insert(at) PROVE ExportInv'
  <2> DEFINE r == [at |-> at, id |-> lastId + 1]
  <2>1. /\ lastId < MaxId /\ lastId' = lastId + 1 /\ visits' = visits \cup {r}
        /\ UNCHANGED <<gone, export, stay>>
    BY <1>2 DEF Export!Insert
  <2>2. lastId + 1 \in 1..MaxId /\ r \in Row
    BY <1>0, <2>1 DEF ExportTypes, Row, Export!Row
  <2> HIDE DEF r
  <2>3. IsFiniteSet(visits')
    BY <1>0, <2>1, FS_AddElement DEF ExportTypes
  <2> QED BY <1>0, <1>1, <2>1, <2>2, <2>3 DEF ExportTypes
<1>3. ASSUME NEW r \in Row, Export!Archive(r) PROVE ExportInv'
  <2>1. /\ visits' = visits \ {r} /\ gone' = gone \cup {r} /\ stay' = stay \ {r}
        /\ UNCHANGED <<lastId, export>>
    BY <1>3 DEF Export!Archive
  <2>2. IsFiniteSet(visits')
    BY <1>0, <2>1, FS_RemoveElement DEF ExportTypes
  <2> QED BY <1>0, <1>1, <2>1, <2>2 DEF ExportTypes
<1>4. ASSUME NEW r \in Row, Export!Restore(r) PROVE ExportInv'
  <2>1. /\ visits' = visits \cup {r} /\ gone' = gone \ {r} /\ UNCHANGED <<lastId, export, stay>>
    BY <1>4 DEF Export!Restore
  <2>2. IsFiniteSet(visits')
    BY <1>0, <2>1, FS_AddElement DEF ExportTypes
  <2> QED BY <1>0, <1>1, <2>1, <2>2 DEF ExportTypes
<1>5. ASSUME NEW from \in Moment \cup {None}, NEW to \in Moment \cup {None}, Export!Start(from, to)
      PROVE  ExportInv'
  <2>1. /\ export' = [pc |-> "page", from |-> from, to |-> to, after |-> None, out |-> <<>>]
        /\ stay' = visits /\ UNCHANGED <<visits, gone, lastId>>
    BY <1>5 DEF Export!Start
  <2>2. <<>> \in Seq(Row) /\ DOMAIN <<>> = {}
    OBVIOUS
  <2>3. ExportTypes'
    BY <1>0, <2>1, <2>2 DEF ExportTypes
  <2>4. SentWell'
    BY <2>1, <2>2 DEF SentWell
  <2> QED BY <2>3, <2>4 DEF ExportInv
<1>6. CASE Export!Page
  BY <1>6, PageKeepsExact
<1>7. CASE Export!Close
  <2>1. export' = [pc |-> "idle"] /\ stay' = {} /\ UNCHANGED <<visits, gone, lastId>>
    BY <1>7 DEF Export!Close, Export!Resting
  <2> QED BY <1>0, <2>1 DEF ExportInv, ExportTypes, SentWell
<1>8. CASE UNCHANGED exportVars
  BY <1>0, <1>1, <1>8 DEF exportVars, ExportTypes
<1> QED BY <1>2, <1>3, <1>4, <1>5, <1>6, <1>7, <1>8 DEF Export!Next, Row

\* "No row is repeated or skipped at a page boundary" (get_export_page): a finished
\* export holds no row twice, nothing outside its range and every row of the range
\* that was there all the time, whatever was inserted, archived and restored meanwhile.
THEOREM ExportsAreExact == Spec => []ExportIsExact
<1>1. ExportInv /\ [Next]_vars => ExportInv'
  <2>1. [Next]_vars => [Export!Next]_exportVars
    BY DEF Next, vars, RunPages, RunBackup, OnlyBackup, RunPacing, RunExport, RunShutdown,
           RunUpgrade
  <2> QED BY <2>1, ExportStep
<1>2. ExportInv => ExportIsExact
  <2> SUFFICES ASSUME ExportTypes, SentWell, export.pc = "done"
               PROVE  /\ Cardinality(Sent) = Len(export.out)
                      /\ \A r \in Sent : Wanted(r)
                      /\ \A r \in stay : Wanted(r) => r \in Sent
    BY ExportCardinality
       DEF ExportInv, ExportIsExact, Export!ExportIsExact, Sent, Wanted
  <2> DEFINE out == export.out
             n == Len(out)
  <2>1. out \in Seq(Row) /\ n \in Nat /\ DOMAIN out = 1..n
    BY DEF ExportTypes
  <2>2. \A i, j \in 1..n : out[i] = out[j] => i = j
    BY <2>1 DEF SentWell
  <2>3. Sent = {out[i] : i \in 1..n}
    BY <2>1 DEF Sent
  <2>4. (\A r \in Sent : Wanted(r)) /\ \A r \in stay : Wanted(r) => r \in Sent
    BY DEF SentWell, Sent
  <2>5. out \in [1..n -> Sent] /\ \A r \in Sent : \E i \in 1..n : out[i] = r
    BY <2>1, <2>3
  <2> HIDE DEF out, n
  <2>6. out \in Surjection(1..n, Sent) /\ out \in Injection(1..n, Sent)
    BY <2>2, <2>5 DEF Surjection, Injection, IsInjective
  <2>7. IsFiniteSet(1..n) /\ Cardinality(1..n) = n
    BY <2>1, FS_Interval
  <2>8. Cardinality(Sent) = n
    BY <2>6, <2>7, FS_Surjection
  <2> QED BY <2>4, <2>8 DEF n, out
<1> QED BY ExportInit, <1>1, <1>2, PTL DEF Spec

===============================================================================
