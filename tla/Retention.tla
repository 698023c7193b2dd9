------------------------------ MODULE Retention ------------------------------
(***************************************************************************)
(* The monthly archive of Vidar: src/archive.py, src/retention.py, their   *)
(* SQL in src/queries/archive_sql.py and the actions of                    *)
(* src/routes/settings.py that call them.                                  *)
(*                                                                         *)
(* Three kinds of actors work on two stores.  The stores are the database  *)
(* (committed rows of `visits`, pins and settings in `processor_state`)    *)
(* and the archive directory (one zip per month).  The actors are the      *)
(* retention passes (the service's daily task and `python -m               *)
(* src.retention`), the requests of the storage page, and the log tailer.  *)
(*                                                                         *)
(* Granularity: a database transaction that only writes rows is one step   *)
(* at its commit; file operations are steps of their own, because they are *)
(* not covered by the database's lock, and so are the steps of a           *)
(* transaction that has file operations inside it.  Months are consecutive *)
(* integers; a pin is absent, live or over instead of carrying a date.     *)
(* ip_intel and VACUUM do not decide where a visit is kept and are left    *)
(* out.                                                                    *)
(***************************************************************************)
EXTENDS Integers, FiniteSets

CONSTANTS
    Visit,          \* rows the tailer may commit
    MonthOf,        \* the month of each row's timestamp
    MaxMonth,       \* bound: the last month the clock reaches
    MaxRolling,     \* MAX_ROLLING_MONTHS
    MaxKeep,        \* MAX_ARCHIVE_KEEP_MONTHS
    Pass,           \* processes that run a retention pass
    Request,        \* storage-page requests in flight at the same time
    MaxFaults,      \* bound: failures and power cuts
    LateRows,       \* may a row of an earlier month still be committed?
    Serial,         \* do passes and requests run one at a time?
    NoRow,          \* not a row
    Free            \* "nobody holds the write lock"

Month == 1..MaxMonth

\* No file of that name; an empty zip is a file.
NoZip == {NoRow}

ASSUME RetentionAssumption ==
    /\ MaxMonth \in Nat \ {0}
    /\ MonthOf \in [Visit -> Month]
    /\ MaxRolling \in Nat
    /\ MaxKeep \in Nat /\ MaxKeep > MaxRolling
    /\ MaxFaults \in Nat
    /\ LateRows \in BOOLEAN
    /\ Serial \in BOOLEAN
    /\ NoRow \notin Visit
    /\ Free \notin Pass

VARIABLES
    db,             \* committed rows of `visits`
    pin,            \* archive.pin.<month>
    mode,           \* retention.mode
    rolling,        \* retention.rolling_months
    keep,           \* retention.archive_keep_months, 0 keeps forever
    lock,           \* the pass holding SQLite's write lock between two steps
    zip,            \* the archive directory as every process sees it
    disk,           \* the archive directory as a power cut would leave it
    thisMonth,      \* the clock, in months
    pass,           \* the passes' local state
    req,            \* the requests' local state
    ingested,       \* history: rows ever committed
    given,          \* history: rows given up on purpose
    faults          \* how many faults happened so far

dbVars   == <<db, pin, mode, rolling, keep>>
fileVars == <<zip, disk>>
history  == <<ingested, given>>
vars == <<db, pin, mode, rolling, keep, lock, zip, disk, thisMonth, pass, req,
          ingested, given, faults>>

-----------------------------------------------------------------------------
(* Rows and months *)

RowsOf(m) == {v \in Visit : MonthOf[v] = m}
InDb(m)   == db \cap RowsOf(m)

Oldest(S) == CHOOSE m \in S : \A n \in S : m <= n
Newest(S) == CHOOSE m \in S : \A n \in S : n <= m

Least(a, b)    == IF a < b THEN a ELSE b
Greatest(a, b) == IF a < b THEN b ELSE a

\* First month still active on `today`.
WindowStart(today, months) == today - months

\* Broken variants of DueMonths: pins ignored, one month early, one month late.
DueIgnoringPins(today, gone) ==
    {m \in Month : m < WindowStart(today, rolling) /\ InDb(m) \ gone # {}}

DueTooEarly(today, gone) ==
    {m \in Month : /\ m <= WindowStart(today, rolling)
                   /\ InDb(m) \ gone # {} /\ pin[m] = "none"}

DueTooLate(today, gone) ==
    {m \in Month : /\ m < WindowStart(today, rolling) - 1
                   /\ InDb(m) \ gone # {} /\ pin[m] = "none"}

\* Months to archive, seen by a transaction that already deleted `gone`.
DueMonths(today, gone) ==
    {m \in Month : /\ m < WindowStart(today, rolling)
                   /\ InDb(m) \ gone # {}
                   /\ pin[m] = "none"}

\* Archives past the keep window.
ExpiredArchives(today) ==
    {m \in Month : /\ keep # 0
                   /\ zip[m] # NoZip
                   /\ m < WindowStart(today, keep)
                   /\ pin[m] = "none"}

\* Broken variant of ExpiredRestores: expiry in rolling mode only.
ExpiredInRollingMode ==
    {m \in Month : mode = "rolling" /\ zip[m] # NoZip /\ pin[m] = "over"}

\* Restores whose pin has run out: only months with a file are looked at.
ExpiredRestores == {m \in Month : zip[m] # NoZip /\ pin[m] = "over"}

\* Broken variant of KeepStored: no ceiling.
KeepUnbounded(n) == IF n = 0 THEN 0 ELSE Greatest(n, rolling + 1)

\* set_archive_keep_months(): ceiling, then the floor above the rolling window.
KeepStored(n) ==
    IF n = 0 THEN 0 ELSE Greatest(Least(n, MaxKeep), rolling + 1)

-----------------------------------------------------------------------------
(* Local state of the actors *)

IdlePass == [pc |-> "idle", now |-> 1, mode |-> "rolling", todo |-> {},
             hand |-> 1, rows |-> {}, gone |-> {}]
IdleReq  == [pc |-> "idle", month |-> 1, rows |-> {}]

\* With Serial, an operation starts only when no other one is running and the
\* kernel has written the directory back since the last one.
MayStart ==
    Serial => /\ \A p \in Pass : pass[p].pc = "idle"
              /\ \A r \in Request : req[r].pc = "idle"
              /\ disk = zip

\* A transaction other than p's may take the write lock.
CanWrite(p) == lock \in {Free, p}

Init ==
    /\ db = {} /\ pin = [m \in Month |-> "none"]
    /\ mode = "rolling" /\ rolling \in 0..MaxRolling /\ keep = 0
    /\ lock = Free
    /\ zip = [m \in Month |-> NoZip] /\ disk = zip
    /\ thisMonth = 1
    /\ pass = [p \in Pass |-> IdlePass]
    /\ req = [r \in Request |-> IdleReq]
    /\ ingested = {} /\ given = {}
    /\ faults = 0

-----------------------------------------------------------------------------
(* The environment: the tailer, the clock and the kernel *)

\* _write_batch() commits a row; insert_visit() ignores one it already has.
Ingest(v) ==
    /\ lock = Free
    /\ v \notin ingested
    /\ IF LateRows THEN MonthOf[v] <= thisMonth ELSE MonthOf[v] = thisMonth
    /\ db' = db \cup {v}
    /\ ingested' = ingested \cup {v}
    /\ UNCHANGED <<pin, mode, rolling, keep, lock, zip, disk, thisMonth, pass,
                   req, given, faults>>

MonthPasses ==
    /\ thisMonth < MaxMonth
    /\ thisMonth' = thisMonth + 1
    /\ UNCHANGED <<dbVars, lock, fileVars, pass, req, history, faults>>

PinRunsOut(m) ==
    /\ pin[m] = "live"
    /\ pin' = [pin EXCEPT ![m] = "over"]
    /\ UNCHANGED <<db, mode, rolling, keep, lock, fileVars, thisMonth, pass,
                   req, history, faults>>

\* The kernel flushes directory changes nobody synced.
Writeback ==
    /\ disk # zip
    /\ disk' = zip
    /\ UNCHANGED <<dbVars, lock, zip, thisMonth, pass, req, history, faults>>

-----------------------------------------------------------------------------
(* A retention pass *)

\* run_retention() begins; `now` is fixed here for the whole pass, and the
\* archives whose restore has run out are listed.
PassStart(p) ==
    /\ pass[p].pc = "idle"
    /\ MayStart
    /\ pass' = [pass EXCEPT ![p] = [IdlePass EXCEPT !.pc = "expire",
                                                    !.now = thisMonth,
                                                    !.todo = ExpiredRestores]]
    /\ UNCHANGED <<dbVars, lock, fileVars, thisMonth, req, history, faults>>

\* The pass ends with an exception: its transaction rolls back, files stay.
Aborted(p) ==
    /\ pass' = [pass EXCEPT ![p] = IdlePass]
    /\ lock' = IF lock = p THEN Free ELSE lock

\* release_month() looks the archive up, newest month first.  Without a file
\* it refuses, and the exception ends the pass.
ReleaseResolve(p) ==
    LET m == Newest(pass[p].todo) IN
    /\ pass[p].pc = "expire" /\ pass[p].todo # {}
    /\ IF zip[m] = NoZip
         THEN Aborted(p)
         ELSE /\ pass' = [pass EXCEPT ![p].pc = "release", ![p].hand = m,
                                      ![p].todo = @ \ {m}]
              /\ UNCHANGED lock
    /\ UNCHANGED <<dbVars, fileVars, thisMonth, req, history, faults>>

\* Its DELETE takes the write lock; rows and pin go when the pass commits.
ReleaseDelete(p) ==
    /\ pass[p].pc = "release"
    /\ CanWrite(p)
    /\ lock' = p
    /\ pass' = [pass EXCEPT ![p].pc = "expire",
                            ![p].gone = @ \cup {pass[p].hand}]
    /\ UNCHANGED <<dbVars, fileVars, thisMonth, req, history, faults>>

\* All expired restores released: the mode and the due months are read in the
\* same transaction, which then commits.
ExpireCommit(p) ==
    LET gone == UNION {RowsOf(m) : m \in pass[p].gone} IN
    /\ pass[p].pc = "expire" /\ pass[p].todo = {}
    /\ db' = db \ gone
    /\ pin' = [m \in Month |-> IF m \in pass[p].gone THEN "none" ELSE pin[m]]
    /\ lock' = IF lock = p THEN Free ELSE lock
    /\ pass' = [pass EXCEPT
           ![p].pc = "archive", ![p].mode = mode, ![p].gone = {},
           ![p].todo = IF mode = "rolling"
                         THEN DueMonths(pass[p].now, gone) ELSE {}]
    /\ UNCHANGED <<mode, rolling, keep, fileVars, thisMonth, req, history, faults>>

\* Broken variant of ArchiveBuild: the month is read without the write lock.
ArchiveBuildUnlocked(p) ==
    LET m == Oldest(pass[p].todo) IN
    /\ pass[p].pc = "archive" /\ pass[p].todo # {}
    /\ pass' = [pass EXCEPT ![p].pc = "rename", ![p].hand = m,
                            ![p].todo = @ \ {m}, ![p].rows = InDb(m)]
    /\ UNCHANGED <<dbVars, lock, fileVars, thisMonth, req, history, faults>>

\* archive_month(): BEGIN IMMEDIATE, then the month is written to a temporary
\* file and synced.  The rows cannot change until the transaction ends.
ArchiveBuild(p) ==
    LET m == Oldest(pass[p].todo) IN
    /\ pass[p].pc = "archive" /\ pass[p].todo # {}
    /\ lock = Free
    /\ lock' = p
    /\ pass' = [pass EXCEPT ![p].pc = "rename", ![p].hand = m,
                            ![p].todo = @ \ {m}, ![p].rows = InDb(m)]
    /\ UNCHANGED <<dbVars, fileVars, thisMonth, req, history, faults>>

\* os.replace(): whatever file had the name is gone.
ArchiveRename(p) ==
    /\ pass[p].pc = "rename"
    /\ zip' = [zip EXCEPT ![pass[p].hand] = pass[p].rows]
    /\ pass' = [pass EXCEPT ![p].pc = "sync"]
    /\ UNCHANGED <<dbVars, lock, disk, thisMonth, req, history, faults>>

\* Broken variant of ArchiveSync: the directory is not synced.
ArchiveUnsynced(p) ==
    /\ pass[p].pc = "sync"
    /\ pass' = [pass EXCEPT ![p].pc = "commit"]
    /\ UNCHANGED <<dbVars, lock, fileVars, thisMonth, req, history, faults>>

\* fsync_dir()
ArchiveSync(p) ==
    /\ pass[p].pc = "sync"
    /\ disk' = zip
    /\ pass' = [pass EXCEPT ![p].pc = "commit"]
    /\ UNCHANGED <<dbVars, lock, zip, thisMonth, req, history, faults>>

\* delete_visits_for_month() and the commit.
ArchiveCommit(p) ==
    /\ pass[p].pc = "commit"
    /\ db' = db \ RowsOf(pass[p].hand)
    /\ lock' = Free
    /\ pass' = [pass EXCEPT ![p].pc = "archive", ![p].rows = {}]
    /\ UNCHANGED <<pin, mode, rolling, keep, fileVars, thisMonth, req, history,
                   faults>>

\* Archiving done: which archives does the keep window let go?
ListStale(p) ==
    /\ pass[p].pc = "archive" /\ pass[p].todo = {}
    /\ pass' = [pass EXCEPT
           ![p].pc = "drop",
           ![p].todo = IF pass[p].mode = "rolling"
                         THEN ExpiredArchives(pass[p].now) ELSE {}]
    /\ UNCHANGED <<dbVars, lock, fileVars, thisMonth, req, history, faults>>

\* Unlinking a month's zip gives up the rows it is the only copy of.
Unlink(m) ==
    /\ zip' = [zip EXCEPT ![m] = NoZip]
    /\ given' = given \cup (zip[m] \ db)

\* delete_archive(): the file goes first and outside the database's lock.
DropUnlink(p) ==
    LET m == Oldest(pass[p].todo) IN
    /\ pass[p].pc = "drop" /\ pass[p].todo # {}
    /\ IF zip[m] = NoZip
         THEN Aborted(p) /\ UNCHANGED <<zip, given>>
         ELSE /\ Unlink(m)
              /\ pass' = [pass EXCEPT ![p].pc = "unpin", ![p].hand = m,
                                      ![p].todo = @ \ {m}]
              /\ UNCHANGED lock
    /\ UNCHANGED <<dbVars, disk, thisMonth, req, ingested, faults>>

\* ... and then its pin.
DropUnpin(p) ==
    /\ pass[p].pc = "unpin"
    /\ lock = Free
    /\ pin' = [pin EXCEPT ![pass[p].hand] = "none"]
    /\ pass' = [pass EXCEPT ![p].pc = "drop"]
    /\ UNCHANGED <<db, mode, rolling, keep, lock, fileVars, thisMonth, req,
                   history, faults>>

\* retention.last_run is written.
PassEnd(p) ==
    /\ pass[p].pc = "drop" /\ pass[p].todo = {}
    /\ lock = Free
    /\ pass' = [pass EXCEPT ![p] = IdlePass]
    /\ UNCHANGED <<dbVars, lock, fileVars, thisMonth, req, history, faults>>

PassStep(p) ==
    \/ ReleaseResolve(p) \/ ReleaseDelete(p) \/ ExpireCommit(p)
    \/ ArchiveBuild(p) \/ ArchiveRename(p) \/ ArchiveSync(p) \/ ArchiveCommit(p)
    \/ ListStale(p) \/ DropUnlink(p) \/ DropUnpin(p) \/ PassEnd(p)

-----------------------------------------------------------------------------
(* The storage page *)

\* restore_month() opens the zip: it keeps reading the file it opened.
RestoreOpen(r, m) ==
    /\ req[r].pc = "idle" /\ MayStart
    /\ zip[m] # NoZip
    /\ req' = [req EXCEPT ![r] = [pc |-> "restore", month |-> m, rows |-> zip[m]]]
    /\ UNCHANGED <<dbVars, lock, fileVars, thisMonth, pass, history, faults>>

\* INSERT OR IGNORE of every row under its original id, and the pin.
RestoreCommit(r) ==
    /\ req[r].pc = "restore"
    /\ lock = Free
    /\ db' = db \cup req[r].rows
    /\ pin' = [pin EXCEPT ![req[r].month] = "live"]
    /\ given' = given \ req[r].rows
    /\ req' = [req EXCEPT ![r] = IdleReq]
    /\ UNCHANGED <<mode, rolling, keep, lock, fileVars, thisMonth, pass,
                   ingested, faults>>

\* Broken variant of ReleaseOpen: the archive is not looked for.
ReleaseUnchecked(r, m) ==
    /\ req[r].pc = "idle" /\ MayStart
    /\ req' = [req EXCEPT ![r] = [pc |-> "release", month |-> m, rows |-> {}]]
    /\ UNCHANGED <<dbVars, lock, fileVars, thisMonth, pass, history, faults>>

\* release_month() on request: the look-up, and later the delete.
ReleaseOpen(r, m) ==
    /\ req[r].pc = "idle" /\ MayStart
    /\ zip[m] # NoZip
    /\ req' = [req EXCEPT ![r] = [pc |-> "release", month |-> m, rows |-> {}]]
    /\ UNCHANGED <<dbVars, lock, fileVars, thisMonth, pass, history, faults>>

ReleaseCommit(r) ==
    /\ req[r].pc = "release"
    /\ lock = Free
    /\ db' = db \ RowsOf(req[r].month)
    /\ pin' = [pin EXCEPT ![req[r].month] = "none"]
    /\ req' = [req EXCEPT ![r] = IdleReq]
    /\ UNCHANGED <<mode, rolling, keep, lock, fileVars, thisMonth, pass, history,
                   faults>>

\* delete_archive() on request.
DeleteArchiveUnlink(r, m) ==
    /\ req[r].pc = "idle" /\ MayStart
    /\ zip[m] # NoZip
    /\ Unlink(m)
    /\ req' = [req EXCEPT ![r] = [pc |-> "unpin", month |-> m, rows |-> {}]]
    /\ UNCHANGED <<dbVars, lock, disk, thisMonth, pass, ingested, faults>>

DeleteArchiveUnpin(r) ==
    /\ req[r].pc = "unpin"
    /\ lock = Free
    /\ pin' = [pin EXCEPT ![req[r].month] = "none"]
    /\ req' = [req EXCEPT ![r] = IdleReq]
    /\ UNCHANGED <<db, mode, rolling, keep, lock, fileVars, thisMonth, pass,
                   history, faults>>

\* delete_month(): no archive needed, the operator was asked.
DeleteMonth(m) ==
    /\ MayStart /\ Request # {}
    /\ lock = Free
    /\ InDb(m) # {}
    /\ db' = db \ RowsOf(m)
    /\ given' = given \cup InDb(m)
    /\ pin' = [pin EXCEPT ![m] = "none"]
    /\ UNCHANGED <<mode, rolling, keep, lock, fileVars, thisMonth, pass, req,
                   ingested, faults>>

SetMode(x) ==
    /\ MayStart /\ Request # {} /\ lock = Free
    /\ mode' = x
    /\ UNCHANGED <<db, pin, rolling, keep, lock, fileVars, thisMonth, pass, req,
                   history, faults>>

SetRollingMonths(n) ==
    /\ MayStart /\ Request # {} /\ lock = Free
    /\ rolling' = Least(n, MaxRolling)
    /\ UNCHANGED <<db, pin, mode, keep, lock, fileVars, thisMonth, pass, req,
                   history, faults>>

SetArchiveKeepMonths(n) ==
    /\ MayStart /\ Request # {} /\ lock = Free
    /\ keep' = KeepStored(n)
    /\ UNCHANGED <<db, pin, mode, rolling, lock, fileVars, thisMonth, pass, req,
                   history, faults>>

-----------------------------------------------------------------------------
(* Faults *)

\* An exception in a pass or a request: lock timeout, full disk, I/O error.
PassFails(p) ==
    /\ faults < MaxFaults /\ faults' = faults + 1
    /\ pass[p].pc # "idle"
    /\ Aborted(p)
    /\ UNCHANGED <<dbVars, fileVars, thisMonth, req, history>>

RequestFails(r) ==
    /\ faults < MaxFaults /\ faults' = faults + 1
    /\ req[r].pc # "idle"
    /\ req' = [req EXCEPT ![r] = IdleReq]
    /\ UNCHANGED <<dbVars, lock, fileVars, thisMonth, pass, history>>

\* Everything running is gone.  Committed transactions survive; of each name
\* in the directory either the synced or the latest file does.
PowerCut ==
    /\ faults < MaxFaults /\ faults' = faults + 1
    /\ \E kept \in SUBSET {m \in Month : zip[m] # disk[m]} :
         zip' = [m \in Month |-> IF m \in kept THEN zip[m] ELSE disk[m]]
    /\ disk' = zip'
    /\ lock' = Free
    /\ pass' = [p \in Pass |-> IdlePass]
    /\ req' = [r \in Request |-> IdleReq]
    /\ UNCHANGED <<dbVars, thisMonth, history>>

-----------------------------------------------------------------------------

PassNext == \E p \in Pass : PassStart(p) \/ PassStep(p)

RequestStep(r) ==
    \/ RestoreCommit(r) \/ ReleaseCommit(r) \/ DeleteArchiveUnpin(r)

RequestNext ==
    \/ \E r \in Request : RequestStep(r)
    \/ \E r \in Request, m \in Month :
          RestoreOpen(r, m) \/ ReleaseOpen(r, m) \/ DeleteArchiveUnlink(r, m)
    \/ \E m \in Month : DeleteMonth(m)
    \/ \E x \in {"rolling", "lifetime"} : SetMode(x)
    \/ \E n \in 0..(MaxRolling + 1) : SetRollingMonths(n)
    \/ \E n \in 0..(MaxKeep + 1) : SetArchiveKeepMonths(n)

Environment ==
    \/ \E v \in Visit : Ingest(v)
    \/ \E m \in Month : PinRunsOut(m)
    \/ MonthPasses
    \/ Writeback

Fault ==
    \/ \E p \in Pass : PassFails(p)
    \/ \E r \in Request : RequestFails(r)
    \/ PowerCut

Next == PassNext \/ RequestNext \/ Environment \/ Fault

Spec == Init /\ [][Next]_vars

\* _retention_task() ticks for as long as the service is up, whatever the last
\* pass did, and a running pass or request keeps taking steps.
Fairness ==
    /\ \A p \in Pass : SF_vars(PassStart(p)) /\ WF_vars(PassStep(p))
    /\ \A r \in Request : WF_vars(RequestStep(r))
    /\ WF_vars(Writeback)

FairSpec == Spec /\ Fairness

-----------------------------------------------------------------------------
(* Properties *)

PassRec == [pc : {"idle", "expire", "release", "archive", "rename", "sync",
                  "commit", "drop", "unpin"},
            now : Month, mode : {"rolling", "lifetime"}, todo : SUBSET Month,
            hand : Month, rows : SUBSET Visit, gone : SUBSET Month]
ReqRec  == [pc : {"idle", "restore", "release", "unpin"}, month : Month,
            rows : SUBSET Visit]
Zip     == [Month -> (SUBSET Visit) \cup {NoZip}]

\* The state has its shape: what the setters clamp stays clamped, and a file
\* holds rows or does not exist.
TypeOK ==
    /\ db \subseteq Visit
    /\ pin \in [Month -> {"none", "live", "over"}]
    /\ mode \in {"rolling", "lifetime"}
    /\ rolling \in 0..MaxRolling
    /\ keep \in 0..MaxKeep
    /\ lock \in Pass \cup {Free}
    /\ zip \in Zip /\ disk \in Zip
    /\ thisMonth \in Month
    /\ pass \in [Pass -> PassRec]
    /\ req \in [Request -> ReqRec]
    /\ ingested \subseteq Visit /\ given \subseteq Visit
    /\ faults \in 0..MaxFaults

Holds(files, v) == files[MonthOf[v]] # NoZip /\ v \in files[MonthOf[v]]

\* A committed visit nobody gave up is in the database, or in a zip that would
\* survive a power cut: archive_month()'s "order matters more than anything",
\* release_month()'s refusal, and restore, together, at every step.
NoVisitLost ==
    \A v \in ingested \ given : v \in db \/ (Holds(zip, v) /\ Holds(disk, v))

\* From writing the zip until its DELETE commits, the month in the database is
\* exactly what the file holds: nothing the tailer or the storage page commits
\* gets between the two (archive_month() takes the write lock first).
DeletesWhatItWrote ==
    \A p \in Pass : pass[p].pc \in {"rename", "sync", "commit"} =>
        pass[p].rows = InDb(pass[p].hand)

\* An archive is never replaced by a smaller one: os.replace() in archive_month()
\* overwrites, so a month must come back whole before it is archived again.
ArchivesNeverShrink ==
    [][\A m \in Month : zip[m] # NoZip /\ zip'[m] # NoZip /\ zip'[m] # disk[m]
                          => zip[m] \subseteq zip'[m]]_vars

\* While a restored month is pinned, no pass takes its rows or its file
\* (due_months() and expired_archives() skip pinned months).
PinnedMonthsStay ==
    [][(\E p \in Pass : PassStep(p)) =>
         \A m \in Month : pin[m] = "live" =>
             InDb(m) \subseteq db' /\ zip'[m] = zip[m]]_vars

Overdue(m) ==
    /\ mode = "rolling" /\ pin[m] = "none"
    /\ m < thisMonth - rolling
    /\ InDb(m) # {}

\* In rolling mode a month outside the window does not stay in the database.
DueMonthsLeave == \A m \in Month : []<>~Overdue(m)

\* A restore whose pin ran out is put back, in both modes, as long as there is
\* an archive to put it back into.
ExpiredPinsEnd == \A m \in Month : []<>~(pin[m] = "over" /\ zip[m] # NoZip)

\* The service keeps the promise of VisitStore.
heldRows == {v \in ingested \ given : v \in db \/ Holds(zip, v)}
Store == INSTANCE VisitStore WITH held <- heldRows, given <- given
StoreSpec == Store!StoreSpec
=============================================================================
