------------------------------- MODULE MCService -------------------------------
(***************************************************************************)
(* The parts of the service that share no state with each other, side by   *)
(* side: a behaviour picks one part at the start and runs that part's      *)
(* specification, while the others keep still in their first state.        *)
(***************************************************************************)
EXTENDS Integers

CONSTANTS None,
    \* PageCache
    Thread, Key, MaxEntries, TTL, DateTTL, MaxTime, MaxWrites, EmptyAfter,
    \* Backup
    Pass, Daily, Keep, MaxDay, MaxVersion, MaxFaults,
    \* Pacing
    Lookup, Concurrency, Interval, Cooldown, TorTTL, TorRetry, MaxClock, MaxBatches,
    \* Export
    MaxId, Moment, Span, PageSize,
    \* Shutdown
    Task, Shielded, Once, MaxCommits,
    \* Upgrade
    Process, Server, Address, Field, Value, Numeric, Unreadable, Added, MaxMishaps,
    MaxLookups

VARIABLES
    part,           \* the part that runs
    \* PageCache
    clock, version, began, agg, earliest, fill, load, writer, told, raced,
    \* Backup
    today, changes, startOfDay, dir, disk, old, young, pass, lastRun, promised, faults,
    \* Pacing
    time, nextAt, resumeAt, lookup, lastSent, crowded, overrun, tor, asked, hasty, batch,
    \* Export
    visits, gone, lastId, export, stay,
    \* Shutdown
    task, thread, cancelled, service,
    \* Upgrade
    database, txn, caller, known, lookups, mishaps

PageCache == INSTANCE PageCache
Backup == INSTANCE Backup WITH version <- changes, began <- startOfDay
Pacing == INSTANCE Pacing WITH clock <- time, MaxTime <- MaxClock
Export == INSTANCE Export
Shutdown == INSTANCE Shutdown
Upgrade == INSTANCE Upgrade WITH disk <- database, MaxFaults <- MaxMishaps

ASSUME ServiceAssumption ==
    /\ PageCache!PageCacheAssumption
    /\ Backup!BackupAssumption
    /\ Pacing!PacingAssumption
    /\ Export!ExportAssumption
    /\ Shutdown!ShutdownAssumption
    /\ Upgrade!UpgradeAssumption

\* One entry of a minute and one of an hour.
PageTTL == [k \in Key |-> IF k = "baseline" THEN 2 ELSE 1]

pageVars == <<clock, version, began, agg, earliest, fill, load, writer, told, raced>>
backupVars == <<today, changes, startOfDay, dir, disk, old, young, pass, lastRun,
                promised, faults>>
paceVars == <<time, nextAt, resumeAt, lookup, lastSent, crowded, overrun, tor, asked,
              hasty, batch>>
exportVars == <<visits, gone, lastId, export, stay>>
serviceVars == <<task, thread, cancelled, service>>
upgradeVars == <<database, txn, caller, known, lookups, mishaps>>

vars == <<part, pageVars, backupVars, paceVars, exportVars, serviceVars, upgradeVars>>

\* Upgrade has many first states; one of them will do for the other parts.
Unborn ==
    /\ database = [legacy |-> <<>>, added |-> Added, child |-> [f \in Field |-> {}]]
    /\ txn = None /\ caller = [p \in Process |-> Upgrade!Off]
    /\ known = [f \in Field |-> {}] /\ lookups = 0 /\ mishaps = 0

Init ==
    /\ part \in {"pages", "backup", "pacing", "export", "shutdown", "upgrade"}
    /\ PageCache!Init /\ Backup!Init /\ Pacing!Init /\ Export!Init /\ Shutdown!Init
    /\ IF part = "upgrade" THEN Upgrade!Init ELSE Unborn

RunPages ==
    /\ part = "pages" /\ PageCache!Next
    /\ UNCHANGED <<part, backupVars, paceVars, exportVars, serviceVars, upgradeVars>>

OnlyBackup(A) ==
    /\ part = "backup" /\ A
    /\ UNCHANGED <<part, pageVars, paceVars, exportVars, serviceVars, upgradeVars>>

RunBackup == OnlyBackup(Backup!Next)

RunPacing ==
    /\ part = "pacing" /\ Pacing!Next
    /\ UNCHANGED <<part, pageVars, backupVars, exportVars, serviceVars, upgradeVars>>

RunExport ==
    /\ part = "export" /\ Export!Next
    /\ UNCHANGED <<part, pageVars, backupVars, paceVars, serviceVars, upgradeVars>>

RunShutdown ==
    /\ part = "shutdown" /\ Shutdown!Next
    /\ UNCHANGED <<part, pageVars, backupVars, paceVars, exportVars, upgradeVars>>

RunUpgrade ==
    /\ part = "upgrade" /\ Upgrade!Next
    /\ UNCHANGED <<part, pageVars, backupVars, paceVars, exportVars, serviceVars>>

Next ==
    RunPages \/ RunBackup \/ RunPacing \/ RunExport \/ RunShutdown \/ RunUpgrade

\* Fairness as in Backup, when it is the part that runs.
Fairness ==
    /\ WF_vars(OnlyBackup(Backup!PassNext(Daily)))
    /\ WF_vars(OnlyBackup(Backup!Sweep)) /\ WF_vars(OnlyBackup(Backup!HourPasses))

Spec == Init /\ [][Next]_vars /\ Fairness

-----------------------------------------------------------------------------
(* The properties of the parts *)

\* A summary is never older than its time-to-live says (_cached).
NeverOlderThanSaid == PageCache!NeverOlderThanSaid
\* After the refresh of a write that no query overlapped, no cached value is
\* older than the write (refresh_after_write).
QuietWritesAreSeen == PageCache!QuietWritesAreSeen
\* Once a pass has run, a whole snapshot survives a power cut, and one holds all
\* that was committed before its day (run_backup, create_snapshot).
SnapshotsAreSound == Backup!SnapshotSurvives /\ Backup!NameIsHonest
\* A due backup runs in the end (_backup_task).
BackupsRun == (part = "backup" /\ Backup!Due) ~> ~Backup!Due
\* The providers are asked no more often than allowed (_RateGate, _load_tor_exits).
Paced == Pacing!Paced
\* Few requests go out after a push-back (_fetch_shodan).
OverrunIsBounded == Pacing!OverrunIsBounded
\* A finished export holds each row of its range once (get_export_page).
ExportIsExact == Export!ExportIsExact
\* No commit after the task or the service is gone (run_db).
NothingLandsLater == Shutdown!NothingLandsLater
\* An upgrade keeps what older versions recorded, whatever ends it (init_db).
FactsSurvive == part = "upgrade" => Upgrade!FactsSurvive
===============================================================================
