-------------------------------- MODULE Backup --------------------------------
(***************************************************************************)
(* Snapshots of the database: src/backup.py, the daily task in src/main.py *)
(* and the "Back up now" button of src/routes/settings.py, with the sweep  *)
(* of abandoned temporaries from src/archive.py.                           *)
(*                                                                         *)
(* Two passes may overlap.  A pass copies the database to a raw temporary, *)
(* compresses and syncs it, renames it to the name of the day the pass     *)
(* started, syncs the directory, prunes and stamps the run; each is a      *)
(* step.  A power cut leaves the directory as the kernel last wrote it,    *)
(* and a file that was never synced without its contents.  The database is *)
(* the number of changes it has seen.                                      *)
(***************************************************************************)
EXTENDS Integers, FiniteSets

CONSTANTS
    Pass,           \* _backup_task and the button
    Daily,          \* the pass that _backup_task runs
    Keep,           \* settings.backup_keep
    MaxDay,         \* bound: days
    MaxVersion,     \* bound: changes of the database
    MaxFaults,      \* bound: failures, full disks, kills and power cuts
    None            \* no file, never ran

Day == 1..MaxDay
File == [data : 0..MaxVersion, whole : BOOLEAN]

\* What the constants must be; MCService assumes it.
BackupAssumption ==
    /\ Daily \in Pass
    /\ Keep \in Int /\ MaxDay \in Nat \ {0}
    /\ MaxVersion \in Nat /\ MaxFaults \in Nat
    /\ None \notin File /\ None \notin Day

VARIABLES
    today,
    version,        \* the database
    began,          \* history: the database when a day began
    dir,            \* snapshots in the directory, by the day in their name
    disk,           \* the same, as the last directory write left them
    old, young,     \* temporaries of killed passes, past the hour or not
    pass,           \* create_snapshot(), prune() and run_backup() of each pass
    lastRun,        \* processor_state: backup.last_run
    promised,       \* history: a pass has written a snapshot and stamped its run
    faults

dbVars == <<today, version, began>>
vars == <<dbVars, dir, disk, old, young, pass, lastRun, promised, faults>>

Idle == [pc |-> "idle"]

Names(files) == {d \in Day : files[d] # None}

Init ==
    /\ today = 1 /\ version = 0 /\ began = [d \in Day |-> 0]
    /\ dir = [d \in Day |-> None] /\ disk = dir
    /\ old = FALSE /\ young = FALSE
    /\ pass = [p \in Pass |-> Idle]
    /\ lastRun = None /\ promised = FALSE /\ faults = 0

Due == lastRun # None => today - lastRun >= 1

-----------------------------------------------------------------------------
(* One pass *)

\* create_snapshot(): VACUUM INTO sees one consistent state.  The name is
\* fixed by the day the pass starts.
Vacuum(p) ==
    /\ pass[p].pc = "idle"
    /\ p = Daily => Due
    /\ pass' = [pass EXCEPT ![p] = [pc |-> "gzip", day |-> today, data |-> version]]
    /\ UNCHANGED <<dbVars, dir, disk, old, young, lastRun, promised, faults>>

\* gzip and fsync of the temporary.
Compress(p) ==
    /\ pass[p].pc = "gzip"
    /\ pass' = [pass EXCEPT ![p] = [pc |-> "rename", day |-> @.day, data |-> @.data,
                                    whole |-> TRUE]]
    /\ UNCHANGED <<dbVars, dir, disk, old, young, lastRun, promised, faults>>

Rename(p) ==
    /\ pass[p].pc = "rename"
    /\ dir' = [dir EXCEPT ![pass[p].day] = [data |-> pass[p].data, whole |-> pass[p].whole]]
    /\ pass' = [pass EXCEPT ![p] = [pc |-> "sync", day |-> @.day]]
    /\ UNCHANGED <<dbVars, disk, old, young, lastRun, promised, faults>>

\* Broken variant of SyncDir: nothing is synced.
SyncNothing(p) ==
    /\ pass[p].pc = "sync"
    /\ pass' = [pass EXCEPT ![p].pc = "list"]
    /\ UNCHANGED <<dbVars, dir, disk, old, young, lastRun, promised, faults>>

\* fsync_dir()
SyncDir(p) ==
    /\ pass[p].pc = "sync"
    /\ disk' = dir
    /\ pass' = [pass EXCEPT ![p].pc = "list"]
    /\ UNCHANGED <<dbVars, dir, old, young, lastRun, promised, faults>>

\* max(int(keep), 1)
Kept == IF Keep < 1 THEN 1 ELSE Keep

\* prune(): list_snapshots()[keep:], by name.
Surplus == {d \in Names(dir) : Cardinality({e \in Names(dir) : e > d}) >= Kept}

List(p) ==
    /\ pass[p].pc = "list"
    /\ pass' = [pass EXCEPT ![p] = [pc |-> "prune", day |-> @.day, surplus |-> Surplus]]
    /\ UNCHANGED <<dbVars, dir, disk, old, young, lastRun, promised, faults>>

\* unlink(missing_ok=True)
Unlink(p, d) ==
    /\ pass[p].pc = "prune" /\ d \in pass[p].surplus
    /\ dir' = [dir EXCEPT ![d] = None]
    /\ pass' = [pass EXCEPT ![p].surplus = @ \ {d}]
    /\ UNCHANGED <<dbVars, disk, old, young, lastRun, promised, faults>>

\* Broken variant of Stamp: the run leaves no trace.
StampForgotten(p) ==
    /\ pass[p].pc = "prune" /\ pass[p].surplus = {}
    /\ promised' = TRUE
    /\ pass' = [pass EXCEPT ![p] = Idle]
    /\ UNCHANGED <<dbVars, dir, disk, old, young, lastRun, faults>>

\* run_backup() stamps the moment the pass started.
Stamp(p) ==
    /\ pass[p].pc = "prune" /\ pass[p].surplus = {}
    /\ lastRun' = pass[p].day
    /\ promised' = TRUE
    /\ pass' = [pass EXCEPT ![p] = Idle]
    /\ UNCHANGED <<dbVars, dir, disk, old, young, faults>>

\* _has_room() says no: nothing is written or pruned, but the run is stamped.
Skip(p) ==
    /\ pass[p].pc = "idle" /\ (p = Daily => Due) /\ faults < MaxFaults
    /\ lastRun' = today
    /\ faults' = faults + 1
    /\ UNCHANGED <<dbVars, dir, disk, old, young, pass, promised>>

\* An OSError or a locked database: create_snapshot() removes its temporaries,
\* and the pass ends there.  list_snapshots() fails like that as well when a
\* file it has just listed is pruned by the other pass.
Fails(p) ==
    /\ pass[p].pc # "idle" /\ faults < MaxFaults
    /\ pass' = [pass EXCEPT ![p] = Idle]
    /\ faults' = faults + 1
    /\ UNCHANGED <<dbVars, dir, disk, old, young, lastRun, promised>>

-----------------------------------------------------------------------------
(* Around them *)

\* sweep_abandoned(): temporaries past the hour, on every hourly tick.
Sweep ==
    /\ old
    /\ old' = FALSE
    /\ UNCHANGED <<dbVars, dir, disk, young, pass, lastRun, promised, faults>>

HourPasses ==
    /\ young
    /\ old' = TRUE /\ young' = FALSE
    /\ UNCHANGED <<dbVars, dir, disk, pass, lastRun, promised, faults>>

Writing(p) == pass[p].pc \in {"gzip", "rename"}

\* The process is killed: the temporaries stay behind.
Kill ==
    /\ faults < MaxFaults
    /\ young' = (young \/ \E p \in Pass : Writing(p))
    /\ pass' = [p \in Pass |-> Idle]
    /\ faults' = faults + 1
    /\ UNCHANGED <<dbVars, dir, disk, old, lastRun, promised>>

\* The kernel writes the directory in its own time, in the order of its changes.
Writeback ==
    /\ disk' = dir
    /\ UNCHANGED <<dbVars, dir, old, young, pass, lastRun, promised, faults>>

PowerCut ==
    /\ faults < MaxFaults
    /\ dir' = disk
    /\ young' = (young \/ \E p \in Pass : Writing(p))
    /\ pass' = [p \in Pass |-> Idle]
    /\ faults' = faults + 1
    /\ UNCHANGED <<dbVars, disk, old, lastRun, promised>>

Change ==
    /\ version < MaxVersion
    /\ version' = version + 1
    /\ UNCHANGED <<today, began, dir, disk, old, young, pass, lastRun, promised, faults>>

Midnight ==
    /\ today < MaxDay
    /\ today' = today + 1
    /\ began' = [began EXCEPT ![today + 1] = version]
    /\ UNCHANGED <<version, dir, disk, old, young, pass, lastRun, promised, faults>>

PassNext(p) ==
    \/ Vacuum(p) \/ Compress(p) \/ Rename(p) \/ SyncDir(p) \/ List(p)
    \/ \E d \in Day : Unlink(p, d)
    \/ Stamp(p)

Next ==
    \/ \E p \in Pass : PassNext(p) \/ Skip(p) \/ Fails(p)
    \/ Sweep \/ HourPasses \/ Kill \/ Writeback \/ PowerCut
    \/ Change \/ Midnight

\* The hourly ticks of _backup_task and _retention_task; time goes on.
Fairness == WF_vars(PassNext(Daily)) /\ WF_vars(Sweep) /\ WF_vars(HourPasses)

Spec == Init /\ [][Next]_vars /\ Fairness

-----------------------------------------------------------------------------
(* Properties *)

\* Types.
TypeOK ==
    /\ today \in Day /\ version \in 0..MaxVersion
    /\ dir \in [Day -> File \cup {None}] /\ disk \in [Day -> File \cup {None}]
    /\ {old, young, promised} \subseteq BOOLEAN
    /\ \A p \in Pass : pass[p].pc \in {"idle", "gzip", "rename", "sync", "list", "prune"}
    /\ lastRun \in Day \cup {None} /\ faults \in 0..MaxFaults

\* The copy that exists when the live file does not: once a pass has been
\* stamped as having written one, a whole snapshot survives a power cut at any
\* moment, through overlapping passes, prunes and a keep of zero.
SnapshotSurvives == promised => \E d \in Names(disk) : disk[d].whole

\* A snapshot holds everything that was committed before the day in its name
\* began, also when its pass ends the day after, beside another one.
NameIsHonest == \A d \in Names(dir) : dir[d].data >= began[d]

\* A due backup runs in the end, or the run is stamped as skipped: failures
\* and kills only put it off to the next hour.
BackupsRun == Due ~> ~Due
===============================================================================
