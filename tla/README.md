# Verification of Vidar

Vidar reads an nginx access log, keeps each request as a row of `visits` in one SQLite file,
looks the addresses up at outside services, classifies them, shows pages about them, and moves
old months into monthly zips. This directory holds TLA+ models of the parts of it whose
correctness depends on the order in which things happen, TLC configurations that check them on
small instances, and proofs that TLAPS checks for all instances.

Paths below are relative to the repository (`src/archive.py`); `PROJECT.json` maps each
definition to its lines.

## 1. Inventory

| Part | State | Operations | Hard because |
|---|---|---|---|
| Log tailer (`src/log_processor.py`) | read position in `processor_state` (offset, inode, fingerprint); open file, offset, `seen_ips` in memory | open, check for replacement, read a batch, commit rows and position in one transaction, look at the path again | nginx and logrotate change file and path between any two steps; restarts; failed commits |
| Archive and retention pass (`src/archive.py`, `src/retention.py`) | `visits`, pins and settings in the database; one zip per month in a directory | expire restores, list due months, archive a month, drop archives past their keep window | files are not part of the database's transactions; crashes; a second pass or a request at the same time |
| Storage page (`src/routes/settings.py`) | none of its own | restore, release, delete archive, delete month, set mode, window and keep window | runs beside a pass; shields writes from cancelled requests |
| Scheduler (`src/main.py`, `run_db()` in `src/db.py`) | `retention.last_run`, `backup.last_run` | hourly ticks, start-up, supervision of tasks, shutdown, the three tasks that judge and re-judge addresses | a task that dies silently; cancellation during a write |
| Database upgrade (`init_db()` in `src/db.py`) | schema, legacy columns, child tables | add columns, copy legacy columns, drop them | ends half way; two processes at once; partly done by an older version |
| Enrichment (`src/enricher.py`, `src/queries/intel.py`) | `ip_intel`, an in-memory queue, pacing and Tor caches | choose IPs, ask ip-api, Shodan, rDNS, Tor, DNSBL, merge answers, back off | partial answers must not erase older ones; starvation; purge and restore in between |
| Classifier (`src/classifier/`) | pattern pack | verdict for one address from its evidence | a long first-match chain over evidence counted in SQL |
| Sessions, incidents (`src/sessions.py`, `src/incidents.py`, their queries) | none | group visits by gaps, name an event by signature and time | windows that cut a session; a panel that asks again |
| Backups (`src/backup.py`) | snapshots in a directory | `VACUUM INTO`, gzip, rename, prune | overlapping passes, crashes |
| Page caches (`src/routes/_cache.py`) | aggregate cache, set of refreshes in flight | cached read, background refresh, clear after a write | a fill that overlaps a write |
| Export (`src/routes/api.py`, `src/queries/visits.py`) | time of the last export per client | rate limit, keyset pages | rows inserted, archived or restored during an export |
| Pages (`src/routes/`, `src/queries/`) | none | filters, lists, counts, chips, charts, map, groupings, exposure, comparisons | one selection answered by a dozen separately written queries |
| Search grammar, links, report | none | | conversions of text |
| Vocabulary, configuration, preflight, demo, templates, scripts | none | | not behaviour over time |

How they interact: the tailer, the retention pass, requests and the enrichment worker meet in the
database and exclude each other through SQLite's single write lock, one transaction at a time.
The tailer hands new addresses to the enricher through a bounded queue. The retention pass and
the storage page also meet in the archive directory, which no lock covers. Writes end with a
clearing of the page caches.

What makes each part correct:

* Tailer: each line of the log becomes exactly one row; the stored position always agrees with
  the stored rows; the current log is always read to its end.
* Archive: a committed visit is in the database or in a zip on disk until somebody gives it up;
  a month is deleted only for a file that holds it; pins hold while they last and end when they
  end; months outside the window do leave.
* Enrichment: an answer that did not come erases nothing; every address is asked about
  eventually; a purged address stays purged.
* Verdicts: a class that nothing will look at again rests on all that is known of the address;
  the stored classifier version says which rules made every class.
* Backups: the newest snapshot is always whole and is never pruned.
* Caches: after a write no older answer is served for longer than the cache's own time.
* Export: every row once.
* Shutdown: nothing is committed after the task that asked for it is gone.
* Upgrade: what an older version recorded is there afterwards, whatever interrupted it.
* Pages: a count, the list behind it and the chart beside it agree for every selection.
* Classifier: an address that attacked is not washed out by what it does next.

The hazards, each with its line, are in `PROJECT.json` under `hazards`.

## 2. Modules

| Module | Models | Lines of it |
|---|---|---|
| `VisitStore` | the promise: visits held, visits given up | |
| `Retention` | archive, retention pass, storage page, the tailer's inserts, the clock, the kernel's directory writeback, failures and power cuts | `archive.py`, `retention.py`, `queries/archive_sql.py`, `routes/settings.py` |
| `MCRetention` | constants for its instances | |
| `RetentionProofs` | theorems about `Retention`, and that it implements `VisitStore` | |
| `LogTail` | the tailer, nginx, logrotate | `log_processor.py` |
| `LogTailProofs` | theorems about `LogTail` | |
| `Verdicts` | the class of an address: both classifier passes, the enrichment transaction, the reverse DNS backfill, upgrades | `queries/intel.py`, `main.py`, `enricher.py` |
| `VerdictsProofs` | theorems about `Verdicts` | |
| `Enrichment` | hand-off, worker, storing, archive operations on `ip_intel` | `log_processor.py`, `enricher.py`, `queries/intel.py`, `archive.py` |
| `EnrichmentProofs` | theorems about `Enrichment` | |
| `PageCache` | the two caches | `routes/_cache.py` |
| `Backup` | snapshots, prune, sweep | `backup.py`, `archive.py`, `main.py` |
| `Pacing` | Shodan gate and cooldown, Tor list | `enricher.py` |
| `Export` | keyset pages | `routes/api.py`, `queries/visits.py` |
| `Shutdown` | tasks, their threads, the end of the service | `main.py`, `db.py` |
| `Upgrade` | `init_db()` on an older database | `db.py` |
| `MCService` | the six modules above that share no state, as one instance | |
| `ServiceProofs` | theorems about those six, as parts of `MCService` | |
| `Rows` | the stored relation and the conditions every query narrows it by | `queries/_shared.py` |
| `Selection` | the visitor pages, groupings, tiles, matrix, feeds (EXTENDS `Rows`) | `queries/visitors.py`, `stats.py`, `analysis.py`, `aggregations.py`, `decisions.py`, `routes/visitors.py`, `routes/_charts.py` |
| `Sessions` | sessions, behaviours, incidents and their panel (EXTENDS `Rows`) | `queries/sessions.py`, `sessions.py`, `queries/incidents.py`, `incidents.py` |
| `Exposure` | findings and their panel (EXTENDS `Rows`) | `queries/analysis.py` |
| `Rules` | the evidence of an address and the chain of rules (EXTENDS `Rows`) | `classifier/` |
| `Comparisons` | windows, baselines, typical hour (EXTENDS `Selection`) | `routes/_range.py`, `queries/baseline.py`, `queries/stats.py` |
| `MCQueries` | one log that grows a request at a time, with the properties of the five modules above | |
| `QueriesProofs` | theorems about `Rules`, about sums, and about the visitors page in `Selection` | |
| `FiguresProofs` | theorems about the other figures of `Selection`, `Exposure` and `Comparisons` | |
| `SessionsProofs` | theorems about `Sessions` | |

### 2.1 Retention

State. `db` is the set of committed rows; `pin`, `mode`, `rolling` and `keep` are the rows of
`processor_state` that matter; `zip` is the archive directory as running processes see it and
`disk` the directory as a power cut would leave it (file contents are always synced before they
get their name, so a name leads to the old file or to the whole new one); `lock` is the pass that
holds the write lock between two of its steps; `pass` and `req` are the program counters and
locals of passes and requests. `ingested` and `given` are history: what was ever committed, what
was given up on purpose.

Steps. A transaction that only writes rows is one step, at its commit, because SQLite serialises
writers and nothing reads its intermediate state. `archive_month()` has file operations inside
its transaction, so it is five: `ArchiveBuild` (`BEGIN IMMEDIATE`, read, write and sync the
temporary file), `ArchiveRename`, `ArchiveSync`, `ArchiveCommit`; `release_month()` and
`delete_archive()` look at or remove a file first and write the database later, so they are two.
A pass reads its lists (`ExpiredRestores`, `DueMonths`, `ExpiredArchives`) when the code reads
them and acts on them later. Any pass or request may fail at any point (`PassFails`,
`RequestFails`: its transaction rolls back, its file operations stay), and a power cut may come
at any point.

Abstractions. Months are consecutive integers, `MonthOf` gives each row its month; a pin is
`none`, `live` or `over` instead of a date (a pin that cannot be parsed is `over` as well). The
addresses' half of an archive, `VACUUM`, `last_run` and the sweeping of temporaries are left out:
none decides where a visit is kept. Downloads only read.

Two constants say what the environment may do. `Serial`: operations on the archive start only
when no other one is running and the kernel has written the directory back since. `LateRows`:
rows of earlier months may still arrive. `NoVisitLost` needs both, and the code enforces
neither: the run `two_passes` shows what happens without the first.

### 2.2 LogTail

State. `files` maps inode numbers to contents, as sequences of half lines, so that offsets can
fall inside a line and a read can meet a line that nginx is still writing; `path` and `nginx` are
the inodes the path names and nginx has open; `saved` is the stored position; `stored` counts the
rows of each line; `tail` is the loop: program counter, open descriptor, offset, fingerprint,
batch.

Steps. The loop is split where another process can matter: `Start`, `Open`/`OpenAtEnd`,
`Read`/`ReadNothing`/`NoticeReplaced` (the checks and the read that follows them have no `await`
between them; a truncation by another process between the two is not modelled), `LookAtPath`,
`Commit`/`CommitFails`, `Crash`. logrotate may rename and create, with reuse of a freed inode
number, or truncate in place; nginx reopens later.

Abstractions. Parsing and `skip_reason()` are the constant set `Dropped`; a fingerprint is the
prefix itself; the request identity index is left out on purpose, so that `NoDuplicates` is about
the tailer alone.

### 2.3 Verdicts

State. `row` is `ip_intel` with what decides about verdicts: how often the evidence of the address
changed, whether its PTR record was looked up, its class and its stamp (`classified_at`,
`classified_visit_id`). `newest` is the id of each address's last visit, `stored` and `purged` are
rows of `processor_state`, `code` is the `CLASSIFIER_VERSION` of the running service, and
`reclassifier`, `backfill` and `rdns` are the three background tasks. A class is modelled by the
version of the rules behind it; `saw`, a history, is the evidence it was derived from.

Steps. `get_conn()` keeps sqlite3's default, in which a transaction begins with the first statement
that writes. So a pass of the classifier is several steps: the list of addresses
(`ReclassifyList`, `BackfillList`), one query per address (`ReclassifyJudge`, `BackfillJudge`), and
the write of all verdicts at the commit (`ReclassifyWrite`, `BackfillWrite`, the latter with the
new `classifier_version`). `_persist_batch()` writes before it judges, so it is one step
(`Persist`). A round of the reverse DNS backfill reads its addresses, waits for the resolver, and
stores (`RdnsLoad`, `RdnsStore`). A failure ends a backfill until the next start and a pass of the
reclassifier until its next turn; `Restart` may come at any moment and bring a newer classifier.

Abstractions. Only one constant says what the environment may do: without `Racing`, nothing a
pass has read changes before it writes. With it, visits and lookups go on during a pass, as they
do in the service, and the run `verdicts_racing` shows what then happens to a stamp. Rows that an
archive removes or a restore brings back, and going back to an older classifier, are left out;
both are listed as hazards.

### 2.4 Enrichment

State. `visits`, `archived`, `shelf` and `intel` are the tables and the archive as far as they hold
an address; a row of `intel` is the day it was fetched and, for each source beside ip-api, the day
whose answer its columns hold. `handing`, `seen` and `order` belong to the tailer, `queue` and
`pending` stand between the two, `worker` is the batch under way.

Steps. The worker selects (`Select`: list, queue, addresses without a row, stale rows, then what is
fresh already is dropped), asks (`Answer`), and stores (`Persist`); it awaits between them, so the
archive, a restart and the tailer may come between any two. An answer of ip-api is any sequence of
items, with repeated, missing and failed ones; each source answers or not, for each address.

Abstractions. Time is days, pauses and back-off are left out, since a worker that waits is one that
takes no step. What a source said is the day it was said on.

### 2.5 PageCache, Backup, Pacing, Export, Shutdown, Upgrade

Each is a small system of its own. In `PageCache` a value is the number of writes the database had
seen when it was computed; a fill is `Miss`, `Produce`, the sweep key by key, `Store`, with the
errors that a dict changed meanwhile raises. In `Backup` two passes (the daily task and the button)
take each step of `create_snapshot()`, `prune()` and the stamp apart; `dir` and `disk` are the
directory as seen and as a power cut would leave it, and the kernel writes directory changes in
their order. In `Pacing` a lookup tests the cooldown, takes a turn, sends, and is answered or
pushed back; sleeping lookups wake up on time (`MayTick`), which `Paced` needs and an overloaded
event loop could break. `Export` is the generator, one query per page. `Shutdown` has the three
kinds of tasks: those whose thread `run_db()` waits for, those with a plain `to_thread`, those that
end. `Upgrade` models `init_db()` statement by statement with sqlite3's transactions: the added
columns commit one by one, the copy of the legacy columns and their removal commit together if
anything was copied, and two processes may both be in it. The SELECT of the copy names all five
columns, so a start that finds some of them gone and some left fails (`SelectFails`), and so does
every later one; the run `upgrade` reaches that.

In `PageCache` each key has the time-to-live its callers pass, and a sweep goes by that of the fill
that sweeps. One thing is left out: the fill of the findings calls `_cached()` for the hourly
baseline inside its own (`routes/_cache.py:194-207`). The entry of the findings has its own
timestamp, while the baseline in it may be up to an hour older; `NeverOlderThanSaid` speaks of what
an entry was computed from directly.

### 2.6 Rows, Selection, Sessions, Exposure, Rules, Comparisons

`Rows` is the two tables and one operator for each condition of `_shared.py`. Every query is then
written out on its own, as in the code, where each has its own SQL with the chain of conditions
repeated: the properties say that they agree. A path is a model value with a page, a decoded form
and a query; a class is a group and a subclass; times are whole units. Columns that are only shown,
page cuts and sort order are left out.

In `Selection` a grouping has the columns it groups by (`KeyColumns`), and a drawer the one column its
link carries (`DrillColumn`); a client's device is left out, it is one more column beside the
system. The peers of an address are those of its network (/24 or /64, a constant) and those of its
operator. What a finding is compared with is the list its link opens, under every window the page it
leads to may be in.

`Rules` is the chain of `rules.py` over the counts `_classify_sql()` returns: patterns are constant
sets of the paths they match. `Sessions` cuts sessions, incidents and the panel under one by the
same chaining operator, as the two queries share one CTE. `Comparisons` keeps twice a median.

## 3. Runs

| Run | Shows | Instance |
|---|---|---|
| `retention_serial` | `TypeOK`, `NoVisitLost`, `ArchivesNeverShrink`, `PinnedMonthsStay`, and `StoreSpec` (refinement of `VisitStore`) | 3 rows in 2 months, 3 months of clock, 1 pass, 1 request, 2 faults, operations one at a time |
| `retention_concurrent` | `DeletesWhatItWrote`, `DueMonthsLeave`, `ExpiredPinsEnd` | 2 rows of one month, 3 months of clock, 1 pass, 1 request, late rows, 1 fault, everything interleaved |
| `log_tail` | `TypeOK`, `NoDuplicates`, `PositionMatchesRows`, `NoGaps`, `LinesArrive` | 3 lines, one of them dropped, 2 inode numbers, 2 faults, truncation, both values of `INGEST_EXISTING_BACKLOG` |
| `verdicts` | `TypeOK`, `VersionHonest`, `SettledIsCurrent`, `DueGetJudged`, `LookupsEnd` | 2 addresses, 1 visit, 1 change of evidence each, 2 classifier versions, 2 faults, 1 address per pass or round, `Racing` off |
| `enrichment` | `TypeOK`, `SeenMirrorsOrder`, `NoEarlyQuestion`, `OutageErasesNothing`, `RowsOnlyGetFresher`, `EveryVisitorIsLookedUp`, `StaleRowsAreRefreshed` | 2 addresses, 1 source beside ip-api, batch, queue and `seen_ips` of 1, 2 days, 3 events |
| `service` | `NeverOlderThanSaid`, `QuietWritesAreSeen` (PageCache), `SnapshotsAreSound`, `BackupsRun` (Backup), `Paced`, `OverrunIsBounded` (Pacing), `ExportIsExact` (Export), `NothingLandsLater` (Shutdown), `FactsSurvive` (Upgrade) | 2 threads, 2 keys with different times-to-live, a cache of 1 entry, 1 write; 2 passes, 2 days, 2 faults; 3 lookups, 2 of them at once, 3 batches; 3 rows, pages of 2; 3 tasks; 2 processes, 2 addresses, 2 fields, 1 fault |
| `queries` | `SelectionViewsAgree`, `SelectionFiguresMatch`, `SessionsAndPanelsMatch`, `ExposureIsHonest`, `ComparisonsAreFair`, `VerdictsKeepAbuse` | all logs of 3 requests (incidents: of sweeps up to 8 requests, comparisons: up to 4), 2 addresses, days of 4 units, three windows each with every choice of classes, seen, bar and address, one of them with every other narrowing too, alone and with New or the bar |
| `two_passes` (violation) | `NoVisitLost` fails with a manual pass beside the service's | 2 passes, no request, no fault |
| `log_rotation` (violation) | `RotationLosesNothing` fails when the tailer switches before nginx reopens | 3 inode numbers, no truncation, no fault |
| `verdicts_racing` (violation) | `StampIsHonest` fails when a visit arrives during a pass | 2 visits, 1 fault, `Racing` on |
| `upgrade` (violation) | `UpgradesFinish` fails when an upgrade with nothing to copy is killed between two DROP COLUMN statements | 1 process, 2 fields, 1 kill |
| `incident_window` (violation) | `IncidentPanelMatches` fails when a page begins in the middle of a session | as `queries` |

`DeletesWhatItWrote` is checked with one pass, since liveness with two takes longer than is
practical; what a second pass does is in `two_passes`, and the theorem `DeletesExactly` is for any
number of them.

Why the bounds are enough. Two rows of a month are what it takes to tell a whole archive from a
partial one, a second month what it takes to order the lists of a pass; three months of clock let
a month be current, leave the window of 0 or 1, and leave the keep window; two faults allow a
crash during the recovery from a crash. `MaxRolling = 1` and `MaxKeep = 2` keep every clamp
reachable from both sides. In the log model a fingerprint is one whole line and the read budget a
line and a half, so there are files too short for a fingerprint, batches of one line and of two,
and a rest that is not a line; two inode numbers force reuse at the second rotation.

In the model of verdicts, two addresses and a limit of one make a pass leave work for the next;
one change of evidence is enough to tell a verdict from before it from one after; two versions and
two faults allow an upgrade that is interrupted before its pass commits. The visit bound is one
because `DueGetJudged` asks for a time after which the log is quiet.

In `enrichment`, a queue and a `seen_ips` of one with two addresses make the queue full, an address
evicted and offered again; a batch of one makes one address wait for the other; two days and a TTL
of zero make every row stale once; three events are enough for archive, purge and restore with an
answer in between, or a restart during a failure. In `service`, two of each actor overlap; with clocks of 0 and 1 an entry of a minute expires and
one of an hour goes only when the other's fill sweeps it or a write clears it; keeping
one snapshot (`Keep = 0` is raised to one) makes every prune delete; a cooldown longer than two
turns makes a request wait through it; three rows in pages of two have a page boundary between
equal moments. In `queries`, two addresses that differ in class, country and flags are enough for
a count to be off by one in either direction, and three requests for a path, an address and a
window to cut them differently; the thresholds of the code (`MIN_ADDRESSES`,
`SIGNATURE_PATHS`, ...) are scaled down to be crossed by that many.

`service` and `queries` pick one part at the start of a behaviour (`part`). The parts share no
variable with each other, so a product of them would add interleavings and no behaviour of any
part. The queries share the tables and change nothing, so a growing log that is looked at after
every step is all that can happen to them.

Bounds: `MaxVisit`, `MaxEvidence`, `MaxVersion` (what may happen to verdicts), `MaxMonth` (clock),
`MaxFaults` and `MaxMishaps` (failures, kills and power cuts), `LastLine` (lines nginx writes),
`MaxDay`, `MaxItems`, `MaxEvents` (enrichment), `MaxTime`, `MaxClock` (clocks), `MaxWrites`,
`MaxVersion` of Backup (changes of the database), `MaxBatches`, `MaxId`, `MaxCommits`,
`MaxLookups`, `MaxVisits`. All other constants are sizes of the instance.

Fairness. `_retention_task()` ticks every hour for as long as the process lives and swallows
every exception of a pass, so a pass that is idle starts again and again: strong fairness on
`PassStart`, because in between it may be running or waiting for a request. A running pass or
request keeps taking steps (weak fairness): every wait for the lock has a timeout, after which it
fails, which is a fault, of which there are finitely many. The kernel writes back eventually. The
tailer's loop sleeps a bounded time after each step and never ends by itself: weak fairness on
its steps. `_reclassify_task()` loops for ever and swallows the exceptions of a pass, and the two
backfills run from the start of the service to their end on the event loop and its threads, with a
timeout on every lookup: weak fairness on the steps of each of the three. The enrichment worker
loops for ever, catches every exception and puts a timeout on every request: weak fairness on its
three steps, and on the tailer's hand-over, whose put has a timeout. What may fail in the worker is
bounded, so that in the end a batch is answered in full. `_backup_task()` ticks as
`_retention_task()` does: weak fairness on a pass of it and on the sweep. Nothing is assumed of
nginx, logrotate, the clock of a calendar, the operator, new visits or the providers' order.

Deadlock is checked for `Retention`, `LogTail` and `Enrichment`, whose loops never end. It is not
for the others: their instances end where the clock, the faults and the inputs are used up.

The oversized line. `_read_batch()` consumes an unterminated line that exceeds the read budget;
the position is then inside a line, which the next poll takes for a replaced file. The instance
keeps the budget above a line, so this branch of `BatchEnd` is not reached in it: with
`MaxRead = 1` the file is read again and `NoDuplicates` fails, and only the request identity index
(where the log carries it) keeps the rows single.

### Where the code and its own words disagree

Five such places have a violation run of their own (`two_passes`, `log_rotation`,
`verdicts_racing`, `upgrade`, `incident_window`). Others were met while modelling and have none:

* A row of an archived month that arrives late makes the month due again, and `archive_month()`
  replaces the month's zip by one of that row (`archive.py:428`). `NoVisitLost` excludes late rows.
* `delete_archive()` unlinks before it clears the pin (`archive.py:558`); a failure in between
  leaves a pin no later pass looks at.
* `set_rolling_months()` (`archive.py:97`) does not look at the keep window, which
  `docs/data-reference.md:176` says stays above it.
* A first start with the end of the log inside a line reads the whole backlog
  (`log_processor.py:683`).
* "Stops entirely when the server pushes back" (`_RateGate`): lookups that have passed the test
  still go out during the cooldown (`enricher.py:261`). `OverrunIsBounded` says how many.
* The backup and retention tasks call a plain `asyncio.to_thread()` (`main.py:214`, `:221`), so a
  pass may still write after "Shutting down". `NothingLandsLater` speaks of `run_db()` only.
* A sweep of the summaries that meets another, or a write, raises a `KeyError` out of `_cached()`
  (`routes/_cache.py:166`), although a finding list "must never take the page down" (`:205`); and a
  fill that overlaps a write stores the older value until its time is up.
* A windowed exposure page folds only the spellings seen in its window before it asks who "ever"
  fetched the path (`queries/analysis.py:1021`, `:871-876`).
* `_dnsbl_lookup()` takes every `socket.gaierror` for "not listed" (`enricher.py:403`), a resolver
  that is down included, and one provider's answer replaces what another one found.
* `db.py:339` says the backfill runs only when the child tables are empty; it runs whenever a legacy
  column is there, which is what `FactsSurvive` needs (its mutant is the comment).
* "Row click opens the IPs behind the row" (`templates/visitors.html:315`, `routes/visitors.py:683`):
  the clients table has a row for each browser, system and device (`queries/aggregations.py:188`,
  `:404`), but the drawer of a row is asked with its browser alone, so it lists the addresses of all
  rows with that browser. `RowsMatchTheirDrawer` says that such rows together have what their drawer
  lists, and that a row of another table has it by itself.
* "One finding with a link to the view that shows it in full" (`queries/stats.py:206-207`): the link
  of New is `/visitors?class=threats` (`:264`), which opens all threats of the window the reader last
  chose, not the new ones of today; the link of CVE (`:285`) opens `/shodan` under that window
  (`routes/analysis.py:165-167`) while the finding counts every host ever seen. `FindingsMatch` and
  `VulnIsListed` say by what the figure and its list then differ: a window that begins no later than
  today and has no end lists at least the new threats (one that begins later, or a custom range
  that has ended, may list none of them), one that begins after a host was seen lists fewer hosts.
* The rows of a grouping table ignore the drill-down and the bar which the pills and the chips of
  the same page state (`routes/visitors.py:307-327`), and the drawer of a path ignores the status
  band its table was narrowed to (`:693-728`); `SelectionFiguresMatch` asks the groupings without
  either, and compares the bands with each other.
* A log that begins inside a clock hour is one slot short in the hourly baseline
  (`baseline.py:118`); `SpikesAreFair` allows that slot.

## 4. Proofs

All for arbitrary constants that satisfy the assumption of their module (`RetentionAssumption`,
`LogTailAssumption`, `VerdictsAssumption`, `EnrichmentAssumption`, `ServiceAssumption`,
`QueriesAssumption`), which TLC evaluates on every run. A theorem that needs more says so as a
hypothesis, given below with its reason. Every inductive invariant was first checked by TLC on the
instance of the module's run.

**The archive** (`RetentionProofs`)

* `TypeCorrect`: `Spec => []TypeOK`. The invariant is inductive as it stands; the two facts that
  are not immediate are that the month a pass takes next is on its list (`OldestIn`, `NewestIn`,
  from the well-foundedness of the naturals) and that the clamps of the settings stay inside their
  maxima (`KeepStoredType`).
* `DeletesExactly`: `Spec => []DeletesWhatItWrote`, with any concurrency. The inductive
  invariant `LockInv` adds what makes it true: a pass between its SELECT and its DELETE *holds the
  write lock*, and so does a pass that has deleted rows it has not committed, so no other step
  changes the database meanwhile.
* `NothingLost`: `Serial /\ ~LateRows` imply `Spec => []NoVisitLost`. `NoVisitLost` alone is not
  inductive: nothing in it says that a zip which exists holds the month. `SafeInv` adds: a file
  belongs to a past month and holds every row of it that nobody gave up, both as seen and after a
  power cut (`FilesInv`); a month is whole in the database or wholly out of it with a file that is
  durable (`KeptInv`); at most one actor runs (`Alone`); and what an actor has read before a step
  still holds when it takes it (`PassFacts`, `RequestFacts`).

* `ArchivesOnlyGrow`: under the same assumptions `Spec => ArchivesNeverShrink`. A file may be
  written again while it exists, after a restore; `WholeInv` adds that a month which has a row in
  the database while it has a file has all rows of that file there, so the new file is no smaller.
* `PinnedMonthsAreSpared`: `Serial` alone implies `Spec => PinnedMonthsStay`; late rows do no harm
  here. `PinInv` adds that no month on the lists a pass works through, nor the one it has in hand,
  is pinned: the lists are read once and acted on later, which only `Serial` makes safe.
* `ImplementsVisitStore`: under the same assumptions `Spec => StoreSpec`, the refinement of
  `VisitStore`. Given `NoVisitLost`, what is held is exactly `ingested \ given` (`HeldRows`), so it
  is enough to say what a step does to that history: it records one row, gives rows up, takes rows
  back, or leaves it alone (`StepsHistory`). The extra invariant `OriginInv` says that every row in
  the database, in a file or in an actor's hands was once ingested, so that giving one up is never
  giving up a row that was not there.

**The tailer** (`LogTailProofs`)

* `TailTypesCorrect`: `Spec => []TypeOK`.
* `LinesOnce`: `MaxRead >= 2` implies `Spec => []NoDuplicates`: no line becomes two rows, for any
  length of log, number of inodes, faults, rotations and truncations. `MaxRead >= 2` says that a
  line fits the read budget (offsets count half lines): `_MAX_READ_BYTES` is 1 000 000. TLC finds
  the second row when it does not.
* `NothingPassedOver`, `PositionIsSound`: with also `ShortFingerprint` (a fingerprint is at most a
  line) `Spec => []NoGaps` and `Spec => []PositionMatchesRows`. The code justifies it:
  `_FINGERPRINT_BYTES` is 256, and a line of the required format (`deploy/nginx-log-format.conf`)
  has 463 bytes beside its 25 values. TLC finds a gap when two lines fit a fingerprint.

  The invariants: `FilesInv`, each half line is written once, in order, to one file at a time, so
  that a prefix tells two files apart unless it is empty; `SavedInv`, `LoopInv` and `OpenInv`, from
  the stored position and from the loop's, with the batch in hand stored or rolled back, reading on
  meets no line that has a row; `BehindInv`, and leaves none behind that has none.

**Verdicts** (`VerdictsProofs`)

* `VerdictsTypeCorrect`: `Spec => []TypeOK`. What is not immediate is that passes and lookup rounds
  work on addresses that have a row; it follows from rows never leaving (`RowsStay`).
* `VersionIsHonest`: `Spec => []VersionHonest`, with `Racing` or without. `VersionHonest` alone says
  nothing while an upgrade's pass is under way. `VersionInv` adds that no class is newer than the
  running code, that the stored version is not either, and that while a backfill
  runs, every row it did not list already has a class by the running code.
* `SettledVerdictsAreCurrent`: `~Racing` implies `Spec => []SettledIsCurrent`. `SettledInv` adds
  that no stamp is ahead of the visits and that what a pass has read is still so (`Fresh`). This
  second part is the one `Racing` takes away.

**Enrichment** (`EnrichmentProofs`), for a finite set of addresses

* `EnrichmentTypes`: `Spec => []TypeOK`, which includes the bounds on batch, queue and deque.
* `TailerForgetsTogether`: `Spec => []SeenMirrorsOrder`.
* `QuotaIsNotWasted`: `Spec => []NoEarlyQuestion`, `SilenceErasesNothing`: `Spec =>
  OutageErasesNothing`, `RowsNeverGoBack`: `Spec => RowsOnlyGetFresher`. They need `RowsBehind`:
  nothing was heard after it was fetched, and while the worker waits to store, no row and no shelved
  row is newer than the day its answers are from. It reads, asks and stores in three steps, with
  purge, restore and restart between any two; what it stores is merged with the row of that moment,
  and `RowsBehind` says that this row is no newer than the answer.

**Caches, pacing, upgrade, backups, export, shutdown** (`ServiceProofs`), each for any number of
its actors, times and faults, as a theorem of `MCService`, whose other parts leave it alone
(`PartsStep`)

* `ShutdownIsClean`: `[]NothingLandsLater`, by `ShutdownInv`: a shielded thread has work only while
  its task works, and a service that is down has no task.
* `SummariesAreHonest`, `WritesAreSeen`: `[]NeverOlderThanSaid`, `[]QuietWritesAreSeen`, by
  `PageInv`: a value in a cache, or in the hands of a fill, is at least that of its timestamp, and at
  least that of the last quiet write.
* `ProvidersAreSpared`, `PushBackIsHeeded` (the gate to Shodan; the Tor half of `Paced` is part of the
  first only): `[]Paced`, `[]OverrunIsBounded`, by `PaceInv`: turns
  at the gate are an interval apart, those still to come included; during a cooldown the requests
  already sent and those that passed the test are together fewer than the semaphore admits.
* `UpgradeKeepsFacts`: `[]FactsSurvive`, by `UpgradeInv`: the database as committed and as seen
  inside an open transaction both tell every fact, and a process that removes a legacy column has
  copied it from every address. Columns that go without a transaction go because nothing was copied,
  so what a kill leaves of them has nothing to copy either: the database then tells every fact, but
  no start gets past it. The theorem says the first, the run `upgrade` the second.
* `BackupsAreSound`: `[]SnapshotsAreSound`, by `BackupInv`: every name in the directory, as seen
  and on disk, is that of a whole snapshot; a pass that is about to prune has seen its own there.
* `ExportsAreExact`: `[]ExportIsExact`, by `ExportInv`: what was sent lies at or before the cursor,
  in order, and a row that stays is either sent or still behind the cursor.

**The classifier** (`QueriesProofs`)

* `DeedsAreNotForgotten`: as long as the log only grows, no step takes a threat out of the threats
  or a prober out of probers and threats, for every pattern pack, every threshold, every finite
  log, and whatever is learnt or forgotten about the address meanwhile. The chain of rules has some
  that lead away from threats; `JudgedByDeeds` says which rules come first, in terms of counts that
  only grow. Archiving removes rows and is outside: that a class may then change is intended.
* `AbuseIsNotWashedOut`: `Spec => VerdictsKeepAbuse`, from it, for the steps of `MCQueries`.

**The pages** (`QueriesProofs`)

* `OneSelection`: on every finite log whose moments are numbers and whose classes are labelled as
  the classifier labels them, for every set of filters, the views of the visitors page agree.
* `PagesAnswerForOneSelection`: `Spec /\ []ChartsFit => []SelectionViewsAgree`. `ChartsFit` says that
  no chart reaches the ceiling on its buckets, of which `queries/analysis.py:253-256` says that
  nothing real approaches it (5000; a chart in hours ends at a few days). A chart that did would be
  cut off and could not add up to the list. The invariant is `SelectionInv`: the log is finite, and
  classes are labelled.

  The argument goes query by query: each keeps the rows of `VisitorRows` although it states its
  conditions in another order or leaves one to a later step (`ViewsKeepTheSame`,
  `ListedByClass`, `MarkersAreListed`); grouping a finite set by any key partitions it, so counts
  add up (`CountByKey`, `PartsAddUp`); the gaps a chart fills in add empty buckets only
  (`EveryRowIsDrawn`). Sums are over finite sets, where induction would be the natural argument:
  instead a smallest set of which the claim fails is taken (`SmallestSet`) and an element removed.

**The other pages** (`FiguresProofs`)

* `FiguresAgreeWithTheirLists`: `Spec => []SelectionFiguresMatch`, for every set of filters, every
  finite log of answers with a status of at least 200, labelled classes and named tags and CVEs
  (`FiguresOfTheLog`). The drawer of a row keeps the requests of the rows that open it, although the tables
  filter rows by columns and the drawer filters visitors by a narrowing (`DrawerKeeps`); so
  requests add up, an address of a row is listed, and a listed one is counted by some row
  (`DrawerOfRow`, from `RequestsAddUp` and `AddressesAddUp`); a window
  with a bound lets an enriched address count exactly if a request of it is listed
  (`SeenIsListed`), and what is held against an address, or its group, needs a row
  (`UnknownHasNothing`), so tiles and matrix cells that read `ip_intel` count what the list counts;
  the two upper bands are the errors of a day (`BandOf`), which needs that no answer has an
  informational status; "today's threats" are the ones without an earlier request
  (`NewThreatsAreListed`), and any window that begins no later lists them too
  (`NewThreatsAreAmong`); the CVE on most hosts is one, so its list without a window is the whole
  (`TopVulnSelects`); and two groups have no address in common, so that at most one has a
  majority of the peers (`MajorityIsOne`). The invariant is `FiguresInv`.
* `FindingsCountEverySpelling`: `Spec => []ExposureIsHonest`, for every finite log and every folding
  of spellings (`ExposedRows`). The spellings of one resource partition its requests (`FoldedRows`);
  the figures of a row, counted from one group or asked again for several (`RowCounts`), are those
  of the resource; and without a window the spellings listed are all that were ever served, so the
  question whether benign visitors know the file is asked of the file (`AllSpellings`).
* `ComparisonsAreOfTheirSpan`: `Spec => []ComparisonsAreFair`, for every set of ranges, every
  length of a day and an hour that divides it, every threshold and every finite log
  (`ComparisonsOfTheLog`). Windows: what the cookie keeps of a window resolves to it again
  (`WindowComesBack`). Deltas: a window and the one
  before it touch without overlapping (`WindowsJoin`). `DaysAssumption`, which TLC evaluates, says
  that the days are numbered from before the earliest span asked for: -1 stands for "no bound", so
  it must not be the number of a day. Medians: twice the median of the padded counts is the sum of
  two ranks, of which half of the slots do not exceed the one and half reach the other
  (`MedianSplits`, from `RankIsReached` and `RankIsNeeded`). Spikes: with as many slots as the span
  has hours, or one less when the log begins inside an hour, an unusual hour exceeds the share of
  half of them and one that is not reported has half of them in its way (`SpikeHolds`,
  `SlotsAreHours`); that is where an off-by-one in `queries/baseline.py` would show. The divisions
  are on numbers below zero too (`Divided`, `ShortBy`): the first hour asked for may lie before the
  first one numbered.

**Sessions and incidents** (`SessionsProofs`)

* `SessionsAnswerForTheirBounds`: `Spec => []SessionsAndPanelsMatch`, for both gaps, every length
  of a signature, every threshold and every table of paths. The two halves are stated for any
  finite log whose ids follow its moments (`SessionsMatch`, `PanelsMatch`); `SessionsInv` says that
  the log is one, which is where the order of arrival comes in.

  Cutting at silences: the starts are numbered without a hole (`StartsAreNumbered`), so the parts
  of `Chained` are the runs of the starts (`ChainIsRuns`), every member is in one and in one only
  (`RunsPartition`), and a run is what lies between its start and the next (`RunIsBetween`).
  Sessions: no other request of the address lies within the bounds of a run (`RunIsItsWindow`);
  counting silences gives the number of runs (`SessionsAreRuns`); and what was served is part of
  what was asked for, so the difference of two counts is a count (`UnservedAddsUp`). That one needs
  that a request that is no path is never answered with success: the server refuses what is not
  HTTP, `PseudoAssumption`, which TLC evaluates.

  The panel chains again only the probes from one gap before the incident to the end of its last
  hour. A part cut out like that keeps every start from the incident's beginning on, and its run up
  to the cut (`CutKeepsRuns`). A signature is read off the first rows of a session, so cutting its
  end does not give it another one (`SignatureOfPrefix`), though it may take it away; hence what
  the panel reads with the incident's signature begins a session of the log with that signature
  (`PanelReadsSpans`), one that begins within an event is of it (`EventHasNoGap`), and the panel is
  the event (`PanelIsMembers`). `Padded` without its gap breaks this at `CutKeepsRuns`. The same
  panel on a page that begins with a day is the run `incident_window`, where it does fail.

**Only model-checked.** Liveness (`DueMonthsLeave`, `ExpiredPinsEnd`, `LinesArrive`,
`DueGetJudged`, `LookupsEnd`, `EveryVisitorIsLookedUp`, `StaleRowsAreRefreshed`, `BackupsRun`), which
needs fairness and `ENABLED` and is beyond the prover. Every invariant and every action property
of the passing runs is stated by a theorem above.

## 5. Plan

What is left to model: `Verdicts` together with archives, and a roll-back to an older classifier; the
request identity index behind `LogTail`; the rate limit of the export.

## 6. Not modelled

Parsing of log lines and of the search grammar, field clipping, links, rendering, the texts of the
report, static vocabularies, pattern files, configuration and preflight, demo data, browser code,
deployment and drawing scripts: they keep no state and do not depend on the order of events, or
they are conversions of text. Sorting and the page cut of a list are left out of the queries: no
property is about them. Several queries of a page run without a common transaction, so that a
commit between them may show on one half of a page: the query modules look at one moment. All
these are listed with their reasons in `PROJECT.json`.
