CONSTANTS
    None = None
    Thread = {t1, t2}
    Key = {"attention", "baseline"}
    MaxEntries = 1
    TTL <- PageTTL
    DateTTL = 0
    MaxTime = 1
    MaxWrites = 1
    EmptyAfter = {1}
    Pass = {daily, button}
    Daily = daily
    Keep = 0
    MaxDay = 2
    MaxVersion = 1
    MaxFaults = 2
    Lookup = {l1, l2, l3}
    Concurrency = 2
    Interval = 2
    Cooldown = 4
    TorTTL = 2
    TorRetry = 2
    MaxClock = 6
    MaxBatches = 3
    MaxId = 3
    Moment = {0, 1, 2}
    Span = 2
    PageSize = 2
    Task = {tailer, backfill, retention}
    Shielded = {tailer, backfill}
    Once = {backfill}
    MaxCommits = 2
    Process = {server, operator}
    Server = server
    Address = {a1, a2}
    Field = {ports, tags}
    Value = {v, junk}
    Numeric = ports
    Unreadable = {junk}
    Added = {column}
    MaxMishaps = 1
    MaxLookups = 1
SPECIFICATION Spec
INVARIANTS
    NeverOlderThanSaid
    QuietWritesAreSeen
    SnapshotsAreSound
    Paced
    OverrunIsBounded
    ExportIsExact
    NothingLandsLater
    FactsSurvive
PROPERTIES
    BackupsRun
CHECK_DEADLOCK FALSE
