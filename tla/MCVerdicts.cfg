\* One pass after the other: nothing changes between a pass's reads and its write.
SPECIFICATION FairSpec
CONSTANTS
    Ip = {a, b}
    MaxVisit = 1
    MaxEvidence = 1
    MaxVersion = 2
    MaxFaults = 2
    Limit = 1
    Racing = FALSE
    NoRow = NoRow
INVARIANTS TypeOK VersionHonest SettledIsCurrent
PROPERTIES DueGetJudged LookupsEnd
CHECK_DEADLOCK FALSE
