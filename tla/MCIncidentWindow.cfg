CONSTANTS
    Hours = 4
    Form <- MCForm
    Convention = {"/robots"}
    Pseudo = {"junk"}
    MaxVisits = 3
    Filters <- MCFilters
    HourSwitchDays = 0
    MaxBuckets = 50
    NetworkOf <- MCNetworkOf
    MajorityOf = 1
    SessionGap = 1
    IncidentGap = 2
    MinAddresses = 2
    SignaturePaths = 2
    MinActions = 2
    BruteRepeats = 2
    EnumUnserved = 2
    ReconMax = 2
    ScrapeServed = 1
    ProbeUnit = 2
    ProbeCap = 2
    Benign <- MCBenign
    BenignForSite = 2
    Fragments = {}
    Kinds <- MCKinds
    Needles <- MCNeedles
    CrawlerOrigins <- MCCrawlerOrigins
    RateOneIn = 2
    MinContentForRatio = 2
    Distinct404ForProber = 2
    MinPagesForWeakBrowser = 2
    MinPagesForDatacenterHuman = 1
    Presets <- MCPresets
    DefaultRange = "2d"
    HourUnits = 2
    BaselineDays = 2
    MinBaselineDays = 1
    UnusualFactor = 2
    MinAbsolute = 1
    TorDays = 3
SPECIFICATION Spec
INVARIANTS
    IncidentPanelMatches
CHECK_DEADLOCK FALSE
