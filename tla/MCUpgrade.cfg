SPECIFICATION FairSpec
CONSTANTS
    None = None
    Process = {server}
    Server = server
    Address = {a1, a2}
    Field = {ports, tags}
    Value = {v, junk}
    Numeric = ports
    Unreadable = {junk}
    Added = {column}
    MaxFaults = 1
    MaxLookups = 1
PROPERTY UpgradesFinish
CHECK_DEADLOCK FALSE
