\* A visit or new evidence arrives while a pass is under way.
SPECIFICATION Spec
CONSTANTS
    Ip = {a, b}
    MaxVisit = 2
    MaxEvidence = 1
    MaxVersion = 2
    MaxFaults = 1
    Limit = 1
    Racing = TRUE
    NoRow = NoRow
INVARIANTS StampIsHonest
CHECK_DEADLOCK FALSE
