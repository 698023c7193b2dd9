SPECIFICATION FairSpec
CONSTANTS
  LastLine = 3
  Dropped = {1}
  Inode = {1, 2}
  FingerprintLen = 2
  MaxRead = 3
  Backlogs = {TRUE, FALSE}
  CopyTruncates = TRUE
  MaxFaults = 2
INVARIANTS TypeOK NoDuplicates PositionMatchesRows NoGaps
PROPERTY LinesArrive
