SPECIFICATION Spec
CONSTANTS
  LastLine = 4
  Dropped = {}
  Inode = {1, 2, 3}
  FingerprintLen = 2
  MaxRead = 3
  Backlogs = {TRUE}
  CopyTruncates = FALSE
  MaxFaults = 0
INVARIANT RotationLosesNothing
