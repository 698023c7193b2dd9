SPECIFICATION Spec
CONSTANTS
  v1 = v1 v2 = v2 v3 = v3
  Visit <- MCVisit
  MonthOf <- MCMonthOf
  MaxMonth = 3
  MaxRolling = 1
  MaxKeep = 2
  Pass = {svc}
  Request = {r1}
  MaxFaults = 2
  LateRows = FALSE
  Serial = TRUE
  NoRow = NoRow
  Free = Free
INVARIANTS TypeOK NoVisitLost
PROPERTIES ArchivesNeverShrink PinnedMonthsStay StoreSpec
