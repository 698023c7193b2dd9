SPECIFICATION Spec
CONSTANTS
  v1 = v1 v2 = v2 v3 = v3
  Visit <- MCVisit
  MonthOf <- MCMonthOf
  MaxMonth = 3
  MaxRolling = 1
  MaxKeep = 2
  Pass = {svc, cli}
  Request = {}
  MaxFaults = 0
  LateRows = FALSE
  Serial = FALSE
  NoRow = NoRow
  Free = Free
INVARIANT NoVisitLost
