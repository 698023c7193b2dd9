SPECIFICATION FairSpec
CONSTANTS
  v1 = v1 v2 = v2 v3 = v3
  Visit <- MCTwoVisits
  MonthOf <- MCOneMonth
  MaxMonth = 3
  MaxRolling = 0
  MaxKeep = 1
  Pass = {svc}
  Request = {r1}
  MaxFaults = 1
  LateRows = TRUE
  Serial = FALSE
  NoRow = NoRow
  Free = Free
INVARIANT DeletesWhatItWrote
PROPERTIES DueMonthsLeave ExpiredPinsEnd
