SPECIFICATION FairSpec
CONSTANTS
  r1 = r1
  r2 = r2
  ann = ann
  Requests = {r1, r2}
  Users = {ann}
  Skus <- MCSkus
  Budgeted <- MCBudgeted
  Kinds <- MCKinds
  Gated <- MCGated
  Units <- MCUnits
  DayCap <- MCDayCap
  Quota <- MCQuota
  Order <- MCOrder
  MonthCap <- MCMonthCap
  MonthLength = 2
  LastDay = 1
INVARIANTS TypeOK DayBudget
PROPERTIES AllOrNothing ChargesEnd
CHECK_DEADLOCK FALSE
