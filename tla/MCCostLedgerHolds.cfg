\* Guard and observe processes on one database: the ledger as an
\* implementation of BudgetHolds.
SPECIFICATION Spec
CONSTANTS
  r1 = r1
  r2 = r2
  r3 = r3
  blank = blank
  b1 = b1
  b2 = b2
  NoLimit = NoLimit
  MaxMoney = 5
  Requests = {r1, r2, blank}
  BlankIds = {blank}
  Budgets = {b1, b2}
  HardLimit <- MCLimits
  BudgetLists <- MCLists
  Costs <- MCCosts
  Modes = {TRUE, FALSE}
INVARIANTS
  TotalsAreCharges
PROPERTIES
  ImplementsHolds
