\* Guard mode: three requests and a blank id, one limited and one unlimited
\* budget, costs below, at and above the limit and the largest Money.
SPECIFICATION Spec
CONSTANTS
  r1 = r1
  r2 = r2
  r3 = r3
  blank = blank
  b1 = b1
  b2 = b2
  NoLimit = NoLimit
  MaxMoney = 5
  Requests = {r1, r2, r3, blank}
  BlankIds = {blank}
  Budgets = {b1, b2}
  HardLimit <- MCLimits
  BudgetLists <- MCLists
  Costs <- MCCosts
  Modes = {TRUE}
SYMMETRY Symmetric
INVARIANTS
  TypeOK
  TotalsChain
  SettledWhole
  ReservesWithinLimit
  OverspendIsOverrun
  NeverNegative
  AnswerMatchesTable
