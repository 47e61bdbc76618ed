\* A guard process: two requests on a limited and an unlimited budget, every
\* database call may fail, clients disconnect, the process may crash, and an
\* operator raises, lowers or deletes a budget at any time.
SPECIFICATION Spec
CONSTANTS
  r1 = r1
  r2 = r2
  b1 = b1
  b2 = b2
  NoLimit = NoLimit
  Absent = Absent
  Removed = Removed
  MaxMoney = 20
  Requests = {r1, r2}
  Budgets = {b1, b2}
  Scope <- OneScope
  Limits <- MCLimits
  InitLimits <- Filled
  Costs = {1, 3}
  Faults = {"paused", "attribution", "budgets", "estimate", "lookup", "reserve", "soft", "confirm", "release", "price", "reconcile", "request", "usage", "disconnect", "crash"}
  Modes = {TRUE}
  MaxInflight = 2
  MaxEdits = 1
SYMMETRY Symmetric
CHECK_DEADLOCK FALSE
INVARIANTS
  GrantsWithinSeen
  FailClosed
  NoStrandedHold
  BilledIsCharged
  RefusedIsFree
  UsageMatchesCharge
