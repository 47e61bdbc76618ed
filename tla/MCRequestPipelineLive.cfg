\* Liveness of guard and observe processes with one permit for two requests;
\* clients disconnect, the process crashes, the admission check fails, a cost
\* cannot be computed.
SPECIFICATION FairSpec
CONSTANTS
  r1 = r1
  r2 = r2
  b1 = b1
  b2 = b2
  NoLimit = NoLimit
  Absent = Absent
  Removed = Removed
  MaxMoney = 20
  Requests = {r1, r2}
  Budgets = {b1, b2}
  Scope <- OneScope
  Limits <- MCLimits
  InitLimits <- Tables
  Costs = {2}
  Faults = {"disconnect", "crash", "price", "budgets", "estimate", "lookup", "reserve"}
  Modes = {TRUE, FALSE}
  MaxInflight = 1
  MaxEdits = 0
CHECK_DEADLOCK FALSE
PROPERTIES
  Concludes
  HoldsConclude
