SPECIFICATION Spec
CONSTANTS
  c1 = c1
  server = server
  Commands = {c1}
  Server = server
  DefaultFile <- TheDefault
  Templates <- TheTemplates
  PresetModels <- ThePresetModels
  Edits <- TheEdits
  Environments <- TheEnvironments
  Books = {}
  BudgetArgs <- TheBudgetArgs
  BudgetIds <- TheBudgetIds
  ServeArgs <- TheServeArgs
  Answers = {}
  Absent = Absent
  Failed = Failed
  NotANumber = NotANumber
  NotFound = NotFound
  Overflow = Overflow
  MaxMoney = 120
  Mtok = 10
  OutputCap = 4
  MaxRuns = 3
  MaxRows = 0
  MaxNow = 0
INVARIANTS
  ServedAsConfigured
