SPECIFICATION Spec
CONSTANTS
  c1 = c1
  server = server
  Commands = {c1}
  Server = server
  DefaultFile <- TheDefault
  Templates <- TheTemplates
  PresetModels <- ThePresetModels
  Edits <- TwoEdits
  Environments <- TheEnvironments
  Books <- TheBooks
  BudgetArgs = {}
  BudgetIds = {}
  ServeArgs <- TheServeArgs
  Answers <- TheAnswers
  Absent = Absent
  Failed = Failed
  NotANumber = NotANumber
  NotFound = NotFound
  Overflow = Overflow
  MaxMoney = 120
  Mtok = 10
  OutputCap = 4
  MaxRuns = 3
  MaxRows = 4
  MaxNow = 1
INVARIANTS
  CostWithinRounding
PROPERTIES
  UpdateIsWhole
