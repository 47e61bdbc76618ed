SPECIFICATION Spec
CONSTANTS
  Tasks = {t1, t2, t3}
  p1 = p1
  p2 = p2
  p3 = p3
  s1 = s1
  a = a
  b = b
  k1 = k1
  k2 = k2
  Unnamed = Unnamed
  Programs <- AllPrograms
  Slug <- Slugs
  SessionWindow = 1
  MaxNow = 2
SYMMETRY TaskSymmetry
CHECK_DEADLOCK FALSE
INVARIANTS
  OneSessionPerWindow
  RefusedOnlyOnSlug
  OneRowPerBudget
  AnswersOwnRow
  TotalsCoverPage
  FeedComplete
PROPERTIES
  EstimateForetells
