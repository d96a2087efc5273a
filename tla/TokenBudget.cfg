CONSTANTS
  c1 = c1
  c2 = c2
  c3 = c3
  m1 = m1
  m2 = m2
  Conns = {c1, c2}
  Models = {m1}
  Configs <- SomeConfigs
  Costs <- SomeCosts
  MaxCost = 2
  Timeout = 2
  Word = 16
  HistoryCap = 2
  MaxUsed = 1
  MaxEdits = 2
  MaxTroubles = 1
SPECIFICATION FairSpec
CHECK_DEADLOCK FALSE
INVARIANTS TypeOK OverrunBounded
PROPERTY BudgetReturns
