CONSTANTS
  main = main
  guard = guard
  c1 = c1
  c2 = c2
  Threads = {main, guard}
  Clients = {c1}
  HistoryCap = 3
  BusCap = 2
  MaxEvents = 5
SPECIFICATION FairSpec
CHECK_DEADLOCK FALSE
INVARIANTS TypeOK NothingLost ThreadOrderKept
PROPERTY Delivered
