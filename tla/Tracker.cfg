CONSTANTS
  p1 = p1
  p2 = p2
  p3 = p3
  Pids = {p1, p2, p3}
  Agent0 = p1
  InitPid = InitPid
  Nobody = Nobody
  MaxHops = 2
  MaxEvents = 2
  MaxTroubles = 1
SPECIFICATION FairSpec
CHECK_DEADLOCK FALSE
INVARIANTS TypeOK LookUpTruthful ConfinedAreOurs
PROPERTIES SeenIsCovered
