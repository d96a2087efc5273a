CONSTANTS
  s1 = s1
  s2 = s2
  Nobody = Nobody
  Shims = {s1, s2}
  KindsOf <- SomeKinds
  Workers = 1
  MaxTries = 2
  PathActions = {"block", "alert", "pass"}
  MaxTroubles = 1
SPECIFICATION FairSpec
CHECK_DEADLOCK FALSE
INVARIANTS TypeOK RunsAsJudged
PROPERTIES ShimEnds ListenerReturns
