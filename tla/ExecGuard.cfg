CONSTANTS
  p1 = p1
  p2 = p2
  Nobody = Nobody
  Procs = {p1}
  Kinds <- EveryKind
  RingCap = 1
  MaxTries = 2
  NewRules <- UniformRules
  MaxEdits = 1
  MaxCrashes = 1
SPECIFICATION FairSpec
CHECK_DEADLOCK FALSE
INVARIANTS TypeOK FrozenInCustody BlockedNeverActs SubstitutedNeverActs
PROPERTIES ImplementsGate FrozenResolved
