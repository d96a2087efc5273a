CONSTANTS
  p1 = p1
  p2 = p2
  Nobody = Nobody
  Procs = {p1}
  Kinds = {"fmask"}
  RingCap = 1
  MaxTries = 1
  NewRules <- UniformRules
  MaxEdits = 0
  MaxCrashes = 0
SPECIFICATION Spec
CHECK_DEADLOCK FALSE
INVARIANT FmaskShowsOnlyMasked
