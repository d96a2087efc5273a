CONSTANTS
  a1 = a1
  o1 = o1
  g1 = g1
  m1 = m1
  Daemon = Daemon
  Nobody = Nobody
  Agents = {a1}
  Others = {o1}
  Globs = {g1}
  Missed = {m1}
  MaxInodes = 2
  MaxAsks = 2
  MaxFails = 1
  MaxCrashes = 1
SPECIFICATION FairSpec
CHECK_DEADLOCK FALSE
INVARIANTS TypeOK DeniedIsReported
PROPERTIES AllAnswered NewPathMarked AgentShutOut
