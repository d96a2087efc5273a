CONSTANTS
  t1 = t1
  t2 = t2
  k1 = k1
  k2 = k2
  Nobody = Nobody
  Main = Main
  Trees = {t1, t2}
  Tasks = {k1, k2}
  TreeOf <- OwnTree
  Files = {"plain", "secret", "odd"}
  Syscalls = 3
  JumpOffsets = {1, 2}
  MaxOpens = 2
  MaxRefusals = 1
  MaxLosses = 1
  MaxUnresolved = 1
  MaxRewrites = 1
  MaxSpawnFails = 1
  MaxFails = 1
  MaxInterrupts = 1
  MaxRelays = 1
  MaxCrashes = 1
  MaxTroubles = 2
SPECIFICATION FairSpec
CHECK_DEADLOCK FALSE
INVARIANTS TypeOK RawOnlyUnresolved RefusedOnlyByFailure
PROPERTIES Answered SupervisorEnds
