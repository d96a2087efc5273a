CONSTANTS
  e1 = e1
  e2 = e2
  h1 = h1
  h2 = h2
  Boot = Boot
  Resolver = Resolver
  Editors = {e1, e2}
  Hosts = {h1, h2}
  Configs <- SomeConfigs
  MaxEdits = 2
  MaxTroubles = 1
SPECIFICATION FairSpec
CHECK_DEADLOCK FALSE
INVARIANTS TypeOK ConfigInForce
PROPERTY AllowlistHeals
