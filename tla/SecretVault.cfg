CONSTANTS
  SecretPaths = {"p1", "p2"}
  FilesOf <- SomeFiles
  Hosts = {"api", "other"}
  Unseen = "unseen"
  Allowlist = {"api"}
  MaxDepth = 2
  MaxEvents = 2
SPECIFICATION VaultSpec
CHECK_DEADLOCK FALSE
INVARIANTS VaultTypeOK SentIsMeant TriedInAnyOrder
