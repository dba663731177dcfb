SPECIFICATION Spec
CONSTANTS
  Ids <- OneId
  Versions = {"v1", "v2"}
  DriverThread = "driver"
  HttpThreads = {"http"}
  MaxWrites = 2
  MaxFailures = 0
INVARIANTS
  PersistentInZK
