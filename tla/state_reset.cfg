SPECIFICATION Spec
CONSTANTS
  Ids <- OneId
  Versions = {"v1", "v2"}
  DriverThread = "driver"
  HttpThreads = {"http"}
  MaxWrites = 1
  MaxFailures = 0
INVARIANTS
  ResetErases
