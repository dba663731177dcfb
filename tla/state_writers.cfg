\* Two connections and the driver's thread; a body that comes in two chunks.
SPECIFICATION FairHttpSpec
CONSTANTS
  Ids <- OneId
  Versions = {"1.1.5"}
  DriverThread = "driver"
  HttpThreads = {"h1", "h2"}
  Received <- TwoChunks
  MaxWrites = 3
  MaxFailures = 2
INVARIANTS
  TypeOK
  HttpTypeOK
  SerialWritesPersist
  ConflictKeepsOne
PROPERTIES
  IsRegister
  RequestsEnd
\* The process may be down and all writes used up.
CHECK_DEADLOCK FALSE
