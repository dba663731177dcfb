\* A singleton, and one restart of the scheduler at any time: with the framework
\* id and any version that it wrote, or as a new framework.
SPECIFICATION FairClusterSpec
CONSTANTS
  Hosts = {"a"}
  Slaves <- MCSlaves
  Core = {}
  Singletons = {"api"}
  Launchable = {"api"}
  Versions = {"v1"}
  RestrictHosts = {}
  NameWithin = {}
  Suffix <- MCSuffix
  PublicRole = FALSE
  Need <- MCNeed
  Ports <- MCPorts
  Rank <- MCRank
  Inputs <- MCNone
  MaxMailbox = 2
  MaxDriver = 0
  MaxRestarts = 1
  SlaveOf <- MCSlaveOf
  NewSlaveOf <- MCStays
  FirstMounts <- MCMounts
  LaterMounts = {}
  Mounted = {}
  Capacity = 3
  SlowTimers = TRUE
  Posts = {"v1", ""}
  Endings = {"LOST"}
  MaxFailures = 0
  MaxLosses = 0
INVARIANTS
  RecordsAreTrue
PROPERTIES
  Deploys
  ShutsDown
