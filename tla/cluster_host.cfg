SPECIFICATION ClusterSpec
CONSTANTS
  Hosts = {"a"}
  Slaves <- MCSlaves
  Core = {"registry"}
  Singletons = {"api"}
  Launchable = {"api"}
  Versions = {"v1"}
  RestrictHosts = {}
  NameWithin = {}
  Suffix <- MCSuffix
  PublicRole = FALSE
  Need <- MCNeed
  Ports <- MCPorts
  Rank <- MCRank
  Inputs <- MCNone
  MaxMailbox = 3
  MaxDriver = 0
  MaxRestarts = 1
  SlaveOf <- MCSlaveOf
  NewSlaveOf <- MCStays
  FirstMounts <- MCMounts
  LaterMounts = {}
  Mounted = {}
  Capacity = 3
  SlowTimers = TRUE
  Posts = {"v1"}
  Endings = {"LOST"}
  MaxFailures = 1
  MaxLosses = 0
INVARIANTS
  ClusterTypeOK
  NoSecondLaunch
  OffersAccounted
  RecordsAreTrue
