SPECIFICATION ClusterSpec
CONSTANTS
  Hosts = {"a", "b"}
  Slaves <- MCSlaves
  Core = {}
  Singletons = {"api"}
  Launchable = {"api"}
  Versions = {"v1"}
  RestrictHosts = {}
  NameWithin = {}
  Suffix <- MCSuffix
  PublicRole = FALSE
  Need <- MCNeed
  Ports <- MCPorts
  Rank <- MCRank
  Inputs <- MCNone
  MaxMailbox = 2
  MaxDriver = 0
  MaxRestarts = 0
  SlaveOf <- MCSlaveOf
  NewSlaveOf <- MCStays
  FirstMounts <- MCMounts
  LaterMounts = {}
  Mounted = {}
  Capacity = 3
  SlowTimers = TRUE
  Posts = {}
  Endings = {"LOST"}
  MaxFailures = 1
  MaxLosses = 0
INVARIANTS
  SingleInstance
