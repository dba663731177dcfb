\* A host with that directory and without devices, and a singleton.
SPECIFICATION FairClusterSpec
CONSTANTS
  Hosts = {"a"}
  Slaves <- MCSlaves
  Core = {}
  Singletons = {"api"}
  Launchable = {"api"}
  Versions = {"v1"}
  RestrictHosts = {}
  NameWithin = {}
  Suffix <- MCSuffix
  PublicRole = FALSE
  Need <- MCNeed
  Ports <- MCPorts
  Rank <- MCRank
  Inputs <- MCNone
  MaxMailbox = 3
  MaxDriver = 0
  MaxRestarts = 0
  SlaveOf <- MCSlaveOf
  NewSlaveOf <- MCStays
  FirstMounts <- MCMounts
  LaterMounts = {}
  Mounted = {"a"}
  Capacity = 3
  SlowTimers = TRUE
  Posts = {"v1"}
  Endings = {"LOST"}
  MaxFailures = 0
  MaxLosses = 0
PROPERTIES
  Deploys
