\* A device, a singleton that waits for its service, one failure or loss.
SPECIFICATION FairClusterSpec
CONSTANTS
  Hosts = {"a"}
  Slaves <- MCAllSlaves
  Core = {"registry"}
  Singletons = {"api"}
  Launchable = {"api"}
  Versions = {"v1"}
  RestrictHosts = {}
  NameWithin = {}
  Suffix <- MCSuffix
  PublicRole = FALSE
  Need <- MCNeed
  Ports <- MCPorts
  Rank <- MCRank
  Inputs <- MCNone
  MaxMailbox = 3
  MaxDriver = 0
  MaxRestarts = 0
  SlaveOf <- MCSlaveOf
  NewSlaveOf <- MCReturns
  FirstMounts <- MCFirst
  LaterMounts <- MCLater
  Mounted = {}
  Capacity = 3
  SlowTimers = TRUE
  Posts = {"v1"}
  Endings = {"LOST", "FINISHED"}
  MaxFailures = 1
  MaxLosses = 1
INVARIANTS
  NoSecondLaunch
  OffersAccounted
PROPERTIES
  Deploys
  HealthIsRight
