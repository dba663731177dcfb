\* The only agent is on a host whose name has a dash.
SPECIFICATION FairClusterSpec
CONSTANTS
  Hosts <- DashHosts
  Slaves <- MCSlaves
  Core = {"registry"}
  Singletons = {}
  Launchable = {}
  Versions = {"v1"}
  RestrictHosts = {}
  NameWithin = {}
  Suffix <- DashSuffix
  PublicRole = FALSE
  Need <- MCNeed
  Ports <- MCPorts
  Rank <- MCRank
  Inputs <- MCNone
  MaxMailbox = 3
  MaxDriver = 0
  MaxRestarts = 0
  SlaveOf <- DashSlaveOf
  NewSlaveOf <- MCStays
  FirstMounts <- MCMounts
  LaterMounts = {}
  Mounted = {}
  Capacity = 3
  SlowTimers = TRUE
  Posts = {"v1"}
  Endings = {"LOST"}
  MaxFailures = 0
  MaxLosses = 0
PROPERTIES
  Deploys
