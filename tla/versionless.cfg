SPECIFICATION Spec
CONSTANTS
  Hosts <- OneHost
  Slaves <- OneSlave
  Core = {"registry", "data"}
  Singletons = {"api"}
  Launchable = {"api"}
  Versions = {"v1"}
  RestrictHosts = {}
  NameWithin = {}
  Suffix <- OneNoDash
  PublicRole = FALSE
  Need <- MCNeed
  Ports <- OnePorts
  Rank <- MCRank
  Inputs <- OneInputs
  MaxMailbox = 1
  MaxDriver = 0
  MaxRestarts = 0
INVARIANTS
  NoVersionlessLaunch
