SPECIFICATION Spec
CONSTANTS
  Hosts <- TwoHosts
  Slaves <- TwoSlaves
  Core = {"registry"}
  Singletons = {"api"}
  Launchable = {"api"}
  Versions = {"v1"}
  RestrictHosts <- TwoRestrict
  NameWithin <- TwoWithin
  Suffix <- TwoSuffix
  PublicRole = FALSE
  Need <- MCNeed
  Ports <- TwoPorts
  Rank <- MCRank
  Inputs <- TwoInputs
  MaxMailbox = 1
  MaxDriver = 0
  MaxRestarts = 1
PROPERTIES
  OwnUpdateReleases
  OffersAnsweredOnce
  LeaseSpec
