CONSTANTS
  Keys = {k1}
  Hosts = {h1, h2}
  SiteOf <- OneSite
  Orgs = {o1, o2}
  Slots = {s1, s2}
  MaxRequests = 3
  MaxFaults = 1
SPECIFICATION Spec
INVARIANTS
  SubscriptionsHaveAnInstallation
  IsConfiguredTellsTheTruth
  NothingIsLeftAtJira
  PermittedMeansSetUp
SYMMETRY Symmetry
CHECK_DEADLOCK FALSE
