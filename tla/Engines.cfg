SPECIFICATION FairSpec
CONSTANTS
  c1 = c1
  c2 = c2
  e1 = e1
  None = None
  Engines = {c1, c2, e1}
  Centers = {c1, c2}
  Clusters = {"default", "edge"}
  ClusterOf <- MCClusterOf
  Datasources = {1, 2}
  HostDatasource = 99
  NoDatasource = 0
  Rules = {1, 2}
  Pairs <- MCPairs
  Rank <- MCRank
  Window = 2
  Obsolete = 2
  EngineDelay = 1
  MaxTroubles = 1
INVARIANTS TypeOK OwnedOnce StrangersKeepOne
CONSTANT MaxRunning = 2
PROPERTIES Steady EventuallyOwned
