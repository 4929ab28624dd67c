\* One worker; the engine may crash.
SPECIFICATION FairSpec
CONSTANTS
  Workers = {w1}
  Candidates = {"s", "a"}
  NoCandidate = none
  Seeds = {"s"}
  Discoverable = {}
  CsvURLs = {}
  Links <- PairLinks
  MaxPages = 2
  MaxURLs = 3
  MaxDepth = 1
  MaxCandidatesPerPage = 2
  EngineMaxPages = 3
  EngineMaxURLs = 4
  MaxFaults = 0
  LeaseCoversWork = TRUE
  MayCrash = TRUE
PROPERTY NotStuckProcessing
CHECK_DEADLOCK FALSE
