\* Two workers; a candidate may take its worker longer than the lease.
SPECIFICATION Spec
CONSTANTS
  Workers = {w1, w2}
  Candidates = {"s", "a"}
  NoCandidate = none
  Seeds = {"s"}
  Discoverable = {"a"}
  CsvURLs = {"a"}
  Links <- PairLinks
  MaxPages = 2
  MaxURLs = 3
  MaxDepth = 1
  MaxCandidatesPerPage = 2
  EngineMaxPages = 3
  EngineMaxURLs = 4
  MaxFaults = 0
  LeaseCoversWork = FALSE
  MayCrash = FALSE
PROPERTY CompletedIsFinal
CHECK_DEADLOCK FALSE
