\* The deployed engine: one worker per job.  Every outcome, one failing store
\* call, a crash, and leases that may run out under the worker.
SPECIFICATION FairSpec
CONSTANTS
  Workers = {w1}
  Candidates = {"s", "a", "b"}
  NoCandidate = none
  Seeds = {"s"}
  Discoverable = {"b"}
  CsvURLs = {}
  Links <- SiteLinks
  MaxPages = 2
  MaxURLs = 3
  MaxDepth = 1
  MaxCandidatesPerPage = 2
  EngineMaxPages = 3
  EngineMaxURLs = 4
  MaxFaults = 1
  LeaseCoversWork = FALSE
  MayCrash = TRUE
INVARIANTS DrainedWhenCompleted AbandonedOnlyFor
PROPERTIES RunEnds CancelStops
CHECK_DEADLOCK FALSE
