\* Two workers race on a job; leases outlast the work.
SPECIFICATION Spec
CONSTANTS
  Workers = {w1, w2}
  Candidates = {"s", "a"}
  NoCandidate = none
  Seeds = {"s"}
  Discoverable = {"a"}
  CsvURLs = {"a"}
  Links <- PairLinks
  MaxPages = 2
  MaxURLs = 3
  MaxDepth = 1
  MaxCandidatesPerPage = 2
  EngineMaxPages = 3
  EngineMaxURLs = 3
  MaxFaults = 1
  LeaseCoversWork = TRUE
  MayCrash = TRUE
SYMMETRY WorkerSymmetry
INVARIANTS TypeOK BudgetsKept OneHolder RetriesBounded CancelRecorded
PROPERTIES JobStatusFinal NoSpendAfterEnd SettledIsFinal RowsAreAQueue
CHECK_DEADLOCK FALSE
