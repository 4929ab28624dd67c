\* Two requests and two engines; everything may fail; with fairness.
SPECIFICATION FairSpec
CONSTANTS
  Requests = {r1, r2}
  NoRequest = norequest
  Pids = {p1, p2}
  NoPid = nopid
  PhpMayFail = TRUE
  MayCrash = TRUE
  MayDeactivate = TRUE
INVARIANTS TypeOK EngineIsManaged OwnDatabaseKept
PROPERTY RequestReturns
CHECK_DEADLOCK FALSE
