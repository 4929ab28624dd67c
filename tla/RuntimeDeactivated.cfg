\* Two requests and a deactivation; nothing fails.
SPECIFICATION Spec
CONSTANTS
  Requests = {r1, r2}
  NoRequest = norequest
  Pids = {p1, p2}
  NoPid = nopid
  PhpMayFail = FALSE
  MayCrash = FALSE
  MayDeactivate = TRUE
INVARIANT DeactivationStops
CHECK_DEADLOCK FALSE
