\* Two requests; nothing fails, but an engine may start slowly.
SPECIFICATION Spec
CONSTANTS
  Requests = {r1, r2}
  NoRequest = norequest
  Pids = {p1, p2}
  NoPid = nopid
  PhpMayFail = FALSE
  MayCrash = FALSE
  MayDeactivate = FALSE
INVARIANT DatabaseServes
CHECK_DEADLOCK FALSE
