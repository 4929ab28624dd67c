\* Two jobs with a budget of two pages each and one browser between them.
SPECIFICATION Spec
CONSTANTS
  Jobs = {j1, j2}
  MaxPages <- Pages
  Slots = 1
  TTL = 1
  MaxTurns = 2
INVARIANTS TypeOK PagesBounded PagesPaid SlotsKept CrawledIsProbed
PROPERTY WaitsEnd
CHECK_DEADLOCK FALSE
