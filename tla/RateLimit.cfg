\* Two callers; a transaction may take up to two fifths of an interval.
SPECIFICATION FairSpec
CONSTANTS
  Callers = {c1, c2}
  Nobody = nobody
  Interval = 5
  MaxDelay = 2
  MaxTime = 18
INVARIANTS TypeOK SleepsNoLonger
PROPERTIES Spaced RowIsReleased
CHECK_DEADLOCK FALSE
