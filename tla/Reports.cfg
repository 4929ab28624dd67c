\* Two candidates, each claimed up to three times; a table of up to five rows.
SPECIFICATION Spec
CONSTANTS
  Items = {i1, i2}
  MaxAttempts = 2
  MaxClaims = 3
  MaxRows = 5
  PageSize = 2
  DefaultPer = 1
  MaxPage = 7
INVARIANTS TypeOK MetricsMissNothing TotalIsReached
PROPERTY ExportComplete
CHECK_DEADLOCK FALSE
