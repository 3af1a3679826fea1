CONSTANTS
  Scenarios <- MCScenarios
  Touched <- MCTouched
  MaxRuns = 2
  MaxStarts = 2
  MaxAppends = 1
SPECIFICATION Spec
INVARIANTS
  RowsCountEvents
  SeededClaimsHold
