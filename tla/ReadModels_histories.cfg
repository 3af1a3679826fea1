CONSTANTS
  x = x
  y = y
  App = {x, y}
  Histories <- MCHistories
  Score = {1, 3}
  MaxWrites = 2
  MaxFaults = 1
SPECIFICATION ReadSpec
CHECK_DEADLOCK FALSE
INVARIANTS
  SummaryFollowsAggregate
  MetricsMatchHistory
  WhatIfKeepsTheRest
