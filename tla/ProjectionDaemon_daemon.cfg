CONSTANTS
  d1 = d1
  d2 = d2
  summary = summary
  performance = performance
  Daemon = {d1}
  Projection <- MCProjection
  MaxEvents = 3
  MaxOpen = 1
  BatchSize = 2
  MaxRetries = 2
  MaxPoison = 1
  MaxFaults = 2
  MaxInterrupts = 1
  MaxRebuilds = 1
SPECIFICATION FairSpec
INVARIANTS
  TypeOK
  NothingSkipped
  AppliedInOrder
  DuplicatesNeedInterrupts
PROPERTIES
  EveryEventHandled
