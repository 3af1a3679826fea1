CONSTANTS
  d1 = d1
  d2 = d2
  summary = summary
  performance = performance
  Daemon = {d1}
  Projection <- MCOneProjection
  MaxEvents = 2
  MaxOpen = 2
  BatchSize = 2
  MaxRetries = 2
  MaxPoison = 0
  MaxFaults = 0
  MaxInterrupts = 0
  MaxRebuilds = 0
SPECIFICATION Spec
INVARIANT NothingSkipped
