CONSTANTS
  r1 = r1
  r2 = r2
  r3 = r3
  d1 = d1
  d2 = d2
  Free = Free
  Publisher = {d1, d2}
  Row = {r1, r2, r3}
  Configs <- MCConfigs
  BatchSize = 2
  MaxAttempts = 2
  MaxRefusals = 2
  MaxInterrupts = 1
  MaxStarts = 1
SPECIFICATION FairSpec
INVARIANTS
  TypeOK
  PublishedWasReceived
  RepeatsAccounted
  GivenUpMeansRefused
PROPERTIES
  SettledIsFinal
  EveryRowSettled
