CONSTANTS
  aml = aml
  RuleId = {aml}
  Trigger = 2
  MaxRetries = 2
  MaxEvents = 4
  MaxRaises = 2
  MaxRestarts = 1
  MaxRebuilds = 1
SPECIFICATION Spec
CHECK_DEADLOCK FALSE
INVARIANTS
  TypeOK
  TemporalQueryFaithful
  DeltaBounded
CONSTRAINT TwoFaults
