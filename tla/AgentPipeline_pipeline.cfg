CONSTANTS
  p1 = p1
  p2 = p2
  p3 = p3
  p4 = p4
  p5 = p5
  x = x
  Nobody = Nobody
  Run = {p1, p2, p3, p4, p5, x}
  Setups <- MCSetups
  MaxAttempts = 2
SPECIFICATION Spec
INVARIANTS
  TypeOK
  RequestsFollowResults
  OutputsRecorded
  ContextSound
  ApprovalsJustified
