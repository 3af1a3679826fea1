CONSTANTS
  c1 = c1
  c2 = c2
  c3 = c3
  c4 = c4
  c5 = c5
  s1 = s1
  s2 = s2
  m1 = m1
  m2 = m2
  rule1 = rule1
  rule2 = rule2
  Outside = Outside
  Session = {s1, s2}
  Model = {m1, m2}
  Rule = {rule1, rule2}
  Command = {c1, c2, c3, c4}
  Requests <- MCRequests
  MaxRetries = 2
  MaxOutside = 2
SPECIFICATION Spec
INVARIANTS
  TypeOK
  ConflictsNeedRivals
  DecisionsJustified
PROPERTIES
  ImplementsLoanMachine
