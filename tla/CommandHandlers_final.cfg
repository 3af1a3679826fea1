CONSTANTS
  c1 = c1
  c2 = c2
  c3 = c3
  c4 = c4
  c5 = c5
  s1 = s1
  s2 = s2
  m1 = m1
  m2 = m2
  rule1 = rule1
  rule2 = rule2
  Outside = Outside
  Session = {s1, s2}
  Model = {m1, m2}
  Rule = {rule1, rule2}
  Command = {c1, c2, c3, c4, c5}
  Requests <- FraudAfterReview
  MaxRetries = 1
  MaxOutside = 1
SPECIFICATION Spec
PROPERTY FinalIsFinal
