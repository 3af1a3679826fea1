CONSTANTS
  k1 = k1
  k2 = k2
  k3 = k3
  a = a
  b = b
  Payload = {a, b}
  Check = {k1, k2, k3}
  Examined = {k3}
  MaxEvents = 3
  MaxChanges = 1
SPECIFICATION PackageSpec
SYMMETRY Symmetry
INVARIANTS
  PackageTypeOK
  RecordsArePrefixes
  PackageVerifiable
PROPERTY ForksNeedOverlap
