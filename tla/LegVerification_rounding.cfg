SPECIFICATION Spec
CONSTANTS
  a1 = a1
  a2 = a2
  Endpoints = {"affirm"}
  LegCount = 1
  Assets = {a1, a2}
  Amounts = {8, 9}
  MaxExpected <- ExpectedByAffirmation
  MaxSafe = 8
  Faults = {}
CHECK_DEADLOCK FALSE
INVARIANT AffirmedAmountsAreExpected
