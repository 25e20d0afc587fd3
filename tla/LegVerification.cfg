SPECIFICATION FairSpec
CONSTANTS
  a1 = a1
  a2 = a2
  Endpoints = {"affirm", "verify"}
  LegCount = 2
  Assets = {a1, a2}
  Amounts = {1, 2}
  MaxExpected <- ExpectedByAffirmation
  MaxSafe = 8
  Faults = {"decrypt", "submit"}
CHECK_DEADLOCK FALSE
INVARIANT TypeOK
INVARIANT AffirmedAmountsAreExpected
INVARIANT CorrectAmountsAreAccepted
INVARIANT ReportIsComplete
INVARIANT ReportIsTrue
PROPERTY RequestIsAnswered
