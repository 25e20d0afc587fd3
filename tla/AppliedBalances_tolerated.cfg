SPECIFICATION Spec
CONSTANTS
  gold = gold
  silver = silver
  Assets = {gold}
  Values = {1}
  MaxEntries = 1
  MaxSafe = 8
  Outcomes <- AllOutcomes
CHECK_DEADLOCK FALSE
INVARIANT ProofServerErrorsAreTolerated
