SPECIFICATION FairSpec
CONSTANTS
  gold = gold
  silver = silver
  Assets = {gold, silver}
  Values = {1, 2}
  MaxEntries = 2
  MaxSafe = 8
  Outcomes <- AllOutcomes
CHECK_DEADLOCK FALSE
INVARIANT TypeOK
INVARIANT DecryptedBelongsToItsAsset
PROPERTY AppliedIsAnswered
