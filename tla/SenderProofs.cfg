SPECIFICATION FairSpec
CONSTANTS
  r1 = r1
  r2 = r2
  acc1 = acc1
  acc2 = acc2
  gold = gold
  silver = silver
  Requests = {r1, r2}
  Accounts = {acc1, acc2}
  Assets = {gold, silver}
  Inputs <- SomeInputs
  InitialValue = 2
  MaxDeposits = 1
  Faults <- AllFaults
CHECK_DEADLOCK FALSE
INVARIANT TypeOK
INVARIANT RacesHaveAWinner
PROPERTY RefusalMeansRace
PROPERTY NothingAfterTheAnswer
PROPERTY EveryRequestIsAnswered
