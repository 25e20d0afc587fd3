SPECIFICATION FairSpec
CONSTANTS
  r1 = r1
  r2 = r2
  k1 = k1
  k2 = k2
  k3 = k3
  alice = alice
  bob = bob
  Accounts = {k1, k2, k3}
  Identities = {alice, bob}
  Legs = {0}
  MaxSupply = 1
  Requests = {r1, r2}
  Inputs <- AllInputs
  InitialBook <- Start
  Faults <- AllFaults
CHECK_DEADLOCK FALSE
INVARIANT TypeOK
INVARIANT ConflictsHaveOneWinner
INVARIANT VenueEditsSurvive
PROPERTY ImplementsAtomicRequests
PROPERTY FrozenMeansNoTrading
 
PROPERTY EveryRequestIsAnswered
