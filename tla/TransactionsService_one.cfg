SPECIFICATION FairSpec
CONSTANTS
  r1 = r1
  r2 = r2
  Requests = {r1}
  Outcomes = {"Aborted", "Failed", "Rejected", "Succeeded"}
  Faults <- AllFaults
CHECK_DEADLOCK FALSE
INVARIANT TypeOK
PROPERTY EveryRequestIsAnswered
PROPERTY EndedTransactionsAreDropped
PROPERTY ActiveSubscriptionIsClosed
PROPERTY ImplementsFeed
