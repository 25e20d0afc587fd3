SPECIFICATION FairSpec
CONSTANTS
  c1 = c1
  c2 = c2
  c3 = c3
  Calls = {c1, c2, c3}
  Method <- MethodOf
  MaxForks = 2
  Lossy = TRUE
CHECK_DEADLOCK FALSE
INVARIANT TypeOK
INVARIANT FirstBlockDecides
PROPERTY OthersAreSettled
