SPECIFICATION Spec
CONSTANTS
  r1 = r1
  r2 = r2
  Requests = {r1, r2}
  Outcomes = {"Succeeded"}
  Faults <- LeakingFaults
SYMMETRY RequestSymmetry
CHECK_DEADLOCK FALSE
INVARIANT TerminalHandlerFindsEntry
INVARIANT InFlightIsWatched
INVARIANT NotificationsAreOwn
INVARIANT NoncesAreContiguous
INVARIANT NoNotificationBeforeReply
INVARIANT DoneOnlyAfterTerminalEvent
