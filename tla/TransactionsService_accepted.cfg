SPECIFICATION Spec
CONSTANTS
  r1 = r1
  r2 = r2
  Requests = {r1}
  Outcomes = {"Succeeded"}
  Faults <- NoFaults
CHECK_DEADLOCK FALSE
INVARIANT AcceptedMeansSubmitted
