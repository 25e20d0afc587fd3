SPECIFICATION Spec
CONSTANTS
  r1 = r1
  r2 = r2
  Requests = {r1}
  Modes = {"submit"}
  SdkCodes = {"DataUnavailable"}
  Faults <- FeesFault
CHECK_DEADLOCK FALSE
INVARIANT FinalizedIsReported
