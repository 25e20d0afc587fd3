SPECIFICATION FairSpec
CONSTANTS
  r1 = r1
  r2 = r2
  Requests = {r1}
  Modes <- AllModes
  SdkCodes = {"NoDataChange", "ValidationError", "EntityInUse", "NotInSigningManager",
              "InsufficientBalance", "UnmetPrerequisite", "LimitExceeded",
              "DataUnavailable", "NotAuthorized", "FatalError"}
  Faults <- ProcessCalls
CHECK_DEADLOCK FALSE
INVARIANT TypeOK
INVARIANT SubmittedAtMostOnce
INVARIANT ResultMeansFinalized
INVARIANT ErrorClassSurvives
 
