SPECIFICATION FairSpec
CONSTANTS
  Kinds <- AllKinds
  MaxRetries = 1
  MaxMail = 2
  Resolvables = 1
  CallErrors = {TRUE, FALSE}
  MaxCrashes = 2
CHECK_DEADLOCK FALSE
INVARIANTS
    ReportIsTrue
    NeverPart
PROPERTIES
    AttemptsSurviveCrashes
    UpdateConcludes
    ServesExecutor
