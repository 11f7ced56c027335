SPECIFICATION FairSpec
CONSTANTS
  CommandIDs <- Commands
  Enabled = TRUE
  MaxForces = 3
  MaxFailures = 2
CHECK_DEADLOCK FALSE
INVARIANTS
    NoStraySync
PROPERTIES
    RunsOnSchedule
