SPECIFICATION FairSpec
CONSTANTS
  Commands <- MCCommands
  ExecutorFails = {TRUE, FALSE}
  MaxCrashes = 2
CHECK_DEADLOCK FALSE
INVARIANTS
    PluginGetsValues

    
