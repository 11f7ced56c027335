SPECIFICATION FairSpec
CONSTANTS
  Settings <- MCSettings
  Stacks <- AB
  KnownStacks <- A
CHECK_DEADLOCK FALSE

    
    
PROPERTIES
    NeverOverwrites
    
