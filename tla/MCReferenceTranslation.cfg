SPECIFICATION Spec
CONSTANTS
  Formas <- TwoStacks
  ArrayPaths <- Arrays
  MaxCommands = 3
  MaxDeletions = 2
CHECK_DEADLOCK FALSE
INVARIANTS
    ReferencesHold
    ExtractComesBack
