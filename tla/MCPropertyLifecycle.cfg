SPECIFICATION Spec
CONSTANTS
  PathOrder <- MCPathOrder
  Nested = {}
  Formas <- MCFormas
  Fields <- MCFields
  CreateOnly <- MCCreateOnly
  Sources <- MCSources
  MaxApplies = 3
  MaxChanges = 2
CHECK_DEADLOCK FALSE
INVARIANTS
    ApplyIsFaithful
