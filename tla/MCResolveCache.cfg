SPECIFICATION FairSpec
CONSTANTS
  PathOrder <- MCPathOrder
  Nested <- MCNested
  Resources <- MCResources
  Formas <- MCFormas
  Existing <- MCExisting
  Fields <- MCFields
  Secrets <- MCSecrets
  MaxFaults = 2
  MaxChanges = 2
  SendErrors = {TRUE, FALSE}
CHECK_DEADLOCK FALSE
INVARIANTS
    ResolvedConsistently
    OpaqueIsInherited
PROPERTIES
    EndsWithCommand
