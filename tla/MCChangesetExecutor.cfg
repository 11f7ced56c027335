SPECIFICATION FairSpec
CONSTANTS
  Changesets <- MCChangesets
  Namespaces <- MCNamespaces
  Capacity <- MCCapacity
  Reports <- FinalStates
  Environments <- MCEnvironments
CHECK_DEADLOCK FALSE
INVARIANTS
    StartsInOrder
    FailuresCascade
    MessageFindsItsUpdate
    NeverStuck
    RowsTellTheTruth
    CyclesAreRefused
PROPERTIES
    ExecutedOnce
    ImplementsOrder
    CommandCompletes
