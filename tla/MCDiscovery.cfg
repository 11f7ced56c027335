SPECIFICATION FairSpec
CONSTANTS
  Namespaces <- Aws
  Capacity <- OneEach
  Targets <- TwoRegions
  Descriptors <- VpcTypes
  TypesToDiscover <- Nothing
  Cloud <- Global
  Known <- Nothing
  Filtered <- Default
  CommandIDs <- Commands
  MaxForces = 1
  MaxFailures = 1
  Repeats = 1
CHECK_DEADLOCK FALSE
INVARIANTS
    WorkIsAccountedFor
    SynchronizedOnce
PROPERTIES
    EventuallyDiscovered
    DiscoveryEnds
