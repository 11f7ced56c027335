SPECIFICATION Spec
CONSTANTS
    Refs <- MCRefs
    Incomplete = {}
    Formas <- MCFormas
    Discovered <- MCDiscovered
    MaxCommands = 3
    MaxSyncs = 1
CHECK_DEADLOCK FALSE
INVARIANTS
    FeedsTheChangeset
    CommandsDoWhatTheySay
