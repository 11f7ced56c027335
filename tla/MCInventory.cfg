SPECIFICATION FairSpec
CONSTANTS
  Natives <- TwoNatives
  Name <- OwnName
  Formas <- OneForma
  Invalid <- Changed
  Locale <- Swapped
  Starts <- MCStarts
  MaxURIs = 5
  MaxChanges = 2
  MaxCrashes = 1
CHECK_DEADLOCK FALSE
INVARIANTS
    BackendsAgree
    RowsAreSound
PROPERTIES
    NothingIsLost
    Convergence
