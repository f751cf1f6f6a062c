SPECIFICATION Spec
CONSTANTS
  None = None
  MaxId = 3
  MaxWrites = 2
  MaxFlight = 2
  Edited = {"name", "provider", "mid", "current"}
  Typed <- MCTyped
  Shared <- MCShared
  InitialOffers <- MCInitial
  Solar = FALSE
INVARIANTS TypeOK ListCoherent PodiumTrue
PROPERTIES UntouchedStay FormKept RefusedForCause
CHECK_DEADLOCK FALSE
