SPECIFICATION Spec
CONSTANTS
  None = None
  Window = 2
  FirstDay = 2
  LastMonth = 3
  Files <- MCFiles
  Saved <- MCSaved
  Edited = {"peak", "iva"}
  Typed <- MCTyped
  MaxDone = 2
  Solar = FALSE
INVARIANTS TypeOK HistoryFits BadgeTrue BreakdownCurrent
PROPERTIES ImportFaithful OverwriteMarked
CHECK_DEADLOCK FALSE
