SPECIFICATION Spec
CONSTANTS
  Users = {u1, u2}
  Values = {v1}
  Default = Default
  Nothing = Nothing
  Habits = {"reload", "wait"}
  MaxTokens = 2
  MaxFlight = 3
INVARIANTS NobodysElse SavedIsTrue
PROPERTIES EndsForCause SavedStaySaved
SYMMETRY UserSymmetry
