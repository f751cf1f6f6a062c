SPECIFICATION Spec
CONSTANTS
  Users = {u1, u2}
  Values = {v1}
  Default = Default
  Nothing = Nothing
  Habits = {"wait"}
  MaxTokens = 2
  MaxFlight = 3
INVARIANTS LastSimulationIsOwn
SYMMETRY UserSymmetry
