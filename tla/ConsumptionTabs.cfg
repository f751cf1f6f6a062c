SPECIFICATION FairSpec
CONSTANTS
  s1 = s1
  s2 = s2
  u1 = u1
  Sessions = {s1, s2}
  Users = {u1}
  Owner <- SameUser
  LastMonth = 1
  Values = {v1, v2, bad}
  Valid = {v1, v2}
  MaxEntries = 2
  NoEntry = NoEntry
INVARIANTS OrderedSavesNeverDeadlock
PROPERTIES ImplementsLog EveryRequestAnswered
