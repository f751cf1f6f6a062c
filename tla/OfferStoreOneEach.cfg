SPECIFICATION Spec
CONSTANTS
  s1 = s1
  s2 = s2
  u1 = u1
  u2 = u2
  Sessions = {s1, s2}
  Users = {u1, u2}
  Owner <- OneEach
  Values = {v1}
  MaxId = 2
  NoRow = NoRow
INVARIANTS AtMostOneCurrent NoPrivateLeak NotFoundWroteNothing
PROPERTIES Isolation ImplementsBook
