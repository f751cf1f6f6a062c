SPECIFICATION Spec
CONSTANTS
  Slots = {p1, p2}
  Names = {ana, ben}
  Emails = {e1, e2}
  Passwords = {w1, w2}
  MaxTokens = 1
  MaxClock = 2
  TTL = 1
  DbLead = 0
  None = None
SYMMETRY Symmetry
PROPERTIES NoLiveReuse TokensAreEarned PasswordChangeProven
