SPECIFICATION Spec
CONSTANTS
  None = None
  p1 = p1
  p2 = p2
  p3 = p3
  Logins <- AllLogins
  Flows = {f1, f2}
  Handlers = {h1, h2}
  People = {p1, p2}
  Allowed = {p1}
  MaxCodeAttempts = 2
  MaxAccounts = 1
SYMMETRY Symmetry
INVARIANTS
  LoginInv
  GuessesBounded
  LinkedWasVerified
  NoLeakedClient
