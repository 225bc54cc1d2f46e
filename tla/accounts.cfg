SPECIFICATION Spec
CONSTANTS
  Users = {u1, u2}
  Sessions = {s1, s2}
  Requests = {q1, q2}
  Modes = {"open", "accounts_required"}
  DefaultMode = "open"
  BuiltInMode = "open"
  Disturbances = 2
  None = None
SYMMETRY Symmetry
INVARIANTS
  AccountsTypeOK
  KeepsAnAdmin
  ChoiceInForce
PROPERTIES
  InstalledOnce
