CONSTANTS
  Clients = {c1, c2}
  Endpoints = {e1, e2}
  Tokens = {t1, t2}
  Index = index
  Register = register
  Update = update
  None = None
  MaxFlight = 1
  MaxCrash = 2
SPECIFICATION Spec
INVARIANTS
  IInv
  NeverMisattributed
SYMMETRY Symmetry
CHECK_DEADLOCK FALSE
