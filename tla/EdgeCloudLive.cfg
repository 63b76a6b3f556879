CONSTANTS
  Clients = {c1}
  Endpoints = {e1, e2}
  Tokens = {t1, t2, t3}
  Index = index
  Register = register
  Update = update
  None = None
  MaxFlight = 1
  MaxCrash = 1
SPECIFICATION FairSpec
PROPERTIES
  IdentifiedAgain
  PushesResume
CHECK_DEADLOCK FALSE
