CONSTANTS
  idx = idx
  bad = bad
  update = update
  register = register
  stray = stray
  Clients = {c1}
  Endpoints = {e1, e2, e3}
  Services = {idx, bad}
  Configured = {idx}
  Urls = {update, register, stray}
  MaxCnt <- OneServiceMax
  RuleCfg <- OneServiceRules
SPECIFICATION FairSpec
INVARIANTS
  IInv
  BoundedBypass
PROPERTIES
  RefinesDispatcher
  EveryEndpointServed
