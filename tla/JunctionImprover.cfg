CONSTANTS
  Junctions = {j1, j2}
  Here = j1
  Lightless = FALSE
  NoLight = NoLight
  Lights = {l1}
  States = {1, 3}
  FirstState = 1
  Red = 3
  Unknown = Unknown
  Targets = {t1}
  MaxAge = 12
  Steps = {6, 13}
SPECIFICATION FairImproverSpec
INVARIANTS
  CopyIsCurrent
  TrackingInv
  CountsAgree
PROPERTIES
  EntersByCurrentLight
  ChangeIsSeen
CHECK_DEADLOCK FALSE
