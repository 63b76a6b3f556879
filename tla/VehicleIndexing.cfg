CONSTANTS
  vss = vss
  jos = jos
  None = None
  Vids = {v1, v2}
  Tokens = {t1, t2}
  Servers = {s1, s2, s3}
  VehMax = 2
  ForwardItems = {vss, jos}
  InternalItems = {vss}
  ReportedCnt = {0, 3}
SPECIFICATION Spec
SYMMETRY Symmetry
INVARIANTS
  TreesAgree
  MasterIsNotSlave
  CapacityRespected
  CountMatchesNodes
  SlaveUnlessFull
PROPERTY AssignmentSticks
