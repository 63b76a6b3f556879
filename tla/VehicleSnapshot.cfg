CONSTANTS
  l1 = l1
  l2 = l2
  l3 = l3
  p1 = p1
  p2 = p2
  q2 = q2
  p3 = p3
  off = off
  v1 = v1
  v2 = v2
  i1 = i1
  i2 = i2
  a1 = a1
  a2 = a2
  NoLink = NoLink
  NoAddress = NoAddress
  Vehicles = {v1, v2}
  Places = {p1, p2, q2, p3, off}
  Links = {l1, l2, l3}
  LinkAt <- ThreeLinksAt
  NextLink <- ThreeLinksNext
  PrevLink <- ThreeLinksPrev
  Far <- ThreeLinksFar
  Identities = {i1, i2}
  Addresses = {a1, a2}
  Messages <- TwoVehicles
  History = 3
  Window = 4
  Word = 32
  MaxTime = 7
  MaxRef = 1
SPECIFICATION SnapshotSpec
INVARIANTS
  RingInv
  PushesReachVehicle
PROPERTY AroundExact
CHECK_DEADLOCK FALSE
