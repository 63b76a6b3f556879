CONSTANTS
  j1 = j1
  j2 = j2
  d1 = d1
  d2 = d2
  Nowhere = Nowhere
  Null = Null
  Junctions = {j1}
  Devices = {d1, d2}
  Vehicles = {v1, v2, v3}
  DevicesOf <- TwoRadars
  MaxTime = 2
  MaxPackage = 2
  MaxFlight = 2
  Cacher = 2
  MaxRef = 0
SPECIFICATION Spec
INVARIANT ReachesVehiclesAtJunction
