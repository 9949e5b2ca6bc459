SPECIFICATION Spec
CONSTANTS
  pa = pa  pb = pb  h1 = h1  h2 = h2  g1 = g1
  NoProc = NoProc
  Idle = Idle
  Procs = {pa, pb}
  HttpClients = {h1}
  GrpcClients = {g1}
  Names = {1, 2}
  Seeds = {1, 2}
  Reapplied = {2}
  Plans <- TwoPlans
  MaxUploads = 1
  MaxFaults = 1
INVARIANTS
  TypeOK
  OneStore
  ObjectsAreWhole
PROPERTY
  StartsAndStops
