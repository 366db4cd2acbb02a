\* GatewayServer.java:160: "Uploads the selected file to 2/3 of servers."
SPECIFICATION Spec
CONSTANTS
  u1 = u1
  u2 = u2
  f1 = f1
  f2 = f2
  k1 = k1
  k2 = k2
  d1 = d1
  NumberOfServers = 3
  Files = {f1, f2}
  NoFile = NoFile
  Uploads = {u1, u2}
  NoPart = NoPart
  NameOf <- OwnName
  FileLength = 1
  PoolSize = 2
  CopyConns = {k1}
  GatewayOrder <- SameOrder
  Downloads = {}
  MaxRetries = 2
  Cycles = {c1}
  NoCycle = NoCycle
  MaxStops = 0
  MaxCrashes = 0
  MaxFailures = 0
INVARIANTS
  StoredUnderItsName
