\* GatewayServer.java:213: "Retrieves a list of file currently uploading."
SPECIFICATION FairSpec
CONSTANTS
  u1 = u1
  u2 = u2
  f1 = f1
  f2 = f2
  k1 = k1
  k2 = k2
  d1 = d1
  NumberOfServers = 3
  Files = {f1}
  NoFile = NoFile
  Uploads = {u1}
  NoPart = NoPart
  NameOf <- SameName
  FileLength = 1
  PoolSize = 2
  CopyConns = {k1}
  GatewayOrder <- SameOrder
  Downloads = {}
  MaxRetries = 2
  Cycles = {c1}
  NoCycle = NoCycle
  MaxStops = 1
  MaxCrashes = 0
  MaxFailures = 1
PROPERTIES
  ListedUntilUploaded
