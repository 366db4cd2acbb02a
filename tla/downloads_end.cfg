\* A file is downloaded while it is uploaded, and servers are stopped and
\* started at any moment; the replication service is not running, so that all
\* may come to rest.
SPECIFICATION FairSpec
CONSTANTS
  u1 = u1
  u2 = u2
  f1 = f1
  f2 = f2
  k1 = k1
  k2 = k2
  d1 = d1
  NumberOfServers = 3
  Files = {f1}
  NoFile = NoFile
  Uploads = {u1}
  NoPart = NoPart
  NameOf <- SameName
  FileLength = 1
  PoolSize = 2
  CopyConns = {k1}
  GatewayOrder <- SameOrder
  Downloads = {d1}
  MaxRetries = 2
  Cycles = {}
  NoCycle = NoCycle
  MaxStops = 2
  MaxCrashes = 0
  MaxFailures = 2
PROPERTIES
  DownloadsEnd
  DownloadServed
CHECK_DEADLOCK FALSE
