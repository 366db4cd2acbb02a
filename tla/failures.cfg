\* A server is stopped and the gateway goes down, one of the two while a file is
\* uploaded and replicated, or both, in any order, from the end of two uploads to
\* one server on; either comes back at any moment, or not.
SPECIFICATION FairFromEither
CONSTANTS
  u1 = u1
  u2 = u2
  f1 = f1
  f2 = f2
  k1 = k1
  k2 = k2
  d1 = d1
  NumberOfServers = 3
  Files = {f1}
  NoFile = NoFile
  Uploads = {u1, u2}
  NoPart = NoPart
  NameOf <- SameName
  FileLength = 1
  PoolSize = 2
  CopyConns = {k1}
  GatewayOrder <- OtherOrder
  Downloads = {}
  MaxRetries = 2
  Cycles = {c1}
  NoCycle = NoCycle
  MaxStops = 1
  MaxCrashes = 1
  MaxFailures = 2
INVARIANTS
  ReadyIsServed
PROPERTIES
  ConnectionsEnd
  PipelinesEnd
  ReplicatedDespiteFailures
\* The service may wait for ever.
CHECK_DEADLOCK FALSE
