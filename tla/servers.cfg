\* The farm: two servers on a pool of two threads, started twice more, stopped at
\* will, on the web page or the console, at a gateway in every state.  The
\* connections: two uploads and a download of one name at a pool of two, with one
\* question of init(), one stop of the server, and the gateway down and up.
SPECIFICATION Spec
CONSTANTS
  NumberOfServers = 2
  HandlerThreads = 2
  MaxStarts = 2
  c1 = c1
  c2 = c2
  c3 = c3
  c4 = c4
  f1 = f1
  NoList = NoList
  NoConn = NoConn
  InitConns = {c4}
  Conns = {c1, c2, c3, c4}
  KindOf <- TwoUploads
  NameOf <- OneName
  PoolSize = 2
  MaxRestarts = 1
INVARIANTS
  FarmInv
  ConnInv
PROPERTIES
  KeepsItsRun
  InitAsksItsCaller
  InitEnds
  StartTaken
  CloseEnds
  ImplementsRequests
  AcceptedIsAnswered
CHECK_DEADLOCK FALSE
