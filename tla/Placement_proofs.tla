---------------------------- MODULE Placement_proofs ----------------------------
(***************************************************************************)
(* SyncSystem implements Placement: every step of the system is a step of  *)
(* Placement, or leaves what Placement sees alone.                         *)
(***************************************************************************)
EXTENDS SyncSystem_proofs

\* The operators of Protocol that Placement sees are the system's.
LEMMA SameProtocol ==
  /\ Placed!Servers = Servers
  /\ Placed!Chunk = Chunk
  /\ \A data, p : Placed!At(data, p) = At(data, p)
  /\ \A old, new : Placed!Overwrite(old, new) = Overwrite(old, new)
BY DEF Placed!Servers, Servers, Placed!Chunk, Chunk, Placed!At, At,
       Placed!Overwrite, Overwrite

LEMMA PlacedInit == Init => Placed!Init
<1> SUFFICES ASSUME Init PROVE Placed!Init
  OBVIOUS
<1>1. ASSUME NEW u \in Uploads PROVE RequestOf(u) = Placed!NoRequest
  BY <1>1 DEF Init, GatewayInit, IdleUpload, RequestOf, Placed!NoRequest,
              Placed!NoServer
<1>2. [u \in Uploads |-> RequestOf(u)] = [u \in Uploads |-> Placed!NoRequest]
  BY <1>1
<1> QED BY <1>2, SameProtocol DEF Init, ServerInit, Placed!Init

\* What a request has done does not change unless its thread takes its name or
\* reaches a server.
LEMMA RequestStays ==
  ASSUME TypeInv, Settled, NEW u \in Uploads,
         upload'[u].name = upload[u].name,
         upload'[u].src = upload[u].src
  PROVE  RequestOf(u)' = RequestOf(u)
BY DEF RequestOf, Settled, Tried

\* A file's senders, as Placement sees them.
LEMMA SendersAre ==
  ASSUME TypeInv, NEW f
  PROVE  Placed!Senders(f)
           = {u \in Uploads : upload[u].name = f /\ upload[u].src # NoPart}
<1>1. ASSUME NEW u \in Uploads
      PROVE  RequestOf(u).srv # 0 <=> upload[u].src # NoPart
  BY TriedType DEF TypeInv, SystemTypeOK, RequestOf, Servers
<1> QED BY <1>1 DEF Placed!Senders, Placed!NoServer, RequestOf

LEMMA StartIsName ==
  ASSUME TypeInv, NEW u \in Uploads, StartUpload(u)
  PROVE  Placed!Name(u, NameOf[part]) /\ NameOf[part] \in Files
<1>T. /\ upload \in [Uploads -> Upload] /\ UploadOK(u)
      /\ upload[u].name = NoFile /\ upload[u].src = NoPart
      /\ part \in Uploads
  BY DEF StartUpload, TypeInv, SystemTypeOK, GatewayTypeOK, UploadOK, InFlight
<1>1. RequestOf(u) = Placed!NoRequest
  BY <1>T DEF RequestOf, Placed!NoRequest, Placed!NoServer
<1>2. RequestOf(u)' = [RequestOf(u) EXCEPT !.name = NameOf[part]]
  BY <1>T DEF StartUpload, RequestOf, Upload
<1>3. \A v \in Uploads \ {u} : RequestOf(v)' = RequestOf(v)
  BY <1>T DEF StartUpload, RequestOf, Tried
<1>4. [v \in Uploads |-> RequestOf(v)']
        = [[v \in Uploads |-> RequestOf(v)] EXCEPT ![u].name = NameOf[part]]
  BY <1>2, <1>3
<1> QED BY <1>T, <1>1, <1>4, ProtocolAssumption
        DEF Placed!Name, StartUpload, serverVars

LEMMA ConnectIsSend ==
  ASSUME TypeInv, NEW u \in Uploads, Connect(u), ~Refuses(Tried(u))
  PROVE  Placed!Send(u, Tried(u), part) /\ part \in Uploads
<1>T. /\ upload \in [Uploads -> Upload] /\ UploadOK(u)
      /\ upload[u].name \in Files /\ upload[u].src = NoPart
      /\ part \in Uploads
  BY DEF Connect, TypeInv, SystemTypeOK, GatewayTypeOK, UploadOK, InFlight
<1>1. upload' = [upload EXCEPT ![u].pc = "connected", ![u].src = part]
  BY DEF Connect
<1>2. /\ upload'[u].name = upload[u].name /\ upload'[u].at = upload[u].at
      /\ upload'[u].src = part /\ part # NoPart
  BY <1>T, <1>1, ProtocolAssumption DEF Upload
<1>3. RequestOf(u)' = [name |-> RequestOf(u).name, srv |-> Tried(u),
                       part |-> part]
  <2>1. Tried(u)' = Tried(u)
    BY <1>2 DEF Tried
  <2> QED BY <1>2, <2>1 DEF RequestOf
<1>4. \A v \in Uploads \ {u} : RequestOf(v)' = RequestOf(v)
  BY <1>T, <1>1 DEF RequestOf, Tried
<1>5. [v \in Uploads |-> RequestOf(v)']
        = [[v \in Uploads |-> RequestOf(v)]
             EXCEPT ![u] = [name |-> @.name, srv |-> Tried(u), part |-> part]]
  BY <1>3, <1>4
<1>6. RequestOf(u).name # NoFile /\ RequestOf(u).srv = 0
  BY <1>T, ProtocolAssumption DEF RequestOf
<1> QED BY <1>T, <1>5, <1>6 DEF Placed!Send, Placed!NoServer, Connect

\* Every other step leaves all requests what they are.
LEMMA RequestsStay ==
  ASSUME TypeInv, [Next]_vars,
         \A u \in Uploads : /\ upload'[u].name = upload[u].name
                           /\ upload'[u].src = upload[u].src
  PROVE  [u \in Uploads |-> RequestOf(u)'] = [u \in Uploads |-> RequestOf(u)]
BY RequestStays, StepsSettle

LEMMA OpenIsArrive ==
  ASSUME TypeInv, OriginInv, [Next]_vars, NEW k \in ConnIds, OpenFile(k),
         upload' = upload
  PROVE  Placed!Arrive(conn[k].srv, conn[k].file)
<1> DEFINE s == conn[k].srv
           f == conn[k].file
<1>T. /\ conn[k] \in Conn /\ conn[k].pc = "accepted"
      /\ s \in Servers /\ f \in Files
  BY DEF TypeInv, SystemTypeOK, ServerTypeOK, OpenFile, Conn
<1>1. (\E u \in Placed!Senders(f) : RequestOf(u).srv = s) \/ Holders(f) # {}
  <2>1. CASE k \in Uploads
    <3>1. upload[k].src # NoPart /\ upload[k].name = f /\ Tried(k) = s
      BY <2>1, <1>T DEF TypeInv, UploadOK
    <3>2. k \in Placed!Senders(f) /\ RequestOf(k).srv = s
      BY <2>1, <3>1, SendersAre DEF RequestOf
    <3> QED BY <3>2
  <2>2. CASE k \in CopyConns
    BY <2>2, <1>T DEF OriginInv, CopiedIsStored
  <2> QED BY <2>1, <2>2 DEF ConnIds
<1>2. ASSUME f \in dir[s], NEW u \in Uploads, Placed!SoleSender(u, s, f)
      PROVE  FALSE
  <2>1. /\ upload[u].name = f /\ upload[u].src # NoPart /\ Tried(u) = s
        /\ \A v \in Uploads \ {u} : upload[v].name # f
    BY <1>2, SendersAre DEF Placed!SoleSender, RequestOf
  <2>2. OriginFirst(u)
    BY <2>1 DEF OriginInv, OnlyUpload
  <2>3. k # u
    BY <1>2, <1>T, <2>1, <2>2 DEF OriginFirst, Unopened
  <2>4. k \notin CopyConns
    BY <1>T, <2>1, <2>2 DEF OriginFirst
  <2> QED BY <1>T, <2>1, <2>3, <2>4 DEF ConnIds, TypeInv, UploadOK
<1>3. [u \in Uploads |-> RequestOf(u)'] = [u \in Uploads |-> RequestOf(u)]
  BY RequestsStay
<1> QED BY <1>1, <1>2, <1>3, SameProtocol
        DEF Placed!Arrive, OpenFile, Holders, Placed!SoleSender, Placed!Senders

LEMMA WriteIsWrite ==
  ASSUME TypeInv, OriginInv, ContentIsUploaded, [Next]_vars, NEW k \in ConnIds,
         WriteBytes(k), upload' = upload
  PROVE  Placed!Write(conn[k].srv, conn[k].file)
<1> DEFINE s == conn[k].srv
           f == conn[k].file
           p == conn[k].got + 1
           new == At(conn[k].data, p)
<1>T. /\ conn[k] \in Conn /\ conn[k].pc = "open"
      /\ s \in Servers /\ f \in Files
      /\ conn[k].data \in SUBSET Chunk
  BY DEF TypeInv, SystemTypeOK, ServerTypeOK, WriteBytes, Conn
<1>1. f \in dir[s]
  BY <1>T DEF OriginInv, OpenedIsStored, Opened
<1>2. p \in 1..FileLength
  BY <1>T, ProtocolAssumption DEF WriteBytes, Unread, Conn, Chunk
<1>3. ASSUME NEW x \in new PROVE x \in At(Placed!SentAs(f), p)
  <2>1. x \in Chunk /\ x \in conn[k].data /\ x[1] = p
    BY <1>T DEF At
  <2>2. PICK u \in Uploads : Carries(u, f, x)
    BY <1>T, <2>1 DEF ContentIsUploaded, UploadedAs
  <2>3. upload[u].src # NoPart
    BY <2>1, <2>2, ProtocolAssumption DEF Carries, Chunk
  <2>4. u \in Placed!Senders(f) /\ RequestOf(u).part = x[2]
    BY <2>2, <2>3, SendersAre DEF Carries, RequestOf
  <2> QED BY <2>1, <2>4, SameProtocol DEF At, Placed!SentAs
<1>4. bytes' = [bytes EXCEPT ![s][f] = Overwrite(@, new)] /\ dir' = dir
  BY DEF WriteBytes
<1>5. [u \in Uploads |-> RequestOf(u)'] = [u \in Uploads |-> RequestOf(u)]
  BY RequestsStay
<1> HIDE DEF new, p
<1>6. /\ Placed!At(Placed!SentAs(f), p) = At(Placed!SentAs(f), p)
      /\ \A old : Placed!Overwrite(old, new) = Overwrite(old, new)
  BY SameProtocol
<1>7. new \in SUBSET Placed!At(Placed!SentAs(f), p)
  BY <1>3, <1>6
<1>8. bytes' = [bytes EXCEPT ![s][f] = Placed!Overwrite(@, new)]
  BY <1>4, <1>6
<1> QED BY <1>1, <1>2, <1>4, <1>5, <1>7, <1>8 DEF Placed!Write

\* Steps that Placement does not see.
LEMMA UnseenStep ==
  ASSUME TypeInv, [Next]_vars, dir' = dir, bytes' = bytes,
         \A u \in Uploads : /\ upload'[u].name = upload[u].name
                           /\ upload'[u].src = upload[u].src
  PROVE  UNCHANGED Placed!placement
BY RequestsStay DEF Placed!placement

LEMMA PlacedStep ==
  ASSUME TypeInv, OriginInv, ContentIsUploaded, [Next]_vars
  PROVE  [Placed!Next]_(Placed!placement)
<1> USE SameProtocol
<1>D. upload \in [Uploads -> Upload]
  BY DEF TypeInv, SystemTypeOK, GatewayTypeOK
<1>0. ASSUME dir' = dir, bytes' = bytes, upload' = upload
      PROVE  UNCHANGED Placed!placement
  BY <1>0, UnseenStep
<1>1. ASSUME NEW u \in Uploads, Request(u)
      PROVE  [Placed!Next]_(Placed!placement)
  <2>1. CASE StartUpload(u)
    BY <2>1, StartIsName DEF Placed!Next
  <2>2. CASE Connect(u) /\ ~Refuses(Tried(u))
    BY <2>2, ConnectIsSend, TriedType DEF Placed!Next, TypeInv, SystemTypeOK
  <2>3. CASE ~StartUpload(u) /\ ~(Connect(u) /\ ~Refuses(Tried(u)))
    <3>1. dir' = dir /\ bytes' = bytes
      BY <1>1, <2>3 DEF Request, UploadThread, Probe, Connect, Announce,
                        SendBytes, FinishTransfer, AbortTransfer,
                        CloseConnection, serverVars
    <3>2. \/ upload' = [upload EXCEPT ![u].at = @ + 1]
          \/ upload' = [upload EXCEPT ![u].sent = @ + 1]
          \/ \E pc \in {"connecting", "sending", "sent", "done"} :
               upload' = [upload EXCEPT ![u].pc = pc]
      BY <1>1, <2>3 DEF Request, UploadThread, Probe, Connect, Announce,
                        SendBytes, FinishTransfer, AbortTransfer,
                        CloseConnection
    <3>3. \A v \in Uploads : /\ upload'[v].name = upload[v].name
                            /\ upload'[v].src = upload[v].src
      <4>1. CASE upload' = [upload EXCEPT ![u].at = @ + 1]
        BY <4>1, <1>D DEF Upload
      <4>2. CASE upload' = [upload EXCEPT ![u].sent = @ + 1]
        BY <4>2, <1>D DEF Upload
      <4>3. ASSUME NEW pc, upload' = [upload EXCEPT ![u].pc = pc]
            PROVE  \A v \in Uploads : /\ upload'[v].name = upload[v].name
                                     /\ upload'[v].src = upload[v].src
        BY <4>3, <1>D DEF Upload
      <4> QED BY <3>2, <4>1, <4>2, <4>3
    <3> QED BY <3>1, <3>3, UnseenStep
  <2> QED BY <2>1, <2>2, <2>3
<1>2. ASSUME NEW k \in ConnIds, Handler(k), ~FirstNotified(k)
      PROVE  [Placed!Next]_(Placed!placement)
  <2>0. /\ upload' = upload
        /\ conn[k].srv \in Servers /\ conn[k].file \in Files
    BY <1>2 DEF Handler, UploadingFinished, gatewayVars, TypeInv, SystemTypeOK,
                ServerTypeOK, Conn
  <2>1. CASE OpenFile(k)
    BY <2>0, <2>1, OpenIsArrive DEF Placed!Next
  <2>2. CASE WriteBytes(k)
    BY <2>0, <2>2, WriteIsWrite DEF Placed!Next
  <2>3. CASE Accept(k) \/ HeaderLost(k) \/ EndOfStream(k) \/ UploadingFinished(k)
    BY <1>0, <2>0, <2>3 DEF Accept, HeaderLost, EndOfStream, UploadingFinished
  <2> QED BY <1>2, <2>1, <2>2, <2>3 DEF Handler
<1>3. ASSUME BeanOnly PROVE UNCHANGED Placed!placement
  BY <1>0, <1>3 DEF BeanOnly
<1>4. ASSUME ServiceThread PROVE UNCHANGED Placed!placement
  BY <1>0, <1>4 DEF ServiceThread, StartCycle, serverVars, gatewayVars
<1>5. ASSUME NEW c \in Cycles, CycleStep(c), ~FirstToReadList(c)
      PROVE  UNCHANGED Placed!placement
  BY <1>0, <1>5 DEF CycleStep, CycleThread, ListServer, ResumeScan, NextFile,
                    EndCycle, serverVars, gatewayVars
<1>6. ASSUME NEW c \in Cycles, NEW f \in Files, CopyStep(c, f)
      PROVE  UNCHANGED Placed!placement
  BY <1>0, <1>6 DEF CopyStep, CopyThread, Search, Fetch, Fill, Spread, Send,
                    ResumeCopy, serverVars, gatewayVars
<1>7. ASSUME DownloadOnly PROVE UNCHANGED Placed!placement
  BY <1>0, <1>7 DEF DownloadOnly, gatewayVars
<1>8. ASSUME \/ \E u \in Uploads : SelectFile(u)
             \/ \E s \in Servers : Stop(s)
             \/ Crash
      PROVE  UNCHANGED Placed!placement
  <2>1. dir' = dir /\ bytes' = bytes
    BY <1>8 DEF SelectFile, Stop, StopServer, Crash, GatewayCrash, serverVars
  <2>2. \A u \in Uploads : /\ upload'[u].name = upload[u].name
                          /\ upload'[u].src = upload[u].src
    <3>1. CASE \E u \in Uploads : SelectFile(u)
      BY <1>D, <3>1 DEF SelectFile, Upload
    <3>2. CASE Crash
      BY <1>D, <3>2 DEF Crash, GatewayCrash, Upload
    <3>3. CASE \E s \in Servers : Stop(s)
      BY <3>3 DEF Stop, gatewayVars
    <3> QED BY <1>8, <3>1, <3>2, <3>3
  <2> QED BY <2>1, <2>2, UnseenStep
<1> QED
  BY <1>1, <1>2, <1>3, <1>4, <1>5, <1>6, <1>7, <1>8, StepKinds

\* What happens to the files of the servers is what Placement promises: every
\* arrival and every write of the system is one that Placement allows.
THEOREM PlacementImplemented == Spec => ImplementsPlacement
<1>1. TypeInv /\ OriginInv /\ ContentIsUploaded /\ [Next]_vars
        => [Placed!Next]_(Placed!placement)
  BY PlacedStep
<1> QED
  BY <1>1, PlacedInit, TypeInvariance, OriginInvariance, ContentCorrect, PTL
     DEF Spec, ImplementsPlacement, Placed!Spec

================================================================================
