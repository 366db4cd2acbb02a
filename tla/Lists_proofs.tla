------------------------------ MODULE Lists_proofs ------------------------------
(***************************************************************************)
(* What the replication service relies on when it chooses what to copy:    *)
(* the gateway's list of files being uploaded, and the count it makes of   *)
(* the servers that have a file.  Both are right as long as no server has  *)
(* been stopped, whatever the gateway itself does, for every number of     *)
(* servers, files, requests and cycles.                                    *)
(***************************************************************************)
EXTENDS SyncSystem_proofs, FiniteSetTheorems

-------------------------------------------------------------------------------
(* The list of files being uploaded *)

\* An announced upload of f that its server is still to report as finished: its
\* connection is served and was not reset.
Reporting(u, f) ==
  /\ upload[u].name = f
  /\ upload[u].pc \in {"sending", "sent", "done"}
  /\ conn[u].pc # "free"
  /\ conn[u].end # "reset"

Reports(f) == {u \in Uploads : Reporting(u, f)}

\* The bean and the threads live and die together, and a thread that is about to
\* announce its upload has a connection that is being served.
ThreadInv ==
  /\ \A u \in Uploads : InFlight(u) => bean = "ready"
  /\ \A f \in Files : bean # "ready" => uploadingList[f] = 0
  /\ \A u \in Uploads :
       stops = 0 /\ upload[u].pc = "connected" =>
         conn[u].pc \in {"backlog", "accepted", "open"} /\ conn[u].end = "open"

\* Every entry of the list is an upload still to be reported.
EntriesInv ==
  stops = 0 => \A f \in Files : uploadingList[f] <= Cardinality(Reports(f))

-------------------------------------------------------------------------------
(* The counts of a cycle *)

\* The servers that hold f among those before the s-th.
HoldersBefore(f, s) == {t \in Holders(f) : t < s}

\* A scan has counted only servers it has passed.
CountRight(c, f) ==
  /\ cycle[c].pc = "idle" => cycle[c].counts[f] = 0
  /\ cycle[c].pc = "listing" =>
       cycle[c].counts[f] <= Cardinality(HoldersBefore(f, cycle[c].at))
  /\ cycle[c].pc = "files" => cycle[c].counts[f] <= Cardinality(Holders(f))

\* No reply is lost, so no scan is begun again with what it counted before.
CountInv ==
  stops = 0 =>
    /\ lost = {}
    /\ \A c \in Cycles :
         /\ cycle[c].pc # "delay"
         /\ \A f \in Files : CountRight(c, f)

-------------------------------------------------------------------------------
(* Lemmas on sets of requests and servers *)

LEMMA ReportsFinite ==
  ASSUME NEW f \in Files
  PROVE  IsFiniteSet(Reports(f)) /\ Cardinality(Reports(f)) \in Nat
<1>1. Reports(f) \in SUBSET Uploads
  BY DEF Reports
<1> QED  BY <1>1, UploadsAssumption, FS_Subset, FS_CardinalityType

LEMMA HoldersFinite ==
  ASSUME NEW f \in Files
  PROVE  IsFiniteSet(Holders(f)) /\ Cardinality(Holders(f)) \in Nat
<1>1. IsFiniteSet(Servers)
  BY ProtocolAssumption, FS_Interval DEF Servers
<1>2. Holders(f) \in SUBSET Servers
  BY DEF Holders
<1> QED  BY <1>1, <1>2, FS_Subset, FS_CardinalityType

LEMMA HoldersBeforeFinite ==
  ASSUME NEW f \in Files, NEW s \in Int
  PROVE  /\ IsFiniteSet(HoldersBefore(f, s))
         /\ Cardinality(HoldersBefore(f, s)) \in Nat
         /\ Cardinality(HoldersBefore(f, s)) <= Cardinality(Holders(f))
<1>1. HoldersBefore(f, s) \in SUBSET Holders(f)
  BY DEF HoldersBefore
<1> QED  BY <1>1, HoldersFinite, FS_Subset, FS_CardinalityType

\* One more server passed is one more counted, if it has the file.
LEMMA HoldersPassed ==
  ASSUME NEW f \in Files, NEW s \in Servers, f \in dir[s]
  PROVE  Cardinality(HoldersBefore(f, s + 1))
           = Cardinality(HoldersBefore(f, s)) + 1
<1>1. s \in Int /\ s \notin HoldersBefore(f, s)
  BY DEF Servers, HoldersBefore
<1>2. HoldersBefore(f, s + 1) = HoldersBefore(f, s) \cup {s}
  BY DEF HoldersBefore, Holders, Servers
<1> QED  BY <1>1, <1>2, HoldersBeforeFinite, FS_AddElement

LEMMA HoldersNotPassed ==
  ASSUME NEW f \in Files, NEW s \in Servers
  PROVE  Cardinality(HoldersBefore(f, s))
           <= Cardinality(HoldersBefore(f, s + 1))
<1>1. s \in Int /\ s + 1 \in Int
  BY DEF Servers
<1>2. HoldersBefore(f, s) \in SUBSET HoldersBefore(f, s + 1)
  BY DEF HoldersBefore, Holders, Servers
<1> QED  BY <1>1, <1>2, HoldersBeforeFinite, FS_Subset

-------------------------------------------------------------------------------
(* The list holds no entry that is left over *)

\* What TypeInv says of the state these proofs are about.
LEMMA ListTypes ==
  ASSUME TypeInv
  PROVE  /\ upload \in [Uploads -> Upload]
         /\ conn \in [ConnIds -> Conn]
         /\ uploadingList \in [Files -> Nat]
         /\ \A u \in Uploads : u \in ConnIds /\ UploadOK(u)
BY DEF TypeInv, SystemTypeOK, GatewayTypeOK, ServerTypeOK, ConnIds

\* The steps that touch neither a request nor a connection nor the list, and
\* leave a bean that serves requests in place.
Aside ==
  /\ UNCHANGED <<upload, conn, uploadingList, stops>>
  /\ bean = "ready" => bean' = "ready"

LEMMA AsideSteps ==
  /\ BeanOnly => Aside
  /\ ServiceThread => Aside
  /\ \A c \in Cycles : CycleStep(c) /\ ~FirstToReadList(c) => Aside
  /\ DownloadOnly => Aside
<1>1. BeanOnly => Aside
  BY DEF BeanOnly, environmentVars, Aside
<1>2. ASSUME ServiceThread  PROVE Aside
  BY <1>2 DEF ServiceThread, StartCycle, serverVars, gatewayVars, environmentVars,
              Aside
<1>3. ASSUME NEW c \in Cycles, CycleStep(c), ~FirstToReadList(c)  PROVE Aside
  BY <1>3 DEF CycleStep, CycleThread, ListServer, ResumeScan, NextFile, EndCycle,
              serverVars, gatewayVars, environmentVars, Aside
<1>4. DownloadOnly => Aside
  BY DEF DownloadOnly, gatewayVars, environmentVars, Aside
<1> QED  BY <1>1, <1>2, <1>3, <1>4

\* A copy uses connections of its own.
LEMMA CopyAside ==
  ASSUME TypeInv, NEW c \in Cycles, NEW f \in Files, CopyStep(c, f)
  PROVE  /\ UNCHANGED <<upload, uploadingList, bean, stops>>
         /\ \A u \in Uploads : conn'[u] = conn[u]
<1>1. UNCHANGED <<upload, uploadingList, bean, stops>>
  BY DEF CopyStep, CopyThread, Search, Fetch, Fill, Spread, Send, ResumeCopy,
         gatewayVars, environmentVars
<1>2. CASE Send(c, f)
  <2>1. conn' = conn \/ \E k \in CopyConns :
          conn' = [conn EXCEPT ![k] = NewConn(ServerOf(c, f), f, local[f], "closed")]
    BY <1>2 DEF Send
  <2>2. \A u \in Uploads, k \in CopyConns : u # k
    BY FileServerAssumption
  <2> QED  BY <1>1, <2>1, <2>2, ListTypes
<1>3. CASE ~Send(c, f)
  BY <1>1, <1>3 DEF CopyStep, CopyThread, Search, Fetch, Fill, Spread, ResumeCopy,
              serverVars
<1> QED  BY <1>1, <1>2, <1>3

LEMMA ThreadInit == Init => ThreadInv /\ EntriesInv
<1> SUFFICES ASSUME Init  PROVE ThreadInv /\ EntriesInv
  OBVIOUS
<1>1. ThreadInv
  BY DEF Init, GatewayInit, IdleUpload, InFlight, ThreadInv
<1>2. EntriesInv
  <2> SUFFICES ASSUME NEW f \in Files
               PROVE  uploadingList[f] <= Cardinality(Reports(f))
    BY DEF EntriesInv
  <2>1. uploadingList[f] = 0 /\ Cardinality(Reports(f)) \in Nat
    BY ReportsFinite DEF Init, GatewayInit
  <2> QED  BY <2>1
<1> QED  BY <1>1, <1>2

LEMMA RequestThread ==
  ASSUME TypeInv, ThreadInv, NEW u \in Uploads, Request(u)
  PROVE  ThreadInv'
<1>0. /\ upload \in [Uploads -> Upload] /\ conn \in [ConnIds -> Conn]
      /\ uploadingList \in [Files -> Nat] /\ u \in ConnIds /\ UploadOK(u)
  BY ListTypes
<1>1. bean' = bean /\ stops' = stops
  BY DEF Request, StartUpload, UploadThread, Probe, Connect, Announce, SendBytes,
         FinishTransfer, AbortTransfer, CloseConnection, environmentVars
<1>2. InFlight(u) /\ bean = "ready"
  BY DEF Request, StartUpload, UploadThread, Probe, Connect, Announce, SendBytes,
         FinishTransfer, AbortTransfer, CloseConnection, InFlight, ThreadInv
<1>3. ASSUME NEW v \in Uploads, v # u
      PROVE  upload'[v] = upload[v] /\ conn'[v] = conn[v]
  BY <1>0, <1>3
     DEF Request, StartUpload, UploadThread, Probe, Connect, Announce, SendBytes,
         FinishTransfer, AbortTransfer, CloseConnection, serverVars, ConnIds
<1>4. ASSUME stops' = 0, upload'[u].pc = "connected"
      PROVE  /\ conn'[u].pc \in {"backlog", "accepted", "open"}
             /\ conn'[u].end = "open"
  <2>1. CASE Connect(u)
    <3>1. CASE ~Refuses(Tried(u))
      BY <1>0, <2>1, <3>1 DEF Connect, NewConn
    <3>2. CASE Refuses(Tried(u))
      BY <1>0, <1>4, <2>1, <3>2 DEF Connect, Upload
    <3> QED  BY <3>1, <3>2
  <2>2. CASE ~Connect(u)
    <3>1. upload'[u].pc # "connected"
      BY <1>0, <2>2
         DEF Request, StartUpload, UploadThread, Probe, Announce, SendBytes,
             FinishTransfer, AbortTransfer, CloseConnection, Upload
    <3> QED  BY <1>4, <3>1
  <2> QED  BY <2>1, <2>2
<1> QED  BY <1>1, <1>2, <1>3, <1>4 DEF ThreadInv, InFlight

LEMMA HandlerThread ==
  ASSUME TypeInv, ThreadInv, NEW k \in ConnIds, Handler(k), ~FirstNotified(k)
  PROVE  ThreadInv'
<1>0. /\ conn \in [ConnIds -> Conn] /\ uploadingList \in [Files -> Nat]
      /\ \A u \in Uploads : u \in ConnIds
  BY ListTypes
<1>1. UNCHANGED <<upload, bean, stops>>
  BY DEF Handler, UploadingFinished, gatewayVars, environmentVars
<1>2. bean # "ready" => uploadingList' = uploadingList
  BY DEF Handler, UploadingFinished, gatewayVars
<1>3. ASSUME NEW u \in Uploads, stops = 0, upload[u].pc = "connected"
      PROVE  /\ conn'[u].pc \in {"backlog", "accepted", "open"}
             /\ conn'[u].end = "open"
  <2>1. conn[u].pc \in {"backlog", "accepted", "open"} /\ conn[u].end = "open"
    BY <1>3 DEF ThreadInv
  <2>2. CASE u # k
    <3>1. conn'[u] = conn[u]
      BY <1>0, <2>2 DEF Handler, Accept, OpenFile, HeaderLost, WriteBytes,
         EndOfStream, UploadingFinished
    <3> QED  BY <2>1, <3>1
  <2>3. CASE u = k
    <3>1. Accept(u) \/ OpenFile(u) \/ WriteBytes(u)
      BY <2>1, <2>3 DEF Handler, HeaderLost, EndOfStream, UploadingFinished
    <3> QED  BY <1>0, <2>1, <3>1 DEF Accept, OpenFile, WriteBytes, Conn
  <2> QED  BY <2>2, <2>3
<1> QED  BY <1>1, <1>2, <1>3 DEF ThreadInv, InFlight

\* A file is selected, a server stops, or the web application crashes.
LEMMA EnvironmentThread ==
  ASSUME TypeInv, ThreadInv,
         \/ /\ \E u \in Uploads : SelectFile(u)
            /\ UNCHANGED <<download, replicationVars, environmentVars>>
         \/ \E s \in Servers : Stop(s)
         \/ Crash
  PROVE  ThreadInv'
<1>0. /\ upload \in [Uploads -> Upload] /\ conn \in [ConnIds -> Conn]
      /\ uploadingList \in [Files -> Nat]
  BY ListTypes
<1>1. ASSUME NEW u \in Uploads, SelectFile(u), UNCHANGED stops  PROVE ThreadInv'
  BY <1>0, <1>1 DEF SelectFile, serverVars, ThreadInv, InFlight, Upload
<1>4. ASSUME NEW s \in Servers, Stop(s)  PROVE ThreadInv'
  <2>1. stops' # 0 /\ UNCHANGED gatewayVars
    <3>1. stops \in Nat /\ stops' = stops + 1
      BY <1>4, EnvironmentAssumption DEF Stop, TypeInv, SystemTypeOK
    <3> QED  BY <1>4, <3>1 DEF Stop
  <2> QED  BY <2>1 DEF gatewayVars, ThreadInv, InFlight
<1>5. CASE Crash
  <2>1. \A u \in Uploads : upload'[u].pc \in {"idle", "done"}
    BY <1>0, <1>5 DEF Crash, GatewayCrash, InFlight, Upload
  <2>2. \A f \in Files : uploadingList'[f] = 0
    BY <1>5 DEF Crash, GatewayCrash
  <2> QED  BY <2>1, <2>2 DEF ThreadInv, InFlight
<1> QED
  BY <1>1, <1>4, <1>5 DEF environmentVars

LEMMA ThreadNext == TypeInv /\ ThreadInv /\ [Next]_vars => ThreadInv'
<1> SUFFICES ASSUME TypeInv, ThreadInv, [Next]_vars  PROVE ThreadInv'
  OBVIOUS
<1>1. CASE Aside
  BY <1>1 DEF Aside, ThreadInv, InFlight
<1>2. ASSUME NEW c \in Cycles, NEW f \in Files, CopyStep(c, f)  PROVE ThreadInv'
  BY <1>2, CopyAside DEF ThreadInv, InFlight
<1> QED
  BY <1>1, <1>2, StepKinds, AsideSteps, RequestThread, HandlerThread,
     EnvironmentThread

LEMMA ThreadInvariance == Spec => []ThreadInv
BY TypeInvariance, ThreadInit, ThreadNext, PTL DEF Spec

\* An entry stays right when no entry is added and nobody stops reporting.
LEMMA EntriesKeep ==
  ASSUME TypeInv, TypeInv', EntriesInv, stops' = stops,
         \A f \in Files : uploadingList'[f] <= uploadingList[f],
         \A u \in Uploads, f \in Files : Reporting(u, f) => Reporting(u, f)'
  PROVE  EntriesInv'
<1> SUFFICES ASSUME stops = 0, NEW f \in Files
             PROVE  uploadingList'[f] <= Cardinality(Reports(f)')
  BY DEF EntriesInv
<1>1. Reports(f) \in SUBSET (Reports(f)')
  BY DEF Reports
<1>2. Reports(f)' \in SUBSET Uploads
  BY DEF Reports
<1>3. IsFiniteSet(Reports(f)') /\ Cardinality(Reports(f)') \in Nat
  BY <1>2, UploadsAssumption, FS_Subset, FS_CardinalityType
<1>4. Cardinality(Reports(f)) <= Cardinality(Reports(f)')
  BY <1>1, <1>3, FS_Subset
<1>5. uploadingList[f] <= Cardinality(Reports(f))
  BY DEF EntriesInv
<1>6. uploadingList[f] \in Nat /\ uploadingList'[f] \in Nat
        /\ Cardinality(Reports(f)) \in Nat
  BY ReportsFinite DEF TypeInv, SystemTypeOK, GatewayTypeOK
<1> QED  BY <1>3, <1>4, <1>5, <1>6

LEMMA AnnounceEntries ==
  ASSUME TypeInv, TypeInv', ThreadInv, EntriesInv, NEW u \in Uploads, Request(u),
         Announce(u)
  PROVE  EntriesInv'
<1> SUFFICES ASSUME stops = 0, NEW f \in Files
             PROVE  uploadingList'[f] <= Cardinality(Reports(f)')
  BY DEF Request, environmentVars, EntriesInv
<1>0. /\ upload \in [Uploads -> Upload] /\ uploadingList \in [Files -> Nat]
      /\ IsFiniteSet(Reports(f)) /\ Cardinality(Reports(f)) \in Nat
      /\ uploadingList[f] <= Cardinality(Reports(f))
  BY ListTypes, ReportsFinite DEF EntriesInv
<1>1. /\ upload[u].pc = "connected" /\ UNCHANGED conn
      /\ upload' = [upload EXCEPT ![u].pc = "sending"]
      /\ uploadingList' = [uploadingList EXCEPT ![upload[u].name] = @ + 1]
  BY DEF Announce, serverVars
<1>2. conn[u].pc # "free" /\ conn[u].end # "reset"
  BY <1>1 DEF ThreadInv
<1>3. \A v \in Uploads : v # u => (Reporting(v, f)' <=> Reporting(v, f))
  BY <1>0, <1>1 DEF Reporting
<1>4. ~Reporting(u, f) /\ u \notin Reports(f)
  BY <1>1 DEF Reporting, Reports
<1>5. CASE upload[u].name = f
  <2>1. Reporting(u, f)'
    BY <1>0, <1>1, <1>2, <1>5 DEF Reporting, Upload
  <2>2. Reports(f)' = Reports(f) \cup {u}
    BY <1>3, <2>1 DEF Reports
  <2>3. Cardinality(Reports(f) \cup {u}) = Cardinality(Reports(f)) + 1
    BY <1>0, <1>4, FS_AddElement
  <2>4. uploadingList'[f] = uploadingList[f] + 1
    BY <1>0, <1>1, <1>5
  <2>5. uploadingList[f] \in Nat
    BY <1>0
  <2> QED  BY <1>0, <2>2, <2>3, <2>4, <2>5
<1>6. CASE upload[u].name # f
  <2>1. ~Reporting(u, f)'
    BY <1>0, <1>1, <1>6 DEF Reporting, Upload
  <2>2. Reports(f)' = Reports(f)
    BY <1>3, <1>4, <2>1 DEF Reports
  <2>3. uploadingList'[f] = uploadingList[f]
    BY <1>0, <1>1, <1>6
  <2> QED  BY <1>0, <2>2, <2>3
<1> QED  BY <1>5, <1>6

LEMMA RequestEntries ==
  ASSUME TypeInv, TypeInv', ThreadInv, EntriesInv, NEW u \in Uploads, Request(u)
  PROVE  EntriesInv'
<1>0. /\ upload \in [Uploads -> Upload] /\ conn \in [ConnIds -> Conn]
      /\ uploadingList \in [Files -> Nat] /\ \A v \in Uploads : v \in ConnIds
  BY ListTypes
<1>1. CASE Announce(u)
  BY <1>1, AnnounceEntries
<1>2. CASE ~Announce(u)
  <2>1. uploadingList' = uploadingList /\ stops' = stops
    BY <1>2 DEF Request, StartUpload, UploadThread, Probe, Connect, SendBytes,
       FinishTransfer, AbortTransfer, CloseConnection, environmentVars
  <2>2. ASSUME NEW v \in Uploads, v # u
        PROVE  upload'[v] = upload[v] /\ conn'[v] = conn[v]
    BY <1>0, <1>2, <2>2
       DEF Request, StartUpload, UploadThread, Probe, Connect, SendBytes,
           FinishTransfer, AbortTransfer, CloseConnection, serverVars
  <2>3. ASSUME NEW f \in Files, Reporting(u, f)  PROVE Reporting(u, f)'
    <3>1. SendBytes(u) \/ FinishTransfer(u) \/ AbortTransfer(u) \/ CloseConnection(u)
      BY <1>2, <2>3 DEF Request, UploadThread, StartUpload, Probe, Connect, Reporting
    <3>2. CASE SendBytes(u)
      BY <1>0, <2>3, <3>2 DEF SendBytes, Reporting, Upload, Conn
    <3>3. CASE FinishTransfer(u) \/ AbortTransfer(u)
      BY <1>0, <2>3, <3>3 DEF FinishTransfer, AbortTransfer, Reporting, Upload,
         serverVars
    <3>4. CASE CloseConnection(u)
      <4>1. conn' = [conn EXCEPT ![u].end = "closed"]
        BY <2>3, <3>4 DEF CloseConnection, ConnLost, Reporting
      <4> QED  BY <1>0, <2>3, <3>4, <4>1 DEF CloseConnection, Reporting, Upload, Conn
    <3> QED  BY <3>1, <3>2, <3>3, <3>4
  <2>4. \A v \in Uploads, f \in Files : Reporting(v, f) => Reporting(v, f)'
    BY <2>2, <2>3 DEF Reporting
  <2>5. \A f \in Files : uploadingList'[f] <= uploadingList[f]
    BY <1>0, <2>1
  <2> QED  BY <2>1, <2>4, <2>5, EntriesKeep
<1> QED  BY <1>1, <1>2

\* The server reports one upload, and one entry of its name goes.
LEMMA FinishedEntries ==
  ASSUME TypeInv, TypeInv', ThreadInv, EntriesInv, NEW k \in ConnIds, Handler(k),
         UploadingFinished(k)
  PROVE  EntriesInv'
<1> SUFFICES ASSUME stops = 0, NEW f \in Files
             PROVE  uploadingList'[f] <= Cardinality(Reports(f)')
  BY DEF Handler, environmentVars, EntriesInv
<1>0. /\ conn \in [ConnIds -> Conn] /\ uploadingList \in [Files -> Nat]
      /\ \A u \in Uploads : u \in ConnIds /\ UploadOK(u)
      /\ IsFiniteSet(Reports(f)) /\ Cardinality(Reports(f)) \in Nat
      /\ uploadingList[f] <= Cardinality(Reports(f))
  BY ListTypes, ReportsFinite DEF EntriesInv
<1>1. /\ conn[k].pc = "notify" /\ conn' = [conn EXCEPT ![k] = FreeConn]
      /\ UNCHANGED upload
      /\ uploadingList' = IF bean = "ready" THEN Removed(uploadingList, conn[k].file)
                          ELSE uploadingList
  BY DEF UploadingFinished
<1>2. \A u \in Uploads : u # k => (Reporting(u, f)' <=> Reporting(u, f))
  BY <1>0, <1>1 DEF Reporting
<1>3. k \in Uploads => ~Reporting(k, f)'
  BY <1>0, <1>1 DEF Reporting, FreeConn
<1>4. Reports(f)' = Reports(f) \ {k}
  BY <1>2, <1>3 DEF Reports
<1>5. Cardinality(Reports(f) \ {k})
        = IF k \in Reports(f) THEN Cardinality(Reports(f)) - 1
          ELSE Cardinality(Reports(f))
  BY <1>0, FS_RemoveElement
<1>6. uploadingList[f] \in Nat
  BY <1>0
<1>7. CASE k \in Reports(f)
  <2>1. conn[k].file = f
    BY <1>0, <1>7 DEF Reports, Reporting, UploadOK
  <2>2. CASE bean # "ready"
    <3>1. uploadingList'[f] = 0
      BY <1>1, <2>2 DEF ThreadInv
    <3>2. k \in Reports(f) /\ Cardinality(Reports(f)) # 0
      BY <1>0, <1>7, FS_EmptySet
    <3> QED  BY <1>0, <1>4, <1>5, <3>1, <3>2
  <2>3. CASE bean = "ready"
    <3>1. uploadingList'[f] = IF uploadingList[f] > 0 THEN uploadingList[f] - 1
                              ELSE 0
      BY <1>0, <1>1, <2>1, <2>3 DEF Removed
    <3>2. Cardinality(Reports(f)) # 0
      BY <1>0, <1>7, FS_EmptySet
    <3> QED  BY <1>0, <1>4, <1>5, <1>6, <1>7, <3>1, <3>2
  <2> QED  BY <2>2, <2>3
<1>8. CASE k \notin Reports(f)
  <2>1. uploadingList'[f] <= uploadingList[f]
    <3>1. CASE bean = "ready" /\ conn[k].file = f
      BY <1>0, <1>1, <1>6, <3>1 DEF Removed
    <3>2. CASE bean # "ready" \/ conn[k].file # f
      BY <1>0, <1>1, <1>6, <3>2 DEF Removed
    <3> QED  BY <3>1, <3>2
  <2>2. uploadingList'[f] \in Nat
    BY DEF TypeInv, SystemTypeOK, GatewayTypeOK
  <2> QED  BY <1>0, <1>4, <1>5, <1>6, <1>8, <2>1, <2>2
<1> QED  BY <1>7, <1>8

LEMMA HandlerEntries ==
  ASSUME TypeInv, TypeInv', ThreadInv, EntriesInv, NEW k \in ConnIds, Handler(k),
         ~FirstNotified(k)
  PROVE  EntriesInv'
<1>0. /\ conn \in [ConnIds -> Conn] /\ uploadingList \in [Files -> Nat]
      /\ \A u \in Uploads : u \in ConnIds
  BY ListTypes
<1>1. CASE UploadingFinished(k)
  BY <1>1, FinishedEntries
<1>2. CASE ~UploadingFinished(k)
  <2>1. UNCHANGED <<upload, uploadingList, stops>>
    BY <1>2 DEF Handler, gatewayVars, environmentVars
  <2>2. ASSUME NEW u \in Uploads, NEW f \in Files, Reporting(u, f)
        PROVE  Reporting(u, f)'
    <3>1. CASE u # k
      <4>1. conn'[u] = conn[u]
        BY <1>0, <1>2, <3>1
           DEF Handler, Accept, OpenFile, HeaderLost, WriteBytes, EndOfStream
      <4> QED  BY <2>1, <2>2, <4>1 DEF Reporting
    <3>2. CASE u = k
      <4>1. Accept(u) \/ OpenFile(u) \/ WriteBytes(u) \/ EndOfStream(u)
        BY <1>2, <2>2, <3>2 DEF Handler, HeaderLost, Reporting
      <4>2. conn'[u].pc # "free" /\ conn'[u].end = conn[u].end
        BY <1>0, <2>2, <4>1
           DEF Accept, OpenFile, WriteBytes, EndOfStream, Conn, Reporting
      <4> QED  BY <2>1, <2>2, <4>2 DEF Reporting
    <3> QED  BY <3>1, <3>2
  <2>3. \A f \in Files : uploadingList'[f] <= uploadingList[f]
    BY <1>0, <2>1
  <2> QED  BY <2>1, <2>2, <2>3, EntriesKeep
<1> QED  BY <1>1, <1>2

LEMMA EnvironmentEntries ==
  ASSUME TypeInv, TypeInv', ThreadInv, EntriesInv,
         \/ /\ \E u \in Uploads : SelectFile(u)
            /\ UNCHANGED <<download, replicationVars, environmentVars>>
         \/ \E s \in Servers : Stop(s)
         \/ Crash
  PROVE  EntriesInv'
<1>0. /\ upload \in [Uploads -> Upload] /\ uploadingList \in [Files -> Nat]
  BY ListTypes
<1>1. ASSUME NEW u \in Uploads, SelectFile(u), UNCHANGED stops  PROVE EntriesInv'
  <2>1. \A v \in Uploads, f \in Files : Reporting(v, f) => Reporting(v, f)'
    BY <1>0, <1>1 DEF SelectFile, serverVars, Reporting
  <2>2. \A f \in Files : uploadingList'[f] <= uploadingList[f]
    BY <1>0, <1>1 DEF SelectFile
  <2> QED  BY <1>1, <2>1, <2>2, EntriesKeep
<1>3. ASSUME NEW s \in Servers, Stop(s)  PROVE EntriesInv'
  <2>1. stops \in Nat /\ stops' = stops + 1
    BY <1>3, EnvironmentAssumption DEF Stop, TypeInv, SystemTypeOK
  <2> QED  BY <2>1 DEF EntriesInv
<1>4. CASE Crash
  <2>1. ASSUME NEW f \in Files
        PROVE  uploadingList'[f] = 0 /\ Cardinality(Reports(f)') \in Nat
    <3>1. Reports(f)' \in SUBSET Uploads
      BY DEF Reports
    <3> QED  BY <1>4, <3>1, UploadsAssumption, FS_Subset, FS_CardinalityType
             DEF Crash, GatewayCrash
  <2> QED  BY <2>1 DEF EntriesInv
<1> QED
  BY <1>1, <1>3, <1>4 DEF environmentVars

LEMMA EntriesNext ==
  TypeInv /\ TypeInv' /\ ThreadInv /\ EntriesInv /\ [Next]_vars => EntriesInv'
<1> SUFFICES ASSUME TypeInv, TypeInv', ThreadInv, EntriesInv, [Next]_vars
             PROVE  EntriesInv'
  OBVIOUS
<1>1. ASSUME UNCHANGED <<upload, uploadingList, stops>>,
             \A u \in Uploads : conn'[u] = conn[u]
      PROVE  EntriesInv'
  <2>1. \A v \in Uploads, f \in Files : Reporting(v, f) => Reporting(v, f)'
    BY <1>1 DEF Reporting
  <2>2. \A f \in Files : uploadingList'[f] <= uploadingList[f]
    BY <1>1, ListTypes
  <2> QED  BY <1>1, <2>1, <2>2, EntriesKeep
<1>2. CASE Aside
  BY <1>1, <1>2 DEF Aside
<1>3. ASSUME NEW c \in Cycles, NEW f \in Files, CopyStep(c, f)  PROVE EntriesInv'
  BY <1>1, <1>3, CopyAside
<1> QED
  BY <1>2, <1>3, StepKinds, AsideSteps, RequestEntries, HandlerEntries,
     EnvironmentEntries

\* For any number of servers, files and requests, and however often the gateway
\* goes down and comes up: while no server has been stopped, the gateway lists
\* no file as being uploaded more often than there are uploads of it in
\* progress (GatewayServer.java:198, 265).
THEOREM ListedIsUploadingCorrect == Spec => [](stops = 0 => ListedIsUploading)
<1>1. TypeInv /\ EntriesInv => (stops = 0 => ListedIsUploading)
  <2> SUFFICES ASSUME TypeInv, EntriesInv, stops = 0, NEW f \in Files
               PROVE  uploadingList[f] <= Cardinality(Unfinished(f))
    BY DEF EntriesInv, ListedIsUploading
  <2>1. Reports(f) \in SUBSET Unfinished(f) /\ Unfinished(f) \in SUBSET Uploads
    BY DEF Reports, Reporting, Unfinished
  <2>2. IsFiniteSet(Unfinished(f)) /\ Cardinality(Unfinished(f)) \in Nat
    BY <2>1, UploadsAssumption, FS_Subset, FS_CardinalityType
  <2>3. Cardinality(Reports(f)) <= Cardinality(Unfinished(f))
    BY <2>1, <2>2, FS_Subset
  <2>4. uploadingList[f] \in Nat /\ uploadingList[f] <= Cardinality(Reports(f))
    BY ListTypes DEF EntriesInv
  <2> QED  BY <2>2, <2>3, <2>4, ReportsFinite
<1> QED
  BY <1>1, TypeInvariance, ThreadInvariance, ThreadInit, EntriesNext, PTL DEF Spec

-------------------------------------------------------------------------------
(* A cycle counts no file too often *)

LEMMA CountInit == Init => CountInv
<1> SUFFICES ASSUME Init, NEW c \in Cycles
             PROVE  /\ lost = {}
                    /\ cycle[c].pc # "delay"
                    /\ \A f \in Files : CountRight(c, f)
  BY DEF CountInv, Init, ServerInit
<1>1. cycle[c].pc = "idle" /\ \A f \in Files : cycle[c].counts[f] = 0
  BY DEF Init, ReplicationInit, IdleCycle
<1> QED  BY <1>1 DEF Init, ServerInit, CountRight

\* Nothing is ever deleted from a directory.
LEMMA DirsGrow ==
  ASSUME TypeInv, [Next]_vars, NEW s \in Servers
  PROVE  dir[s] \subseteq dir'[s]
<1>1. CASE dir' = dir
  BY <1>1
<1>2. ASSUME NEW k \in ConnIds, OpenFile(k)  PROVE dir[s] \subseteq dir'[s]
  BY <1>2 DEF OpenFile, TypeInv, SystemTypeOK, ServerTypeOK
<1>3. ASSUME NEW k \in ConnIds, Handler(k), ~FirstNotified(k), ~OpenFile(k)
      PROVE  dir' = dir
  BY <1>3 DEF Handler, Accept, HeaderLost, WriteBytes, EndOfStream,
              UploadingFinished
<1>4. ASSUME NEW u \in Uploads, Request(u)  PROVE dir' = dir
  BY <1>4 DEF Request, StartUpload, UploadThread, Probe, Connect, Announce,
              SendBytes, FinishTransfer, AbortTransfer, CloseConnection, serverVars
<1>5. ASSUME BeanOnly  PROVE dir' = dir
  BY <1>5 DEF BeanOnly
<1>6. ASSUME ServiceThread  PROVE dir' = dir
  BY <1>6 DEF ServiceThread, StartCycle, serverVars
<1>7. ASSUME NEW c \in Cycles, CycleStep(c), ~FirstToReadList(c)
      PROVE  dir' = dir
  BY <1>7 DEF CycleStep, CycleThread, ListServer, ResumeScan, NextFile, EndCycle,
              serverVars
<1>8. ASSUME NEW c \in Cycles, NEW f \in Files, CopyStep(c, f)  PROVE dir' = dir
  BY <1>8 DEF CopyStep, CopyThread, Search, Fetch, Fill, Spread, Send, ResumeCopy,
              serverVars
<1>9. ASSUME \/ \E u \in Uploads : SelectFile(u)
             \/ \E t \in Servers : Stop(t)
             \/ Crash
      PROVE  dir' = dir
  BY <1>9 DEF SelectFile, Stop, StopServer, Crash, GatewayCrash, serverVars
<1>10. ASSUME DownloadOnly  PROVE dir' = dir
  BY <1>10 DEF DownloadOnly
<1> QED
  BY <1>1, <1>2, <1>3, <1>4, <1>5, <1>6, <1>7, <1>8, <1>9, <1>10, StepKinds

\* So the holders of a file only become more.
LEMMA HoldersGrow ==
  ASSUME TypeInv, [Next]_vars, NEW f \in Files
  PROVE  /\ Cardinality(Holders(f)) <= Cardinality(Holders(f)')
         /\ Cardinality(Holders(f)') \in Nat
         /\ \A s \in Servers :
              /\ Cardinality(HoldersBefore(f, s))
                   <= Cardinality(HoldersBefore(f, s)')
              /\ Cardinality(HoldersBefore(f, s)') \in Nat
<1>1. Holders(f) \in SUBSET (Holders(f)') /\ Holders(f)' \in SUBSET Servers
  BY DirsGrow DEF Holders
<1>2. IsFiniteSet(Servers)
  BY ProtocolAssumption, FS_Interval DEF Servers
<1>3. IsFiniteSet(Holders(f)') /\ Cardinality(Holders(f)') \in Nat
  BY <1>1, <1>2, FS_Subset, FS_CardinalityType
<1>4. Cardinality(Holders(f)) <= Cardinality(Holders(f)')
  BY <1>1, <1>3, FS_Subset
<1>5. ASSUME NEW s \in Servers
      PROVE  /\ Cardinality(HoldersBefore(f, s))
                  <= Cardinality(HoldersBefore(f, s)')
             /\ Cardinality(HoldersBefore(f, s)') \in Nat
  <2>1. HoldersBefore(f, s)' \in SUBSET Servers
    BY <1>1 DEF HoldersBefore
  <2>2. HoldersBefore(f, s) \in SUBSET (HoldersBefore(f, s)')
    BY <1>1 DEF HoldersBefore
  <2>3. IsFiniteSet(HoldersBefore(f, s)')
          /\ Cardinality(HoldersBefore(f, s)') \in Nat
    BY <1>2, <2>1, FS_Subset, FS_CardinalityType
  <2> QED  BY <2>2, <2>3, FS_Subset
<1> QED  BY <1>3, <1>4, <1>5

\* A count stays right when its cycle stays where it is.
LEMMA CountKeeps ==
  ASSUME TypeInv, [Next]_vars, NEW c \in Cycles, NEW f \in Files,
         CountRight(c, f), cycle'[c].pc = cycle[c].pc,
         cycle'[c].at = cycle[c].at, cycle'[c].counts = cycle[c].counts
  PROVE  CountRight(c, f)'
<1>1. cycle[c].counts[f] \in Nat /\ cycle[c].at \in Servers
  BY DEF TypeInv, SystemTypeOK, ReplicationTypeOK, Cycle
<1>2. cycle[c].at \in Int
  BY <1>1 DEF Servers
<1>3. CASE cycle[c].pc = "listing"
  <2>1. cycle[c].counts[f] <= Cardinality(HoldersBefore(f, cycle[c].at))
    BY <1>3 DEF CountRight
  <2>2. Cardinality(HoldersBefore(f, cycle[c].at)) \in Nat
    BY <1>2, HoldersBeforeFinite
  <2>3. PICK s \in Servers : s = cycle[c].at
    BY <1>1
  <2>4. /\ Cardinality(HoldersBefore(f, s)) <= Cardinality(HoldersBefore(f, s)')
        /\ Cardinality(HoldersBefore(f, s)') \in Nat
    BY HoldersGrow
  <2>5. cycle[c].counts[f] <= Cardinality(HoldersBefore(f, s)')
    BY <1>1, <2>1, <2>2, <2>3, <2>4
  <2> QED  BY <1>3, <2>3, <2>5 DEF CountRight, HoldersBefore
<1>4. CASE cycle[c].pc = "files"
  <2>1. cycle[c].counts[f] <= Cardinality(Holders(f)')
    BY <1>1, <1>4, HoldersGrow, HoldersFinite DEF CountRight
  <2> QED  BY <1>4, <2>1 DEF CountRight
<1>5. CASE cycle[c].pc \notin {"listing", "files"}
  BY <1>5 DEF CountRight
<1> QED  BY <1>3, <1>4, <1>5

\* Counting the files of the server a scan is at, or passing it by.
LEMMA ScanOnCounts ==
  ASSUME TypeInv, NEW c \in Cycles, cycle[c].pc = "listing",
         NEW counts \in [Files -> Nat], ScanOn(c, counts), dir' = dir,
         \A f \in Files : CountRight(c, f),
         \A f \in Files :
           counts[f] <= cycle[c].counts[f]
                          + (IF f \in dir[cycle[c].at] THEN 1 ELSE 0)
  PROVE  /\ cycle'[c].pc # "delay"
         /\ \A f \in Files : CountRight(c, f)'
         /\ \A d \in Cycles \ {c} : cycle'[d] = cycle[d]
<1>0. /\ cycle \in [Cycles -> Cycle] /\ cycle[c].counts \in [Files -> Nat]
      /\ cycle[c].at \in Servers
  BY DEF TypeInv, SystemTypeOK, ReplicationTypeOK, Cycle
<1> DEFINE s == cycle[c].at
<1>1. ASSUME NEW f \in Files
      PROVE  counts[f] <= Cardinality(HoldersBefore(f, s + 1))
  <2>1. s \in Int /\ s + 1 \in Int
    BY <1>0 DEF Servers
  <2>2. /\ Cardinality(HoldersBefore(f, s)) \in Nat
        /\ Cardinality(HoldersBefore(f, s + 1)) \in Nat
    BY <2>1, HoldersBeforeFinite
  <2>3. cycle[c].counts[f] <= Cardinality(HoldersBefore(f, s))
    BY DEF CountRight
  <2>4. counts[f] \in Nat /\ cycle[c].counts[f] \in Nat
    BY <1>0
  <2>5. CASE f \in dir[s]
    <3>1. Cardinality(HoldersBefore(f, s + 1))
            = Cardinality(HoldersBefore(f, s)) + 1
      BY <1>0, <2>5, HoldersPassed
    <3>2. counts[f] <= cycle[c].counts[f] + 1
      BY <2>5
    <3> HIDE DEF s
    <3> QED  BY <2>2, <2>3, <2>4, <3>1, <3>2
  <2>6. CASE f \notin dir[s]
    <3>1. Cardinality(HoldersBefore(f, s)) <= Cardinality(HoldersBefore(f, s + 1))
      BY <1>0, HoldersNotPassed
    <3>2. counts[f] <= cycle[c].counts[f] + 0
      BY <2>6
    <3> HIDE DEF s
    <3> QED  BY <2>2, <2>3, <2>4, <3>1, <3>2
  <2> QED  BY <2>5, <2>6
<1>2. CASE s < NumberOfServers
  <2>1. cycle' = [cycle EXCEPT ![c].at = @ + 1, ![c].counts = counts]
    BY <1>2 DEF ScanOn
  <2>2. /\ cycle'[c].pc = "listing" /\ cycle'[c].at = s + 1
        /\ cycle'[c].counts = counts
        /\ \A d \in Cycles \ {c} : cycle'[d] = cycle[d]
    BY <1>0, <2>1 DEF Cycle
  <2>3. ASSUME NEW f \in Files  PROVE CountRight(c, f)'
    <3>1. HoldersBefore(f, cycle[c].at)' = HoldersBefore(f, s + 1)
      BY <2>2 DEF HoldersBefore, Holders
    <3> QED  BY <1>1, <2>2, <3>1 DEF CountRight
  <2> QED  BY <2>2, <2>3
<1>3. CASE ~(s < NumberOfServers)
  <2>1. cycle' = [cycle EXCEPT
                    ![c].pc = "files", ![c].at = 1, ![c].counts = counts,
                    ![c].todo = {f \in Files : counts[f] \in 1..(Target - 1)}]
    BY <1>3 DEF ScanOn
  <2>2. /\ cycle'[c].pc = "files" /\ cycle'[c].counts = counts
        /\ \A d \in Cycles \ {c} : cycle'[d] = cycle[d]
    BY <1>0, <2>1 DEF Cycle
  <2>3. ASSUME NEW f \in Files  PROVE CountRight(c, f)'
    <3>1. s + 1 \in Int
      BY <1>0 DEF Servers
    <3>2. Cardinality(HoldersBefore(f, s + 1)) <= Cardinality(Holders(f))
      BY <3>1, HoldersBeforeFinite
    <3>3. counts[f] <= Cardinality(Holders(f))
      BY <1>1, <3>1, <3>2, HoldersBeforeFinite, HoldersFinite
    <3>4. Holders(f)' = Holders(f)
      BY DEF Holders
    <3> QED  BY <2>2, <3>3, <3>4 DEF CountRight
  <2> QED  BY <2>2, <2>3
<1> QED  BY <1>2, <1>3

\* No cycle is moved.
CyclesStay ==
  \A c \in Cycles : /\ cycle'[c].pc = cycle[c].pc
                    /\ cycle'[c].at = cycle[c].at
                    /\ cycle'[c].counts = cycle[c].counts

LEMMA CyclesStayKeep ==
  ASSUME TypeInv, CountInv, [Next]_vars, stops' = stops, lost' \subseteq lost,
         CyclesStay
  PROVE  CountInv'
<1> SUFFICES ASSUME stops = 0, NEW c \in Cycles
             PROVE  /\ lost' = {}
                    /\ cycle'[c].pc # "delay"
                    /\ \A f \in Files : CountRight(c, f)'
  BY DEF CountInv
<1>1. lost = {} /\ cycle[c].pc # "delay" /\ \A f \in Files : CountRight(c, f)
  BY DEF CountInv
<1>2. \A f \in Files : CountRight(c, f)'
  BY <1>1, CountKeeps DEF CyclesStay
<1> QED  BY <1>1, <1>2 DEF CyclesStay

LEMMA StartCycleCounts ==
  ASSUME TypeInv, CountInv, [Next]_vars, ServiceThread
  PROVE  CountInv'
<1>0. PICK c \in Cycles : StartCycle(c)
  BY DEF ServiceThread
<1>1. /\ cycle \in [Cycles -> Cycle] /\ cycle[c].pc = "idle"
      /\ cycle' = [cycle EXCEPT ![c].pc = "listing"]
      /\ UNCHANGED <<lost, dir, stops>>
  BY <1>0 DEF StartCycle, ServiceThread, serverVars, environmentVars, TypeInv,
              SystemTypeOK, ReplicationTypeOK
<1> SUFFICES ASSUME stops = 0, NEW d \in Cycles
             PROVE  /\ lost' = {}
                    /\ cycle'[d].pc # "delay"
                    /\ \A f \in Files : CountRight(d, f)'
  BY <1>1 DEF CountInv
<1>2. lost = {} /\ cycle[d].pc # "delay" /\ \A f \in Files : CountRight(d, f)
  BY DEF CountInv
<1>3. CASE d = c
  <2>1. /\ cycle'[d].pc = "listing" /\ cycle'[d].at = cycle[d].at
        /\ cycle'[d].counts = cycle[d].counts /\ cycle[d].at \in Servers
    BY <1>1, <1>3 DEF Cycle
  <2>2. ASSUME NEW f \in Files  PROVE CountRight(d, f)'
    <3>1. cycle[d].counts[f] = 0
      BY <1>1, <1>2, <1>3 DEF CountRight
    <3>2. PICK s \in Servers : s = cycle[d].at
      BY <2>1
    <3>3. HoldersBefore(f, cycle[d].at)' = HoldersBefore(f, s)
      BY <1>1, <2>1, <3>2 DEF HoldersBefore, Holders
    <3>4. Cardinality(HoldersBefore(f, s)) \in Nat
      BY HoldersBeforeFinite DEF Servers
    <3>5. 0 <= Cardinality(HoldersBefore(f, s))
      BY <3>4
    <3> QED  BY <2>1, <3>1, <3>3, <3>5 DEF CountRight
  <2> QED  BY <1>1, <1>2, <2>1, <2>2
<1>4. CASE d # c
  <2>1. cycle'[d] = cycle[d]
    BY <1>1, <1>4
  <2> QED  BY <1>1, <1>2, <2>1, CountKeeps
<1> QED  BY <1>3, <1>4

LEMMA CycleStepCounts ==
  ASSUME TypeInv, CountInv, [Next]_vars, NEW c \in Cycles, CycleStep(c),
         ~FirstToReadList(c)
  PROVE  CountInv'
<1>0. /\ cycle \in [Cycles -> Cycle] /\ dir \in [Servers -> SUBSET Files]
      /\ cycle[c].at \in Servers /\ cycle[c].counts \in [Files -> Nat]
  BY DEF TypeInv, SystemTypeOK, ReplicationTypeOK, ServerTypeOK, Cycle
<1>1. stops' = stops
  BY DEF CycleStep, environmentVars
<1>2. CASE ListServer(c)
  <2> DEFINE counted == [f \in Files |-> cycle[c].counts[f]
                            + (IF f \in dir[cycle[c].at] THEN 1 ELSE 0)]
  <2> SUFFICES ASSUME stops = 0
               PROVE  /\ lost' = {}
                      /\ \A d \in Cycles :
                           /\ cycle'[d].pc # "delay"
                           /\ \A f \in Files : CountRight(d, f)'
    BY <1>1 DEF CountInv
  <2>1. /\ lost = {} /\ lost' = {} /\ dir' = dir /\ cycle[c].pc = "listing"
        /\ ScanOn(c, counted) \/ ScanOn(c, cycle[c].counts)
    BY <1>2 DEF ListServer, CountInv
  <2>2. /\ counted \in [Files -> Nat]
        /\ \A f \in Files : counted[f] <=
             cycle[c].counts[f] + (IF f \in dir[cycle[c].at] THEN 1 ELSE 0)
        /\ \A f \in Files : cycle[c].counts[f] <=
             cycle[c].counts[f] + (IF f \in dir[cycle[c].at] THEN 1 ELSE 0)
    BY <1>0
  <2>3. \A d \in Cycles : /\ cycle[d].pc # "delay"
                          /\ \A f \in Files : CountRight(d, f)
    BY DEF CountInv
  <2> HIDE DEF counted
  <2>4. /\ cycle'[c].pc # "delay"
        /\ \A f \in Files : CountRight(c, f)'
        /\ \A d \in Cycles \ {c} : cycle'[d] = cycle[d]
    BY <1>0, <2>1, <2>2, <2>3, ScanOnCounts
  <2>5. ASSUME NEW d \in Cycles, d # c
        PROVE  cycle'[d].pc # "delay" /\ \A f \in Files : CountRight(d, f)'
    BY <2>3, <2>4, <2>5, CountKeeps
  <2> QED  BY <2>1, <2>4, <2>5
<1>3. CASE ResumeScan(c)
  <2>1. stops # 0
    BY <1>3 DEF ResumeScan, CountInv
  <2> QED  BY <1>1, <2>1 DEF CountInv
<1>4. CASE NextFile(c)
  <2>1. CyclesStay
    <3>1. PICK f : \/ cycle' = [cycle EXCEPT ![c].todo = @ \ {f}]
                   \/ cycle' = [cycle EXCEPT ![c].todo = @ \ {f}, ![c].cur = f]
      BY <1>4 DEF NextFile
    <3>2. CASE cycle' = [cycle EXCEPT ![c].todo = @ \ {f}]
      BY <1>0, <3>2 DEF CyclesStay, Cycle
    <3>3. CASE cycle' = [cycle EXCEPT ![c].todo = @ \ {f}, ![c].cur = f]
      BY <1>0, <3>3 DEF CyclesStay, Cycle
    <3> QED  BY <3>1, <3>2, <3>3
  <2> QED  BY <1>1, <1>4, <2>1, CyclesStayKeep DEF NextFile, serverVars
<1>5. CASE EndCycle(c)
  <2>1. cycle' = [cycle EXCEPT ![c] = IdleCycle] /\ lost' = lost
    BY <1>5 DEF EndCycle, serverVars
  <2> SUFFICES ASSUME stops = 0, NEW d \in Cycles
               PROVE  /\ lost' = {}
                      /\ cycle'[d].pc # "delay"
                      /\ \A f \in Files : CountRight(d, f)'
    BY <1>1 DEF CountInv
  <2>2. lost = {} /\ cycle[d].pc # "delay" /\ \A f \in Files : CountRight(d, f)
    BY DEF CountInv
  <2>3. CASE d = c
    <3>1. cycle'[d].pc = "idle" /\ \A f \in Files : cycle'[d].counts[f] = 0
      BY <1>0, <2>1, <2>3 DEF IdleCycle
    <3> QED  BY <2>1, <2>2, <3>1 DEF CountRight
  <2>4. CASE d # c
    <3>1. cycle'[d] = cycle[d]
      BY <1>0, <2>1, <2>4
    <3> QED  BY <2>1, <2>2, <3>1, CountKeeps
  <2> QED  BY <2>3, <2>4
<1> QED  BY <1>2, <1>3, <1>4, <1>5 DEF CycleStep, CycleThread

LEMMA LeaveStays ==
  ASSUME TypeInv, NEW c \in Cycles, NEW f \in Files, Leave(c, f)
  PROVE  CyclesStay
<1>1. cycle \in [Cycles -> Cycle]
  BY DEF TypeInv, SystemTypeOK, ReplicationTypeOK
<1>2. PICK r : cycle' = [cycle EXCEPT ![c].cur = r]
  BY DEF Leave
<1> QED  BY <1>1, <1>2 DEF CyclesStay, Cycle

LEMMA CopyStepCounts ==
  ASSUME TypeInv, CountInv, [Next]_vars, NEW c \in Cycles, NEW f \in Files,
         CopyStep(c, f)
  PROVE  CountInv'
<1>1. stops' = stops /\ lost' \subseteq lost
  BY DEF CopyStep, CopyThread, Search, Fetch, Fill, Spread, Send, ResumeCopy,
         serverVars, environmentVars
<1>2. cycle' = cycle \/ Leave(c, f)
  <2>1. \A path : CopyError(c, f, path) => Leave(c, f)
    BY DEF CopyError, EndCopy
  <2>2. EndCopy(c, f) => Leave(c, f)
    BY DEF EndCopy
  <2>3. \A pc, s : CopyTo(c, f, pc, s) => cycle' = cycle
    BY DEF CopyTo
  <2> QED  BY <2>1, <2>2, <2>3 DEF CopyStep, CopyThread, Search, SearchOn, Fetch,
              Fill, Spread, SpreadOn, Send, ResumeCopy
<1>3. CyclesStay
  BY <1>2, LeaveStays DEF CyclesStay
<1> QED  BY <1>1, <1>3, CyclesStayKeep

LEMMA CountNext == TypeInv /\ CountInv /\ [Next]_vars => CountInv'
<1> SUFFICES ASSUME TypeInv, CountInv, [Next]_vars  PROVE CountInv'
  OBVIOUS
<1>1. ASSUME stops' = stops, lost' \subseteq lost, cycle' = cycle
      PROVE  CountInv'
  BY <1>1, CyclesStayKeep DEF CyclesStay
<1>2. ASSUME NEW u \in Uploads, Request(u)  PROVE CountInv'
  BY <1>1, <1>2
     DEF Request, StartUpload, UploadThread, Probe, Connect, Announce, SendBytes,
         FinishTransfer, AbortTransfer, CloseConnection, serverVars,
         replicationVars, environmentVars
<1>3. CASE BeanOnly
  BY <1>1, <1>3 DEF BeanOnly, replicationVars, environmentVars
<1>4. ASSUME NEW k \in ConnIds, Handler(k), ~FirstNotified(k)  PROVE CountInv'
  BY <1>1, <1>4 DEF Handler, Accept, OpenFile, HeaderLost, WriteBytes,
     EndOfStream, UploadingFinished, replicationVars, environmentVars
<1>5. CASE DownloadOnly
  BY <1>1, <1>5 DEF DownloadOnly, replicationVars, environmentVars
<1>6. ASSUME NEW s \in Servers, Stop(s)  PROVE CountInv'
  <2>1. stops \in Nat /\ stops' = stops + 1
    BY <1>6, EnvironmentAssumption DEF Stop, TypeInv, SystemTypeOK
  <2> QED  BY <2>1 DEF CountInv
<1>7. CASE Crash
  BY <1>1, <1>7 DEF Crash, GatewayCrash, replicationVars
<1>8. CASE /\ \E u \in Uploads : SelectFile(u)
           /\ UNCHANGED <<download, replicationVars, environmentVars>>
  BY <1>1, <1>8 DEF SelectFile, serverVars, replicationVars, environmentVars
<1> QED
  BY <1>2, <1>3, <1>4, <1>5, <1>6, <1>7, <1>8, StepKinds, StartCycleCounts,
     CycleStepCounts, CopyStepCounts

\* For any number of servers, files and cycles: while no server has been
\* stopped, no cycle counts a file more often than there are servers that hold
\* it (ReplicationService.java:135).
THEOREM CountsAreReferencesCorrect ==
  Spec => [](stops = 0 => CountsAreReferences)
<1>1. TypeInv /\ CountInv => (stops = 0 => CountsAreReferences)
  <2> SUFFICES ASSUME TypeInv, CountInv, stops = 0, NEW c \in Cycles,
                      NEW f \in Files
               PROVE  cycle[c].counts[f] <= Cardinality(Holders(f))
    BY DEF CountsAreReferences
  <2>1. /\ cycle[c].counts[f] \in Nat /\ cycle[c].at \in Servers
        /\ cycle[c].pc \in {"idle", "listing", "delay", "files"}
    BY DEF TypeInv, SystemTypeOK, ReplicationTypeOK, Cycle
  <2>2. CountRight(c, f) /\ cycle[c].pc # "delay"
    BY DEF CountInv
  <2>3. Cardinality(Holders(f)) \in Nat
    BY HoldersFinite
  <2>4. CASE cycle[c].pc = "listing"
    <3>1. cycle[c].at \in Int
      BY <2>1 DEF Servers
    <3> QED  BY <2>1, <2>2, <2>3, <2>4, <3>1, HoldersBeforeFinite DEF CountRight
  <2>5. CASE cycle[c].pc # "listing"
    BY <2>1, <2>2, <2>3, <2>5 DEF CountRight
  <2> QED  BY <2>4, <2>5
<1> QED
  BY <1>1, TypeInvariance, CountInit, CountNext, PTL DEF Spec

================================================================================
