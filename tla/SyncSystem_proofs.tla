--------------------------- MODULE SyncSystem_proofs ---------------------------
(***************************************************************************)
(* Proofs about SyncSystem, for every number of servers, every set of      *)
(* files, requests, cycles and connections, and any number of stops and    *)
(* crashes.                                                                *)
(***************************************************************************)
EXTENDS SyncSystem, TLAPS

\* What a request and its upload thread know at each point, and what the upload
\* connection holds: bytes of the Part the thread streams, for the name it read.
UploadOK(u) ==
  /\ upload[u].pc \in {"idle", "selected"} => upload[u].name = NoFile
  /\ upload[u].pc \in {"probing", "connecting", "connected", "sending", "sent"}
       => upload[u].name \in Files
  /\ InFlight(u) => part \in Uploads
  /\ upload[u].pc \in {"idle", "selected", "probing", "connecting"}
       => upload[u].src = NoPart /\ conn[u].pc = "free"
  /\ upload[u].pc \in {"connected", "sending", "sent"}
       => upload[u].src \in Uploads
  /\ upload[u].src # NoPart => upload[u].name \in Files
  /\ conn[u].pc # "free" =>
       /\ upload[u].src # NoPart
       /\ conn[u].file = upload[u].name
       /\ conn[u].srv = Tried(u)
       /\ \A x \in conn[u].data : x[2] = upload[u].src

\* The types of everything but the downloads, on which nothing else depends.
SystemTypeOK ==
  /\ ServerTypeOK
  /\ lost \subseteq Clients
  /\ GatewayTypeOK
  /\ ReplicationTypeOK
  /\ stops \in 0..MaxStops
  /\ crashes \in 0..MaxCrashes

TypeInv == SystemTypeOK /\ \A u \in Uploads : UploadOK(u)

-------------------------------------------------------------------------------
(* Type correctness *)

LEMMA TargetNat == Target \in Nat
BY ProtocolAssumption DEF Target, ReplicationAmount

LEMMA FreeConnType == FreeConn \in Conn
BY ProtocolAssumption DEF FreeConn, Conn, Servers

LEMMA TriedType ==
  ASSUME NEW u \in Uploads, GatewayTypeOK
  PROVE  Tried(u) \in Servers
BY GatewayAssumption DEF GatewayTypeOK, Upload, Tried

LEMMA TypeInit == Init => TypeInv
<1> SUFFICES ASSUME Init PROVE TypeInv
  OBVIOUS
<1> USE DEF Init
<1>1. ServerTypeOK
  BY FreeConnType DEF ServerInit, ServerTypeOK, Port
<1>2. GatewayTypeOK
  BY ProtocolAssumption, GatewayAssumption
     DEF GatewayInit, GatewayTypeOK, IdleUpload, Upload, Bean
<1>3. ReplicationTypeOK
  BY ProtocolAssumption, RetryAssumption, ReplicationAssumption
     DEF ReplicationInit, ReplicationTypeOK, IdleCycle, Cycle, NoCopy, Copy,
         Servers, Granted
<1>4. lost \subseteq Clients /\ stops \in 0..MaxStops /\ crashes \in 0..MaxCrashes
  BY EnvironmentAssumption DEF ServerInit
<1>5. ASSUME NEW u \in Uploads PROVE UploadOK(u)
  BY <1>5, ProtocolAssumption
     DEF ServerInit, GatewayInit, UploadOK, IdleUpload, FreeConn, InFlight,
         ConnIds
<1> QED
  BY <1>1, <1>2, <1>3, <1>4, <1>5 DEF TypeInv, SystemTypeOK

\* What a request knows is not touched by a step that leaves its thread and its
\* connection alone.
LEMMA UploadFrame ==
  ASSUME NEW v \in Uploads, UploadOK(v),
         upload'[v] = upload[v], conn'[v] = conn[v],
         part \in Uploads => part' \in Uploads
  PROVE  UploadOK(v)'
BY DEF UploadOK, InFlight, Tried

LEMMA ReplicationFrame ==
  ASSUME ReplicationTypeOK, UNCHANGED replicationVars
  PROVE  ReplicationTypeOK'
BY DEF ReplicationTypeOK, replicationVars

\* The steps of a request and its thread.
LEMMA RequestType ==
  ASSUME TypeInv, NEW u \in Uploads, Request(u)
  PROVE  TypeInv'
<1> USE DEF TypeInv, SystemTypeOK
<1> DEFINE Types == /\ upload' \in [Uploads -> Upload]
                    /\ conn' \in [ConnIds -> Conn]
                    /\ uploadingList' \in [Files -> Nat]
                    /\ files' \subseteq Files
           Rest == /\ UNCHANGED <<port, dir, bytes, bean, part,
                                   registering, replicationVars,
                                   environmentVars>>
                   /\ lost' \subseteq lost
                   /\ \A v \in Uploads \ {u} : /\ upload'[v] = upload[v]
                                               /\ conn'[v] = conn[v]
<1>0. ASSUME Types, Rest, UploadOK(u)'
      PROVE  TypeInv'
  <2>1. ServerTypeOK' /\ lost' \subseteq Clients
    BY <1>0 DEF ServerTypeOK
  <2>2. GatewayTypeOK'
    BY <1>0 DEF GatewayTypeOK
  <2>3. ReplicationTypeOK'
    BY <1>0, ReplicationFrame
  <2>4. stops' \in 0..MaxStops /\ crashes' \in 0..MaxCrashes
    BY <1>0 DEF environmentVars
  <2>5. ASSUME NEW v \in Uploads PROVE UploadOK(v)'
    <3>1. CASE v = u
      BY <3>1, <1>0
    <3>2. CASE v # u
      BY <3>2, <1>0, UploadFrame
    <3> QED BY <3>1, <3>2
  <2> QED BY <2>1, <2>2, <2>3, <2>4, <2>5
<1> USE DEF Request, serverVars
<1>U. upload[u] \in Upload /\ UploadOK(u) /\ conn[u] \in Conn
  BY DEF GatewayTypeOK, ServerTypeOK, ConnIds
<1>T. Tried(u) \in Servers
  BY TriedType
<1>1. CASE StartUpload(u)
  <2> USE <1>1 DEF StartUpload
  <2>1. part \in Uploads
    BY DEF UploadOK, InFlight
  <2>a. /\ upload' \in [Uploads -> Upload]
        /\ upload'[u].pc = "probing"
        /\ upload'[u].name \in Files
        /\ upload'[u].src = upload[u].src
    BY <2>1, <1>U, ProtocolAssumption DEF Upload, GatewayTypeOK
  <2>2. Types
    BY <2>a DEF GatewayTypeOK, ServerTypeOK
  <2>3. UploadOK(u)'
    BY <2>1, <2>a, <1>U DEF UploadOK, InFlight
  <2>4. Rest
    BY DEF GatewayTypeOK
  <2> QED BY <1>0, <2>2, <2>3, <2>4
<1>2. CASE Probe(u)
  <2> USE <1>2 DEF Probe
  <2>a. /\ upload' \in [Uploads -> Upload]
        /\ upload'[u].pc \in {"probing", "connecting", "done"}
        /\ upload'[u].name = upload[u].name
        /\ upload'[u].src = upload[u].src
    <3>1. upload[u].at # Len(GatewayOrder)
            => upload[u].at + 1 \in 1..Len(GatewayOrder)
      BY <1>U, GatewayAssumption DEF Upload
    <3>2. CASE upload' = [upload EXCEPT ![u].pc = "connecting"]
      BY <3>2, <1>U DEF Upload, GatewayTypeOK
    <3>3. CASE upload' = [upload EXCEPT ![u].pc = "done"]
      BY <3>3, <1>U DEF Upload, GatewayTypeOK
    <3>4. CASE /\ upload[u].at # Len(GatewayOrder)
               /\ upload' = [upload EXCEPT ![u].at = @ + 1]
      BY <3>1, <3>4, <1>U DEF Upload, GatewayTypeOK
    <3> QED BY <3>2, <3>3, <3>4
  <2>1. Types
    BY <2>a DEF GatewayTypeOK, ServerTypeOK
  <2>2. UploadOK(u)'
    BY <2>a, <1>U DEF UploadOK, InFlight
  <2>3. Rest
    BY DEF GatewayTypeOK
  <2> QED BY <1>0, <2>1, <2>2, <2>3
<1>3. CASE Connect(u)
  <2> USE <1>3 DEF Connect
  <2>1. part \in Uploads /\ upload[u].name \in Files
    BY <1>U DEF UploadOK, InFlight
  <2>2. NewConn(Tried(u), upload[u].name, {}, "open") \in Conn
    BY <1>T, <2>1, ProtocolAssumption DEF NewConn, Conn
  <2>a. /\ upload' \in [Uploads -> Upload]
        /\ upload'[u].name = upload[u].name
        /\ upload'[u].at = upload[u].at
        /\ \/ /\ upload'[u].pc = "connected"
              /\ upload'[u].src = part
              /\ conn'[u] = NewConn(Tried(u), upload[u].name, {}, "open")
           \/ /\ upload'[u].pc = "done"
              /\ upload'[u].src = upload[u].src
              /\ conn' = conn
    <3>1. CASE ~Refuses(Tried(u))
      <4>1. upload' = [upload EXCEPT ![u].pc = "connected", ![u].src = part]
        BY <3>1
      <4>2. conn'[u] = NewConn(Tried(u), upload[u].name, {}, "open")
        BY <3>1 DEF ServerTypeOK, ConnIds
      <4>3. upload' \in [Uploads -> Upload]
        BY <4>1, <2>1 DEF Upload, GatewayTypeOK
      <4>4. upload'[u] = [upload[u] EXCEPT !.pc = "connected", !.src = part]
        BY <4>1 DEF GatewayTypeOK
      <4> QED BY <4>2, <4>3, <4>4, <1>U DEF Upload
    <3>2. CASE Refuses(Tried(u))
      BY <3>2, <1>U DEF Upload, GatewayTypeOK
    <3> QED BY <3>1, <3>2
  <2>b. conn' \in [ConnIds -> Conn]
    BY <2>2 DEF ServerTypeOK
  <2>3. Types
    BY <2>a, <2>b DEF GatewayTypeOK
  <2>4. UploadOK(u)'
    BY <1>U, <2>1, <2>a, ProtocolAssumption
       DEF UploadOK, InFlight, NewConn, Tried
  <2>5. Rest
    <3>1. \A v \in Uploads \ {u} : conn'[v] = conn[v]
      BY DEF ServerTypeOK, ConnIds
    <3>2. \A v \in Uploads \ {u} : upload'[v] = upload[v]
      <4>1. CASE ~Refuses(Tried(u))
        BY <4>1 DEF GatewayTypeOK
      <4>2. CASE Refuses(Tried(u))
        BY <4>2 DEF GatewayTypeOK
      <4> QED BY <4>1, <4>2
    <3> QED BY <3>1, <3>2
  <2> QED BY <1>0, <2>3, <2>4, <2>5
<1>4. CASE Announce(u)
  <2> USE <1>4 DEF Announce
  <2>a. upload' \in [Uploads -> Upload]
    BY DEF Upload, GatewayTypeOK
  <2>b. uploadingList' \in [Files -> Nat]
    BY <1>U DEF UploadOK, GatewayTypeOK
  <2>1. Types
    BY <2>a, <2>b DEF GatewayTypeOK, ServerTypeOK
  <2>2. UploadOK(u)'
    BY <1>U DEF UploadOK, InFlight, GatewayTypeOK, Tried
  <2>3. Rest
    BY DEF GatewayTypeOK
  <2> QED BY <1>0, <2>1, <2>2, <2>3
<1>5. CASE SendBytes(u)
  <2> USE <1>5 DEF SendBytes
  <2>1. upload[u].src \in Uploads /\ upload[u].sent + 1 \in 1..FileLength
    BY <1>U, ProtocolAssumption DEF UploadOK, Upload
  <2>2. <<upload[u].sent + 1, upload[u].src>> \in Chunk
    BY <2>1 DEF Chunk
  <2>3. upload' \in [Uploads -> Upload]
    <3>1. upload[u].sent + 1 \in 0..FileLength
      BY <2>1, ProtocolAssumption
    <3> QED BY <3>1 DEF Upload, GatewayTypeOK
  <2>4. conn' \in [ConnIds -> Conn]
    BY <2>2 DEF Conn, ServerTypeOK
  <2>5. Types
    BY <2>3, <2>4 DEF GatewayTypeOK
  <2>6. UploadOK(u)'
    BY <1>U DEF UploadOK, InFlight, GatewayTypeOK, ServerTypeOK, ConnIds, Tried
  <2>7. Rest
    BY DEF GatewayTypeOK, ServerTypeOK
  <2> QED BY <1>0, <2>5, <2>6, <2>7
<1>6. CASE FinishTransfer(u)
  <2> USE <1>6 DEF FinishTransfer
  <2>1. Types
    BY <1>U DEF Upload, GatewayTypeOK, ServerTypeOK, UploadOK
  <2>2. UploadOK(u)'
    BY <1>U DEF UploadOK, InFlight, GatewayTypeOK, Tried
  <2>3. Rest
    BY DEF GatewayTypeOK
  <2> QED BY <1>0, <2>1, <2>2, <2>3
<1>7. CASE AbortTransfer(u)
  <2> USE <1>7 DEF AbortTransfer
  <2>1. Types
    BY DEF Upload, GatewayTypeOK, ServerTypeOK
  <2>2. UploadOK(u)'
    BY <1>U DEF UploadOK, InFlight, GatewayTypeOK, Tried
  <2>3. Rest
    BY DEF GatewayTypeOK
  <2> QED BY <1>0, <2>1, <2>2, <2>3
<1>8. CASE CloseConnection(u)
  <2> USE <1>8 DEF CloseConnection
  <2>1. upload' \in [Uploads -> Upload]
    BY DEF Upload, GatewayTypeOK
  <2>2. conn' \in [ConnIds -> Conn]
    BY DEF Conn, ServerTypeOK
  <2>3. Types
    BY <2>1, <2>2 DEF GatewayTypeOK
  <2>4. UploadOK(u)'
    BY <1>U DEF UploadOK, InFlight, GatewayTypeOK, ServerTypeOK, ConnIds, Tried
  <2>5. Rest
    BY DEF GatewayTypeOK, ServerTypeOK
  <2> QED BY <1>0, <2>3, <2>4, <2>5
<1> QED
  BY <1>1, <1>2, <1>3, <1>4, <1>5, <1>6, <1>7, <1>8 DEF UploadThread

\* The steps of a server's handler of connection k.
LEMMA HandlerType ==
  ASSUME TypeInv, NEW k \in ConnIds, Handler(k), ~FirstNotified(k)
  PROVE  TypeInv'
<1> USE DEF TypeInv, SystemTypeOK
<1> DEFINE Types == /\ dir' \in [Servers -> SUBSET Files]
                    /\ bytes' \in [Servers -> [Files -> SUBSET Chunk]]
                    /\ conn' \in [ConnIds -> Conn]
                    /\ uploadingList' \in [Files -> Nat]
           Kept == \/ conn'[k].pc = "free"
                     \/ /\ conn[k].pc # "free"
                        /\ conn'[k].file = conn[k].file
                        /\ conn'[k].srv = conn[k].srv
                        /\ conn'[k].data = conn[k].data
           Rest == /\ UNCHANGED <<port, lost, bean, part, upload,
                                   files, registering, replicationVars,
                                   environmentVars>>
                   /\ \A h \in ConnIds \ {k} : conn'[h] = conn[h]
<1>0. ASSUME Types, Kept, Rest
      PROVE  TypeInv'
  <2>1. ServerTypeOK' /\ lost' \subseteq Clients
    BY <1>0 DEF ServerTypeOK
  <2>2. GatewayTypeOK'
    BY <1>0 DEF GatewayTypeOK
  <2>3. ReplicationTypeOK'
    BY <1>0, ReplicationFrame
  <2>4. stops' \in 0..MaxStops /\ crashes' \in 0..MaxCrashes
    BY <1>0 DEF environmentVars
  <2>5. ASSUME NEW v \in Uploads PROVE UploadOK(v)'
    <3>1. CASE v = k
      <4>1. UploadOK(v)
        OBVIOUS
      <4>2. upload'[v] = upload[v] /\ part' = part
        BY <1>0
      <4>3. conn'[v].pc = "free" \/ /\ conn[v].pc # "free"
                                    /\ conn'[v].file = conn[v].file
                                    /\ conn'[v].srv = conn[v].srv
                                    /\ conn'[v].data = conn[v].data
        BY <3>1, <1>0
      <4> QED BY <4>1, <4>2, <4>3 DEF UploadOK, InFlight, Tried
    <3>2. CASE v # k
      <4>1. conn'[v] = conn[v] /\ upload'[v] = upload[v] /\ part' = part
        BY <3>2, <1>0 DEF ConnIds
      <4> QED BY <4>1, UploadFrame
    <3> QED BY <3>1, <3>2
  <2> QED BY <2>1, <2>2, <2>3, <2>4, <2>5
<1> USE DEF Handler, gatewayVars
<1>C. conn[k] \in Conn
  BY DEF ServerTypeOK
<1>1. CASE Accept(k) /\ UNCHANGED gatewayVars
  <2> USE <1>1 DEF Accept
  <2>1. conn' \in [ConnIds -> Conn] /\ Kept
    BY <1>C DEF Conn, ServerTypeOK
  <2>2. Types /\ Rest
    BY <2>1 DEF ServerTypeOK, GatewayTypeOK
  <2> QED BY <1>0, <2>1, <2>2
<1>2. CASE OpenFile(k) /\ UNCHANGED gatewayVars
  <2> USE <1>2 DEF OpenFile
  <2>1. conn' \in [ConnIds -> Conn] /\ Kept
    BY <1>C DEF Conn, ServerTypeOK
  <2>2. dir' \in [Servers -> SUBSET Files]
    BY <1>C DEF Conn, ServerTypeOK
  <2>3. bytes' \in [Servers -> [Files -> SUBSET Chunk]]
    BY <1>C DEF Conn, ServerTypeOK
  <2>4. Types /\ Rest
    BY <2>1, <2>2, <2>3 DEF ServerTypeOK, GatewayTypeOK
  <2> QED BY <1>0, <2>1, <2>4
<1>3. CASE HeaderLost(k) /\ UNCHANGED gatewayVars
  <2> USE <1>3 DEF HeaderLost
  <2>1. conn' \in [ConnIds -> Conn] /\ Kept
    BY FreeConnType DEF ServerTypeOK, FreeConn
  <2>2. Types /\ Rest
    BY <2>1 DEF ServerTypeOK, GatewayTypeOK
  <2> QED BY <1>0, <2>1, <2>2
<1>4. CASE WriteBytes(k) /\ UNCHANGED gatewayVars
  <2> USE <1>4 DEF WriteBytes
  <2>1. conn[k].got + 1 \in 0..FileLength
    BY <1>C, ProtocolAssumption DEF Unread, Conn, Chunk
  <2>2. conn' \in [ConnIds -> Conn] /\ Kept
    BY <2>1, <1>C DEF Conn, ServerTypeOK
  <2>3. At(conn[k].data, conn[k].got + 1) \in SUBSET Chunk
    BY <1>C DEF At, Conn
  <2>4. bytes' \in [Servers -> [Files -> SUBSET Chunk]]
    BY <1>C, <2>3 DEF Conn, ServerTypeOK, Overwrite
  <2>5. Types /\ Rest
    BY <2>2, <2>4 DEF ServerTypeOK, GatewayTypeOK
  <2> QED BY <1>0, <2>2, <2>5
<1>5. CASE EndOfStream(k) /\ UNCHANGED gatewayVars
  <2> USE <1>5 DEF EndOfStream
  <2>1. conn' \in [ConnIds -> Conn] /\ Kept
    BY <1>C DEF Conn, ServerTypeOK
  <2>2. Types /\ Rest
    BY <2>1 DEF ServerTypeOK, GatewayTypeOK
  <2> QED BY <1>0, <2>1, <2>2
<1>6. CASE UploadingFinished(k)
  <2> USE <1>6 DEF UploadingFinished
  <2>1. conn' \in [ConnIds -> Conn] /\ Kept
    BY FreeConnType DEF ServerTypeOK, FreeConn
  <2>2. uploadingList' \in [Files -> Nat]
    <3>1. Removed(uploadingList, conn[k].file) \in [Files -> Nat]
      BY <1>C DEF Removed, GatewayTypeOK, Conn
    <3> QED BY <3>1 DEF GatewayTypeOK
  <2>3. Types /\ Rest
    BY <2>1, <2>2 DEF ServerTypeOK
  <2> QED BY <1>0, <2>1, <2>3
<1> QED
  BY <1>1, <1>2, <1>3, <1>4, <1>5, <1>6

\* The steps that create the bean, ask servers for their files, start servers and
\* answer their registrations touch no file, no connection and no thread, and
\* leave a bean that serves requests in place.
BeanOnly ==
  /\ UNCHANGED <<dir, bytes, conn, lost, part, upload, uploadingList, download,
                 replicationVars, environmentVars>>
  /\ port' \in [Servers -> Port]
  /\ bean' \in Bean
  /\ bean = "ready" => bean' = "ready"
  /\ registering' \subseteq Servers
  /\ files' \subseteq Files

BeanStep ==
  \/ \E s \in Servers : ServerRun(s) \/ Registration(s)
  \/ InitThread
  \/ /\ \/ \E s \in Servers : StartServer(s)
        \/ GatewayStart
        \/ BrowserVisits
        \/ \E k \in ConnIds : FirstNotified(k)
        \/ \E c \in Cycles : FirstToReadList(c)
     /\ UNCHANGED <<download, replicationVars, environmentVars>>

LEMMA BeanSteps ==
  ASSUME TypeInv, BeanStep
  PROVE  BeanOnly
<1>T. /\ port \in [Servers -> Port] /\ bean \in Bean
      /\ registering \subseteq Servers /\ files \subseteq Files
      /\ dir \in [Servers -> SUBSET Files]
  BY DEF TypeInv, SystemTypeOK, ServerTypeOK, GatewayTypeOK
<1>C. CreateBean =>
        bean # "ready" /\ bean' \in Bean /\ registering' \subseteq Servers
  BY DEF CreateBean, Bean
<1>1. CASE \E s \in Servers : ServerRun(s)
  BY <1>1, <1>T DEF ServerRun, Registered, BeanOnly, Port
<1>2. CASE \E s \in Servers : Registration(s)
  BY <1>2, <1>T DEF Registration, FetchFileList, serverVars, BeanOnly
<1>3. CASE InitThread
  BY <1>3, <1>T DEF InitThread, InitReturns, serverVars, BeanOnly, Bean
<1>4. CASE /\ \E s \in Servers : StartServer(s)
           /\ UNCHANGED <<download, replicationVars, environmentVars>>
  <2>1. PICK s \in Servers : StartServer(s)
    BY <1>4
  <2>2. \E how \in Port : port' = [port EXCEPT ![s] = how]
    BY <2>1 DEF StartServer, Port
  <2>3. /\ bean' \in Bean /\ registering' \subseteq Servers
        /\ bean = "ready" => bean' = "ready"
    BY <2>1, <1>C, <1>T DEF StartServer
  <2> QED BY <1>4, <2>1, <2>2, <2>3, <1>T DEF StartServer, BeanOnly
<1>5. CASE /\ GatewayStart \/ BrowserVisits
           /\ UNCHANGED <<download, replicationVars, environmentVars>>
  BY <1>5, <1>C, <1>T DEF GatewayStart, BrowserVisits, serverVars, BeanOnly, Bean
<1>6. CASE /\ \/ \E k \in ConnIds : FirstNotified(k)
              \/ \E c \in Cycles : FirstToReadList(c)
           /\ UNCHANGED <<download, replicationVars, environmentVars>>
  BY <1>6, <1>C, <1>T DEF FirstNotified, FirstToReadList, serverVars, BeanOnly
<1> QED BY <1>1, <1>2, <1>3, <1>4, <1>5, <1>6 DEF BeanStep

LEMMA BeanOnlyType ==
  ASSUME TypeInv, BeanOnly
  PROVE  TypeInv'
<1> USE DEF TypeInv, SystemTypeOK, BeanOnly
<1>1. ServerTypeOK' /\ lost' \subseteq Clients
  BY DEF ServerTypeOK
<1>2. GatewayTypeOK'
  BY DEF GatewayTypeOK
<1>3. ReplicationTypeOK'
  BY ReplicationFrame
<1>4. stops' \in 0..MaxStops /\ crashes' \in 0..MaxCrashes
  BY DEF environmentVars
<1>5. ASSUME NEW v \in Uploads PROVE UploadOK(v)'
  BY UploadFrame
<1> QED BY <1>1, <1>2, <1>3, <1>4, <1>5

\* The steps of downloads change nothing else, except that an error is noticed.
DownloadOnly ==
  /\ UNCHANGED <<port, dir, bytes, conn, gatewayVars, replicationVars,
                 environmentVars>>
  /\ lost' \subseteq lost

LEMMA DownloadsOnly ==
  /\ \A d \in Downloads : DownloadStep(d) => DownloadOnly
  /\ \A d \in Downloads :
       StartDownload(d) /\ UNCHANGED <<replicationVars, environmentVars>>
         => DownloadOnly
  /\ UNCHANGED vars => DownloadOnly
BY DEF DownloadStep, DownloadThread, Ping, ResumeDownload, AskHasFile, AskForFile,
       StreamBytes, EndDownload, StartDownload, DownloadUnchanged, serverVars,
       DownloadOnly, vars

LEMMA DownloadOnlyType ==
  ASSUME TypeInv, DownloadOnly
  PROVE  TypeInv'
<1> USE DEF DownloadOnly, gatewayVars, environmentVars, TypeInv, SystemTypeOK
<1>1. ServerTypeOK' /\ GatewayTypeOK' /\ ReplicationTypeOK'
  BY ReplicationFrame DEF ServerTypeOK, GatewayTypeOK
<1>2. ASSUME NEW u \in Uploads PROVE UploadOK(u)'
  BY UploadFrame
<1> QED BY <1>1, <1>2

\* The steps, by what they may change.
LEMMA StepKinds ==
  ASSUME TypeInv, [Next]_vars
  PROVE  \/ \E u \in Uploads : Request(u)
         \/ /\ \E u \in Uploads : SelectFile(u)
            /\ UNCHANGED <<download, replicationVars, environmentVars>>
         \/ \E k \in ConnIds : Handler(k) /\ ~FirstNotified(k)
         \/ ServiceThread
         \/ \E c \in Cycles : CycleStep(c) /\ ~FirstToReadList(c)
         \/ \E c \in Cycles, f \in Files : CopyStep(c, f)
         \/ \E s \in Servers : Stop(s)
         \/ Crash
         \/ BeanStep /\ BeanOnly
         \/ DownloadOnly
<1>1. ASSUME NEW k \in ConnIds, Handler(k), FirstNotified(k) PROVE BeanStep
  BY <1>1 DEF Handler, BeanStep
<1>2. ASSUME NEW c \in Cycles, CycleStep(c), FirstToReadList(c) PROVE BeanStep
  <2>1. UNCHANGED replicationVars
    BY <1>2 DEF FirstToReadList
  <2> QED BY <1>2, <2>1 DEF CycleStep, BeanStep
<1>3. SystemStep =>
         \/ \E u \in Uploads : Request(u)
         \/ \E k \in ConnIds : Handler(k) /\ ~FirstNotified(k)
         \/ ServiceThread
         \/ \E c \in Cycles : CycleStep(c) /\ ~FirstToReadList(c)
         \/ \E c \in Cycles, f \in Files : CopyStep(c, f)
         \/ BeanStep
         \/ DownloadOnly
  BY <1>1, <1>2, DownloadsOnly DEF SystemStep, BeanStep
<1>4. EnvironmentStep =>
         \/ /\ \E u \in Uploads : SelectFile(u)
            /\ UNCHANGED <<download, replicationVars, environmentVars>>
         \/ \E s \in Servers : Stop(s)
         \/ Crash
         \/ BeanStep
         \/ DownloadOnly
  BY DownloadsOnly DEF EnvironmentStep, BeanStep
<1> QED BY <1>3, <1>4, BeanSteps, DownloadsOnly DEF Next

\* A file is selected, a server stops, or the web application crashes.
LEMMA EnvironmentType ==
  ASSUME TypeInv,
         \/ /\ \E u \in Uploads : SelectFile(u)
            /\ UNCHANGED <<download, replicationVars, environmentVars>>
         \/ \E s \in Servers : Stop(s)
         \/ Crash
  PROVE  TypeInv'
<1> USE DEF TypeInv, SystemTypeOK
<1>1. ASSUME NEW u \in Uploads, SelectFile(u),
             UNCHANGED <<replicationVars, environmentVars>>
      PROVE  TypeInv'
  <2> USE <1>1 DEF SelectFile, serverVars
  <2>1. ServerTypeOK' /\ lost' \subseteq Clients
    BY DEF ServerTypeOK
  <2>2. GatewayTypeOK'
    BY DEF GatewayTypeOK, Upload
  <2>3. ReplicationTypeOK'
    BY ReplicationFrame
  <2>4. stops' \in 0..MaxStops /\ crashes' \in 0..MaxCrashes
    BY DEF environmentVars
  <2>5. UploadOK(u)'
    BY DEF UploadOK, InFlight, GatewayTypeOK
  <2>6. ASSUME NEW v \in Uploads \ {u} PROVE UploadOK(v)'
    <3>1. upload'[v] = upload[v] /\ conn'[v] = conn[v] /\ part' \in Uploads
      BY DEF GatewayTypeOK
    <3> QED BY <3>1, UploadFrame
  <2> QED BY <2>1, <2>2, <2>3, <2>4, <2>5, <2>6
<1>4. ASSUME NEW s \in Servers, Stop(s)
      PROVE  TypeInv'
  <2> USE <1>4 DEF Stop, StopServer
  <2>0. PICK clients \in SUBSET PendingAt(s) : StopServer(s, clients)
    OBVIOUS
  <2> USE <2>0
  <2>1. ServerTypeOK'
    BY FreeConnType DEF ServerTypeOK, Port
  <2>2. lost' \subseteq Clients
    BY DEF Clients, PendingAt
  <2>3. GatewayTypeOK'
    BY DEF GatewayTypeOK, gatewayVars
  <2>4. ReplicationTypeOK'
    BY ReplicationFrame
  <2>5. stops' \in 0..MaxStops /\ crashes' \in 0..MaxCrashes
    BY EnvironmentAssumption
  <2>6. ASSUME NEW v \in Uploads PROVE UploadOK(v)'
    <3>1. conn'[v] = conn[v] \/ conn'[v] = FreeConn
      BY DEF ConnIds
    <3>2. upload'[v] = upload[v] /\ part' = part /\ UploadOK(v)
      BY DEF gatewayVars
    <3>3. CASE conn'[v] = conn[v]
      BY <3>2, <3>3, UploadFrame
    <3>4. CASE conn'[v] = FreeConn
      <4>1. conn'[v].pc = "free"
        BY <3>4 DEF FreeConn
      <4> QED BY <4>1, <3>2 DEF UploadOK, InFlight, Tried
    <3> QED BY <3>1, <3>3, <3>4
  <2> QED BY <2>1, <2>2, <2>3, <2>4, <2>5, <2>6
<1>5. ASSUME Crash
      PROVE  TypeInv'
  <2> USE <1>5 DEF Crash, GatewayCrash
  <2>1. conn' \in [ConnIds -> Conn]
    <3> SUFFICES ASSUME NEW k \in ConnIds PROVE conn'[k] \in Conn
      OBVIOUS
    <3>1. conn'[k] = conn[k] \/ conn'[k] = [conn[k] EXCEPT !.end = "reset"]
      OBVIOUS
    <3> QED BY <3>1 DEF ServerTypeOK, Conn
  <2>2. ServerTypeOK' /\ lost' \subseteq Clients
    BY <2>1 DEF ServerTypeOK, Port
  <2>3. GatewayTypeOK'
    <3>1. upload' \in [Uploads -> Upload]
      <4> SUFFICES ASSUME NEW u \in Uploads
                   PROVE  upload'[u] \in Upload
        OBVIOUS
      <4>1. upload[u] \in Upload
        BY DEF GatewayTypeOK
      <4>2. upload'[u] = upload[u] \/ upload'[u] = [upload[u] EXCEPT !.pc = "done"]
        OBVIOUS
      <4> QED BY <4>1, <4>2 DEF Upload
    <3> QED BY <3>1 DEF GatewayTypeOK, Bean
  <2>4. ReplicationTypeOK'
    BY ReplicationFrame
  <2>5. stops' \in 0..MaxStops /\ crashes' \in 0..MaxCrashes
    BY EnvironmentAssumption
  <2>6. ASSUME NEW v \in Uploads PROVE UploadOK(v)'
    <3>1. conn'[v] = conn[v] \/ conn'[v] = [conn[v] EXCEPT !.end = "reset"]
      BY DEF ConnIds
    <3>2. /\ conn'[v].pc = conn[v].pc /\ conn'[v].file = conn[v].file
          /\ conn'[v].srv = conn[v].srv /\ conn'[v].data = conn[v].data
      BY <3>1 DEF ServerTypeOK, Conn, ConnIds
    <3>3. /\ upload'[v].pc = IF InFlight(v) THEN "done" ELSE upload[v].pc
          /\ upload'[v].name = upload[v].name /\ upload'[v].src = upload[v].src
          /\ upload'[v].at = upload[v].at
      BY DEF GatewayTypeOK, Upload
    <3> QED BY <3>2, <3>3 DEF UploadOK, InFlight, Tried
  <2> QED BY <2>1, <2>2, <2>3, <2>4, <2>5, <2>6
<1> QED
  BY <1>1, <1>4, <1>5

\* The paths an error takes lead through operators of the cycle.
LEMMA PathTypes ==
  /\ ScanPath \in Seq(Operators)
  /\ \A f \in Files : /\ FirstPath(f) \in Seq(Operators)
                      /\ HasPath(f) \in Seq(Operators)
                      /\ SearchPath(f) \in Seq(Operators)
                      /\ RestPath(f) \in Seq(Operators)
                      /\ SpreadPath(f) \in Seq(Operators)
<1>1. Alive \in Operators /\ <<"lists", NoFile>> \in Operators
        /\ <<"entries", NoFile>> \in Operators
  BY DEF Operators, Alive
<1>2. ASSUME NEW f \in Files
      PROVE  /\ <<"has", f>> \in Operators /\ <<"first", f>> \in Operators
             /\ <<"distribute", f>> \in Operators /\ <<"rest", f>> \in Operators
  BY DEF Operators
<1>S. \A x, y \in Operators : <<x>> \in Seq(Operators)
                               /\ <<x, y>> \in Seq(Operators)
  OBVIOUS
<1>3. ScanPath \in Seq(Operators)
  BY <1>1 DEF ScanPath
<1>4. ASSUME NEW f \in Files
      PROVE  /\ FirstPath(f) \in Seq(Operators)
             /\ HasPath(f) \in Seq(Operators)
             /\ SearchPath(f) \in Seq(Operators)
             /\ RestPath(f) \in Seq(Operators)
             /\ SpreadPath(f) \in Seq(Operators)
  <2>1. FirstPath(f) \in Seq(Operators) /\ RestPath(f) \in Seq(Operators)
    BY <1>2, <1>S DEF FirstPath, RestPath
  <2>2. HasPath(f) \in Seq(Operators)
    <3>1. <<<<"has", f>>>> \in Seq(Operators)
      BY <1>2, <1>S
    <3> QED BY <3>1, <2>1 DEF HasPath
  <2>3. SearchPath(f) \in Seq(Operators)
    <3>1. <<Alive>> \in Seq(Operators)
      BY <1>1
    <3> QED BY <3>1, <2>2 DEF SearchPath
  <2>4. SpreadPath(f) \in Seq(Operators)
    <3>1. <<<<"distribute", f>>>> \in Seq(Operators)
      BY <1>2, <1>S
    <3> QED BY <3>1, <2>1 DEF SpreadPath
  <2> QED BY <2>1, <2>2, <2>3, <2>4
<1> QED BY <1>3, <1>4

\* A retry granted stays within the retries an operator may grant.
LEMMA RegrantedType ==
  ASSUME ReplicationTypeOK, NEW c \in Cycles, NEW path \in Seq(Operators),
         NEW i \in 1..Len(path), HandledAt(granted[c], path, i)
  PROVE  [granted EXCEPT ![c] = Regranted(@, path[i])]
           \in [Cycles -> [Operators -> Granted]]
<1>1. path[i] \in Operators
  OBVIOUS
<1>2. granted[c] \in [Operators -> Granted]
  BY DEF ReplicationTypeOK
<1>3. granted[c][path[i]] + 1 \in Granted
  BY <1>1, <1>2, RetryAssumption DEF HandledAt, Grants, Granted
<1>4. Regranted(granted[c], path[i]) \in [Operators -> Granted]
  BY <1>1, <1>2, <1>3 DEF Regranted
<1> QED BY <1>4 DEF ReplicationTypeOK

LEMMA ReleasedType ==
  ASSUME ReplicationTypeOK, NEW c \in Cycles
  PROVE  Released(c) \in Cycles \cup {NoCycle}
BY DEF Released, ReplicationTypeOK

LEMMA IdleTypes == IdleCycle \in Cycle /\ NoCopy \in Copy
BY ProtocolAssumption DEF IdleCycle, NoCopy, Cycle, Copy, Servers

\* The pipeline of one copy takes a new state.
LEMMA CopyUpdateType ==
  ASSUME ReplicationTypeOK, NEW c \in Cycles, NEW f \in Files,
         NEW r \in Copy,
         copy' = [copy EXCEPT ![c] = [copy[c] EXCEPT ![f] = r]]
  PROVE  copy' \in [Cycles -> [Files -> Copy]]
<1>1. copy[c] \in [Files -> Copy]
  BY DEF ReplicationTypeOK
<1> QED BY <1>1 DEF ReplicationTypeOK

LEMMA CopyToType ==
  ASSUME ReplicationTypeOK, NEW c \in Cycles, NEW f \in Files,
         NEW pc \in {"search", "fetch", "fill", "spread", "send"},
         NEW s \in Servers, CopyTo(c, f, pc, s)
  PROVE  /\ copy' \in [Cycles -> [Files -> Copy]]
         /\ cycle' \in [Cycles -> Cycle]
         /\ granted' \in [Cycles -> [Operators -> Granted]]
<1> DEFINE r == [copy[c][f] EXCEPT !.pc = pc, !.at = s]
<1>1. copy[c] \in [Files -> Copy] /\ copy[c][f] \in Copy
  BY DEF ReplicationTypeOK
<1>2. r \in Copy
  BY <1>1 DEF Copy
<1>3. copy' = [copy EXCEPT ![c] = [copy[c] EXCEPT ![f] = r]]
  BY <1>1 DEF CopyTo, ReplicationTypeOK
<1> HIDE DEF r
<1>4. copy' \in [Cycles -> [Files -> Copy]]
  BY <1>2, <1>3, CopyUpdateType
<1> QED BY <1>4 DEF CopyTo, ReplicationTypeOK

LEMMA LeaveType ==
  ASSUME ReplicationTypeOK, NEW c \in Cycles, NEW f \in Files, Leave(c, f)
  PROVE  cycle' \in [Cycles -> Cycle]
<1>1. cycle[c] \in Cycle
  BY DEF ReplicationTypeOK
<1>2. [cycle[c] EXCEPT !.cur = NoFile] \in Cycle
  BY <1>1 DEF Cycle
<1>3. cycle' = [cycle EXCEPT ![c] = [cycle[c] EXCEPT !.cur = NoFile]]
        \/ cycle' = cycle
  <2>1. CASE cycle[c].cur = f
    <3>1. cycle' = [cycle EXCEPT ![c].cur = NoFile]
      BY <2>1 DEF Leave
    <3> QED BY <3>1 DEF ReplicationTypeOK
  <2>2. CASE cycle[c].cur # f
    <3>1. [cycle[c] EXCEPT !.cur = IF @ = f THEN NoFile ELSE @] = cycle[c]
      BY <1>1, <2>2 DEF Cycle
    <3> QED BY <3>1 DEF Leave, ReplicationTypeOK
  <2> QED BY <2>1, <2>2
<1> QED BY <1>2, <1>3 DEF ReplicationTypeOK

LEMMA EndCopyType ==
  ASSUME ReplicationTypeOK, NEW c \in Cycles, NEW f \in Files, EndCopy(c, f)
  PROVE  /\ copy' \in [Cycles -> [Files -> Copy]]
         /\ cycle' \in [Cycles -> Cycle]
         /\ granted' \in [Cycles -> [Operators -> Granted]]
BY LeaveType, IdleTypes DEF EndCopy, ReplicationTypeOK

LEMMA CopyErrorType ==
  ASSUME ReplicationTypeOK, NEW c \in Cycles, NEW f \in Files,
         NEW path \in Seq(Operators), CopyError(c, f, path)
  PROVE  /\ copy' \in [Cycles -> [Files -> Copy]]
         /\ cycle' \in [Cycles -> Cycle]
         /\ granted' \in [Cycles -> [Operators -> Granted]]
<1>1. CASE EndCopy(c, f)
  BY <1>1, EndCopyType
<1>2. ASSUME NEW i \in 1..Len(path),
             HandledAt(granted[c], path, i),
             granted' = [granted EXCEPT ![c] = Regranted(@, path[i])],
             NEW pc \in {"delaySearch", "delaySpread"},
             copy' = [copy EXCEPT ![c][f].pc = pc, ![c][f].at = 1],
             Leave(c, f)
      PROVE  /\ copy' \in [Cycles -> [Files -> Copy]]
             /\ cycle' \in [Cycles -> Cycle]
             /\ granted' \in [Cycles -> [Operators -> Granted]]
  <2>1. 1 \in Servers
    BY ProtocolAssumption DEF Servers
  <2> DEFINE r == [copy[c][f] EXCEPT !.pc = pc, !.at = 1]
  <2>2. copy[c] \in [Files -> Copy] /\ copy[c][f] \in Copy
    BY DEF ReplicationTypeOK
  <2>3. r \in Copy
    BY <2>1, <2>2 DEF Copy
  <2>4. copy' = [copy EXCEPT ![c] = [copy[c] EXCEPT ![f] = r]]
    BY <1>2, <2>2 DEF ReplicationTypeOK
  <2> HIDE DEF r
  <2>5. copy' \in [Cycles -> [Files -> Copy]]
    BY <2>3, <2>4, CopyUpdateType
  <2> QED BY <1>2, <2>5, RegrantedType, LeaveType
<1> QED BY <1>1, <1>2 DEF CopyError

\* What is left to show of a step of the replication service.
LEMMA ReplicationStepType ==
  ASSUME TypeInv,
         UNCHANGED <<port, dir, bytes, gatewayVars, environmentVars>>,
         lost' \subseteq lost,
         conn' \in [ConnIds -> Conn],
         \A u \in Uploads : conn'[u] = conn[u],
         ReplicationTypeOK'
  PROVE  TypeInv'
<1> USE DEF TypeInv, SystemTypeOK
<1>1. ServerTypeOK' /\ lost' \subseteq Clients
  BY DEF ServerTypeOK
<1>2. GatewayTypeOK'
  BY DEF GatewayTypeOK, gatewayVars
<1>3. stops' \in 0..MaxStops /\ crashes' \in 0..MaxCrashes
  BY DEF environmentVars
<1>4. ASSUME NEW u \in Uploads PROVE UploadOK(u)'
  <2>1. upload'[u] = upload[u] /\ conn'[u] = conn[u] /\ part' = part
    BY DEF gatewayVars
  <2> QED BY <2>1, UploadFrame
<1> QED BY <1>1, <1>2, <1>3, <1>4

LEMMA ServiceThreadType ==
  ASSUME TypeInv, ServiceThread
  PROVE  TypeInv'
<1>1. PICK c \in Cycles : StartCycle(c)
  BY DEF ServiceThread
<1>2. ReplicationTypeOK
  BY DEF TypeInv, SystemTypeOK
<1>3. cycle' \in [Cycles -> Cycle]
  BY <1>1, <1>2 DEF StartCycle, ReplicationTypeOK, Cycle
<1>4. granted' \in [Cycles -> [Operators -> Granted]]
  BY <1>1, <1>2, RetryAssumption DEF StartCycle, ReplicationTypeOK, Granted
<1>5. ReplicationTypeOK'
  BY <1>1, <1>2, <1>3, <1>4 DEF StartCycle, ReplicationTypeOK
<1>6. /\ UNCHANGED <<port, dir, bytes, lost, conn, gatewayVars,
                     environmentVars>>
      /\ conn \in [ConnIds -> Conn]
  BY <1>1 DEF StartCycle, serverVars, ServiceThread, TypeInv, SystemTypeOK, ServerTypeOK
<1> QED BY <1>5, <1>6, ReplicationStepType

LEMMA ScanOnType ==
  ASSUME ReplicationTypeOK, NEW c \in Cycles,
         NEW counts \in [Files -> Nat], ScanOn(c, counts)
  PROVE  cycle' \in [Cycles -> Cycle]
<1>1. cycle[c] \in Cycle
  BY DEF ReplicationTypeOK
<1>2. CASE cycle[c].at < NumberOfServers
  <2>1. cycle[c].at + 1 \in Servers
    BY <1>1, <1>2, ProtocolAssumption DEF Cycle, Servers
  <2>2. cycle' = [cycle EXCEPT ![c].at = @ + 1, ![c].counts = counts]
    BY <1>2 DEF ScanOn
  <2>3. [cycle[c] EXCEPT !.at = @ + 1, !.counts = counts] \in Cycle
    BY <2>1, <1>1 DEF Cycle
  <2>4. cycle' = [cycle EXCEPT
                    ![c] = [cycle[c] EXCEPT !.at = @ + 1, !.counts = counts]]
    BY <2>2, <1>1 DEF ReplicationTypeOK, Cycle
  <2> QED BY <2>3, <2>4 DEF ReplicationTypeOK
<1>3. CASE ~(cycle[c].at < NumberOfServers)
  <2> DEFINE todo == {f \in Files : counts[f] \in 1..(Target - 1)}
  <2>1. cycle' = [cycle EXCEPT ![c].pc = "files", ![c].at = 1,
                               ![c].counts = counts, ![c].todo = todo]
    BY <1>3 DEF ScanOn
  <2>2. todo \in SUBSET Files /\ 1 \in Servers
    BY ProtocolAssumption DEF Servers
  <2> DEFINE r == [cycle[c] EXCEPT !.pc = "files", !.at = 1,
                                   !.counts = counts, !.todo = todo]
  <2> HIDE DEF todo
  <2>3. r \in Cycle
    BY <2>2, <1>1 DEF Cycle
  <2>4. cycle' = [cycle EXCEPT ![c] = r]
    BY <2>1, <1>1 DEF ReplicationTypeOK, Cycle
  <2> HIDE DEF r
  <2> QED BY <2>3, <2>4 DEF ReplicationTypeOK
<1> QED BY <1>2, <1>3

LEMMA CycleStepType ==
  ASSUME TypeInv, NEW c \in Cycles, CycleStep(c), ~FirstToReadList(c)
  PROVE  TypeInv'
<1> USE DEF CycleStep
<1>R. ReplicationTypeOK /\ cycle[c] \in Cycle
  BY DEF TypeInv, SystemTypeOK, ReplicationTypeOK
<1>C. conn \in [ConnIds -> Conn]
  BY DEF TypeInv, SystemTypeOK, ServerTypeOK
<1>D. dir \in [Servers -> SUBSET Files]
  BY DEF TypeInv, SystemTypeOK, ServerTypeOK
<1>1. CASE ListServer(c)
  <2> DEFINE counted == [f \in Files |-> cycle[c].counts[f]
                            + (IF f \in dir[cycle[c].at] THEN 1 ELSE 0)]
  <2>1. counted \in [Files -> Nat] /\ cycle[c].counts \in [Files -> Nat]
    BY <1>R DEF Cycle
  <2>2. \/ ScanOn(c, counted)
        \/ ScanOn(c, cycle[c].counts)
        \/ ScanError(c)
    BY <1>1 DEF ListServer
  <2>3. ASSUME \E counts \in [Files -> Nat] : ScanOn(c, counts)
        PROVE  ReplicationTypeOK'
    <3>1. PICK counts \in [Files -> Nat] : ScanOn(c, counts)
      BY <2>3
    <3>2. cycle' \in [Cycles -> Cycle]
      BY <3>1, <1>R, ScanOnType
    <3>3. UNCHANGED <<main, granted>> /\ UNCHANGED <<copy, local>>
      BY <3>1, <1>1 DEF ScanOn, ListServer
    <3> QED BY <3>2, <3>3, <1>R DEF ReplicationTypeOK
  <2>4. ASSUME ScanError(c)
        PROVE  ReplicationTypeOK'
    <3>1. main' \in Cycles \cup {NoCycle}
      BY <2>4, <1>R, ReleasedType DEF ScanError
    <3> DEFINE ScanTypes ==
          /\ cycle' \in [Cycles -> Cycle]
          /\ granted' \in [Cycles -> [Operators -> Granted]]
    <3>2. ScanTypes
      <4>1. ASSUME NEW i \in 1..Len(ScanPath),
                   HandledAt(granted[c], ScanPath, i),
                   granted' = [granted EXCEPT
                                 ![c] = Regranted(@, ScanPath[i])],
                   cycle' = [cycle EXCEPT ![c].pc = "delay", ![c].at = 1]
            PROVE  ScanTypes
        <5>1. granted' \in [Cycles -> [Operators -> Granted]]
          BY <4>1, <1>R, PathTypes, RegrantedType
        <5>2. 1 \in Servers
          BY ProtocolAssumption DEF Servers
        <5>3. cycle' \in [Cycles -> Cycle]
          BY <4>1, <5>2, <1>R DEF ReplicationTypeOK, Cycle
        <5> QED BY <5>1, <5>3
      <4>2. ASSUME cycle' = [cycle EXCEPT ![c] = IdleCycle], UNCHANGED granted
            PROVE  ScanTypes
        BY <4>2, <1>R, IdleTypes DEF ReplicationTypeOK
      <4> QED BY <2>4, <4>1, <4>2 DEF ScanError
    <3>3. UNCHANGED <<copy, local>>
      BY <1>1 DEF ListServer
    <3> QED BY <3>1, <3>2, <3>3, <1>R DEF ReplicationTypeOK
  <2>5. ReplicationTypeOK'
    BY <2>1, <2>2, <2>3, <2>4
  <2>6. /\ UNCHANGED <<port, dir, bytes, conn, gatewayVars,
                       environmentVars>>
        /\ lost' \subseteq lost
    BY <1>1 DEF ListServer
  <2> QED BY <2>5, <2>6, <1>C, ReplicationStepType
<1> DEFINE Frame == UNCHANGED <<port, dir, bytes, lost, conn,
                                gatewayVars, environmentVars>>
<1>2. CASE ResumeScan(c)
  <2>1. cycle' \in [Cycles -> Cycle]
    BY <1>2, <1>R DEF ResumeScan, ReplicationTypeOK, Cycle
  <2>2. ReplicationTypeOK' /\ Frame
    BY <1>2, <1>R, <2>1 DEF ResumeScan, ReplicationTypeOK, serverVars
  <2> QED BY <2>2, <1>C, ReplicationStepType
<1>3. CASE NextFile(c)
  <2>1. PICK f \in cycle[c].todo :
          \/ /\ cycle' = [cycle EXCEPT ![c].todo = @ \ {f}]
             /\ UNCHANGED copy
          \/ /\ cycle' = [cycle EXCEPT ![c].todo = @ \ {f}, ![c].cur = f]
             /\ copy' = [copy EXCEPT
                           ![c][f] = [NoCopy EXCEPT !.pc = "search"]]
    BY <1>3 DEF NextFile
  <2>2. f \in Files
    BY <1>R DEF Cycle
  <2>3. cycle' \in [Cycles -> Cycle]
    <3>1. [cycle[c] EXCEPT !.todo = @ \ {f}] \in Cycle
      BY <1>R DEF Cycle
    <3>2. [cycle[c] EXCEPT !.todo = @ \ {f}, !.cur = f] \in Cycle
      BY <1>R, <2>2 DEF Cycle
    <3> QED BY <2>1, <3>1, <3>2, <1>R DEF ReplicationTypeOK
  <2>4. copy' \in [Cycles -> [Files -> Copy]]
    <3>1. [NoCopy EXCEPT !.pc = "search"] \in Copy
      BY IdleTypes DEF Copy
    <3>2. CASE UNCHANGED copy
      BY <3>2, <1>R DEF ReplicationTypeOK
    <3>3. CASE copy' = [copy EXCEPT
                          ![c][f] = [NoCopy EXCEPT !.pc = "search"]]
      <4> DEFINE r == [NoCopy EXCEPT !.pc = "search"]
      <4>1. r \in Copy /\ copy' = [copy EXCEPT ![c][f] = r]
        BY <3>1, <3>3
      <4> HIDE DEF r
      <4> QED BY <4>1, <2>2, <1>R DEF ReplicationTypeOK
    <3> QED BY <2>1, <3>2, <3>3
  <2>5. ReplicationTypeOK' /\ Frame
    BY <1>3, <1>R, <2>3, <2>4 DEF NextFile, ReplicationTypeOK, serverVars
  <2> QED BY <2>5, <1>C, ReplicationStepType
<1>4. CASE EndCycle(c)
  <2>1. cycle' \in [Cycles -> Cycle] /\ main' \in Cycles \cup {NoCycle}
    BY <1>4, <1>R, IdleTypes, ReleasedType DEF EndCycle, ReplicationTypeOK
  <2>2. ReplicationTypeOK' /\ Frame
    BY <1>4, <1>R, <2>1 DEF EndCycle, ReplicationTypeOK, serverVars
  <2> QED BY <2>2, <1>C, ReplicationStepType
<1> QED
  BY <1>1, <1>2, <1>3, <1>4 DEF CycleThread

LEMMA CopyStepType ==
  ASSUME TypeInv, NEW c \in Cycles, NEW f \in Files, CopyStep(c, f)
  PROVE  TypeInv'
<1> USE DEF CopyStep, ServerOf
<1> DEFINE Types == /\ copy' \in [Cycles -> [Files -> Copy]]
                    /\ cycle' \in [Cycles -> Cycle]
                    /\ granted' \in [Cycles -> [Operators -> Granted]]
           Frame == /\ UNCHANGED <<port, dir, bytes, gatewayVars,
                                   environmentVars>>
                    /\ lost' \subseteq lost
<1>R. /\ ReplicationTypeOK
      /\ copy[c] \in [Files -> Copy]
      /\ copy[c][f] \in Copy
  BY DEF TypeInv, SystemTypeOK, ReplicationTypeOK
<1>S. /\ copy[c][f].at \in Servers
      /\ copy[c][f].at < NumberOfServers => copy[c][f].at + 1 \in Servers
      /\ copy[c][f].at # NumberOfServers => copy[c][f].at + 1 \in Servers
      /\ 1 \in Servers
  <2> DEFINE at == copy[c][f].at
  <2>1. at \in 1..NumberOfServers
    BY <1>R DEF Copy, Servers
  <2> HIDE DEF at
  <2>2. /\ at < NumberOfServers => at + 1 \in 1..NumberOfServers
        /\ at # NumberOfServers => at + 1 \in 1..NumberOfServers
        /\ 1 \in 1..NumberOfServers
    BY <2>1, ProtocolAssumption
  <2> QED BY <2>1, <2>2 DEF at, Servers
<1>C. /\ conn \in [ConnIds -> Conn]
      /\ bytes \in [Servers -> [Files -> SUBSET Chunk]]
  BY DEF TypeInv, SystemTypeOK, ServerTypeOK
<1>E. ASSUME NEW path \in {FirstPath(f), HasPath(f), SearchPath(f),
                           RestPath(f), SpreadPath(f)},
             CopyError(c, f, path)
      PROVE  Types
  BY <1>E, <1>R, PathTypes, CopyErrorType
<1>N. ASSUME SearchOn(c, f) \/ SpreadOn(c, f)
      PROVE  Types
  BY <1>N, <1>E, <1>R, <1>S, CopyToType, EndCopyType DEF SearchOn, SpreadOn
<1>T. ASSUME NEW pc \in {"fetch", "fill", "send"},
             CopyTo(c, f, pc, copy[c][f].at)
      PROVE  Types
  BY <1>T, <1>R, <1>S, CopyToType
<1>1. CASE Search(c, f)
  <2>1. Types
    BY <1>1, <1>E, <1>N, <1>T DEF Search
  <2>2. UNCHANGED <<main, local, conn>> /\ Frame
    BY <1>1 DEF Search
  <2>3. ReplicationTypeOK'
    BY <2>1, <2>2, <1>R DEF ReplicationTypeOK
  <2> QED BY <2>2, <2>3, <1>C, ReplicationStepType
<1>2. CASE Fetch(c, f)
  <2>1. Types
    BY <1>2, <1>E, <1>N, <1>T DEF Fetch
  <2>2. UNCHANGED <<main, conn>> /\ Frame
    BY <1>2 DEF Fetch
  <2>3. local' = [local EXCEPT ![f] = {}] \/ local' = local
    BY <1>2 DEF Fetch
  <2>4. ReplicationTypeOK'
    BY <2>1, <2>2, <2>3, <1>R DEF ReplicationTypeOK
  <2> QED BY <2>2, <2>4, <1>C, ReplicationStepType
<1>3. CASE Fill(c, f)
  <2> USE <1>3 DEF Fill
  <2>1. Overwrite(local[f], bytes[copy[c][f].at][f]) \in SUBSET Chunk
    BY <1>R, <1>S, <1>C DEF Overwrite, ReplicationTypeOK
  <2>2. local' \in [Files -> SUBSET Chunk]
    BY <2>1, <1>R DEF ReplicationTypeOK
  <2>3. copy' \in [Cycles -> [Files -> Copy]]
    <3> DEFINE r == [copy[c][f] EXCEPT !.pc = "spread", !.at = 1]
    <3>1. r \in Copy
      BY <1>R, <1>S DEF Copy
    <3>2. copy' = [copy EXCEPT ![c] = [copy[c] EXCEPT ![f] = r]]
      BY <1>R DEF ReplicationTypeOK
    <3> HIDE DEF r
    <3> QED BY <3>1, <3>2, <1>R, CopyUpdateType
  <2>4. granted' \in [Cycles -> [Operators -> Granted]]
    <3>1. 0 \in Granted
      BY RetryAssumption DEF Granted
    <3> QED BY <3>1, <1>R DEF ReplicationTypeOK
  <2>5. ReplicationTypeOK'
    BY <2>2, <2>3, <2>4, <1>R DEF ReplicationTypeOK
  <2>6. UNCHANGED conn /\ Frame
    BY DEF serverVars
  <2> QED BY <2>5, <2>6, <1>C, ReplicationStepType
<1>4. CASE Spread(c, f)
  <2>1. Types
    BY <1>4, <1>E, <1>N, <1>T DEF Spread
  <2>2. UNCHANGED <<main, local, conn>> /\ Frame
    BY <1>4 DEF Spread
  <2>3. ReplicationTypeOK'
    BY <2>1, <2>2, <1>R DEF ReplicationTypeOK
  <2> QED BY <2>2, <2>3, <1>C, ReplicationStepType
<1>5. CASE Send(c, f)
  <2> USE <1>5 DEF Send
  <2>1. Types
    <3>1. CASE EndCopy(c, f)
      BY <3>1, <1>R, EndCopyType
    <3>2. CASE /\ copy[c][f].at # NumberOfServers
               /\ copy' = [copy EXCEPT ![c][f].pc = "spread",
                             ![c][f].at = copy[c][f].at + 1,
                             ![c][f].taken = copy[c][f].taken + 1]
               /\ UNCHANGED <<cycle, granted>>
      <4> DEFINE r == [copy[c][f] EXCEPT !.pc = "spread",
                                         !.at = copy[c][f].at + 1,
                                         !.taken = copy[c][f].taken + 1]
      <4>0. copy[c][f].at + 1 \in Servers /\ copy[c][f].taken + 1 \in Nat
        BY <3>2, <1>R, <1>S DEF Copy
      <4>1. r \in Copy
        BY <4>0, <1>R DEF Copy
      <4>2. copy' = [copy EXCEPT ![c] = [copy[c] EXCEPT ![f] = r]]
        BY <3>2, <1>R DEF ReplicationTypeOK
      <4> HIDE DEF r
      <4>3. copy' \in [Cycles -> [Files -> Copy]]
        BY <4>1, <4>2, <1>R, CopyUpdateType
      <4> QED BY <3>2, <4>3, <1>R DEF ReplicationTypeOK
    <3> QED BY <3>1, <3>2
  <2>2. ReplicationTypeOK'
    BY <2>1, <1>R DEF ReplicationTypeOK
  <2>3. \/ UNCHANGED conn
        \/ \E k \in CopyConns :
             conn' = [conn EXCEPT
                        ![k] = NewConn(copy[c][f].at, f, local[f], "closed")]
    OBVIOUS
  <2>4. NewConn(copy[c][f].at, f, local[f], "closed") \in Conn
    BY <1>R, <1>S, ProtocolAssumption DEF NewConn, Conn, ReplicationTypeOK
  <2>5. conn' \in [ConnIds -> Conn] /\ \A u \in Uploads : conn'[u] = conn[u]
    BY <2>3, <2>4, <1>C, FileServerAssumption DEF ConnIds
  <2>6. Frame
    OBVIOUS
  <2> QED BY <2>2, <2>5, <2>6, ReplicationStepType
<1>6. CASE ResumeCopy(c, f)
  <2>1. Types
    BY <1>6, <1>R, <1>S, CopyToType DEF ResumeCopy
  <2>2. UNCHANGED <<main, local, conn>> /\ Frame
    BY <1>6 DEF ResumeCopy, serverVars
  <2>3. ReplicationTypeOK'
    BY <2>1, <2>2, <1>R DEF ReplicationTypeOK
  <2> QED BY <2>2, <2>3, <1>C, ReplicationStepType
<1> QED
  BY <1>1, <1>2, <1>3, <1>4, <1>5, <1>6 DEF CopyThread

LEMMA TypeNext == TypeInv /\ [Next]_vars => TypeInv'
BY StepKinds, RequestType, HandlerType, EnvironmentType, ServiceThreadType,
   CycleStepType, CopyStepType, BeanOnlyType, DownloadOnlyType

\* Every variable keeps its type, and a request's thread and connection know
\* what UploadOK says, whatever servers stop and start meanwhile.
THEOREM TypeInvariance == Spec => []TypeInv
BY TypeInit, TypeNext, PTL DEF Spec

-------------------------------------------------------------------------------
(* The gateway's first request *)

\* A server whose run has ended and left its port open was asked by every init()
\* there was, and none has had its answer.
ServedInv ==
  /\ ReadyIsServed
  /\ bean = "init" => \A s \in Servers : port[s] = "left" => s \in registering

LEMMA ServedInit == Init => ServedInv
BY DEF Init, ServerInit, GatewayInit, ServedInv, ReadyIsServed

\* The steps that touch neither the ports nor the bean.
LEMMA ServedSteps ==
  /\ \A u \in Uploads : Request(u) => UNCHANGED <<port, bean, registering>>
  /\ \A u \in Uploads : SelectFile(u) => UNCHANGED <<port, bean, registering>>
  /\ \A k \in ConnIds : Handler(k) /\ ~FirstNotified(k)
       => UNCHANGED <<port, bean, registering>>
  /\ ServiceThread => UNCHANGED <<port, bean, registering>>
  /\ \A c \in Cycles : CycleStep(c) /\ ~FirstToReadList(c)
       => UNCHANGED <<port, bean, registering>>
  /\ \A c \in Cycles, f \in Files :
       CopyStep(c, f) => UNCHANGED <<port, bean, registering>>
  /\ DownloadOnly => UNCHANGED <<port, bean, registering>>
<1> USE DEF serverVars, gatewayVars
<1>1. ASSUME NEW u \in Uploads, Request(u) \/ SelectFile(u)
      PROVE  UNCHANGED <<port, bean, registering>>
  BY <1>1 DEF Request, StartUpload, UploadThread, Probe, Connect, Announce,
              SendBytes, FinishTransfer, AbortTransfer, CloseConnection, SelectFile
<1>2. ASSUME NEW k \in ConnIds, Handler(k), ~FirstNotified(k)
      PROVE  UNCHANGED <<port, bean, registering>>
  BY <1>2 DEF Handler, Accept, OpenFile, HeaderLost, WriteBytes, EndOfStream,
              UploadingFinished
<1>3. ServiceThread \/ DownloadOnly => UNCHANGED <<port, bean, registering>>
  BY DEF ServiceThread, StartCycle, DownloadOnly
<1>4. ASSUME NEW c \in Cycles, CycleStep(c), ~FirstToReadList(c)
      PROVE  UNCHANGED <<port, bean, registering>>
  BY <1>4 DEF CycleStep, CycleThread, ListServer, ResumeScan, NextFile, EndCycle
<1>5. ASSUME NEW c \in Cycles, NEW f \in Files, CopyStep(c, f)
      PROVE  UNCHANGED <<port, bean, registering>>
  BY <1>5 DEF CopyStep, CopyThread, Search, Fetch, Fill, Spread, Send, ResumeCopy
<1> QED BY <1>1, <1>2, <1>3, <1>4, <1>5

LEMMA ServedNext == TypeInv /\ ServedInv /\ [Next]_vars => ServedInv'
<1> SUFFICES ASSUME TypeInv, ServedInv, [Next]_vars PROVE ServedInv'
  OBVIOUS
<1>T. port \in [Servers -> Port] /\ bean \in Bean
  BY DEF TypeInv, SystemTypeOK, ServerTypeOK, GatewayTypeOK
<1>1. CASE UNCHANGED <<port, bean, registering>>
  BY <1>1 DEF ServedInv, ReadyIsServed
<1>2. CASE CreateBean /\ \A s \in Servers : port'[s] \in {port[s], "held"}
  BY <1>2 DEF CreateBean, ServedInv, ReadyIsServed
<1>3. ASSUME NEW s \in Servers, ServerRun(s) \/ Registration(s) PROVE ServedInv'
  <2>1. CASE ServerRun(s)
    BY <1>T, <1>3, <2>1 DEF ServerRun, Registered, ServedInv, ReadyIsServed
  <2>2. CASE Registration(s)
    BY <1>T, <1>3, <2>2 DEF Registration, FetchFileList, serverVars, Served, Refuses,
                            ServedInv, ReadyIsServed
  <2> QED BY <1>3, <2>1, <2>2
<1>4. CASE InitThread
  BY <1>4 DEF InitThread, InitReturns, serverVars, ServedInv, ReadyIsServed
<1>5. ASSUME NEW s \in Servers, StartServer(s) PROVE ServedInv'
  <2>1. CASE bean = "ready"
    BY <1>T, <1>5, <2>1 DEF StartServer, CreateBean, ServedInv, ReadyIsServed
  <2>2. CASE bean = "none"
    BY <1>5, <2>2 DEF StartServer, CreateBean, ServedInv, ReadyIsServed
  <2>3. CASE bean \in {"init", "fresh"}
    <3>1. port' = [port EXCEPT ![s] = "held"]
      BY <1>5, <2>3 DEF StartServer
    <3>2. \A t \in Servers : port'[t] \in {port[t], "held"}
      BY <1>T, <3>1
    <3>3. CreateBean \/ (bean = "init" /\ UNCHANGED <<bean, registering>>)
      BY <1>5, <2>3 DEF StartServer
    <3> QED BY <1>2, <3>2, <3>3 DEF ServedInv, ReadyIsServed
  <2> QED BY <1>T, <2>1, <2>2, <2>3 DEF Bean
<1>6. CASE GatewayStart
  BY <1>6 DEF GatewayStart, ServedInv, ReadyIsServed
<1>7. CASE \/ BrowserVisits
           \/ \E k \in ConnIds : FirstNotified(k)
           \/ \E c \in Cycles : FirstToReadList(c)
  BY <1>2, <1>7 DEF BrowserVisits, FirstNotified, FirstToReadList, serverVars
<1>8. CASE BeanStep
  BY <1>3, <1>4, <1>5, <1>6, <1>7, <1>8 DEF BeanStep
<1>9. ASSUME NEW s \in Servers, Stop(s) PROVE ServedInv'
  <2>1. port' = [port EXCEPT ![s] = "closed"] /\ UNCHANGED <<bean, registering>>
    BY <1>9 DEF Stop, StopServer, gatewayVars
  <2> QED BY <1>T, <2>1 DEF ServedInv, ReadyIsServed
<1>10. CASE Crash
  BY <1>10 DEF Crash, GatewayCrash, ServedInv, ReadyIsServed
<1> QED BY <1>1, <1>8, <1>9, <1>10, StepKinds, ServedSteps

\* For any number of servers, however often servers are stopped and started and
\* the gateway goes down and comes up: while the gateway serves requests, no port
\* is open that nobody accepts connections at (GatewayServer.java:66, 288-302).
THEOREM ReadyIsServedCorrect == Spec => []ReadyIsServed
<1>1. ServedInv => ReadyIsServed
  BY DEF ServedInv
<1> QED BY <1>1, TypeInvariance, ServedInit, ServedNext, PTL DEF Spec

-------------------------------------------------------------------------------
(* Where the bytes of a file come from *)

\* Once a thread streams a Part under a name to a server, that is settled.
Settled ==
  \A u \in Uploads : upload[u].src # NoPart =>
    /\ upload'[u].src = upload[u].src
    /\ upload'[u].name = upload[u].name
    /\ upload'[u].at = upload[u].at

LEMMA StepsSettle ==
  ASSUME TypeInv, [Next]_vars
  PROVE  Settled
<1>T. \A u \in Uploads : upload[u] \in Upload /\ UploadOK(u)
  BY DEF TypeInv, SystemTypeOK, GatewayTypeOK
<1>D. upload \in [Uploads -> Upload]
  BY DEF TypeInv, SystemTypeOK, GatewayTypeOK
<1>0. ASSUME upload' = upload PROVE Settled
  BY <1>0 DEF Settled
<1>1. ASSUME NEW u \in Uploads, Request(u) PROVE Settled
  <2>0. ASSUME NEW pc,
               \/ upload' = [upload EXCEPT ![u].pc = pc]
               \/ upload' = [upload EXCEPT ![u].pc = pc, ![u].sent = @ + 1]
               \/ upload' = [upload EXCEPT ![u].sent = @ + 1]
        PROVE  Settled
    BY <2>0, <1>D DEF Settled, Upload
  <2>1. ASSUME upload[u].src = NoPart,
               \A v \in Uploads \ {u} : upload'[v] = upload[v]
        PROVE  Settled
    BY <2>1 DEF Settled
  <2>2. CASE StartUpload(u)
    BY <2>1, <2>2, <1>T, <1>D DEF StartUpload, UploadOK
  <2>3. CASE Probe(u)
    <3>1. upload[u].src = NoPart
      BY <2>3, <1>T DEF Probe, UploadOK
    <3>2. \A v \in Uploads \ {u} : upload'[v] = upload[v]
      <4>1. CASE upload' = [upload EXCEPT ![u].at = @ + 1]
        BY <4>1, <1>D
      <4>2. CASE \E pc \in {"connecting", "done"} :
                   upload' = [upload EXCEPT ![u].pc = pc]
        BY <4>2, <1>D
      <4> QED BY <2>3, <4>1, <4>2 DEF Probe
    <3> QED BY <2>1, <3>1, <3>2
  <2>4. CASE Connect(u)
    <3>1. upload[u].src = NoPart
      BY <2>4, <1>T DEF Connect, UploadOK
    <3>2. \A v \in Uploads \ {u} : upload'[v] = upload[v]
      <4>1. CASE upload' = [upload EXCEPT ![u].pc = "connected", ![u].src = part]
        BY <4>1, <1>D
      <4>2. CASE upload' = [upload EXCEPT ![u].pc = "done"]
        BY <4>2, <1>D
      <4> QED BY <2>4, <4>1, <4>2 DEF Connect
    <3> QED BY <2>1, <3>1, <3>2
  <2>5. CASE \/ Announce(u) \/ SendBytes(u) \/ FinishTransfer(u)
             \/ AbortTransfer(u) \/ CloseConnection(u)
    BY <2>0, <2>5 DEF Announce, SendBytes, FinishTransfer, AbortTransfer,
                      CloseConnection
  <2> QED BY <1>1, <2>2, <2>3, <2>4, <2>5 DEF Request, UploadThread
<1>2. ASSUME NEW u \in Uploads, SelectFile(u) PROVE Settled
  BY <1>2, <1>D DEF SelectFile, Settled, Upload
<1>3. ASSUME Crash PROVE Settled
  BY <1>3, <1>D DEF Crash, GatewayCrash, Settled, Upload
<1>4. ASSUME NEW k \in ConnIds, Handler(k), ~FirstNotified(k) PROVE Settled
  BY <1>4, <1>0 DEF Handler, UploadingFinished, gatewayVars
<1>5. ASSUME BeanOnly PROVE Settled
  BY <1>5, <1>0 DEF BeanOnly
<1>6. ASSUME ServiceThread PROVE Settled
  BY <1>6, <1>0 DEF ServiceThread, StartCycle, gatewayVars
<1>7. ASSUME NEW c \in Cycles, CycleStep(c), ~FirstToReadList(c) PROVE Settled
  BY <1>7, <1>0 DEF CycleStep, CycleThread, ListServer, ResumeScan, NextFile,
                    EndCycle, gatewayVars
<1>8. ASSUME NEW c \in Cycles, NEW f \in Files, CopyStep(c, f) PROVE Settled
  BY <1>8, <1>0 DEF CopyStep, CopyThread, Search, Fetch, Fill, Spread, Send,
                    ResumeCopy, gatewayVars
<1>D1. ASSUME DownloadOnly PROVE Settled
  BY <1>D1, <1>0 DEF DownloadOnly, gatewayVars
<1>9. ASSUME NEW s \in Servers, Stop(s) PROVE Settled
  BY <1>9, <1>0 DEF Stop, gatewayVars
<1> QED
  BY <1>1, <1>2, <1>3, <1>4, <1>5, <1>6, <1>7, <1>8, <1>9, <1>D1, StepKinds

\* Bytes move from connections to servers, from servers to the service, from
\* there to the connections of its copies, and nowhere else.
ContentMoves ==
  \A f \in Files :
    /\ \A s \in Servers : \A x \in bytes'[s][f] :
         \/ x \in bytes[s][f]
         \/ \E k \in ConnIds : /\ conn[k].pc # "free"
                               /\ conn[k].file = f
                               /\ x \in conn[k].data
    /\ \A x \in local'[f] : x \in local[f]
                              \/ \E s \in Servers : x \in bytes[s][f]
    /\ \A k \in CopyConns : conn'[k].pc # "free" /\ conn'[k].file = f =>
         \A x \in conn'[k].data :
           \/ x \in local[f]
           \/ conn[k].pc # "free" /\ conn[k].file = f /\ x \in conn[k].data

LEMMA StepsMoveContent ==
  ASSUME TypeInv, [Next]_vars
  PROVE  ContentMoves
<1>T. /\ conn \in [ConnIds -> Conn]
      /\ bytes \in [Servers -> [Files -> SUBSET Chunk]]
      /\ local \in [Files -> SUBSET Chunk]
      /\ CopyConns \subseteq ConnIds
      /\ CopyConns \cap Uploads = {}
  BY FileServerAssumption
     DEF TypeInv, SystemTypeOK, ServerTypeOK, ReplicationTypeOK, ConnIds
<1> DEFINE KeepsConn(k) == conn'[k].pc # "free" =>
                             /\ conn[k].pc # "free"
                             /\ conn'[k].file = conn[k].file
                             /\ conn'[k].data = conn[k].data
<1>0. ASSUME bytes' = bytes, local' = local, \A k \in CopyConns : KeepsConn(k)
      PROVE  ContentMoves
  BY <1>0 DEF ContentMoves
<1>1. ASSUME NEW u \in Uploads, Request(u) PROVE ContentMoves
  <2>1. bytes' = bytes /\ local' = local
    BY <1>1 DEF Request, StartUpload, UploadThread, Probe, Connect, Announce,
                SendBytes, FinishTransfer, AbortTransfer, CloseConnection,
                serverVars, replicationVars
  <2>2. \A k \in CopyConns : conn'[k] = conn[k]
    BY <1>1, <1>T
       DEF Request, StartUpload, UploadThread, Probe, Connect, Announce,
           SendBytes, FinishTransfer, AbortTransfer, CloseConnection, serverVars
  <2> QED BY <1>0, <2>1, <2>2
<1>2. ASSUME NEW k \in ConnIds, Handler(k), ~FirstNotified(k)
      PROVE  ContentMoves
  <2> USE <1>2 DEF Handler
  <2>0. local' = local
    BY DEF replicationVars
  <2>1. \A h \in ConnIds : KeepsConn(h)
    <3> SUFFICES ASSUME NEW h \in ConnIds PROVE KeepsConn(h)
      OBVIOUS
    <3>1. CASE h # k
      BY <3>1, <1>T DEF Accept, OpenFile, HeaderLost, WriteBytes, EndOfStream,
                        UploadingFinished
    <3>2. CASE h = k
      <4>1. CASE Accept(k)
        BY <3>2, <4>1, <1>T DEF Accept, Conn
      <4>2. CASE OpenFile(k)
        BY <3>2, <4>2, <1>T DEF OpenFile, Conn
      <4>3. CASE HeaderLost(k) \/ UploadingFinished(k)
        BY <3>2, <4>3, <1>T DEF HeaderLost, UploadingFinished, FreeConn
      <4>4. CASE WriteBytes(k)
        BY <3>2, <4>4, <1>T DEF WriteBytes, Conn
      <4>5. CASE EndOfStream(k)
        BY <3>2, <4>5, <1>T DEF EndOfStream, Conn
      <4> QED BY <4>1, <4>2, <4>3, <4>4, <4>5
    <3> QED BY <3>1, <3>2
  <2>2. CASE OpenFile(k)
    <3>1. ASSUME NEW s \in Servers, NEW f \in Files
          PROVE  bytes'[s][f] = bytes[s][f] \/ bytes'[s][f] = {}
      BY <2>2, <1>T DEF OpenFile, Conn
    <3> QED BY <2>0, <2>1, <3>1, <1>T DEF ContentMoves
  <2>3. CASE WriteBytes(k)
    <3> DEFINE new == At(conn[k].data, conn[k].got + 1)
    <3>1. conn[k].pc # "free" /\ new \subseteq conn[k].data
      BY <2>3 DEF WriteBytes, At
    <3>2. ASSUME NEW s \in Servers, NEW f \in Files
          PROVE  \/ bytes'[s][f] = bytes[s][f]
                 \/ conn[k].file = f /\ bytes'[s][f] = Overwrite(bytes[s][f], new)
      BY <2>3, <1>T DEF WriteBytes, Conn
    <3>3. \A old : Overwrite(old, new) \subseteq old \cup new
      BY DEF Overwrite
    <3>4. ASSUME NEW s \in Servers, NEW f \in Files, NEW x \in bytes'[s][f]
          PROVE  \/ x \in bytes[s][f]
                 \/ conn[k].file = f /\ x \in conn[k].data
      BY <3>1, <3>2, <3>3
    <3> QED BY <2>0, <2>1, <3>1, <3>4, <1>T DEF ContentMoves
  <2>4. CASE bytes' = bytes
    BY <1>0, <2>0, <2>1, <2>4, <1>T
  <2> QED BY <2>2, <2>3, <2>4 DEF Accept, HeaderLost, EndOfStream, UploadingFinished
<1>3. ASSUME BeanOnly PROVE ContentMoves
  BY <1>0, <1>3 DEF BeanOnly, replicationVars
<1>4. ASSUME ServiceThread PROVE ContentMoves
  BY <1>0, <1>4 DEF ServiceThread, StartCycle, serverVars
<1>5. ASSUME NEW c \in Cycles, CycleStep(c), ~FirstToReadList(c)
      PROVE  ContentMoves
  BY <1>0, <1>5 DEF CycleStep, CycleThread, ListServer, ResumeScan, NextFile,
                    EndCycle, serverVars
<1>6. ASSUME NEW c \in Cycles, NEW f \in Files, CopyStep(c, f)
      PROVE  ContentMoves
  <2>1. CASE Search(c, f) \/ Spread(c, f) \/ ResumeCopy(c, f)
    BY <1>0, <2>1 DEF Search, Spread, ResumeCopy, serverVars
  <2>2. CASE Fetch(c, f)
    <3>1. bytes' = bytes /\ conn' = conn
      BY <2>2 DEF Fetch
    <3>2. \A g \in Files : local'[g] = local[g] \/ local'[g] = {}
      BY <2>2, <1>T DEF Fetch
    <3> QED BY <3>1, <3>2 DEF ContentMoves
  <2>3. CASE Fill(c, f)
    <3> DEFINE s == ServerOf(c, f)
    <3>1. bytes' = bytes /\ conn' = conn
      BY <2>3 DEF Fill, serverVars
    <3>2. s \in Servers
      BY DEF TypeInv, SystemTypeOK, ReplicationTypeOK, ServerOf, Copy
    <3>3. local' = [local EXCEPT ![f] = Overwrite(@, bytes[s][f])]
      BY <2>3 DEF Fill
    <3> HIDE DEF s
    <3>4. ASSUME NEW g \in Files, NEW x \in local'[g]
          PROVE  x \in local[g] \/ x \in bytes[s][g]
      BY <3>3, <1>T DEF Overwrite
    <3> QED BY <3>1, <3>2, <3>4 DEF ContentMoves
  <2>4. CASE Send(c, f)
    <3>1. bytes' = bytes /\ local' = local
      BY <2>4 DEF Send
    <3>2. \/ conn' = conn
          \/ \E k \in CopyConns :
               conn' = [conn EXCEPT
                          ![k] = NewConn(ServerOf(c, f), f, local[f], "closed")]
      BY <2>4 DEF Send
    <3>3. ASSUME NEW k \in CopyConns, conn'[k].pc # "free"
          PROVE  \/ conn'[k] = conn[k]
                 \/ conn'[k].file = f /\ conn'[k].data = local[f]
      BY <3>2, <3>3, <1>T DEF NewConn
    <3> QED BY <3>1, <3>3 DEF ContentMoves
  <2> QED BY <1>6, <2>1, <2>2, <2>3, <2>4 DEF CopyStep, CopyThread
<1>8. ASSUME DownloadOnly PROVE ContentMoves
  BY <1>0, <1>8 DEF DownloadOnly, replicationVars
<1>7. ASSUME NEW s \in Servers, Stop(s) PROVE ContentMoves
  <2>1. bytes' = bytes /\ local' = local
    BY <1>7 DEF Stop, StopServer, replicationVars
  <2>2. \A k \in CopyConns : conn'[k] = conn[k] \/ conn'[k] = FreeConn
    BY <1>7, <1>T DEF Stop, StopServer
  <2>3. FreeConn.pc = "free"
    BY DEF FreeConn
  <2> QED BY <1>0, <2>1, <2>2, <2>3
<1>9. ASSUME Crash PROVE ContentMoves
  <2>1. bytes' = bytes /\ local' = local
    BY <1>9 DEF Crash, GatewayCrash, replicationVars
  <2>2. \A k \in CopyConns : conn'[k] = conn[k]
    BY <1>9, <1>T DEF Crash, GatewayCrash
  <2> QED BY <1>0, <2>1, <2>2
<1>10. ASSUME NEW u \in Uploads, SelectFile(u), UNCHANGED replicationVars
       PROVE  ContentMoves
  BY <1>0, <1>10 DEF SelectFile, serverVars, replicationVars
<1> QED
  BY <1>1, <1>2, <1>3, <1>4, <1>5, <1>6, <1>7, <1>8, <1>9, <1>10, StepKinds

LEMMA ContentInit == Init => ContentIsUploaded
BY DEF Init, ServerInit, ReplicationInit, ContentIsUploaded, UploadedAs, FreeConn

LEMMA ContentNext ==
  TypeInv /\ TypeInv' /\ ContentIsUploaded /\ [Next]_vars => ContentIsUploaded'
<1> SUFFICES ASSUME TypeInv, TypeInv', ContentIsUploaded, [Next]_vars,
                    NEW f \in Files
             PROVE  /\ \A s \in Servers : UploadedAs(f, bytes[s][f])'
                    /\ UploadedAs(f, local[f])'
                    /\ \A k \in ConnIds :
                         conn'[k].pc # "free" /\ conn'[k].file = f
                           => UploadedAs(f, conn[k].data)'
  BY DEF ContentIsUploaded
<1> DEFINE SentAsF(x) == \E u \in Uploads : Carries(u, f, x)
<1>M. ContentMoves /\ Settled
  BY StepsMoveContent, StepsSettle
<1>T. /\ bytes' \in [Servers -> [Files -> SUBSET Chunk]]
      /\ local' \in [Files -> SUBSET Chunk]
      /\ conn' \in [ConnIds -> Conn]
  BY DEF TypeInv, SystemTypeOK, ServerTypeOK, ReplicationTypeOK
<1>1. ASSUME NEW x \in Chunk, SentAsF(x)
      PROVE  \E u \in Uploads : Carries(u, f, x)'
  <2>1. PICK u \in Uploads : Carries(u, f, x)
    BY <1>1
  <2>2. upload[u].src # NoPart
    BY <2>1, ProtocolAssumption DEF Carries, Chunk
  <2> QED BY <2>1, <2>2, <1>M DEF Settled, Carries
<1>2. ASSUME NEW s \in Servers PROVE UploadedAs(f, bytes[s][f])'
  <2> SUFFICES ASSUME NEW x \in bytes'[s][f]
               PROVE  \E u \in Uploads : Carries(u, f, x)'
    BY DEF UploadedAs
  <2>1. x \in Chunk
    BY <1>T
  <2>2. SentAsF(x)
    BY <1>M DEF ContentMoves, ContentIsUploaded, UploadedAs
  <2> QED BY <1>1, <2>1, <2>2
<1>3. UploadedAs(f, local[f])'
  <2> SUFFICES ASSUME NEW x \in local'[f]
               PROVE  \E u \in Uploads : Carries(u, f, x)'
    BY DEF UploadedAs
  <2>1. x \in Chunk
    BY <1>T
  <2>2. SentAsF(x)
    BY <1>M DEF ContentMoves, ContentIsUploaded, UploadedAs
  <2> QED BY <1>1, <2>1, <2>2
<1>4. ASSUME NEW k \in ConnIds, conn'[k].pc # "free", conn'[k].file = f
      PROVE  UploadedAs(f, conn[k].data)'
  <2> SUFFICES ASSUME NEW x \in conn'[k].data
               PROVE  \E u \in Uploads : Carries(u, f, x)'
    BY DEF UploadedAs
  <2>1. CASE k \in Uploads
    <3>1. UploadOK(k)'
      BY <2>1 DEF TypeInv
    <3> QED BY <2>1, <3>1, <1>4 DEF UploadOK, Carries
  <2>2. CASE k \in CopyConns
    <3>1. x \in Chunk
      BY <1>T DEF Conn
    <3>2. SentAsF(x)
      BY <2>2, <1>4, <1>M DEF ContentMoves, ContentIsUploaded, UploadedAs, ConnIds
    <3> QED BY <1>1, <3>1, <3>2
  <2> QED BY <2>1, <2>2 DEF ConnIds
<1> QED BY <1>2, <1>3, <1>4

\* What any server, the replication service or a connection holds under a name
\* was streamed by an upload thread under that name.
THEOREM ContentCorrect == Spec => []ContentIsUploaded
BY TypeInvariance, ContentInit, ContentNext, PTL DEF Spec

-------------------------------------------------------------------------------
(* The server a file was uploaded to *)

Spreading == {"fetch", "fill", "spread", "send", "delaySpread"}
Unopened == {"backlog", "accepted"}
Opened == {"open", "notify"}

\* A file on a server was uploaded, and a server without it holds nothing of it.
StoredIsUploaded ==
  \A s \in Servers, f \in Files :
    /\ f \in dir[s] => \E u \in Uploads : /\ upload[u].name = f
                                          /\ upload[u].src # NoPart
    /\ f \notin dir[s] => bytes[s][f] = {}

\* A connection that has been opened has created its file.
OpenedIsStored ==
  \A k \in ConnIds :
    conn[k].pc \in Opened => conn[k].file \in dir[conn[k].srv]

\* A copy that found its file, and every upload of it, has a holder.
CopiedIsStored ==
  /\ \A k \in CopyConns : conn[k].pc # "free" => Holders(conn[k].file) # {}
  /\ \A c \in Cycles, f \in Files :
       copy[c][f].pc \in Spreading => Holders(f) # {}

\* The only upload of a file reached its server before the file reached any
\* other, and no copy of it, sent or about to be, is meant for that server.
OriginFirst(u) ==
  LET f == upload[u].name
  IN  /\ Holders(f) # {} => f \in dir[Tried(u)]
      /\ conn[u].pc \in Unopened => f \notin dir[Tried(u)]
      /\ \A k \in CopyConns : conn[k].pc # "free" /\ conn[k].file = f
           => conn[k].srv # Tried(u)
      /\ \A c \in Cycles : copy[c][f].pc = "send" => copy[c][f].at # Tried(u)

OriginInv ==
  /\ StoredIsUploaded
  /\ OpenedIsStored
  /\ CopiedIsStored
  /\ \A u \in Uploads : OnlyUpload(u) => OriginFirst(u)

\* Once a file has a name it keeps it; a directory changes only when a connection
\* opens its file, and only files in a directory are written to.
NamesStay ==
  \A u \in Uploads : upload'[u].name = upload[u].name \/ upload[u].name = NoFile

DirsStay ==
  /\ dir' = dir
  /\ \A s \in Servers, f \in Files : f \notin dir[s] => bytes'[s][f] = bytes[s][f]

\* A connection stays what it is, or is a new one: of a request that had none, or
\* of a copy that is sent to the server it chose.
ConnStays(k) ==
  conn'[k].pc # "free" =>
    /\ conn[k].pc # "free"
    /\ conn'[k].file = conn[k].file
    /\ conn'[k].srv = conn[k].srv
    /\ conn'[k].pc \in Unopened => conn[k].pc \in Unopened
    /\ conn'[k].pc \in Opened => conn[k].pc \in Opened

ConnBegins(k) ==
  /\ conn'[k].pc = "backlog"
  /\ k \in Uploads => upload[k].src = NoPart
  /\ k \in CopyConns =>
       \E c \in Cycles : /\ copy[c][conn'[k].file].pc = "send"
                         /\ copy[c][conn'[k].file].at = conn'[k].srv

\* A copy gets no further, or has found its file, or a server without it.
CopyStays(c, f) ==
  /\ copy'[c][f].pc \in Spreading => copy[c][f].pc \in Spreading
  /\ copy'[c][f].pc = "send" =>
       copy[c][f].pc = "send" /\ copy'[c][f].at = copy[c][f].at

CopyFinds(c, f) ==
  /\ copy'[c][f].pc \in Spreading => Holders(f) # {}
  /\ copy'[c][f].pc = "send" => f \notin dir[copy'[c][f].at]

ConnsMove == \A k \in ConnIds : ConnStays(k) \/ ConnBegins(k)
CopiesMove == \A c \in Cycles, f \in Files : CopyStays(c, f) \/ CopyFinds(c, f)

OriginMoves == NamesStay /\ DirsStay /\ ConnsMove /\ CopiesMove

LEMMA OriginInit == Init => OriginInv
<1> SUFFICES ASSUME Init PROVE OriginInv
  OBVIOUS
<1>1. FreeConn.pc = "free" /\ NoCopy.pc = "none"
  BY DEF FreeConn, NoCopy
<1>2. \A k \in ConnIds : conn[k].pc = "free"
  BY <1>1 DEF Init, ServerInit
<1>3. \A c \in Cycles, f \in Files : copy[c][f].pc = "none"
  BY <1>1 DEF Init, ReplicationInit
<1>4. \A u \in Uploads : ~OnlyUpload(u)
  BY DEF Init, GatewayInit, IdleUpload, OnlyUpload
<1>5. StoredIsUploaded
  BY DEF Init, ServerInit, StoredIsUploaded
<1> QED
  BY <1>2, <1>3, <1>4, <1>5
     DEF OriginInv, OpenedIsStored, CopiedIsStored, ConnIds, Opened, Spreading

\* A request that had reached a server and is the only one now, was before.
LEMMA StaysOnly ==
  ASSUME TypeInv, Settled, NamesStay, NEW u \in Uploads, OnlyUpload(u)',
         upload[u].src # NoPart
  PROVE  /\ OnlyUpload(u)
         /\ upload'[u].name = upload[u].name
         /\ Tried(u)' = Tried(u)
         /\ upload[u].name \in Files
<1>1. UploadOK(u)
  BY DEF TypeInv
<1>2. /\ upload'[u].name = upload[u].name
      /\ upload'[u].at = upload[u].at
      /\ upload[u].name \in Files
  BY <1>1 DEF Settled, UploadOK
<1>3. ASSUME NEW v \in Uploads \ {u} PROVE upload[v].name # upload[u].name
  BY <1>2, ProtocolAssumption DEF OnlyUpload, NamesStay
<1> QED BY <1>2, <1>3 DEF OnlyUpload, Tried

\* A file whose only upload had reached no server is nowhere.
LEMMA NotYetStored ==
  ASSUME Settled, StoredIsUploaded, NEW u \in Uploads, OnlyUpload(u)',
         upload[u].src = NoPart, upload'[u].name \in Files
  PROVE  Holders(upload'[u].name) = {}
<1> DEFINE f == upload'[u].name
<1> SUFFICES ASSUME NEW s \in Servers, f \in dir[s] PROVE FALSE
  BY DEF Holders
<1>1. PICK v \in Uploads : upload[v].name = f /\ upload[v].src # NoPart
  BY DEF StoredIsUploaded
<1>2. v # u /\ upload'[v].name = f
  BY <1>1 DEF Settled
<1> QED BY <1>2 DEF OnlyUpload

\* The directories stay as they are.
LEMMA MovesKeepOrigin ==
  ASSUME TypeInv, TypeInv', Settled, OriginInv, OriginMoves
  PROVE  OriginInv'
<1>H. \A f : Holders(f)' = Holders(f)
  BY DEF Holders, OriginMoves, DirsStay
<1>T. \A k \in ConnIds : conn'[k].file \in Files /\ conn'[k].srv \in Servers
  BY DEF TypeInv, SystemTypeOK, ServerTypeOK, Conn
<1>0. StoredIsUploaded /\ OpenedIsStored /\ CopiedIsStored
  BY DEF OriginInv
<1>1. StoredIsUploaded'
  <2> SUFFICES ASSUME NEW s \in Servers, NEW f \in Files
               PROVE  /\ f \in dir[s] => \E u \in Uploads :
                           upload'[u].name = f /\ upload'[u].src # NoPart
                      /\ f \notin dir[s] => bytes'[s][f] = {}
    BY DEF StoredIsUploaded, OriginMoves, DirsStay
  <2> QED BY <1>0 DEF StoredIsUploaded, OriginMoves, DirsStay, Settled
<1>2. OpenedIsStored'
  <2> SUFFICES ASSUME NEW k \in ConnIds, conn'[k].pc \in Opened
               PROVE  conn'[k].file \in dir[conn'[k].srv]
    BY DEF OpenedIsStored, OriginMoves, DirsStay
  <2>1. ConnStays(k)
    BY DEF OriginMoves, ConnsMove, ConnBegins, Opened
  <2> QED BY <1>0, <2>1 DEF OpenedIsStored, ConnStays, Opened
<1>3. CopiedIsStored'
  <2>1. ASSUME NEW k \in CopyConns, conn'[k].pc # "free"
        PROVE  Holders(conn'[k].file) # {}
    <3>1. k \in ConnIds
      BY DEF ConnIds
    <3>2. CASE ConnStays(k)
      BY <1>0, <2>1, <3>2 DEF CopiedIsStored, ConnStays
    <3>3. CASE ConnBegins(k)
      BY <1>0, <1>T, <2>1, <3>1, <3>3 DEF CopiedIsStored, ConnBegins, Spreading
    <3> QED BY <3>1, <3>2, <3>3 DEF OriginMoves, ConnsMove
  <2>2. ASSUME NEW c \in Cycles, NEW f \in Files, copy'[c][f].pc \in Spreading
        PROVE  Holders(f) # {}
    BY <1>0, <2>2 DEF CopiedIsStored, OriginMoves, CopiesMove, CopyStays, CopyFinds
  <2> QED BY <1>H, <2>1, <2>2 DEF CopiedIsStored
<1>4. ASSUME NEW u \in Uploads, OnlyUpload(u)', upload[u].src # NoPart
      PROVE  OriginFirst(u)'
  <2> DEFINE f == upload[u].name
             o == Tried(u)
  <2>1. OnlyUpload(u) /\ upload'[u].name = f /\ Tried(u)' = o /\ f \in Files
    BY <1>4, StaysOnly DEF OriginMoves
  <2>2. OriginFirst(u)
    BY <2>1 DEF OriginInv
  <2>3. Holders(f) # {} => f \in dir[o]
    BY <2>2 DEF OriginFirst
  <2>4. conn'[u].pc \in Unopened => f \notin dir[o]
    <3>1. u \in ConnIds
      BY DEF ConnIds
    <3>2. ConnStays(u)
      BY <1>4, <3>1 DEF OriginMoves, ConnsMove, ConnBegins
    <3> QED BY <2>2, <3>2 DEF ConnStays, OriginFirst, Unopened
  <2>5. ASSUME NEW k \in CopyConns, conn'[k].pc # "free", conn'[k].file = f
        PROVE  conn'[k].srv # o
    <3>1. CASE ConnStays(k)
      BY <2>2, <2>5, <3>1 DEF ConnStays, OriginFirst
    <3>2. CASE ConnBegins(k)
      BY <2>2, <2>5, <3>2 DEF ConnBegins, OriginFirst
    <3> QED BY <3>1, <3>2 DEF OriginMoves, ConnsMove, ConnIds
  <2>6. ASSUME NEW c \in Cycles, copy'[c][f].pc = "send"
        PROVE  copy'[c][f].at # o
    <3>1. CASE CopyStays(c, f)
      BY <2>2, <2>6, <3>1 DEF CopyStays, OriginFirst
    <3>2. CASE CopyFinds(c, f)
      BY <2>3, <2>6, <3>2 DEF CopyFinds, Spreading
    <3> QED BY <2>1, <3>1, <3>2 DEF OriginMoves, CopiesMove
  <2>7. dir' = dir
    BY DEF OriginMoves, DirsStay
  <2> HIDE DEF o
  <2> QED BY <1>H, <2>1, <2>3, <2>4, <2>5, <2>6, <2>7 DEF OriginFirst
<1>5. ASSUME NEW u \in Uploads, OnlyUpload(u)', upload[u].src = NoPart
      PROVE  OriginFirst(u)'
  <2>1. PICK f \in Files : upload'[u].name = f
    BY <1>5 DEF TypeInv, UploadOK, OnlyUpload
  <2>2. Holders(f)' = {}
    BY <1>0, <1>5, <1>H, <2>1, NotYetStored
  <2>3. Tried(u)' \in Servers
    BY GatewayAssumption DEF TypeInv, SystemTypeOK, GatewayTypeOK, Upload, Tried
  <2>4. \A s \in Servers : f \notin dir'[s]
    BY <2>2 DEF Holders
  <2>5. \A k \in CopyConns : conn'[k].pc # "free" => conn'[k].file # f
    BY <1>3, <2>2 DEF CopiedIsStored
  <2>6. \A c \in Cycles : copy'[c][f].pc # "send"
    BY <1>3, <2>1, <2>2 DEF CopiedIsStored, Spreading
  <2> QED BY <2>1, <2>2, <2>3, <2>4, <2>5, <2>6 DEF OriginFirst
<1> QED BY <1>1, <1>2, <1>3, <1>4, <1>5 DEF OriginInv

\* A connection opens its file: the directory of its server grows.
LEMMA OpenFileKeepsOrigin ==
  ASSUME TypeInv, OriginInv, NEW k \in ConnIds, Handler(k), ~FirstNotified(k),
         OpenFile(k)
  PROVE  OriginInv'
<1> DEFINE s == conn[k].srv
           f == conn[k].file
<1>0. StoredIsUploaded /\ OpenedIsStored /\ CopiedIsStored
  BY DEF OriginInv
<1>T. /\ conn \in [ConnIds -> Conn]
      /\ dir \in [Servers -> SUBSET Files]
      /\ bytes \in [Servers -> [Files -> SUBSET Chunk]]
      /\ s \in Servers /\ f \in Files
      /\ conn[k].pc = "accepted"
  BY DEF TypeInv, SystemTypeOK, ServerTypeOK, OpenFile, Conn
<1>U. UNCHANGED <<upload, copy>>
  BY DEF Handler, OpenFile, UploadingFinished, gatewayVars, replicationVars
<1>D. dir' = [dir EXCEPT ![s] = @ \cup {f}]
  BY DEF OpenFile
<1>B. \A t \in Servers, g \in Files : t # s \/ g # f => bytes'[t][g] = bytes[t][g]
  BY <1>T DEF OpenFile
<1>C. /\ conn'[k].pc = "open" /\ conn'[k].srv = s /\ conn'[k].file = f
      /\ \A h \in ConnIds \ {k} : conn'[h] = conn[h]
  BY <1>T DEF OpenFile, Conn
<1> HIDE DEF s, f
<1>M. /\ \A t \in Servers : dir[t] \subseteq dir'[t]
      /\ \A t \in Servers, g \in Files :
           g \in dir'[t] => g \in dir[t] \/ (t = s /\ g = f)
      /\ f \in dir'[s]
      /\ \A g : Holders(g) \subseteq Holders(g)'
  BY <1>D, <1>T DEF Holders
<1>F. \E u \in Uploads : upload[u].name = f /\ upload[u].src # NoPart
  <2>1. CASE k \in Uploads
    BY <1>T, <2>1 DEF TypeInv, UploadOK, f
  <2>2. CASE k \in CopyConns
    BY <1>0, <1>T, <2>2 DEF CopiedIsStored, StoredIsUploaded, Holders, f
  <2> QED BY <2>1, <2>2 DEF ConnIds
<1>1. StoredIsUploaded'
  BY <1>0, <1>B, <1>F, <1>M, <1>U DEF StoredIsUploaded
<1>2. OpenedIsStored'
  <2> SUFFICES ASSUME NEW h \in ConnIds, conn'[h].pc \in Opened
               PROVE  conn'[h].file \in dir'[conn'[h].srv]
    BY DEF OpenedIsStored
  <2>1. CASE h = k
    BY <1>C, <1>M, <2>1
  <2>2. CASE h # k
    BY <1>0, <1>C, <1>M, <1>T, <2>2 DEF OpenedIsStored, Conn
  <2> QED BY <2>1, <2>2
<1>3. CopiedIsStored'
  <2>1. ASSUME NEW h \in CopyConns, conn'[h].pc # "free"
        PROVE  Holders(conn[h].file) # {} /\ conn'[h].file = conn[h].file
    BY <1>0, <1>C, <1>T, <2>1 DEF CopiedIsStored, ConnIds, f
  <2> QED BY <1>0, <1>M, <1>U, <2>1 DEF CopiedIsStored
<1>4. ASSUME NEW u \in Uploads, OnlyUpload(u)'
      PROVE  OriginFirst(u)'
  <2> DEFINE n == upload[u].name
             o == Tried(u)
  <2>1. OnlyUpload(u) /\ Tried(u)' = o /\ upload'[u].name = n
    BY <1>4, <1>U DEF OnlyUpload, Tried
  <2>2. OriginFirst(u)
    BY <2>1 DEF OriginInv
  <2>3. o \in Servers /\ n \in Files
    BY <2>1, TriedType DEF TypeInv, SystemTypeOK, OnlyUpload, UploadOK
  <2>4. k \in Uploads /\ f = n => k = u /\ s = o
    BY <1>T, <2>1 DEF TypeInv, UploadOK, OnlyUpload, f, s
  <2>5. k \in CopyConns /\ f = n => n \in dir[o]
    BY <1>0, <1>T, <2>2 DEF CopiedIsStored, OriginFirst, f
  <2>6. ASSUME NEW t \in Servers, n \in dir'[t] PROVE n \in dir'[o]
    <3>1. CASE f = n
      BY <1>M, <2>3, <2>4, <2>5, <3>1 DEF ConnIds
    <3>2. CASE f # n
      BY <1>M, <2>2, <2>3, <2>6, <3>2 DEF Holders, OriginFirst
    <3> QED BY <3>1, <3>2
  <2>7. ASSUME conn'[u].pc \in Unopened PROVE n \notin dir'[o]
    <3>1. u # k /\ conn'[u] = conn[u]
      BY <1>C, <2>7 DEF Unopened, ConnIds
    <3>2. n \notin dir[o]
      BY <2>2, <2>7, <3>1 DEF OriginFirst
    <3>3. f # n
      BY <2>4, <2>5, <3>1, <3>2 DEF ConnIds
    <3> QED BY <1>M, <2>3, <3>2, <3>3
  <2>8. ASSUME NEW h \in CopyConns, conn'[h].pc # "free", conn'[h].file = n
        PROVE  conn'[h].srv # o
    BY <1>C, <1>T, <2>2, <2>8 DEF OriginFirst, ConnIds, f, s
  <2>9. \A c \in Cycles : copy'[c][n].pc = "send" => copy'[c][n].at # o
    BY <1>U, <2>2 DEF OriginFirst
  <2> HIDE DEF o
  <2> QED BY <2>1, <2>6, <2>7, <2>8, <2>9 DEF OriginFirst, Holders
<1> QED BY <1>1, <1>2, <1>3, <1>4 DEF OriginInv

\* Steps of the gateway and its upload threads.
LEMMA RequestMoves ==
  ASSUME TypeInv, NEW u \in Uploads, Request(u)
  PROVE  OriginMoves
<1>T. /\ conn \in [ConnIds -> Conn] /\ upload \in [Uploads -> Upload]
      /\ UploadOK(u) /\ u \in ConnIds
  BY DEF TypeInv, SystemTypeOK, ServerTypeOK, GatewayTypeOK, ConnIds
<1>1. DirsStay
  BY DEF Request, StartUpload, UploadThread, Probe, Connect, Announce, SendBytes,
         FinishTransfer, AbortTransfer, CloseConnection, serverVars, DirsStay
<1>2. CopiesMove
  BY DEF Request, replicationVars, CopiesMove, CopyStays
<1>3. NamesStay
  <2> SUFFICES ASSUME NEW v \in Uploads
               PROVE  upload'[v].name = upload[v].name \/ upload[v].name = NoFile
    BY DEF NamesStay
  <2>1. CASE v # u
    BY <1>T, <2>1
       DEF Request, StartUpload, UploadThread, Probe, Connect, Announce,
           SendBytes, FinishTransfer, AbortTransfer, CloseConnection
  <2>2. CASE v = u /\ StartUpload(u)
    BY <1>T, <2>2 DEF StartUpload, UploadOK
  <2>3. CASE v = u /\ UploadThread(u)
    BY <1>T, <2>3
       DEF UploadThread, Probe, Connect, Announce, SendBytes, FinishTransfer,
           AbortTransfer, CloseConnection, Upload
  <2> QED BY <2>1, <2>2, <2>3 DEF Request
<1>4. ConnsMove
  <2> SUFFICES ASSUME NEW k \in ConnIds PROVE ConnStays(k) \/ ConnBegins(k)
    BY DEF ConnsMove
  <2>1. CASE conn'[k] = conn[k]
    BY <2>1 DEF ConnStays
  <2>2. CASE k # u
    <3>1. conn'[k] = conn[k]
      BY <1>T, <2>2
         DEF Request, StartUpload, UploadThread, Probe, Connect, Announce,
             SendBytes, FinishTransfer, AbortTransfer, CloseConnection, serverVars
    <3> QED BY <2>1, <3>1
  <2>3. CASE k = u /\ Connect(u)
    BY <1>T, <2>1, <2>3, FileServerAssumption
       DEF Connect, ConnBegins, NewConn, UploadOK
  <2>4. CASE k = u /\ (SendBytes(u) \/ CloseConnection(u))
    BY <1>T, <2>4 DEF SendBytes, CloseConnection, ConnStays, Conn, ConnLost
  <2>5. CASE conn' = conn
    BY <2>1, <2>5
  <2> QED
    BY <2>2, <2>3, <2>4, <2>5
       DEF Request, StartUpload, UploadThread, Probe, Announce, FinishTransfer,
           AbortTransfer, serverVars
<1> QED BY <1>1, <1>2, <1>3, <1>4 DEF OriginMoves

\* Steps of a file server's handler, but for the one that opens the file.
LEMMA HandlerMoves ==
  ASSUME TypeInv, OriginInv, NEW k \in ConnIds, Handler(k), ~FirstNotified(k),
         ~OpenFile(k)
  PROVE  OriginMoves
<1>T. conn \in [ConnIds -> Conn] /\ bytes \in [Servers -> [Files -> SUBSET Chunk]]
  BY DEF TypeInv, SystemTypeOK, ServerTypeOK
<1>1. DirsStay
  <2>1. CASE WriteBytes(k)
    <3>1. conn[k].file \in dir[conn[k].srv]
      BY <2>1 DEF WriteBytes, OriginInv, OpenedIsStored, Opened
    <3>2. \A s \in Servers, f \in Files :
             s # conn[k].srv \/ f # conn[k].file => bytes'[s][f] = bytes[s][f]
      BY <1>T, <2>1 DEF WriteBytes
    <3> QED BY <2>1, <3>1, <3>2 DEF WriteBytes, DirsStay
  <2>2. CASE ~WriteBytes(k)
    BY <2>2 DEF Handler, Accept, HeaderLost, EndOfStream, UploadingFinished,
                DirsStay
  <2> QED BY <2>1, <2>2
<1>2. CopiesMove
  BY DEF Handler, replicationVars, CopiesMove, CopyStays
<1>3. NamesStay
  BY DEF Handler, UploadingFinished, gatewayVars, NamesStay
<1>4. ConnsMove
  <2> SUFFICES ASSUME NEW h \in ConnIds PROVE ConnStays(h)
    BY DEF ConnsMove
  <2>1. CASE h # k
    BY <1>T, <2>1 DEF Handler, Accept, HeaderLost, WriteBytes, EndOfStream,
                      UploadingFinished, ConnStays
  <2>2. CASE h = k /\ (Accept(k) \/ WriteBytes(k) \/ EndOfStream(k))
    BY <1>T, <2>2 DEF Accept, WriteBytes, EndOfStream, ConnStays, Conn, Opened,
                      Unopened
  <2>3. CASE h = k /\ (HeaderLost(k) \/ UploadingFinished(k))
    BY <1>T, <2>3 DEF HeaderLost, UploadingFinished, ConnStays, FreeConn
  <2> QED BY <2>1, <2>2, <2>3 DEF Handler
<1> QED BY <1>1, <1>2, <1>3, <1>4 DEF OriginMoves

\* Steps that touch neither connections nor copies, and those of the environment.
LEMMA QuietMoves ==
  ASSUME UNCHANGED <<dir, bytes, conn, copy>>, NamesStay
  PROVE  OriginMoves
BY DEF OriginMoves, DirsStay, ConnsMove, ConnStays, CopiesMove, CopyStays

LEMMA EnvironmentMoves ==
  ASSUME TypeInv,
         \/ /\ \E u \in Uploads : SelectFile(u)
            /\ UNCHANGED <<download, replicationVars, environmentVars>>
         \/ \E s \in Servers : Stop(s)
         \/ Crash
  PROVE  OriginMoves
<1>T. conn \in [ConnIds -> Conn] /\ upload \in [Uploads -> Upload]
  BY DEF TypeInv, SystemTypeOK, ServerTypeOK, GatewayTypeOK
<1>1. ASSUME NEW u \in Uploads, SelectFile(u), UNCHANGED replicationVars
      PROVE  OriginMoves
  <2>1. NamesStay
    BY <1>1, <1>T DEF SelectFile, Upload, NamesStay
  <2> QED BY <1>1, <2>1, QuietMoves DEF SelectFile, serverVars, replicationVars
<1>2. ASSUME NEW s \in Servers, Stop(s)
      PROVE  OriginMoves
  <2>1. NamesStay /\ DirsStay /\ CopiesMove
    BY <1>2 DEF Stop, StopServer, gatewayVars, replicationVars, NamesStay, DirsStay,
                CopiesMove, CopyStays
  <2>2. \A k \in ConnIds : conn'[k] = conn[k] \/ conn'[k] = FreeConn
    BY <1>2 DEF Stop, StopServer
  <2>3. FreeConn.pc = "free"
    BY DEF FreeConn
  <2>4. ConnsMove
    BY <2>2, <2>3 DEF ConnsMove, ConnStays
  <2> QED BY <2>1, <2>4 DEF OriginMoves
<1>3. CASE Crash
  <2>1. NamesStay
    BY <1>3, <1>T DEF Crash, GatewayCrash, Upload, NamesStay
  <2>2. DirsStay /\ CopiesMove
    BY <1>3 DEF Crash, GatewayCrash, replicationVars, DirsStay, CopiesMove, CopyStays
  <2>3. ConnsMove
    <3> SUFFICES ASSUME NEW k \in ConnIds PROVE ConnStays(k)
      BY DEF ConnsMove
    <3>1. conn'[k] = conn[k] \/ conn'[k] = [conn[k] EXCEPT !.end = "reset"]
      BY <1>3 DEF Crash, GatewayCrash
    <3> QED BY <1>T, <3>1 DEF ConnStays, Conn
  <2> QED BY <2>1, <2>2, <2>3 DEF OriginMoves
<1> QED BY <1>1, <1>2, <1>3

LEMMA BeanMoves ==
  ASSUME BeanOnly
  PROVE  OriginMoves
BY QuietMoves DEF BeanOnly, replicationVars, NamesStay

\* The thread of a cycle: a copy that begins has yet to find its file.
LEMMA CycleMoves ==
  ASSUME TypeInv, NEW c \in Cycles, CycleStep(c), ~FirstToReadList(c)
  PROVE  OriginMoves
<1>1. NamesStay /\ UNCHANGED <<dir, bytes, conn>>
  BY DEF CycleStep, CycleThread, ListServer, ResumeScan, NextFile, EndCycle,
         serverVars, gatewayVars, NamesStay
<1>2. CASE UNCHANGED copy
  BY <1>1, <1>2, QuietMoves
<1>3. ASSUME NEW f \in Files,
             copy' = [copy EXCEPT ![c][f] = [NoCopy EXCEPT !.pc = "search"]]
      PROVE  CopiesMove
  <2> SUFFICES ASSUME NEW d \in Cycles, NEW g \in Files PROVE CopyStays(d, g)
    BY DEF CopiesMove
  <2>1. copy'[d][g] = copy[d][g] \/ copy'[d][g].pc = "search"
    BY <1>3 DEF TypeInv, SystemTypeOK, ReplicationTypeOK, NoCopy
  <2> QED BY <2>1 DEF CopyStays, Spreading
<1>4. UNCHANGED copy \/ CopiesMove
  <2>1. CASE NextFile(c)
    <3>1. PICK f \in cycle[c].todo :
            \/ UNCHANGED copy
            \/ copy' = [copy EXCEPT ![c][f] = [NoCopy EXCEPT !.pc = "search"]]
      BY <2>1 DEF NextFile
    <3>2. f \in Files
      BY DEF TypeInv, SystemTypeOK, ReplicationTypeOK, Cycle
    <3> QED BY <1>3, <3>1, <3>2
  <2>2. CASE ListServer(c) \/ ResumeScan(c) \/ EndCycle(c)
    BY <2>2 DEF ListServer, ResumeScan, EndCycle
  <2> QED BY <2>1, <2>2 DEF CycleStep, CycleThread
<1> QED BY <1>1, <1>2, <1>4 DEF OriginMoves, DirsStay, ConnsMove, ConnStays

OthersStay(c, f) ==
  \A d \in Cycles, g \in Files : d # c \/ g # f => copy'[d][g] = copy[d][g]

LEMMA CopyToMoves ==
  ASSUME ReplicationTypeOK, NEW c \in Cycles, NEW f \in Files, NEW pc, NEW s,
         CopyTo(c, f, pc, s)
  PROVE  OthersStay(c, f) /\ copy'[c][f].pc = pc /\ copy'[c][f].at = s
BY DEF CopyTo, ReplicationTypeOK, Copy, OthersStay

LEMMA EndCopyMoves ==
  ASSUME ReplicationTypeOK, NEW c \in Cycles, NEW f \in Files, EndCopy(c, f)
  PROVE  OthersStay(c, f) /\ copy'[c][f].pc = "none"
BY DEF EndCopy, ReplicationTypeOK, NoCopy, OthersStay

\* An error ends a copy or delays it, and starts the distribution again only if
\* it met the operator that guards the distribution.
LEMMA CopyErrorMoves ==
  ASSUME ReplicationTypeOK, NEW c \in Cycles, NEW f \in Files, NEW path,
         CopyError(c, f, path)
  PROVE  /\ OthersStay(c, f)
         /\ copy'[c][f].pc \in {"none", "delaySearch", "delaySpread"}
         /\ copy'[c][f].pc = "delaySpread" =>
              \E i \in 1..Len(path) : path[i][1] = "distribute"
<1>1. CASE EndCopy(c, f)
  BY <1>1, EndCopyMoves
<1>2. ASSUME NEW i \in 1..Len(path),
             copy' = [copy EXCEPT
                        ![c][f].pc = IF path[i][1] = "distribute"
                                     THEN "delaySpread" ELSE "delaySearch",
                        ![c][f].at = 1]
      PROVE  /\ OthersStay(c, f)
             /\ copy'[c][f].pc \in {"delaySearch", "delaySpread"}
             /\ copy'[c][f].pc = "delaySpread" => path[i][1] = "distribute"
  <2> DEFINE pc == IF path[i][1] = "distribute" THEN "delaySpread"
                   ELSE "delaySearch"
  <2>1. copy' = [copy EXCEPT ![c][f].pc = pc, ![c][f].at = 1]
    BY <1>2
  <2>2. /\ pc \in {"delaySearch", "delaySpread"}
        /\ pc = "delaySpread" => path[i][1] = "distribute"
    OBVIOUS
  <2> HIDE DEF pc
  <2>3. OthersStay(c, f) /\ copy'[c][f].pc = pc
    BY <2>1 DEF ReplicationTypeOK, Copy, OthersStay
  <2> QED BY <2>2, <2>3
<1> QED BY <1>1, <1>2 DEF CopyError

\* The search is not guarded by the operator that guards the distribution.
LEMMA SearchPathsEndSearch ==
  ASSUME NEW f \in Files, NEW path \in {FirstPath(f), HasPath(f), SearchPath(f)},
         NEW i \in 1..Len(path)
  PROVE  path[i][1] # "distribute"
<1> DEFINE Others == {"alive", "has", "first", "rest"} \X (Files \cup {NoFile})
<1>S. \A x, y \in Others : <<x>> \in Seq(Others) /\ <<x, y>> \in Seq(Others)
  OBVIOUS
<1>1. /\ Alive \in Others /\ <<"has", f>> \in Others
      /\ <<"first", f>> \in Others /\ <<"rest", f>> \in Others
  BY DEF Alive
<1>O. \A x \in Others : x[1] # "distribute"
  OBVIOUS
<1> HIDE DEF Others
<1>2. FirstPath(f) \in Seq(Others)
  BY <1>1, <1>S DEF FirstPath
<1>3. HasPath(f) \in Seq(Others)
  <2>1. <<<<"has", f>>>> \in Seq(Others)
    BY <1>1, <1>S
  <2> QED BY <1>2, <2>1 DEF HasPath
<1>4. SearchPath(f) \in Seq(Others)
  <2>1. <<Alive>> \in Seq(Others)
    BY <1>1, <1>S
  <2> QED BY <1>3, <2>1 DEF SearchPath
<1>5. path[i] \in Others
  BY <1>2, <1>3, <1>4
<1> QED BY <1>O, <1>5

\* The pipeline of a copy.
LEMMA CopyMoves ==
  ASSUME TypeInv, OriginInv, NEW c \in Cycles, NEW f \in Files, CopyStep(c, f)
  PROVE  OriginMoves
<1> DEFINE s == ServerOf(c, f)
           Self == CopyStays(c, f) \/ CopyFinds(c, f)
<1>R. /\ ReplicationTypeOK /\ copy[c][f] \in Copy /\ s \in Servers
      /\ conn \in [ConnIds -> Conn] /\ CopyConns \subseteq ConnIds
  BY DEF TypeInv, SystemTypeOK, ServerTypeOK, ReplicationTypeOK, Copy, ServerOf, ConnIds
<1>H. copy[c][f].pc \in Spreading => Holders(f) # {}
  BY DEF OriginInv, CopiedIsStored
<1>F. NamesStay /\ UNCHANGED <<dir, bytes>>
  BY DEF CopyStep, CopyThread, Search, Fetch, Fill, Spread, Send, ResumeCopy,
         serverVars, gatewayVars, NamesStay
<1>O. ASSUME OthersStay(c, f), Self PROVE CopiesMove
  BY <1>O DEF OthersStay, CopiesMove, CopyStays
<1>C. ASSUME UNCHANGED conn, OthersStay(c, f), Self PROVE OriginMoves
  BY <1>C, <1>O, <1>F DEF OriginMoves, DirsStay, ConnsMove, ConnStays
<1>E. ASSUME EndCopy(c, f) PROVE OthersStay(c, f) /\ Self
  BY <1>E, <1>R, EndCopyMoves DEF CopyStays, Spreading
<1>X. ASSUME NEW path \in {FirstPath(f), HasPath(f), SearchPath(f)},
             CopyError(c, f, path)
      PROVE  OthersStay(c, f) /\ Self
  <2>1. OthersStay(c, f) /\ copy'[c][f].pc \in {"none", "delaySearch"}
    BY <1>R, <1>X, CopyErrorMoves, SearchPathsEndSearch
  <2> QED BY <2>1 DEF CopyStays, Spreading
<1>Y. ASSUME NEW path \in {RestPath(f), SpreadPath(f)}, CopyError(c, f, path),
             CopyIn(c, f, "spread")
      PROVE  OthersStay(c, f) /\ Self
  <2>1. /\ OthersStay(c, f)
        /\ copy'[c][f].pc \in {"none", "delaySearch", "delaySpread"}
    BY <1>R, <1>Y, CopyErrorMoves
  <2> QED BY <1>Y, <2>1 DEF CopyStays, CopyIn, Spreading
<1>N. ASSUME SearchOn(c, f) PROVE OthersStay(c, f) /\ Self
  <2>1. CASE CopyTo(c, f, "search", s + 1)
    BY <1>R, <2>1, CopyToMoves DEF CopyStays, Spreading
  <2>2. CASE CopyError(c, f, FirstPath(f))
    BY <1>X, <2>2
  <2> QED BY <1>N, <2>1, <2>2 DEF SearchOn
<1>1. CASE Search(c, f)
  <2>1. CASE CopyTo(c, f, "fetch", s) /\ Has(s, f)
    <3>1. OthersStay(c, f) /\ copy'[c][f].pc = "fetch"
      BY <1>R, <2>1, CopyToMoves
    <3>2. CopyFinds(c, f)
      BY <1>R, <2>1, <3>1 DEF CopyFinds, Holders, Has
    <3> QED BY <1>1, <1>C, <3>1, <3>2 DEF Search
  <2>2. CASE SearchOn(c, f)
    BY <1>1, <1>C, <1>N, <2>2 DEF Search
  <2>3. CASE CopyError(c, f, SearchPath(f)) \/ CopyError(c, f, HasPath(f))
    BY <1>1, <1>C, <1>X, <2>3 DEF Search
  <2> QED BY <1>1, <2>1, <2>2, <2>3 DEF Search
<1>2. CASE Fetch(c, f)
  <2>1. CASE CopyTo(c, f, "fill", s)
    <3>1. OthersStay(c, f) /\ copy'[c][f].pc = "fill"
      BY <1>R, <2>1, CopyToMoves
    <3>2. CopyStays(c, f)
      BY <1>2, <3>1 DEF Fetch, CopyIn, CopyStays, Spreading
    <3> QED BY <1>2, <1>C, <3>1, <3>2 DEF Fetch
  <2>2. CASE SearchOn(c, f)
    BY <1>2, <1>C, <1>N, <2>2 DEF Fetch
  <2>3. CASE CopyError(c, f, FirstPath(f))
    BY <1>2, <1>C, <1>X, <2>3 DEF Fetch
  <2> QED BY <1>2, <2>1, <2>2, <2>3 DEF Fetch
<1>3. CASE Fill(c, f)
  <2>1. copy[c][f].pc = "fill"
          /\ copy' = [copy EXCEPT ![c][f].pc = "spread", ![c][f].at = 1]
    BY <1>3 DEF Fill, CopyIn
  <2>2. OthersStay(c, f) /\ copy'[c][f].pc = "spread"
    BY <1>R, <2>1 DEF ReplicationTypeOK, Copy, OthersStay
  <2> QED BY <1>3, <1>C, <2>1, <2>2 DEF Fill, serverVars, CopyStays, Spreading
<1>4. CASE Spread(c, f)
  <2>0. CopyIn(c, f, "spread") /\ UNCHANGED conn
    BY <1>4 DEF Spread
  <2>1. CASE CopyTo(c, f, "send", s) /\ f \notin dir[s]
    <3>1. /\ OthersStay(c, f)
          /\ copy'[c][f].pc = "send" /\ copy'[c][f].at = s
      BY <1>R, <2>1, CopyToMoves
    <3>2. CopyFinds(c, f)
      BY <1>H, <2>0, <2>1, <3>1 DEF CopyFinds, CopyIn, Spreading
    <3> QED BY <1>C, <2>0, <3>1, <3>2
  <2>2. CASE SpreadOn(c, f)
    <3>1. CASE CopyTo(c, f, "spread", s + 1)
      <4>1. OthersStay(c, f) /\ copy'[c][f].pc = "spread"
        BY <1>R, <3>1, CopyToMoves
      <4> QED BY <1>C, <2>0, <4>1 DEF CopyStays, CopyIn, Spreading
    <3>2. CASE EndCopy(c, f)
      BY <1>C, <1>E, <2>0, <3>2
    <3> QED BY <2>2, <3>1, <3>2 DEF SpreadOn
  <2>3. CASE CopyError(c, f, SpreadPath(f)) \/ CopyError(c, f, RestPath(f))
    BY <1>C, <1>Y, <2>0, <2>3
  <2> QED BY <1>4, <2>1, <2>2, <2>3 DEF Spread
<1>5. CASE Send(c, f)
  <2>0. copy[c][f].pc = "send"
    BY <1>5 DEF Send, CopyIn
  <2>1. OthersStay(c, f) /\ Self
    <3>1. CASE EndCopy(c, f)
      BY <1>E, <3>1
    <3>2. CASE copy' = [copy EXCEPT ![c][f].pc = "spread", ![c][f].at = s + 1,
                                    ![c][f].taken = copy[c][f].taken + 1]
      <4>1. OthersStay(c, f) /\ copy'[c][f].pc = "spread"
        BY <1>R, <3>2 DEF ReplicationTypeOK, Copy, OthersStay
      <4> QED BY <2>0, <4>1 DEF CopyStays, Spreading
    <3> QED BY <1>5, <3>1, <3>2 DEF Send
  <2>2. ConnsMove
    <3> SUFFICES ASSUME NEW k \in ConnIds PROVE ConnStays(k) \/ ConnBegins(k)
      BY DEF ConnsMove
    <3>1. CASE conn'[k] = conn[k]
      BY <3>1 DEF ConnStays
    <3>2. CASE k \in CopyConns /\ conn'[k] = NewConn(s, f, local[f], "closed")
      <4>1. conn'[k].pc = "backlog" /\ conn'[k].srv = s /\ conn'[k].file = f
        BY <3>2 DEF NewConn
      <4> QED BY <2>0, <3>2, <4>1, FileServerAssumption DEF ConnBegins, ServerOf
    <3>3. conn' = conn \/ \E h \in CopyConns :
            conn' = [conn EXCEPT ![h] = NewConn(s, f, local[f], "closed")]
      BY <1>5 DEF Send
    <3> QED BY <1>R, <3>1, <3>2, <3>3
  <2> QED BY <1>F, <1>O, <2>1, <2>2 DEF OriginMoves, DirsStay
<1>6. CASE ResumeCopy(c, f)
  <2>0. UNCHANGED conn
    BY <1>6 DEF ResumeCopy, serverVars
  <2>1. CASE CopyTo(c, f, "search", 1)
    <3>1. OthersStay(c, f) /\ copy'[c][f].pc = "search"
      BY <1>R, <2>1, CopyToMoves
    <3> QED BY <1>C, <2>0, <3>1 DEF CopyStays, Spreading
  <2>2. CASE CopyIn(c, f, "delaySpread") /\ CopyTo(c, f, "spread", 1)
    <3>1. OthersStay(c, f) /\ copy'[c][f].pc = "spread"
      BY <1>R, <2>2, CopyToMoves
    <3> QED BY <1>C, <2>0, <2>2, <3>1 DEF CopyStays, CopyIn, Spreading
  <2> QED BY <1>6, <2>1, <2>2 DEF ResumeCopy
<1> QED BY <1>1, <1>2, <1>3, <1>4, <1>5, <1>6 DEF CopyStep, CopyThread

LEMMA OriginNext == TypeInv /\ TypeInv' /\ OriginInv /\ [Next]_vars => OriginInv'
<1> SUFFICES ASSUME TypeInv, TypeInv', OriginInv, [Next]_vars PROVE OriginInv'
  OBVIOUS
<1>1. Settled
  BY StepsSettle
<1>2. CASE OriginMoves
  BY <1>1, <1>2, MovesKeepOrigin
<1>3. ASSUME NEW k \in ConnIds, Handler(k), ~FirstNotified(k) PROVE OriginInv'
  BY <1>2, <1>3, HandlerMoves, OpenFileKeepsOrigin
<1>4. CASE ServiceThread
  BY <1>2, <1>4, QuietMoves
     DEF ServiceThread, StartCycle, serverVars, gatewayVars, NamesStay
<1>5. CASE DownloadOnly
  BY <1>2, <1>5, QuietMoves
     DEF DownloadOnly, gatewayVars, replicationVars, NamesStay
<1> QED
  BY <1>2, <1>3, <1>4, <1>5, StepKinds, RequestMoves, BeanMoves, EnvironmentMoves,
     CycleMoves, CopyMoves

LEMMA OriginInvariance == Spec => []OriginInv
BY TypeInvariance, OriginInit, OriginNext, PTL DEF Spec

\* The replication service never uploads a file to the server its only upload
\* went to.
THEOREM OriginNotTargetedCorrect == Spec => []OriginNotTargeted
<1>1. OriginInv => OriginNotTargeted
  BY DEF OriginInv, OriginFirst, OriginNotTargeted
<1> QED BY <1>1, OriginInvariance, PTL

\* Writing a part of a file over the whole of it changes nothing.
LEMMA OverwriteWhole ==
  ASSUME NEW u \in Uploads, NEW new \in SUBSET Whole(u)
  PROVE  Overwrite(Whole(u), new) = Whole(u)
<1>1. ASSUME NEW x \in Whole(u), At(new, x[1]) # {} PROVE x \in new
  <2>1. PICK y \in new : y[1] = x[1]
    BY <1>1 DEF At
  <2>2. y \in Whole(u)
    OBVIOUS
  <2>3. x = y
    BY <2>1, <2>2 DEF Whole
  <2> QED BY <2>3
<1> QED BY <1>1 DEF Overwrite

\* Only the handler that opens or writes a file changes what it holds.
LEMMA BytesChange ==
  ASSUME TypeInv, [Next]_vars, NEW s \in Servers, NEW f \in Files
  PROVE  \/ bytes'[s][f] = bytes[s][f]
         \/ \E k \in ConnIds : /\ conn[k].srv = s /\ conn[k].file = f
                               /\ OpenFile(k) \/ WriteBytes(k)
<1>T. bytes \in [Servers -> [Files -> SUBSET Chunk]]
  BY DEF TypeInv, SystemTypeOK, ServerTypeOK
<1>0. CASE bytes' = bytes
  BY <1>0
<1>1. ASSUME NEW k \in ConnIds, OpenFile(k) \/ WriteBytes(k),
             conn[k].srv # s \/ conn[k].file # f
      PROVE  bytes'[s][f] = bytes[s][f]
  BY <1>1, <1>T DEF OpenFile, WriteBytes
<1>2. ASSUME NEW k \in ConnIds, Handler(k), ~FirstNotified(k)
      PROVE  bytes' = bytes \/ OpenFile(k) \/ WriteBytes(k)
  BY <1>2 DEF Handler, Accept, HeaderLost, EndOfStream, UploadingFinished
<1>3. ASSUME NEW u \in Uploads, Request(u) PROVE bytes' = bytes
  BY <1>3 DEF Request, StartUpload, UploadThread, Probe, Connect, Announce,
              SendBytes, FinishTransfer, AbortTransfer, CloseConnection, serverVars
<1>4. ASSUME BeanOnly PROVE bytes' = bytes
  BY <1>4 DEF BeanOnly
<1>5. ASSUME ServiceThread PROVE bytes' = bytes
  BY <1>5 DEF ServiceThread, StartCycle, serverVars
<1>6. ASSUME NEW c \in Cycles, CycleStep(c), ~FirstToReadList(c)
      PROVE  bytes' = bytes
  BY <1>6 DEF CycleStep, CycleThread, ListServer, ResumeScan, NextFile, EndCycle,
              serverVars
<1>7. ASSUME NEW c \in Cycles, NEW g \in Files, CopyStep(c, g)
      PROVE  bytes' = bytes
  BY <1>7 DEF CopyStep, CopyThread, Search, Fetch, Fill, Spread, Send, ResumeCopy,
              serverVars
<1>8. ASSUME \/ \E u \in Uploads : SelectFile(u)
             \/ \E t \in Servers : Stop(t)
             \/ Crash
      PROVE  bytes' = bytes
  BY <1>8 DEF SelectFile, Stop, StopServer, Crash, GatewayCrash, serverVars
<1>9. ASSUME DownloadOnly PROVE bytes' = bytes
  BY <1>9 DEF DownloadOnly
<1> QED
  BY <1>0, <1>1, <1>2, <1>3, <1>4, <1>5, <1>6, <1>7, <1>8, <1>9, StepKinds

LEMMA OriginStays ==
  ASSUME TypeInv, OriginInv, [Next]_vars, NEW u \in Uploads, OnlyUpload(u),
         bytes[Tried(u)][upload[u].name] = Whole(upload[u].src)
  PROVE  UNCHANGED bytes[Tried(u)][upload[u].name]
<1> DEFINE n == upload[u].name
           o == Tried(u)
           v == upload[u].src
<1>1. /\ OriginFirst(u) /\ UploadOK(u) /\ v # NoPart
      /\ n \in Files /\ o \in Servers /\ v \in Uploads
  BY TriedType
     DEF OriginInv, TypeInv, SystemTypeOK, OnlyUpload, UploadOK, GatewayTypeOK, Upload
<1>2. upload'[u].name = n /\ Tried(u)' = o
  BY <1>1, StepsSettle DEF Settled, Tried
<1>3. n \in dir[o]
  <2>1. <<1, v>> \in Whole(v)
    BY ProtocolAssumption DEF Whole
  <2> QED BY <1>1, <2>1 DEF OriginInv, StoredIsUploaded
<1>4. ASSUME NEW k \in ConnIds, conn[k].srv = o, conn[k].file = n,
             conn[k].pc # "free"
      PROVE  k = u
  <2>1. k \notin CopyConns
    BY <1>1, <1>4 DEF OriginFirst
  <2> QED BY <1>4, <2>1 DEF ConnIds, TypeInv, UploadOK, OnlyUpload
<1>5. ASSUME NEW k \in ConnIds, conn[k].srv = o, conn[k].file = n, OpenFile(k)
      PROVE  FALSE
  <2>1. conn[k].pc = "accepted"
    BY <1>5 DEF OpenFile
  <2>2. k = u
    BY <1>4, <1>5, <2>1
  <2> QED BY <1>1, <1>3, <2>1, <2>2 DEF OriginFirst, Unopened
<1>6. ASSUME NEW k \in ConnIds, conn[k].srv = o, conn[k].file = n, WriteBytes(k)
      PROVE  bytes'[o][n] = bytes[o][n]
  <2> DEFINE new == At(conn[u].data, conn[u].got + 1)
  <2>1. conn[k].pc = "open"
    BY <1>6 DEF WriteBytes
  <2>2. k = u
    BY <1>4, <1>6, <2>1
  <2>3. bytes'[o][n] = Overwrite(bytes[o][n], new)
    BY <1>1, <1>6, <2>2 DEF WriteBytes, TypeInv, SystemTypeOK, ServerTypeOK
  <2>4. new \in SUBSET Whole(v)
    <3>1. conn[u].data \in SUBSET Chunk /\ \A x \in conn[u].data : x[2] = v
      BY <1>1, <2>1, <2>2 DEF UploadOK, TypeInv, SystemTypeOK, ServerTypeOK, Conn, ConnIds
    <3> QED BY <3>1 DEF At, Chunk, Whole
  <2> QED BY <1>1, <2>3, <2>4, OverwriteWhole
<1>7. bytes'[o][n] = bytes[o][n]
  BY <1>1, <1>5, <1>6, BytesChange
<1> QED BY <1>2, <1>7

\* A file uploaded once and stored in full is never truncated or overwritten on
\* the server it was uploaded to.
THEOREM OriginKeptCorrect == Spec => OriginKept
<1>1. TypeInv /\ OriginInv /\ [Next]_vars
        => [\A u \in Uploads :
              LET origin == bytes[Tried(u)][upload[u].name]
              IN  OnlyUpload(u) /\ origin = Whole(upload[u].src)
                    => UNCHANGED origin]_vars
  BY OriginStays
<1> QED BY <1>1, TypeInvariance, OriginInvariance, PTL DEF Spec, OriginKept

================================================================================
