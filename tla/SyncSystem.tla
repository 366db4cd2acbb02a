------------------------------ MODULE SyncSystem ------------------------------
(***************************************************************************)
(* The whole system: browsers' requests, the gateway with its upload       *)
(* threads and downloads, the file servers with the connections they       *)
(* serve, and the replication service, under servers being stopped and     *)
(* started, with the gateway or without it, and the web application going  *)
(* down and up.  Every interleaving of their steps.                        *)
(***************************************************************************)
EXTENDS ReplicationService, Download

CONSTANTS
  MaxStops,     \* how often a server is stopped,
  MaxCrashes,   \* how often the gateway goes down,
  MaxFailures   \* and how often either happens (bound the model)

ASSUME EnvironmentAssumption ==
  MaxStops \in Nat /\ MaxCrashes \in Nat /\ MaxFailures \in Nat

VARIABLES
  stops,        \* servers stopped so far
  crashes       \* times the gateway went down so far

environmentVars == <<stops, crashes>>

vars ==
  <<serverVars, gatewayVars, download, replicationVars, environmentVars>>

\* Everyone who waits for a server's reply to one request at a time.
Clients == Uploads \cup Downloads \cup Cycles \cup (Cycles \X Files)

\* Clients that may have a request in the backlog of server s, or in the queue of
\* its pool.
PendingAt(s) ==
  {u \in Uploads : upload[u].pc = "probing" /\ Tried(u) = s}
    \cup {d \in Downloads : /\ download[d].pc \in Pings \cup {"has", "get"}
                            /\ Source(d) = s}
    \cup {c \in Cycles : cycle[c].pc = "listing" /\ cycle[c].at = s}
    \cup {x \in Cycles \X Files :
            /\ copy[x[1]][x[2]].pc \in {"search", "fetch", "spread"}
            /\ copy[x[1]][x[2]].at = s}

Init ==
  /\ ServerInit
  /\ GatewayInit
  /\ DownloadInit
  /\ ReplicationInit
  /\ stops = 0
  /\ crashes = 0

-------------------------------------------------------------------------------
(* The system's own steps, by the thread that takes them *)

\* A browser's request and the upload thread it starts.
Request(u) ==
  /\ StartUpload(u) \/ UploadThread(u)
  /\ UNCHANGED <<download, replicationVars, environmentVars>>

\* A download, on the thread of its request or of a timer.
DownloadStep(d) ==
  /\ DownloadThread(d)
  /\ UNCHANGED <<replicationVars, environmentVars>>

\* A server's own run, the thread that asks it for its files, and the request in
\* init().
ServerRun(s) ==
  Registered(s) /\ UNCHANGED <<download, replicationVars, environmentVars>>
Registration(s) ==
  FetchFileList(s) /\ UNCHANGED <<download, replicationVars, environmentVars>>
InitThread ==
  InitReturns /\ UNCHANGED <<download, replicationVars, environmentVars>>

\* The accept loop and then a pool thread of a file server, for connection k.
Handler(k) ==
  /\ \/ /\ \/ Accept(k)
           \/ OpenFile(k)
           \/ HeaderLost(k)
           \/ WriteBytes(k)
           \/ EndOfStream(k)
        /\ UNCHANGED gatewayVars
     \/ FirstNotified(k)
     \/ UploadingFinished(k)
  /\ UNCHANGED <<download, replicationVars, environmentVars>>

\* The replication service's thread, and the threads that carry on a cycle or
\* a copy.
ServiceThread ==
  (\E c \in Cycles : StartCycle(c)) /\ UNCHANGED <<download, environmentVars>>
CycleStep(c) == CycleThread(c) /\ UNCHANGED <<download, environmentVars>>
CopyStep(c, f) == CopyThread(c, f) /\ UNCHANGED <<download, environmentVars>>

SystemStep ==
  \/ \E u \in Uploads : Request(u)
  \/ \E d \in Downloads : DownloadStep(d)
  \/ \E s \in Servers : ServerRun(s) \/ Registration(s)
  \/ InitThread
  \/ \E k \in ConnIds : Handler(k)
  \/ ServiceThread
  \/ \E c \in Cycles : CycleStep(c)
  \/ \E c \in Cycles, f \in Files : CopyStep(c, f)

-------------------------------------------------------------------------------
(* Users, and the operator who kills and starts servers and the application *)

MayFail == stops + crashes < MaxFailures

Stop(s) ==
  /\ stops < MaxStops
  /\ MayFail
  /\ \E clients \in SUBSET PendingAt(s) : StopServer(s, clients)
  /\ stops' = stops + 1
  /\ UNCHANGED <<gatewayVars, download, replicationVars, crashes>>

Crash ==
  /\ crashes < MaxCrashes
  /\ MayFail
  /\ GatewayCrash
  /\ DownloadsCrash
  /\ crashes' = crashes + 1
  /\ UNCHANGED <<replicationVars, stops>>

EnvironmentStep ==
  \/ /\ \/ \E u \in Uploads : SelectFile(u)
        \/ \E s \in Servers : StartServer(s)
        \/ GatewayStart
        \/ BrowserVisits
     /\ UNCHANGED <<download, replicationVars, environmentVars>>
  \/ /\ \E d \in Downloads : StartDownload(d)
     /\ UNCHANGED <<replicationVars, environmentVars>>
  \/ \E s \in Servers : Stop(s)
  \/ Crash

Next == SystemStep \/ EnvironmentStep

Spec == Init /\ [][Next]_vars

\* Who sends a file to s that no thread of its pool reads yet.
UnreadBy(s) ==
  {u \in Uploads : /\ upload[u].pc = "sending"
                  /\ Tried(u) = s
                  /\ conn[u].pc \in {"backlog", "accepted"}}
    \cup {x \in Cycles \X Files : /\ copy[x[1]][x[2]].pc = "send"
                                 /\ copy[x[1]][x[2]].at = s}

\* x may wait for a thread of a pool, or for an accept.
MayWait(x) ==
  \E s \in Servers : /\ x \in PendingAt(s) \cup UnreadBy(s)
                     /\ x \notin lost
                     /\ Unserved(s) \/ ~FreeThread(s)

\* A thread that can take a step is eventually scheduled, unless it may wait for
\* a server; a connection in a backlog is eventually accepted and a timer
\* eventually fires.  Nobody has to upload, stop, start or crash anything.
Fairness ==
  /\ \A u \in Uploads : WF_vars(Request(u) /\ ~MayWait(u))
  /\ \A d \in Downloads : WF_vars(DownloadStep(d) /\ ~MayWait(d))
  /\ \A s \in Servers : WF_vars(ServerRun(s))
  /\ \A s \in Servers : WF_vars(Registration(s) /\ FreeThread(s))
  /\ WF_vars(InitThread)
  /\ \A k \in ConnIds : WF_vars(Handler(k))
  /\ WF_vars(ServiceThread)
  /\ \A c \in Cycles : WF_vars(CycleStep(c) /\ ~MayWait(c))
  /\ \A c \in Cycles, f \in Files :
       WF_vars(CopyStep(c, f) /\ ~MayWait(<<c, f>>))

FairSpec == Spec /\ Fairness

TypeOK ==
  /\ ServerTypeOK
  /\ lost \subseteq Clients
  /\ GatewayTypeOK
  /\ DownloadTypeOK
  /\ ReplicationTypeOK
  /\ stops \in 0..MaxStops
  /\ crashes \in 0..MaxCrashes

-------------------------------------------------------------------------------
(* Where the bytes of a file come from *)

\* An upload thread that writes under the name f the Part of x's request.
Carries(u, f, x) == upload[u].name = f /\ upload[u].src = x[2]

UploadedAs(f, data) == \A x \in data : \E u \in Uploads : Carries(u, f, x)

\* Neither replication nor a retry, an overlapping cycle, a stopped server or a
\* gateway crash ever brings bytes under a name that no upload thread streamed
\* under that name: what any server, the replication service or a connection
\* holds of f was read from the Part some thread sent as f.
ContentIsUploaded ==
  \A f \in Files :
    /\ \A s \in Servers : UploadedAs(f, bytes[s][f])
    /\ UploadedAs(f, local[f])
    /\ \A k \in ConnIds :
         conn[k].pc # "free" /\ conn[k].file = f => UploadedAs(f, conn[k].data)

\* The same of what a browser has received of a download, whichever servers it
\* was taken from.
DownloadIsUploaded ==
  \A d \in Downloads :
    download[d].name \in Files
      => UploadedAs(download[d].name, download[d].body)

\* u is the only request that ever uploaded a file of its name, and reached a
\* server with it.
OnlyUpload(u) ==
  /\ upload[u].src # NoPart
  /\ \A v \in Uploads \ {u} : upload[v].name # upload[u].name

\* The replication service never uploads a file to the server a browser's
\* upload of it went to: HAS_FILE is asked long before the bytes are sent, and
\* cycles overlap, but no copy of a file starts before that server has it.
OriginNotTargeted ==
  \A u \in Uploads : OnlyUpload(u) =>
    \A k \in CopyConns :
      conn[k].pc # "free" /\ conn[k].file = upload[u].name
        => conn[k].srv # Tried(u)

\* So that a file uploaded once, when the server it was uploaded to has all of
\* it, is never again truncated or overwritten there, while a replica elsewhere
\* may be.
OriginKept ==
  [][\A u \in Uploads :
       LET origin == bytes[Tried(u)][upload[u].name]
       IN  OnlyUpload(u) /\ origin = Whole(upload[u].src)
             => UNCHANGED origin]_vars

\* A download streams a file that replication may be rewriting.  From the server
\* a file was uploaded to once, every position the server has announced is
\* either streamed or still there to be read, so that the download ends with no
\* less than was announced; from another server it may be cut short.
FromOriginIsWhole ==
  \A d \in Downloads, u \in Uploads :
    /\ OnlyUpload(u)
    /\ download[d].pc = "stream"
    /\ download[d].name = upload[u].name
    /\ Source(d) = Tried(u)
    => \A p \in download[d].size :
         p <= download[d].got \/ At(Remaining(d), p) # {}

-------------------------------------------------------------------------------
(* What the servers' directories look like from outside *)

\* A request has named its file when its thread starts, and reached a server
\* when the thread has announced the upload to it.
RequestOf(u) ==
  [name |-> upload[u].name,
   srv  |-> IF upload[u].src = NoPart THEN 0 ELSE Tried(u),
   part |-> upload[u].src]

Placed == INSTANCE Placement WITH request <- [u \in Uploads |-> RequestOf(u)]

\* Threads that race for a field, retries, overlapping cycles, stopped servers
\* and a gateway that goes down included, what happens to the files of the
\* servers is what Placement promises.
ImplementsPlacement == Placed!Spec

-------------------------------------------------------------------------------
(* The list of files being uploaded *)

\* Announced uploads of f that their server has not finished.
Unfinished(f) ==
  {u \in Uploads : /\ upload[u].name = f
                   /\ upload[u].pc \in {"sending", "sent", "done"}
                   /\ conn[u].pc # "free"}

\* While no server is stopped, the gateway never lists a file as being uploaded
\* more often than there are uploads of it in progress: no entry is left over to
\* keep the file from being replicated.
ListedIsUploading ==
  \A f \in Files : uploadingList[f] <= Cardinality(Unfinished(f))

\* "Retrieves a list of file currently uploading": a file does not stay in the
\* list for ever when its upload is over.
ListedUntilUploaded ==
  \A f \in Files :
    uploadingList[f] > 0 ~> uploadingList[f] = 0 \/ Unfinished(f) # {}

-------------------------------------------------------------------------------
(* Counting and replicating *)

\* While no server is stopped, a cycle counts no file more often than there are
\* servers that hold it, so that none is taken for replicated too early.
CountsAreReferences ==
  \A c \in Cycles, f \in Files : cycle[c].counts[f] <= Cardinality(Holders(f))

\* "not currently uploading": no copy of a file begins while a request is
\* sending that file to a server.
NoCopyWhileUploading ==
  [][\A c \in Cycles, f \in Files :
       CopyIn(c, f, "none") /\ CopyIn(c, f, "search")'
         => ~\E u \in Uploads : /\ upload[u].name = f
                                /\ upload[u].pc \in {"connected", "sending"}
    ]_vars

\* "Uploads the selected file": what is stored under a name is the Part that
\* was selected with that name.
StoredUnderItsName ==
  \A s \in Servers, f \in Files : \A x \in bytes[s][f] : NameOf[x[2]] = f

\* "Determine how many remaining servers are needed to replicate, and take that
\* many": no server is taken for a file that the replication amount of servers
\* have already (ReplicationService.java:247).
TakesRemaining ==
  [][\A c \in Cycles, f \in Files :
       CopyIn(c, f, "spread") /\ CopyIn(c, f, "send")'
         => Cardinality(Holders(f)) < Target]_vars

-------------------------------------------------------------------------------
(* The gateway's first request *)

\* When the gateway serves requests, no port is left open with nobody to accept:
\* a server that was started while the gateway was down, or whose registration a
\* crash broke off, keeps init() from returning until it is stopped, so that no
\* request ever waits at such a server (GatewayServer.java:66, 288-302).
ReadyIsServed == bean = "ready" => \A s \in Servers : port[s] # "left"

-------------------------------------------------------------------------------
(* What eventually happens *)

\* While nothing fails, a file offered for download reaches the replication
\* amount of servers.
OfferedIsReplicated ==
  \A f \in Files : []<>(f \notin files \/ Cardinality(Holders(f)) >= Target)

\* "All files that can be downloaded": a file offered for download is
\* eventually on some server.
OfferedIsStored == \A f \in Files : f \in files ~> Holders(f) # {}

\* All threads of the pool of s notify the gateway.
Notifying(s) ==
  Cardinality({k \in Handled(s) : conn[k].pc = "notify"}) = PoolSize

\* init() waits for a server that does not accept, or whose whole pool waits for
\* init().
InitHangs ==
  /\ bean = "init"
  /\ \E s \in registering : Unserved(s) \/ Notifying(s)

\* Cycle c, or one of its copies, waits for a server that does not accept.
AsksUnserved(c) ==
  \/ cycle[c].pc = "listing" /\ Unserved(cycle[c].at)
  \/ \E f \in Files : /\ copy[c][f].pc \in {"search", "fetch", "spread", "send"}
                      /\ Unserved(ServerOf(c, f))

\* The connections the model has are in backlogs where nobody accepts them.
OutOfSlots ==
  \A k \in CopyConns : conn[k].pc = "backlog" /\ Unserved(conn[k].srv)

Hangs(c) == InitHangs \/ AsksUnserved(c) \/ OutOfSlots

\* When a server is stopped and started, and the gateway goes down and up: a file
\* that some running server holds, and that is not listed as being uploaded any
\* more, reaches the replication amount, or every running server if they are
\* fewer, in spite of errors, retries and miscounts; unless the service itself
\* hangs for ever, at a server that does not accept or at the gateway, whose
\* init() hangs (ReplicationService.java:95, GatewayServer.java:66).
ReplicatedDespiteFailures ==
  \A f \in Files :
    \/ []<>(\A s \in Holders(f) : ~Served(s))
    \/ []<>CurrentlyUploading(f)
    \/ <>(\/ Cardinality(Holders(f)) >= Target
          \/ \A s \in Servers : Served(s) => s \in Holders(f))
    \/ <>[](\E c \in Cycles : Hangs(c))

\* Retries are bounded: every cycle ends, and the copies it started, even if
\* the servers that had the file are stopped meanwhile; or the service hangs.
\* None of its requests has a timeout (ReplicationService.java:95, 183, 252).
PipelinesEnd ==
  \A c \in Cycles :
    /\ []<>(cycle[c].pc = "idle") \/ <>[]Hangs(c)
    /\ \A f \in Files : []<>(copy[c][f].pc = "none") \/ <>[]Hangs(c)

\* Retries of downloads are bounded too, and the streams they end in.
DownloadsEnd ==
  \A d \in Downloads : download[d].pc # "idle" ~> download[d].pc = "done"

\* d's first ping is about to be sent, and s has what it asks for.
AskedWhileStored(d, s) ==
  /\ download[d].pc = "alive"
  /\ download[d].at = 1
  /\ ~download[d].late
  /\ download[d].name \in dir[s]

\* A browser that asks for a file that a server has is sent the file, from that
\* server or another, unless that server is stopped, a reply is lost with
\* another one, or the web application goes down.
DownloadServed ==
  \A d \in Downloads, s \in Servers :
    AskedWhileStored(d, s)
      ~> \/ download[d].pc = "stream"
         \/ ~Served(s)
         \/ d \in lost
         \/ bean = "none"

\* No handler thread of a file server is left waiting: an upload connection is
\* served to its end, or reset with its server, even if its client dies; unless
\* init() hangs, and with it the notifications of the handlers, or the port of
\* the server is left open with nobody accepting (Protocol.java:127,
\* FileServer.java:40, 71-85).
ConnectionsEnd ==
  \A k \in ConnIds :
    \/ []<>(conn[k].pc = "free")
    \/ <>[](InitHangs \/ (conn[k].pc = "backlog" /\ Unserved(conn[k].srv)))

================================================================================
