----------------------------- MODULE GatewayServer -----------------------------
(***************************************************************************)
(* The gateway: one application-scoped bean shared by every request, with  *)
(* the file selected last, the list of files being uploaded and the list   *)
(* of files offered for download; and the upload threads it starts, one    *)
(* per upload request.                                                     *)
(*                                                                         *)
(* A request u selects its file (setFile), then runs upload(), which reads *)
(* the file's name and starts a thread.  The thread pings the servers one  *)
(* after another until one answers, opens the upload connection, announces *)
(* the file in uploadingList, sends the bytes, adds the name to files and  *)
(* closes.  The bean's field file is shared: upload() and its thread use   *)
(* whichever Part the field holds when they read it.                       *)
(*                                                                         *)
(* The bean is created by the first request of any kind, whose init() asks *)
(* every server for its file list; until init() returns, every request     *)
(* waits for the bean.                                                     *)
(***************************************************************************)
EXTENDS FileServer

CONSTANT
  GatewayOrder  \* the order in which the gateway's servers set is iterated

ASSUME GatewayAssumption ==
  /\ GatewayOrder \in Seq(Servers)
  /\ GatewayOrder # <<>>

VARIABLES
  bean,           \* the application and its bean
  part,           \* the field file
  upload,         \* upload[u]: request u and the thread it started
  uploadingList,  \* how often each name is in the list
  files,          \* the names offered for download
  registering     \* servers whose file list is being fetched

gatewayVars ==
  <<bean, part, upload, uploadingList, files, registering>>

\* none: the application does not answer; fresh: no request has reached the bean;
\* init: a request is creating it; ready: requests are served.
Bean == {"none", "fresh", "init", "ready"}

Upload == [pc   : {"idle", "selected", "probing", "connecting", "connected",
                   "sending", "sent", "done"},
           at   : 1..Len(GatewayOrder),         \* the server being tried
           name : Files \cup {NoFile},          \* filename
           src  : Uploads \cup {NoPart},        \* the Part being streamed
           sent : 0..FileLength]

IdleUpload ==
  [pc |-> "idle", at |-> 1, name |-> NoFile, src |-> NoPart, sent |-> 0]

GatewayTypeOK ==
  /\ bean \in Bean
  /\ part \in Uploads \cup {NoPart}
  /\ upload \in [Uploads -> Upload]
  /\ uploadingList \in [Files -> Nat]
  /\ files \subseteq Files
  /\ registering \subseteq Servers

GatewayInit ==
  /\ bean = "ready"
  /\ part = NoPart
  /\ upload = [u \in Uploads |-> IdleUpload]
  /\ uploadingList = [f \in Files |-> 0]
  /\ files = {}
  /\ registering = {}

Tried(u) == GatewayOrder[upload[u].at]

\* The thread's connection was reset while it waited to be accepted.
ConnLost(u) == conn[u].pc = "free"

-------------------------------------------------------------------------------
(* Requests *)

\* A request is the first to reach the bean, and runs init(): the servers are to
\* be asked for their files.
CreateBean ==
  /\ bean = "fresh"
  /\ bean' = "init"
  /\ registering' = Servers

BrowserVisits ==
  /\ CreateBean
  /\ UNCHANGED <<serverVars, part, upload, uploadingList, files>>

\* JSF updates the model: setFile(part of u).
SelectFile(u) ==
  /\ bean = "ready"
  /\ upload[u].pc = "idle"
  /\ part' = u
  /\ upload' = [upload EXCEPT ![u].pc = "selected"]
  /\ UNCHANGED <<serverVars, bean, uploadingList, files, registering>>

\* JSF invokes upload(): the name is that of the Part the field holds now.
StartUpload(u) ==
  /\ upload[u].pc = "selected"
  /\ upload' = [upload EXCEPT ![u].pc = "probing", ![u].name = NameOf[part]]
  /\ UNCHANGED <<serverVars, bean, part, uploadingList, files,
                 registering>>

-------------------------------------------------------------------------------
(* The upload thread *)

\* filter: is this server alive?  A lost reply is an error nobody handles.
Probe(u) ==
  /\ upload[u].pc = "probing"
  /\ \/ /\ u \notin lost
        /\ Served(Tried(u))
        /\ upload' = [upload EXCEPT ![u].pc = "connecting"]
     \/ /\ u \notin lost
        /\ Refuses(Tried(u))
        /\ upload' = IF upload[u].at = Len(GatewayOrder)
                     THEN [upload EXCEPT ![u].pc = "done"]
                     ELSE [upload EXCEPT ![u].at = @ + 1]
     \/ /\ u \in lost
        /\ upload' = [upload EXCEPT ![u].pc = "done"]
  /\ lost' = lost \ {u}
  /\ UNCHANGED <<port, dir, bytes, conn, bean, part, uploadingList,
                 files, registering>>

\* Mutant of Connect: the name, too, is read again from the Part in the field.
ConnectRenamed(u) ==
  /\ upload[u].pc = "connecting"
  /\ ~Refuses(Tried(u))
  /\ conn' = [conn EXCEPT ![u] = NewConn(Tried(u), NameOf[part], {}, "open")]
  /\ upload' = [upload EXCEPT ![u].pc = "connected", ![u].src = part]
  /\ UNCHANGED <<port, dir, bytes, lost, bean, part, uploadingList,
                 files, registering>>

\* The upload connection to the server taken; command, name and size are sent
\* at once, and the bytes will come from the Part the field holds now.
Connect(u) ==
  /\ upload[u].pc = "connecting"
  /\ \/ /\ ~Refuses(Tried(u))
        /\ conn' = [conn EXCEPT
                      ![u] = NewConn(Tried(u), upload[u].name, {}, "open")]
        /\ upload' = [upload EXCEPT ![u].pc = "connected", ![u].src = part]
     \/ /\ Refuses(Tried(u))             \* ConnectException: nothing is done
        /\ upload' = [upload EXCEPT ![u].pc = "done"]
        /\ UNCHANGED conn
  /\ UNCHANGED <<port, dir, bytes, lost, bean, part, uploadingList,
                 files, registering>>

Announce(u) ==
  /\ upload[u].pc = "connected"
  /\ upload' = [upload EXCEPT ![u].pc = "sending"]
  /\ uploadingList' = [uploadingList EXCEPT ![upload[u].name] = @ + 1]
  /\ UNCHANGED <<serverVars, bean, part, files, registering>>

SendBytes(u) ==
  /\ upload[u].pc = "sending"
  /\ upload[u].sent < FileLength
  /\ ~ConnLost(u)
  /\ upload' = [upload EXCEPT ![u].sent = @ + 1]
  /\ conn' = [conn EXCEPT
                ![u].data = @ \cup {<<upload[u].sent + 1, upload[u].src>>}]
  /\ UNCHANGED <<port, dir, bytes, lost, bean, part, uploadingList,
                 files, registering>>

\* transferBytes returns.  Bytes written to a reset connection may go
\* unnoticed into the socket's buffer.
FinishTransfer(u) ==
  /\ upload[u].pc = "sending"
  /\ upload[u].sent = FileLength \/ ConnLost(u)
  /\ upload' = [upload EXCEPT ![u].pc = "sent"]
  /\ files' = files \cup {upload[u].name}
  /\ UNCHANGED <<serverVars, bean, part, uploadingList, registering>>

\* transferBytes throws: the connection was reset.
AbortTransfer(u) ==
  /\ upload[u].pc = "sending"
  /\ ConnLost(u)
  /\ upload' = [upload EXCEPT ![u].pc = "done"]
  /\ UNCHANGED <<serverVars, bean, part, uploadingList, files,
                 registering>>

CloseConnection(u) ==
  /\ upload[u].pc = "sent"
  /\ upload' = [upload EXCEPT ![u].pc = "done"]
  /\ conn' = IF ConnLost(u) THEN conn
             ELSE [conn EXCEPT ![u].end = "closed"]
  /\ UNCHANGED <<port, dir, bytes, lost, bean, part, uploadingList,
                 files, registering>>

-------------------------------------------------------------------------------
(* Calls from the file servers *)

\* Mutant of Removed: a counter per name, decremented without a look.
RemovedUnchecked(list, f) == [list EXCEPT ![f] = @ - 1]

\* remove(name) drops one occurrence, if there is one.
Removed(list, f) == [list EXCEPT ![f] = IF @ > 0 THEN @ - 1 ELSE 0]

\* Mutant of UploadingFinished: the notification is lost.
FinishedUnnoticed(k) ==
  /\ conn[k].pc = "notify"
  /\ bean \in {"none", "ready"}
  /\ conn' = [conn EXCEPT ![k] = FreeConn]
  /\ UNCHANGED <<port, dir, bytes, lost, gatewayVars>>

\* Mutant of UploadingFinished: the retry() sees the error, and the call is made
\* again until the gateway has answered it.
FinishedRetried(k) ==
  /\ conn[k].pc = "notify"
  /\ bean = "ready"
  /\ conn' = [conn EXCEPT ![k] = FreeConn]
  /\ uploadingList' = Removed(uploadingList, conn[k].file)
  /\ UNCHANGED <<port, dir, bytes, lost, bean, part, upload, files, registering>>

\* A server's handler tells the gateway that it has received a file, whoever
\* sent it, and ends.  An error is reported as the value false, so the retry()
\* around the call never sees one: a gateway that is down is told nothing.  One
\* in init() keeps the handler waiting.
UploadingFinished(k) ==
  /\ conn[k].pc = "notify"
  /\ bean \in {"none", "ready"}
  /\ conn' = [conn EXCEPT ![k] = FreeConn]
  /\ uploadingList' = IF bean = "ready"
                      THEN Removed(uploadingList, conn[k].file)
                      ELSE uploadingList
  /\ UNCHANGED <<port, dir, bytes, lost, bean, part, upload, files, registering>>

\* The notification is the first request to reach the bean.
FirstNotified(k) ==
  /\ conn[k].pc = "notify"
  /\ CreateBean
  /\ UNCHANGED <<serverVars, part, upload, uploadingList, files>>

\* A server is started: it opens its port and registers.  A ready gateway
\* answers at once; one in init() later; a refused connection ends the run, and
\* a 404 does not.
StartServer(s) ==
  /\ Refuses(s)
  /\ \/ /\ bean = "ready"
        /\ port' = [port EXCEPT ![s] = "served"]
        /\ registering' = registering \cup {s}
        /\ bean' = bean
     \/ /\ port' = [port EXCEPT ![s] = "held"]
        /\ \/ CreateBean
           \/ bean = "init" /\ UNCHANGED <<bean, registering>>
     \/ /\ bean = "none"
        /\ \E how \in {"left", "served"} : port' = [port EXCEPT ![s] = how]
        /\ UNCHANGED <<bean, registering>>
  /\ UNCHANGED <<dir, bytes, conn, lost, part, upload, uploadingList, files>>

\* The registration of s is answered: its run enters the accept loop.
Registered(s) ==
  /\ port[s] = "held"
  /\ bean = "ready"
  /\ port' = [port EXCEPT ![s] = "served"]
  /\ registering' = registering \cup {s}
  /\ UNCHANGED <<dir, bytes, conn, lost, bean, part, upload, uploadingList, files>>

\* Mutant of FetchFileList: the read of the list gives up on a silent server.
FetchWithTimeout(s) ==
  /\ s \in registering
  /\ \/ Served(s) /\ files' = files \cup dir[s]
     \/ ~Served(s) /\ files' = files
  /\ registering' = registering \ {s}
  /\ UNCHANGED <<serverVars, bean, part, upload, uploadingList>>

\* registerServer(server), in init() or on a thread of its own: the file list of
\* s is added to files.
FetchFileList(s) ==
  /\ s \in registering
  /\ \/ Served(s) /\ files' = files \cup dir[s]
     \/ Refuses(s) /\ files' = files
  /\ registering' = registering \ {s}
  /\ UNCHANGED <<serverVars, bean, part, upload, uploadingList>>

InitReturns ==
  /\ bean = "init"
  /\ registering = {}
  /\ bean' = "ready"
  /\ UNCHANGED <<serverVars, part, upload, uploadingList, files, registering>>

-------------------------------------------------------------------------------
(* Crash and restart of the web application *)

InFlight(u) == upload[u].pc \notin {"idle", "done"}

\* The bean and the upload threads are gone; the connections of the threads are
\* reset, and the runs that wait for the answer to their registration end.
GatewayCrash ==
  /\ bean # "none"
  /\ bean' = "none"
  /\ port' = [s \in Servers |-> IF port[s] = "held" THEN "left" ELSE port[s]]
  /\ part' = NoPart
  /\ upload' = [u \in Uploads |->
                  IF InFlight(u) THEN [upload[u] EXCEPT !.pc = "done"]
                  ELSE upload[u]]
  /\ conn' = [k \in ConnIds |->
                IF k \in Uploads /\ conn[k].pc # "free" /\ conn[k].end = "open"
                THEN [conn[k] EXCEPT !.end = "reset"] ELSE conn[k]]
  /\ uploadingList' = [f \in Files |-> 0]
  /\ files' = {}
  /\ registering' = {}
  /\ lost' = lost \ Uploads
  /\ UNCHANGED <<dir, bytes>>

GatewayStart ==
  /\ bean = "none"
  /\ bean' = "fresh"
  /\ UNCHANGED <<serverVars, part, upload, uploadingList, files, registering>>

UploadThread(u) ==
  \/ Probe(u)
  \/ Connect(u)
  \/ Announce(u)
  \/ SendBytes(u)
  \/ FinishTransfer(u)
  \/ AbortTransfer(u)
  \/ CloseConnection(u)

================================================================================
