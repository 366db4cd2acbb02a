---------------------------- MODULE Download_proofs ----------------------------
(***************************************************************************)
(* Proofs about the downloads of SyncSystem: their types, what a browser   *)
(* receives, and that a download from the server its file was uploaded to  *)
(* is not cut short.                                                       *)
(***************************************************************************)
EXTENDS SyncSystem_proofs

\* What a download knows: one that has not begun has received nothing, any other
\* asks for a file.
DownloadInv ==
  /\ DownloadTypeOK
  /\ \A d \in Downloads :
       /\ download[d].pc = "idle" => download[d].body = {}
       /\ download[d].pc # "idle" => download[d].name \in Files

\* A download that streams receives bytes of a server's file of that name.
Streams(d) ==
  /\ download'[d].name = download[d].name
  /\ \A x \in download'[d].body :
       \/ x \in download[d].body
       \/ \E s \in Servers : x \in bytes[s][download[d].name]

\* One that begins has received nothing.
Begins(d) == download'[d].body = {}

DownloadsMove == \A d \in Downloads : Streams(d) \/ Begins(d)

LEMMA SourceType ==
  ASSUME DownloadTypeOK, NEW d \in Downloads
  PROVE  Source(d) \in Servers
BY GatewayAssumption DEF DownloadTypeOK, Download, Source

\* A step of one download that gives it the record r.
LEMMA DownloadUpdate ==
  ASSUME DownloadInv, NEW d \in Downloads, NEW r \in Download,
         download' = [download EXCEPT ![d] = r],
         r.pc # "idle", r.name \in Files,
         \/ r.body = {}
         \/ /\ r.name = download[d].name
            /\ \A x \in r.body :
                 \/ x \in download[d].body
                 \/ \E s \in Servers : x \in bytes[s][download[d].name]
  PROVE  DownloadInv' /\ DownloadsMove
<1>1. /\ download'[d] = r
      /\ \A e \in Downloads \ {d} : download'[e] = download[e]
  BY DEF DownloadInv, DownloadTypeOK
<1>2. DownloadTypeOK'
  BY DEF DownloadInv, DownloadTypeOK
<1>3. \A e \in Downloads : /\ download'[e].pc = "idle" => download'[e].body = {}
                           /\ download'[e].pc # "idle" => download'[e].name \in Files
  BY <1>1 DEF DownloadInv
<1>4. DownloadsMove
  BY <1>1 DEF DownloadsMove, Streams, Begins
<1> QED BY <1>2, <1>3, <1>4 DEF DownloadInv

\* A step that only turns to another server, or to another request to it.
LEMMA DownloadTurns ==
  ASSUME DownloadInv, NEW d \in Downloads, download[d].pc # "idle",
         NEW pc, pc \in {"alive", "ping", "has", "get", "stream", "delay", "done"},
         NEW at, at \in 1..Len(GatewayOrder),
         NEW late, late \in BOOLEAN, NEW g, g \in [Pings -> Granted],
         download' = [download EXCEPT ![d] = [download[d] EXCEPT
                        !.pc = pc, !.at = at, !.late = late, !.granted = g]]
  PROVE  DownloadInv' /\ DownloadsMove
<1> DEFINE r == [download[d] EXCEPT
                   !.pc = pc, !.at = at, !.late = late, !.granted = g]
<1>1. download[d] \in Download /\ download[d].name \in Files
  BY DEF DownloadInv, DownloadTypeOK
<1>2. /\ r \in Download /\ r.pc # "idle"
      /\ r.name = download[d].name /\ r.body = download[d].body
  BY <1>1 DEF Download
<1>3. download' = [download EXCEPT ![d] = r]
  OBVIOUS
<1> HIDE DEF r
<1> QED BY <1>1, <1>2, <1>3, DownloadUpdate

LEMMA GoesToTurns ==
  ASSUME DownloadInv, NEW d \in Downloads, download[d].pc # "idle",
         NEW pc, pc \in {"alive", "ping", "has", "get", "stream", "delay", "done"},
         GoesTo(d, pc)
  PROVE  DownloadInv' /\ DownloadsMove
<1> DEFINE r == [download[d] EXCEPT !.pc = pc]
<1>1. download[d] \in Download /\ download[d].name \in Files
  BY DEF DownloadInv, DownloadTypeOK
<1>2. /\ r \in Download /\ r.pc # "idle"
      /\ r.name = download[d].name /\ r.body = download[d].body
  BY <1>1 DEF Download
<1>3. download' = [download EXCEPT ![d] = r]
  BY DEF GoesTo
<1> HIDE DEF r
<1> QED BY <1>1, <1>2, <1>3, DownloadUpdate

\* The next server is asked, or none is left.
LEMMA AskNextTurns ==
  ASSUME DownloadInv, NEW d \in Downloads, download[d].pc # "idle", AskNext(d)
  PROVE  DownloadInv' /\ DownloadsMove
<1>1. download[d] \in Download
  BY DEF DownloadInv, DownloadTypeOK
<1>2. CASE download[d].at < Len(GatewayOrder)
  <2> DEFINE at == download[d].at + 1
  <2>1. /\ at \in 1..Len(GatewayOrder)
        /\ download[d].late \in BOOLEAN
        /\ download[d].granted \in [Pings -> Granted]
    BY <1>1, <1>2, GatewayAssumption DEF Download
  <2> DEFINE r == [download[d] EXCEPT !.pc = "alive", !.at = at]
  <2>2. download' = [download EXCEPT ![d] = r]
    BY <1>2 DEF AskNext
  <2> HIDE DEF at
  <2>3. /\ r \in Download /\ r.pc # "idle"
        /\ r.name = download[d].name /\ r.body = download[d].body
    BY <1>1, <2>1 DEF Download
  <2> HIDE DEF r
  <2> QED BY <1>1, <2>2, <2>3, DownloadUpdate DEF DownloadInv
<1>3. CASE ~(download[d].at < Len(GatewayOrder))
  BY <1>3, GoesToTurns DEF AskNext
<1> QED BY <1>2, <1>3

\* A lost reply: a retry from the first server on, or the end.
LEMMA PingLostTurns ==
  ASSUME DownloadInv, NEW d \in Downloads, download[d].pc # "idle",
         NEW path \in Seq(Pings), PingLost(d, path)
  PROVE  DownloadInv' /\ DownloadsMove
<1>1. download[d] \in Download
  BY DEF DownloadInv, DownloadTypeOK
<1>2. CASE GoesTo(d, "done")
  BY <1>2, GoesToTurns
<1>3. ASSUME NEW i \in 1..Len(path),
             HandledAt(download[d].granted, path, i),
             download' = [download EXCEPT
                            ![d].pc = "delay", ![d].at = 1, ![d].late = TRUE,
                            ![d].granted = Regranted(@, path[i])]
      PROVE  DownloadInv' /\ DownloadsMove
  <2> DEFINE g == Regranted(download[d].granted, path[i])
  <2>1. g \in [Pings -> Granted]
    <3>1. path[i] \in Pings /\ download[d].granted \in [Pings -> Granted]
      BY <1>1 DEF Download
    <3>2. download[d].granted[path[i]] + 1 \in Granted
      BY <1>3, <3>1, RetryAssumption DEF HandledAt, Grants, Granted
    <3> QED BY <3>1, <3>2 DEF Regranted
  <2>2. download' = [download EXCEPT ![d] = [download[d] EXCEPT
                       !.pc = "delay", !.at = 1, !.late = TRUE, !.granted = g]]
    BY <1>3
  <2> HIDE DEF g
  <2>3. 1 \in 1..Len(GatewayOrder)
    BY GatewayAssumption
  <2> QED BY <2>1, <2>2, <2>3, DownloadTurns
<1> QED BY <1>2, <1>3 DEF PingLost

LEMMA DownloadSteps ==
  ASSUME TypeInv, DownloadInv, NEW d \in Downloads, DownloadStep(d)
  PROVE  DownloadInv' /\ DownloadsMove
<1>1. download[d] \in Download
  BY DEF DownloadInv, DownloadTypeOK
<1>2. CASE Ping(d)
  <2>1. <<"alive", "ping">> \in Seq(Pings) /\ <<"ping">> \in Seq(Pings)
    BY DEF Pings
  <2>2. download[d].pc # "idle"
    BY <1>2 DEF Ping, Pings
  <2>3. \/ GoesTo(d, "ping") \/ GoesTo(d, "has") \/ AskNext(d)
        \/ PingLost(d, <<"alive", "ping">>) \/ PingLost(d, <<"ping">>)
    BY <1>2 DEF Ping
  <2> QED BY <2>1, <2>2, <2>3, GoesToTurns, AskNextTurns, PingLostTurns
<1>3. CASE ResumeDownload(d)
  BY <1>3, GoesToTurns DEF ResumeDownload
<1>4. CASE AskHasFile(d)
  BY <1>4, GoesToTurns, AskNextTurns DEF AskHasFile
<1>5. CASE AskForFile(d)
  <2>1. CASE GoesTo(d, "done")
    BY <1>5, <2>1, GoesToTurns DEF AskForFile
  <2> DEFINE size == {x[1] : x \in bytes[Source(d)][download[d].name]}
  <2>2. CASE download' = [download EXCEPT ![d].pc = "stream", ![d].size = size]
    <3>1. bytes[Source(d)][download[d].name] \in SUBSET Chunk
      BY <1>5, SourceType
         DEF AskForFile, DownloadInv, TypeInv, SystemTypeOK, ServerTypeOK
    <3>2. size \subseteq 1..FileLength
      BY <3>1 DEF Chunk
    <3> DEFINE r == [download[d] EXCEPT !.pc = "stream", !.size = size]
    <3>3. download' = [download EXCEPT ![d] = r]
      BY <2>2
    <3> HIDE DEF size
    <3>4. /\ r \in Download /\ r.pc # "idle"
          /\ r.name = download[d].name /\ r.body = download[d].body
      BY <1>1, <3>2 DEF Download
    <3>5. r.name \in Files
      BY <1>5, <3>4 DEF AskForFile, DownloadInv
    <3> HIDE DEF r
    <3> QED BY <3>3, <3>4, <3>5, DownloadUpdate
  <2> QED BY <1>5, <2>1, <2>2 DEF AskForFile
<1>6. CASE StreamBytes(d)
  <2> DEFINE f == download[d].name
             s == Source(d)
             p == download[d].got + 1
             new == At(Remaining(d), p)
             r == [download[d] EXCEPT !.got = p, !.body = @ \cup new]
  <2>1. f \in Files /\ s \in Servers /\ download[d].pc = "stream"
    BY <1>6, SourceType DEF StreamBytes, DownloadInv
  <2>2. bytes[s][f] \in SUBSET Chunk /\ new \subseteq bytes[s][f]
    BY <2>1 DEF TypeInv, SystemTypeOK, ServerTypeOK, At, Remaining
  <2>3. p \in 0..FileLength
    <3>1. PICK x \in bytes[s][f] : x[1] > download[d].got
      BY <1>6 DEF StreamBytes, Remaining
    <3>2. x[1] \in 1..FileLength
      BY <2>2, <3>1 DEF Chunk
    <3>3. download[d].got \in 0..FileLength
      BY <1>1 DEF Download
    <3> QED BY <3>1, <3>2, <3>3, ProtocolAssumption
  <2>4. download' = [download EXCEPT ![d] = r]
    BY <1>6 DEF StreamBytes
  <2> HIDE DEF p, new
  <2>5. /\ r \in Download /\ r.pc = "stream"
        /\ r.name = f /\ r.body = download[d].body \cup new
    BY <1>1, <2>1, <2>2, <2>3 DEF Download
  <2> HIDE DEF r, f, s
  <2> QED BY <2>1, <2>2, <2>4, <2>5, DownloadUpdate DEF f
<1>7. CASE EndDownload(d)
  BY <1>7, GoesToTurns DEF EndDownload
<1> QED BY <1>2, <1>3, <1>4, <1>5, <1>6, <1>7 DEF DownloadStep, DownloadThread

LEMMA DownloadBegins ==
  ASSUME DownloadInv, GatewayTypeOK, NEW d \in Downloads, StartDownload(d)
  PROVE  DownloadInv' /\ DownloadsMove
<1>1. download[d] \in Download /\ download[d].body = {}
  BY DEF DownloadInv, DownloadTypeOK, StartDownload
<1>2. PICK f \in files :
        download' = [download EXCEPT ![d].pc = "alive", ![d].name = f]
  BY DEF StartDownload
<1> DEFINE r == [download[d] EXCEPT !.pc = "alive", !.name = f]
<1>3. f \in Files
  BY DEF GatewayTypeOK
<1>4. r \in Download /\ r.pc # "idle" /\ r.name \in Files /\ r.body = {}
  BY <1>1, <1>3 DEF Download
<1>5. download' = [download EXCEPT ![d] = r]
  BY <1>2
<1> HIDE DEF r
<1> QED BY <1>4, <1>5, DownloadUpdate

LEMMA DownloadsEndWithCrash ==
  ASSUME DownloadInv, DownloadsCrash
  PROVE  DownloadInv' /\ DownloadsMove
<1>1. ASSUME NEW d \in Downloads
      PROVE  /\ download'[d] \in Download
             /\ download'[d].name = download[d].name
             /\ download'[d].body = download[d].body
             /\ download'[d].pc = "idle" <=> download[d].pc = "idle"
  <2>1. download[d] \in Download
    BY DEF DownloadInv, DownloadTypeOK
  <2>2. download'[d] = download[d]
          \/ /\ download'[d] = [download[d] EXCEPT !.pc = "done"]
             /\ download[d].pc # "idle"
    BY DEF DownloadsCrash
  <2> QED BY <2>1, <2>2 DEF Download
<1>2. DownloadTypeOK'
  BY <1>1 DEF DownloadTypeOK, DownloadsCrash
<1> QED BY <1>1, <1>2 DEF DownloadInv, DownloadsMove, Streams

LEMMA DownloadStays ==
  ASSUME DownloadInv, UNCHANGED download
  PROVE  DownloadInv' /\ DownloadsMove
BY DEF DownloadInv, DownloadTypeOK, DownloadsMove, Streams

LEMMA DownloadFirst == Init => DownloadInv
<1>1. IdleDownload \in Download /\ IdleDownload.pc = "idle"
        /\ IdleDownload.body = {}
  BY ProtocolAssumption, GatewayAssumption, RetryAssumption
     DEF IdleDownload, Download, Granted
<1> QED BY <1>1 DEF Init, DownloadInit, DownloadInv, DownloadTypeOK

LEMMA DownloadNext ==
  ASSUME TypeInv, DownloadInv, [Next]_vars
  PROVE  DownloadInv' /\ DownloadsMove
<1>1. ASSUME NEW u \in Uploads, Request(u) PROVE UNCHANGED download
  BY <1>1 DEF Request
<1>2. ASSUME \/ \E s \in Servers : ServerRun(s) \/ Registration(s)
             \/ InitThread
      PROVE  UNCHANGED download
  BY <1>2 DEF ServerRun, Registration, InitThread
<1>3. ASSUME NEW k \in ConnIds, Handler(k) PROVE UNCHANGED download
  BY <1>3 DEF Handler
<1>4. ASSUME \/ ServiceThread
             \/ \E c \in Cycles : CycleStep(c)
             \/ \E c \in Cycles, f \in Files : CopyStep(c, f)
      PROVE  UNCHANGED download
  BY <1>4 DEF ServiceThread, CycleStep, CopyStep
<1>5. ASSUME EnvironmentStep PROVE DownloadInv' /\ DownloadsMove
  <2>1. CASE \E d \in Downloads : StartDownload(d)
    BY <2>1, DownloadBegins DEF TypeInv, SystemTypeOK
  <2>2. CASE Crash
    BY <2>2, DownloadsEndWithCrash DEF Crash
  <2>3. CASE UNCHANGED download
    BY <2>3, DownloadStays
  <2> QED BY <1>5, <2>1, <2>2, <2>3 DEF EnvironmentStep, Stop
<1> QED BY <1>1, <1>2, <1>3, <1>4, <1>5, DownloadSteps, DownloadStays
        DEF Next, SystemStep, vars

LEMMA DownloadInvariance == Spec => []DownloadInv
<1>1. DownloadInv /\ TypeInv /\ [Next]_vars => DownloadInv'
  BY DownloadNext
<1> QED BY <1>1, DownloadFirst, TypeInvariance, PTL DEF Spec

\* The type invariant the runs check.
THEOREM TypeCorrect == Spec => []TypeOK
<1>1. TypeInv /\ DownloadInv => TypeOK
  BY DEF TypeInv, SystemTypeOK, TypeOK, DownloadInv
<1> QED BY TypeInvariance, DownloadInvariance, <1>1, PTL

-------------------------------------------------------------------------------
(* What a browser receives *)

LEMMA ReceivedNext ==
  ASSUME TypeInv, DownloadInv, DownloadInv', ContentIsUploaded,
         DownloadIsUploaded, [Next]_vars
  PROVE  DownloadIsUploaded'
<1> SUFFICES ASSUME NEW d \in Downloads, download'[d].name \in Files,
                    NEW x \in download'[d].body
             PROVE  \E u \in Uploads : Carries(u, download[d].name, x)'
  BY DEF DownloadIsUploaded, UploadedAs
<1>1. CASE Begins(d)
  BY <1>1 DEF Begins
<1>2. CASE Streams(d)
  <2> DEFINE f == download[d].name
  <2>1. f \in Files /\ download'[d].name = f
    BY <1>2 DEF Streams
  <2>2. PICK u \in Uploads : Carries(u, f, x)
    BY <1>2, <2>1 DEF Streams, DownloadIsUploaded, ContentIsUploaded, UploadedAs
  <2>3. x \in Chunk
    BY DEF DownloadInv, DownloadTypeOK, Download
  <2>4. upload[u].src # NoPart
    BY <2>2, <2>3, ProtocolAssumption DEF Carries, Chunk
  <2> QED BY <2>1, <2>2, <2>4, StepsSettle DEF Settled, Carries
<1> QED BY <1>1, <1>2, DownloadNext DEF DownloadsMove

\* What a browser receives under a name was streamed to a server by an upload
\* thread under that name.
THEOREM DownloadIsUploadedCorrect == Spec => []DownloadIsUploaded
<1>1. Init => DownloadIsUploaded
  BY DEF Init, DownloadInit, IdleDownload, DownloadIsUploaded, UploadedAs
<1>2. /\ TypeInv /\ DownloadInv /\ DownloadInv' /\ ContentIsUploaded
      /\ DownloadIsUploaded /\ [Next]_vars
      => DownloadIsUploaded'
  BY ReceivedNext
<1> QED BY <1>1, <1>2, TypeInvariance, DownloadInvariance, ContentCorrect, PTL
        DEF Spec

-------------------------------------------------------------------------------
(* Downloads from the server a file was uploaded to *)

\* What is streamed is in the server's directory.
StreamedIsStored ==
  \A d \in Downloads :
    download[d].pc = "stream" => download[d].name \in dir[Source(d)]

\* Only two steps of a download leave it streaming.
LEMMA StreamingSteps ==
  ASSUME TypeInv, DownloadInv, [Next]_vars, NEW d \in Downloads,
         download'[d].pc = "stream"
  PROVE  \/ download'[d] = download[d]
         \/ DownloadOnly /\ (AskForFile(d) \/ StreamBytes(d))
<1>T. download \in [Downloads -> Download]
  BY DEF DownloadInv, DownloadTypeOK
<1>1. ASSUME NEW e \in Downloads, DownloadStep(e), e # d
      PROVE  download'[d] = download[d]
  BY <1>1, <1>T
     DEF DownloadStep, DownloadThread, Ping, ResumeDownload, AskHasFile, AskForFile,
         StreamBytes, EndDownload, GoesTo, AskNext, PingLost
<1>2. ASSUME NEW pc, GoesTo(d, pc) PROVE pc = "stream"
  BY <1>2, <1>T DEF GoesTo, Download
<1>3. AskNext(d) => FALSE
  <2>1. CASE download' = [download EXCEPT ![d].pc = "alive", ![d].at = @ + 1]
    BY <2>1, <1>T DEF Download
  <2> QED BY <1>2, <2>1 DEF AskNext
<1>4. ASSUME NEW path, PingLost(d, path) PROVE FALSE
  <2>1. ASSUME NEW g,
               download' = [download EXCEPT ![d].pc = "delay", ![d].at = 1,
                              ![d].late = TRUE, ![d].granted = g]
        PROVE  FALSE
    BY <2>1, <1>T DEF Download
  <2> QED BY <1>2, <1>4, <2>1 DEF PingLost
<1>5. ASSUME DownloadStep(d) PROVE AskForFile(d) \/ StreamBytes(d)
  BY <1>2, <1>3, <1>4, <1>5
     DEF DownloadStep, DownloadThread, Ping, ResumeDownload, AskHasFile,
         EndDownload
<1>6. ASSUME EnvironmentStep PROVE download'[d] = download[d]
  <2>1. ASSUME NEW e \in Downloads, NEW f,
               download' = [download EXCEPT ![e].pc = "alive", ![e].name = f]
        PROVE  download'[d] = download[d]
    BY <2>1, <1>T DEF Download
  <2>2. CASE Crash
    <3>1. \/ download'[d] = download[d]
          \/ download'[d] = [download[d] EXCEPT !.pc = "done"]
      BY <2>2 DEF Crash, DownloadsCrash
    <3> QED BY <3>1, <1>T DEF Download
  <2> QED BY <1>6, <2>1, <2>2 DEF EnvironmentStep, Stop, StartDownload
<1> QED
  BY <1>1, <1>5, <1>6, DownloadsOnly
     DEF Next, SystemStep, Request, ServerRun, Registration, InitThread, Handler,
         ServiceThread, CycleStep, CopyStep, vars

\* On the server its only upload went to, a position of a file that is there
\* stays there.
LEMMA OriginGrows ==
  ASSUME TypeInv, OriginInv, [Next]_vars, NEW u \in Uploads, OnlyUpload(u),
         NEW x \in bytes[Tried(u)][upload[u].name]
  PROVE  \E y \in bytes'[Tried(u)][upload[u].name] : y[1] = x[1]
<1> DEFINE n == upload[u].name
           o == Tried(u)
<1>1. OriginFirst(u) /\ UploadOK(u) /\ n \in Files /\ o \in Servers
  BY TriedType
     DEF OriginInv, TypeInv, SystemTypeOK, OnlyUpload, UploadOK
<1>2. n \in dir[o]
  BY <1>1 DEF OriginInv, StoredIsUploaded
<1>3. ASSUME NEW k \in ConnIds, conn[k].srv = o, conn[k].file = n, OpenFile(k)
      PROVE  FALSE
  <2>1. conn[k].pc = "accepted"
    BY <1>3 DEF OpenFile
  <2>2. k = u
    BY <1>1, <1>3, <2>1
       DEF OriginFirst, ConnIds, TypeInv, UploadOK, OnlyUpload
  <2> QED BY <1>1, <1>2, <2>1, <2>2 DEF OriginFirst, Unopened
<1>4. ASSUME NEW k \in ConnIds, conn[k].srv = o, conn[k].file = n, WriteBytes(k)
      PROVE  \E y \in bytes'[o][n] : y[1] = x[1]
  <2> DEFINE new == At(conn[k].data, conn[k].got + 1)
  <2>1. bytes'[o][n] = Overwrite(bytes[o][n], new)
    BY <1>1, <1>4 DEF WriteBytes, TypeInv, SystemTypeOK, ServerTypeOK
  <2> HIDE DEF new
  <2> QED BY <2>1 DEF Overwrite, At
<1> QED BY <1>1, <1>3, <1>4, BytesChange

\* Once a file has a name it keeps it.
LEMMA NamesKept ==
  ASSUME TypeInv, [Next]_vars
  PROVE  NamesStay
<1>1. ASSUME OriginMoves PROVE NamesStay
  BY <1>1 DEF OriginMoves
<1>2. ASSUME upload' = upload PROVE NamesStay
  BY <1>2 DEF NamesStay
<1>3. ASSUME NEW k \in ConnIds, Handler(k), ~FirstNotified(k)
      PROVE  upload' = upload
  BY <1>3 DEF Handler, UploadingFinished, gatewayVars
<1>4. ASSUME \/ ServiceThread \/ DownloadOnly
             \/ \E c \in Cycles : CycleStep(c) /\ ~FirstToReadList(c)
      PROVE  upload' = upload
  BY <1>4 DEF ServiceThread, StartCycle, CycleStep, CycleThread, ListServer,
              ResumeScan, NextFile, EndCycle, DownloadOnly, gatewayVars
<1>5. ASSUME NEW c \in Cycles, NEW f \in Files, CopyStep(c, f)
      PROVE  upload' = upload
  BY <1>5 DEF CopyStep, CopyThread, Search, Fetch, Fill, Spread, Send, ResumeCopy,
              gatewayVars
<1> QED
  BY <1>1, <1>2, <1>3, <1>4, <1>5, StepKinds, RequestMoves, BeanMoves,
     EnvironmentMoves

LEMMA DirGrows ==
  ASSUME TypeInv, [Next]_vars, NEW s \in Servers
  PROVE  dir[s] \subseteq dir'[s]
<1>1. ASSUME NEW k \in ConnIds, Handler(k), ~FirstNotified(k)
      PROVE  dir[s] \subseteq dir'[s]
  BY <1>1 DEF Handler, Accept, OpenFile, HeaderLost, WriteBytes, EndOfStream,
              UploadingFinished, TypeInv, SystemTypeOK, ServerTypeOK
<1>2. ASSUME OriginMoves PROVE dir[s] \subseteq dir'[s]
  BY <1>2 DEF OriginMoves, DirsStay
<1>3. ASSUME ServiceThread \/ DownloadOnly PROVE dir[s] \subseteq dir'[s]
  BY <1>3 DEF ServiceThread, StartCycle, serverVars, DownloadOnly
<1>4. ASSUME NEW c \in Cycles, NEW f \in Files, CopyStep(c, f)
      PROVE  dir' = dir
  BY <1>4 DEF CopyStep, CopyThread, Search, Fetch, Fill, Spread, Send, ResumeCopy,
              serverVars
<1>5. ASSUME NEW c \in Cycles, CycleStep(c), ~FirstToReadList(c)
      PROVE  dir' = dir
  BY <1>5 DEF CycleStep, CycleThread, ListServer, ResumeScan, NextFile, EndCycle,
              serverVars
<1> QED
  BY <1>1, <1>2, <1>3, <1>4, <1>5, StepKinds, EnvironmentMoves, RequestMoves,
     BeanMoves

LEMMA WholeNext ==
  ASSUME TypeInv, TypeInv', DownloadInv, OriginInv, StreamedIsStored,
         FromOriginIsWhole, [Next]_vars
  PROVE  StreamedIsStored' /\ FromOriginIsWhole'
<1>1. ASSUME NEW d \in Downloads, AskForFile(d) \/ StreamBytes(d),
             download'[d].pc = "stream"
      PROVE  /\ download'[d].name = download[d].name
             /\ Source(d)' = Source(d)
             /\ download[d].name \in dir[Source(d)]
  <2>T. download \in [Downloads -> Download]
    BY DEF DownloadInv, DownloadTypeOK
  <2>1. CASE StreamBytes(d)
    BY <2>T, <2>1 DEF StreamBytes, StreamedIsStored, Source, Download
  <2>2. CASE AskForFile(d)
    <3>1. ~GoesTo(d, "done")
      BY <2>T, <1>1 DEF GoesTo, Download
    <3> DEFINE size == {x[1] : x \in bytes[Source(d)][download[d].name]}
    <3>2. /\ download' = [download EXCEPT ![d].pc = "stream", ![d].size = size]
          /\ download[d].name \in dir[Source(d)]
      BY <2>2, <3>1 DEF AskForFile, Has
    <3> HIDE DEF size
    <3>3. download'[d].name = download[d].name /\ download'[d].at = download[d].at
      BY <2>T, <3>2 DEF Download
    <3> QED BY <3>2, <3>3 DEF Source
  <2> QED BY <1>1, <2>1, <2>2
<1>2. StreamedIsStored'
  <2> SUFFICES ASSUME NEW d \in Downloads, download'[d].pc = "stream"
               PROVE  download'[d].name \in dir'[Source(d)']
    BY DEF StreamedIsStored
  <2>1. /\ Source(d)' = Source(d) /\ download'[d].name = download[d].name
        /\ download[d].name \in dir[Source(d)]
    BY <1>1, StreamingSteps DEF StreamedIsStored, Source
  <2> QED BY <2>1, DirGrows, SourceType DEF DownloadInv
<1>3. FromOriginIsWhole'
  <2> SUFFICES ASSUME NEW d \in Downloads, NEW u \in Uploads, OnlyUpload(u)',
                      download'[d].pc = "stream",
                      download'[d].name = upload'[u].name,
                      Source(d)' = Tried(u)',
                      NEW p \in download'[d].size
               PROVE  p <= download'[d].got
                        \/ \E y \in bytes'[Source(d)'][download'[d].name] :
                             y[1] > download'[d].got /\ y[1] = p
    BY DEF FromOriginIsWhole, Remaining, At
  <2> DEFINE n == download[d].name
             s == Source(d)
  <2>1. /\ Source(d)' = s /\ download'[d].name = n /\ n \in dir[s]
    BY <1>1, StreamingSteps DEF StreamedIsStored, Source
  <2>2. CASE download'[d] = download[d]
    <3>1. upload[u].src # NoPart
      <4>1. n \in Files /\ s \in Servers
        BY <2>2, SourceType DEF DownloadInv
      <4> QED BY <2>1, <4>1, NotYetStored, StepsSettle DEF OriginInv, Holders
    <3>2. /\ OnlyUpload(u) /\ upload[u].name = n /\ Tried(u) = s
      <4>1. NamesStay
        BY NamesKept
      <4> QED BY <2>1, <3>1, <4>1, StaysOnly, StepsSettle
    <3>3. p <= download[d].got \/ At(Remaining(d), p) # {}
      BY <2>2, <3>2 DEF FromOriginIsWhole
    <3>4. ASSUME NEW x \in At(Remaining(d), p)
          PROVE  \E y \in bytes'[s][n] : y[1] > download[d].got /\ y[1] = p
      <4>1. x \in bytes[s][n] /\ x[1] = p /\ x[1] > download[d].got
        BY DEF At, Remaining
      <4> QED BY <3>2, <4>1, OriginGrows
    <3> QED BY <2>1, <2>2, <3>3, <3>4
  <2>3. CASE DownloadOnly /\ AskForFile(d)
    <3> DEFINE size == {x[1] : x \in bytes[s][n]}
    <3>T. download[d] \in Download /\ download \in [Downloads -> Download]
      BY DEF DownloadInv, DownloadTypeOK
    <3>1. download' = [download EXCEPT ![d].pc = "stream", ![d].size = size]
      <4>1. ~GoesTo(d, "done")
        BY <3>T DEF GoesTo, Download
      <4> QED BY <2>3, <4>1 DEF AskForFile
    <3>2. download'[d].size = size /\ download'[d].got = download[d].got
      BY <3>1, <3>T DEF Download
    <3>3. PICK x \in bytes[s][n] : x[1] = p
      BY <3>2
    <3>4. p \in Int /\ download[d].got \in Int
      <4>1. x \in Chunk
        BY <2>3, SourceType
           DEF AskForFile, DownloadInv, TypeInv, SystemTypeOK, ServerTypeOK
      <4> QED BY <3>3, <4>1, <3>T, ProtocolAssumption DEF Chunk, Download
    <3>5. p <= download[d].got \/ x[1] > download[d].got
      BY <3>3, <3>4
    <3> QED BY <2>1, <2>3, <3>2, <3>3, <3>5 DEF DownloadOnly
  <2>4. CASE DownloadOnly /\ StreamBytes(d)
    <3>T. download[d] \in Download /\ download \in [Downloads -> Download]
      BY DEF DownloadInv, DownloadTypeOK
    <3>1. /\ download'[d].size = download[d].size
          /\ download'[d].got = download[d].got + 1
          /\ download[d].pc = "stream"
      BY <2>4, <3>T DEF StreamBytes, Download
    <3>2. /\ OnlyUpload(u) /\ upload[u].name = n /\ Tried(u) = s
      BY <2>1, <2>4 DEF DownloadOnly, gatewayVars, OnlyUpload, Tried
    <3>3. p <= download[d].got \/ At(Remaining(d), p) # {}
      BY <3>1, <3>2 DEF FromOriginIsWhole
    <3>4. p \in Int /\ download[d].got \in Int
      BY <3>1, <3>T, ProtocolAssumption DEF Download
    <3>5. CASE p <= download[d].got
      BY <3>1, <3>4, <3>5
    <3>6. ASSUME NEW x \in At(Remaining(d), p)
          PROVE  \/ p <= download[d].got + 1
                 \/ /\ x \in bytes[s][n]
                    /\ x[1] = p
                    /\ p > download[d].got + 1
      <4>1. x \in bytes[s][n] /\ x[1] = p /\ x[1] > download[d].got
        BY DEF At, Remaining
      <4> DEFINE got == download[d].got
      <4>2. p > got /\ p \in Int /\ got \in Int
        BY <4>1, <3>4
      <4> HIDE DEF got
      <4>3. p <= got + 1 \/ p > got + 1
        BY <4>2
      <4> QED BY <4>1, <4>3 DEF got
    <3> QED BY <2>1, <2>4, <3>1, <3>3, <3>5, <3>6 DEF DownloadOnly
  <2> QED BY <2>2, <2>3, <2>4, StreamingSteps
<1> QED BY <1>2, <1>3

\* A download from the server a file was uploaded to once streams at least all
\* that server announced, whatever is copied or stopped meanwhile.
THEOREM FromOriginIsWholeCorrect == Spec => []FromOriginIsWhole
<1>1. Init => StreamedIsStored /\ FromOriginIsWhole
  BY DEF Init, DownloadInit, IdleDownload, StreamedIsStored, FromOriginIsWhole
<1>2. /\ TypeInv /\ TypeInv' /\ DownloadInv /\ OriginInv /\ StreamedIsStored
      /\ FromOriginIsWhole /\ [Next]_vars
      => StreamedIsStored' /\ FromOriginIsWhole'
  BY WholeNext
<1> QED BY <1>1, <1>2, TypeInvariance, DownloadInvariance, OriginInvariance, PTL
        DEF Spec

================================================================================
