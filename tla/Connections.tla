----------------------------- MODULE Connections -----------------------------
(***************************************************************************)
(* One file server and its clients' connections: the listen backlog, the   *)
(* accept loop, which reads the list of files as it accepts, the server's  *)
(* own pool of two threads with its queue, and the handlers.  FILE_LIST    *)
(* and HAS_FILE answer from the list read at the accept; DOWNLOAD looks    *)
(* into the directory when it is handled; UPLOAD and DOWNLOAD then hold    *)
(* their thread for as long as the client takes, and an UPLOAD until the   *)
(* gateway has answered its notification.                                  *)
(*                                                                         *)
(* The gateway is here as this server sees it: the first request that      *)
(* reaches a started gateway, a notification maybe, creates its bean;      *)
(* init() then asks this server, among others, for its file list, and no   *)
(* request is answered before init() returns.                              *)
(***************************************************************************)
EXTENDS Integers, Sequences, FiniteSets

CONSTANTS
  Conns,        \* the connections clients make
  KindOf,       \* KindOf[c]: the command sent on it
  NameOf,       \* NameOf[c]: the file it names
  PoolSize,     \* threads of the server's pool: 2 in the code
  MaxRestarts,  \* stops of the server (bounds the model)
  NoList,       \* no list read yet
  InitConns,    \* the connections that init() makes, one each time
  NoConn        \* no connection of init()

Kinds == {"FILE_LIST", "HAS_FILE", "PING", "UPLOAD", "DOWNLOAD"}

Names == {NameOf[c] : c \in Conns}

ASSUME ConnectionsAssumption ==
  /\ IsFiniteSet(Conns)
  /\ KindOf \in [Conns -> Kinds]
  /\ \A list \in SUBSET Names : list # NoList
  /\ InitConns \subseteq {c \in Conns : KindOf[c] = "FILE_LIST"}
  /\ InitConns # {}
  /\ NoConn \notin Conns
  /\ PoolSize \in Nat \ {0}
  /\ MaxRestarts \in Nat

VARIABLES
  accepting,  \* the server's socket is open and its accept loop runs
  restarts,   \* stops so far
  names,      \* the names in the server's directory
  backlog,    \* connections not yet accepted, in order
  jobs,       \* connections waiting for a thread of the pool, in order
  conn,       \* conn[c]: the connection c and what its answer is read from
  bean        \* the gateway's bean, and the connection of its init() to this server

serverVars == <<accepting, restarts, names, backlog, jobs, conn>>

connVars == <<serverVars, bean>>

\* transfer: bytes of an upload or a download are under way; notify: an upload is
\* received and the gateway is to be told; notifying: it has been asked and has
\* not answered; ended: the handler has nothing left to do.
Conn == [pc   : {"new", "backlog", "queued", "handled", "transfer", "notify",
                 "notifying", "ended", "answered", "reset", "refused"},
         list : {NoList} \cup SUBSET Names]

\* none: the gateway is down, or answers 404; fresh: no request has come yet.
Bean == [pc : {"none", "fresh", "ready"}, asks : {NoConn}]
          \cup [pc : {"init"}, asks : InitConns]

BeanAt(pc) == [pc |-> pc, asks |-> NoConn]

ConnInit ==
  /\ bean \in {BeanAt(pc) : pc \in {"none", "fresh", "ready"}}
  /\ accepting = TRUE
  /\ restarts = 0
  /\ names = {}
  /\ backlog = <<>>
  /\ jobs = <<>>
  /\ conn = [c \in Conns |-> [pc |-> "new", list |-> NoList]]

\* The connections that hold a thread of the pool.
Holding == {"handled", "transfer", "notify", "notifying", "ended"}

Handled == {c \in Conns : conn[c].pc \in Holding}

Goes(c, pc) == conn' = [conn EXCEPT ![c].pc = pc]

-----------------------------------------------------------------------------

\* The client connects and sends its command; an UPLOAD's bytes follow.  The
\* client of a connection of init() is the gateway.
ConnectTo(c) ==
  /\ conn[c].pc = "new"
  /\ c \in InitConns => bean.asks = c
  /\ IF accepting THEN Goes(c, "backlog") /\ backlog' = Append(backlog, c)
     ELSE Goes(c, "refused") /\ backlog' = backlog
  /\ UNCHANGED <<accepting, restarts, names, jobs, bean>>

\* Mutant of AcceptNext: the list of the previous connection is used again.
AcceptNextCached ==
  /\ accepting
  /\ backlog # <<>>
  /\ LET known == {conn[c].list : c \in Conns} \ {NoList}
     IN  conn' = [conn EXCEPT ![Head(backlog)] =
                    [pc |-> "queued",
                     list |-> IF known = {} THEN names
                              ELSE CHOOSE l \in known : TRUE]]
  /\ jobs' = Append(jobs, Head(backlog))
  /\ backlog' = Tail(backlog)
  /\ UNCHANGED <<accepting, restarts, names, bean>>

\* accept(), getFileList() and the submission to the pool.
AcceptNext ==
  /\ accepting
  /\ backlog # <<>>
  /\ conn' = [conn EXCEPT ![Head(backlog)] = [pc |-> "queued", list |-> names]]
  /\ jobs' = Append(jobs, Head(backlog))
  /\ backlog' = Tail(backlog)
  /\ UNCHANGED <<accepting, restarts, names, bean>>

\* Mutant of Handle: the pool grows with the load.
HandleUnbounded ==
  /\ jobs # <<>>
  /\ Goes(Head(jobs), "handled")
  /\ jobs' = Tail(jobs)
  /\ UNCHANGED <<accepting, restarts, names, backlog, bean>>

\* A thread of the pool takes the first connection and reads its command.
Handle ==
  /\ jobs # <<>>
  /\ Cardinality(Handled) < PoolSize
  /\ Goes(Head(jobs), "handled")
  /\ jobs' = Tail(jobs)
  /\ UNCHANGED <<accepting, restarts, names, backlog, bean>>

\* PING, FILE_LIST and HAS_FILE are answered from the list read at the accept.
Answer(c) ==
  /\ conn[c].pc = "handled"
  /\ KindOf[c] \in {"PING", "FILE_LIST", "HAS_FILE"}
  /\ Goes(c, "answered")
  /\ UNCHANGED <<accepting, restarts, names, backlog, jobs, bean>>

\* receiveFile opens the file, which is in the directory from now on.
BeginUpload(c) ==
  /\ conn[c].pc = "handled"
  /\ KindOf[c] = "UPLOAD"
  /\ names' = names \cup {NameOf[c]}
  /\ Goes(c, "transfer")
  /\ UNCHANGED <<accepting, restarts, backlog, jobs, bean>>

\* sendRequestedFile looks for the file now: a missing one is answered at once.
BeginDownload(c) ==
  /\ conn[c].pc = "handled"
  /\ KindOf[c] = "DOWNLOAD"
  /\ conn' = [conn EXCEPT ![c] =
                [pc |-> IF NameOf[c] \in names THEN "transfer" ELSE "answered",
                 list |-> names]]
  /\ UNCHANGED <<accepting, restarts, names, backlog, jobs, bean>>

\* The client has sent, or taken, the last byte, or is gone; it may never.
ClientEnds(c) ==
  /\ conn[c].pc = "transfer"
  /\ Goes(c, IF KindOf[c] = "UPLOAD" THEN "notify" ELSE "ended")
  /\ UNCHANGED <<accepting, restarts, names, backlog, jobs, bean>>

HandlerEnds(c) ==
  /\ conn[c].pc = "ended"
  /\ Goes(c, "answered")
  /\ UNCHANGED <<accepting, restarts, names, backlog, jobs, bean>>

\* Mutant of StopServer: the pool's queue is dropped with the backlog.
StopServerDrops ==
  /\ accepting
  /\ restarts < MaxRestarts
  /\ accepting' = FALSE
  /\ restarts' = restarts + 1
  /\ conn' = [c \in Conns |->
                IF conn[c].pc = "backlog" THEN [pc |-> "reset", list |-> NoList]
                ELSE conn[c]]
  /\ backlog' = <<>>
  /\ jobs' = <<>>
  /\ UNCHANGED <<names, bean>>

\* stop(): the connections in the backlog are reset; those accepted are not.
StopServer ==
  /\ accepting
  /\ restarts < MaxRestarts
  /\ accepting' = FALSE
  /\ restarts' = restarts + 1
  /\ conn' = [c \in Conns |->
                IF conn[c].pc = "backlog" THEN [pc |-> "reset", list |-> NoList]
                ELSE conn[c]]
  /\ backlog' = <<>>
  /\ UNCHANGED <<names, jobs, bean>>

StartServer ==
  /\ ~accepting
  /\ accepting' = TRUE
  /\ UNCHANGED <<restarts, names, backlog, jobs, conn, bean>>

-----------------------------------------------------------------------------
(* The gateway *)

\* The first request of a started gateway creates the bean; its init() will ask
\* this server on a connection of its own.
Create ==
  /\ bean.pc = "fresh"
  /\ \E c \in InitConns : /\ conn[c].pc = "new"
                          /\ bean' = [pc |-> "init", asks |-> c]

\* Someone else's request.
CreateBean == Create /\ UNCHANGED serverVars

\* The upload's handler opens uploadingfinish.xhtml: refused at once by a gateway
\* that is down, held back by one in init(), which the request may have begun.
Notify(c) ==
  /\ conn[c].pc = "notify"
  /\ \/ bean.pc \in {"none", "ready"} /\ Goes(c, "ended") /\ UNCHANGED bean
     \/ Goes(c, "notifying") /\ Create
     \/ bean.pc = "init" /\ Goes(c, "notifying") /\ UNCHANGED bean
  /\ UNCHANGED <<accepting, restarts, names, backlog, jobs>>

\* The notifications that were held back are answered, or break off.
Release ==
  /\ conn' = [c \in Conns |->
                IF conn[c].pc = "notifying" THEN [conn[c] EXCEPT !.pc = "ended"]
                ELSE conn[c]]
  /\ UNCHANGED <<accepting, restarts, names, backlog, jobs>>

\* init() is through with this server, and with the others.
BeanReady ==
  /\ bean.pc = "init"
  /\ conn[bean.asks].pc \in {"answered", "reset", "refused"}
  /\ bean' = BeanAt("ready")
  /\ Release

StopGateway ==
  /\ bean.pc # "none"
  /\ bean' = BeanAt("none")
  /\ Release

\* InitConns bounds the starts of the gateway.
StartGateway ==
  /\ bean.pc = "none"
  /\ \E c \in InitConns : conn[c].pc = "new"
  /\ bean' = BeanAt("fresh")
  /\ UNCHANGED serverVars

-----------------------------------------------------------------------------

Handler(c) ==
  Answer(c) \/ BeginUpload(c) \/ BeginDownload(c) \/ Notify(c) \/ HandlerEnds(c)

ConnNext ==
  \/ \E c \in Conns : ConnectTo(c) \/ Handler(c) \/ ClientEnds(c)
  \/ AcceptNext \/ Handle
  \/ StopServer \/ StartServer
  \/ CreateBean \/ BeanReady \/ StopGateway \/ StartGateway

\* The server's threads go on; a client need not, a stopped server need not be
\* started again, and init() need not return: another server may keep it.
ConnFairness ==
  /\ WF_connVars(AcceptNext)
  /\ WF_connVars(Handle)
  /\ \A c \in Conns : WF_connVars(Handler(c))

ConnSpec == ConnInit /\ [][ConnNext]_connVars /\ ConnFairness

-----------------------------------------------------------------------------
(* Properties *)

ConnTypeOK ==
  /\ accepting \in BOOLEAN
  /\ restarts \in 0..MaxRestarts
  /\ names \subseteq Names
  /\ backlog \in Seq(Conns)
  /\ jobs \in Seq(Conns)
  /\ conn \in [Conns -> Conn]
  /\ bean \in Bean

\* A connection is in one place: in the backlog of an open socket, in the pool's
\* queue or held by one of at most PoolSize threads, and no stop or start loses
\* or doubles one (FileServer.java:40, 49, 77-81).
InOnePlace ==
  /\ {c \in Conns : conn[c].pc = "backlog"} = {backlog[i] : i \in DOMAIN backlog}
  /\ {c \in Conns : conn[c].pc = "queued"} = {jobs[i] : i \in DOMAIN jobs}
  /\ \A i, j \in DOMAIN backlog : backlog[i] = backlog[j] => i = j
  /\ \A i, j \in DOMAIN jobs : jobs[i] = jobs[j] => i = j
  /\ ~accepting => backlog = <<>>
  /\ Cardinality(Handled) <= PoolSize

ConnInv == ConnTypeOK /\ InOnePlace

\* The directory as a client sees it: whatever waits in the backlog, the pool's
\* queue or behind a slow transfer, and whenever the server stops, every answer
\* is one the directory gave between the request and the answer.  This is what
\* lets a client's question be one step elsewhere (FileServer.java:79,
\* FileServerHandleConnection.java:47-70).
Seen(c) ==
  CASE conn[c].pc = "new" -> "idle"
    [] conn[c].pc \in {"backlog", "queued", "handled"} -> "asked"
    [] conn[c].pc \in {"transfer", "notify", "notifying", "ended"} ->
         IF KindOf[c] = "UPLOAD" THEN "asked" ELSE "answered"
    [] conn[c].pc = "answered" -> "answered"
    [] conn[c].pc \in {"reset", "refused"} -> "failed"

\* A DOWNLOAD's list counts from its handling on.
SeenAnswer(c) ==
  IF KindOf[c] = "DOWNLOAD" /\ conn[c].pc \in {"queued", "handled"}
  THEN NoList
  ELSE conn[c].list

Requested == INSTANCE Requests
  WITH NoAnswer <- NoList,
       store <- names,
       asked <- [c \in Conns |-> Seen(c)],
       answer <- [c \in Conns |-> SeenAnswer(c)]

ImplementsRequests == Requested!Spec

\* Every thread of the pool waits for its client, or for a gateway in init() to
\* answer its notification: neither wait has a timeout.
Stalled ==
  Cardinality({c \in Conns : conn[c].pc \in {"transfer", "notifying"}}) = PoolSize

\* Every connection the server accepted is answered, also after stop(), unless
\* all the pool's threads wait for ever, each for its client or for init(): with
\* init()'s own question behind them in the pool's queue, the two wait for each
\* other (FileServer.java:40, Protocol.java:122-127, GatewayServer.java:66).
AcceptedIsAnswered ==
  \A c \in Conns :
    []<>(conn[c].pc \notin {"queued", "handled"}) \/ <>[]Stalled

================================================================================
