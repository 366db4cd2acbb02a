------------------------------ MODULE FileServer ------------------------------
(***************************************************************************)
(* The file servers: the port and the run of each, the directory it keeps  *)
(* on disk, and the UPLOAD connections it is serving on a small pool.      *)
(*                                                                         *)
(* PING, FILE_LIST, HAS_FILE and DOWNLOAD are answered to a client that    *)
(* waits for the reply and does nothing else, so each is one step of that  *)
(* client, taken when the server fixes its answer (the list of files is    *)
(* read when the connection is accepted); while the pool has no free       *)
(* thread the client need not go on.  An UPLOAD goes on after its          *)
(* client is gone, so its connection is state here: sent by the client and *)
(* waiting in the listen backlog, accepted, its file opened by a thread of *)
(* the pool, its bytes received, and the gateway about to be told.         *)
(***************************************************************************)
EXTENDS Protocol

CONSTANTS
  PoolSize,     \* threads of a server's own pool: 2 in the code
  CopyConns     \* connections the replication service's uploads may use at
                \* one time (bounds the model)

ASSUME FileServerAssumption ==
  /\ PoolSize \in Nat \ {0}
  /\ CopyConns \cap Uploads = {}

VARIABLES
  port,         \* port[s]: whether the port of s is open, and who accepts
  dir,          \* dir[s]: the file names in the directory of s
  bytes,        \* bytes[s][f]: what the file f of s holds
  conn,         \* the UPLOAD connections
  lost          \* clients whose request was in the backlog of a server when
                \* it stopped: their next read finds the connection reset

serverVars == <<port, dir, bytes, conn, lost>>

\* served: the run of s is in its accept loop; held: it waits for the gateway to
\* answer its registration; left: it has ended, refused by the gateway, and the
\* port is still open.  A connection to a held or left port succeeds, waits in
\* the backlog and is not accepted.
Port == {"closed", "held", "left", "served"}

Served(s) == port[s] = "served"
Unserved(s) == port[s] \in {"held", "left"}
Refuses(s) == port[s] = "closed"

\* The server says that it has the file; it says that it has not, or nobody is
\* there to say.
Has(s, f) == Served(s) /\ f \in dir[s]
HasNot(s, f) == Refuses(s) \/ (Served(s) /\ f \notin dir[s])

ConnIds == Uploads \cup CopyConns

Conn == [pc   : {"free", "backlog", "accepted", "open", "notify"},
         srv  : Servers,
         file : Files,
         data : SUBSET Chunk,                   \* bytes the client has sent
         got  : 0..FileLength,                  \* positions written to disk
         end  : {"open", "closed", "reset"}]    \* the client's side

FreeConn == [pc |-> "free", srv |-> 1, file |-> CHOOSE f \in Files : TRUE,
             data |-> {}, got |-> 0, end |-> "open"]

NewConn(s, f, data, end) ==
  [pc |-> "backlog", srv |-> s, file |-> f, data |-> data, got |-> 0,
   end |-> end]

Holders(f) == {s \in Servers : f \in dir[s]}

\* The connections that hold a thread of the pool of s.
Handled(s) ==
  {k \in ConnIds : conn[k].srv = s /\ conn[k].pc \in {"open", "notify"}}

FreeThread(s) == Cardinality(Handled(s)) < PoolSize

ServerTypeOK ==
  /\ port \in [Servers -> Port]
  /\ dir \in [Servers -> SUBSET Files]
  /\ bytes \in [Servers -> [Files -> SUBSET Chunk]]
  /\ conn \in [ConnIds -> Conn]

ServerInit ==
  /\ port = [s \in Servers |-> "served"]
  /\ dir = [s \in Servers |-> {}]
  /\ bytes = [s \in Servers |-> [f \in Files |-> {}]]
  /\ conn = [k \in ConnIds |-> FreeConn]
  /\ lost = {}

\* The accept loop takes the connection and hands it to the thread pool.
Accept(k) ==
  /\ conn[k].pc = "backlog"
  /\ Served(conn[k].srv)
  /\ conn' = [conn EXCEPT ![k].pc = "accepted"]
  /\ UNCHANGED <<port, dir, bytes, lost>>

\* A pool thread reads command, name and size, and receiveFile creates or
\* truncates the file.
OpenFile(k) ==
  LET s == conn[k].srv
      f == conn[k].file
  IN  /\ conn[k].pc = "accepted"
      /\ FreeThread(s)
      /\ conn' = [conn EXCEPT ![k].pc = "open"]
      /\ dir' = [dir EXCEPT ![s] = @ \cup {f}]
      /\ bytes' = [bytes EXCEPT ![s][f] = {}]
      /\ UNCHANGED <<port, lost>>

\* The client's process died before the header was read: the handler ends.
HeaderLost(k) ==
  /\ conn[k].pc = "accepted"
  /\ FreeThread(conn[k].srv)
  /\ conn[k].end = "reset"
  /\ conn' = [conn EXCEPT ![k] = FreeConn]
  /\ UNCHANGED <<port, dir, bytes, lost>>

Unread(k) == {x \in conn[k].data : x[1] > conn[k].got}

\* receiveFile writes the next position of what the client has sent.  The
\* announced file size is not looked at.
WriteBytes(k) ==
  LET s == conn[k].srv
      f == conn[k].file
      p == conn[k].got + 1
  IN  /\ conn[k].pc = "open"
      /\ Unread(k) # {}
      /\ conn' = [conn EXCEPT ![k].got = p]
      /\ bytes' = [bytes EXCEPT ![s][f] = Overwrite(@, At(conn[k].data, p))]
      /\ UNCHANGED <<port, dir, lost>>

\* Mutant of EndOfStream: a reset connection is read again and again.
EndOfStreamOnly(k) ==
  /\ conn[k].pc = "open"
  /\ conn[k].end = "closed"
  /\ Unread(k) = {}
  /\ conn' = [conn EXCEPT ![k].pc = "notify"]
  /\ UNCHANGED <<port, dir, bytes, lost>>

\* End of the stream, or a reset that loses what was not yet read: receiveFile
\* returns in both cases, and uploadFile goes on to tell the gateway.
EndOfStream(k) ==
  /\ conn[k].pc = "open"
  /\ \/ conn[k].end = "closed" /\ Unread(k) = {}
     \/ conn[k].end = "reset"
  /\ conn' = [conn EXCEPT ![k].pc = "notify"]
  /\ UNCHANGED <<port, dir, bytes, lost>>

\* stop() closes the listening socket.  Connections in the backlog are reset,
\* among them those of a set of clients waiting for a reply; a connection
\* already accepted is served to its end.
StopServer(s, clients) ==
  /\ ~Refuses(s)
  /\ port' = [port EXCEPT ![s] = "closed"]
  /\ conn' = [k \in ConnIds |->
                IF conn[k].pc = "backlog" /\ conn[k].srv = s
                THEN FreeConn ELSE conn[k]]
  /\ lost' = lost \cup clients
  /\ UNCHANGED <<dir, bytes>>

================================================================================
