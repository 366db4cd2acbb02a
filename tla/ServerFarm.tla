------------------------------ MODULE ServerFarm ------------------------------
(***************************************************************************)
(* The file servers as the farm runs them: start() puts a FileServer on a  *)
(* fixed thread pool; a run binds the port, assigns the socket to the      *)
(* field `server', registers at the gateway over HTTP and loops on         *)
(* accept(), reading the field each turn; stop() closes whatever socket    *)
(* the field holds.  The operator is the web page server.xhtml or the      *)
(* console of main().                                                      *)
(*                                                                         *)
(* The gateway is here as its registration page: the first request of any  *)
(* kind creates the application-scoped bean, whose init() asks the file    *)
(* list of every server in the set and waits for each answer, while the    *)
(* other requests wait for the bean.  A server that has accepted init()'s  *)
(* connection answers it on its own pool, whose threads are held by        *)
(* clients' transfers and by uploads that notify the gateway.              *)
(***************************************************************************)
EXTENDS Integers, Sequences

CONSTANTS
  NumberOfServers,   \* Protocol.NUMBER_OF_SERVERS
  HandlerThreads,    \* threads of a server's own pool: 2 in the code
  MaxStarts          \* starts the operator asks for (bounds the model)

ASSUME FarmAssumption == /\ NumberOfServers \in Nat \ {0}
                         /\ HandlerThreads \in Nat \ {0}
                         /\ MaxStarts \in Nat

Servers == 1..NumberOfServers

\* Threads of the farm's pool, one per server.
Threads == 1..NumberOfServers

\* The sockets a server creates are numbered from 1; 0 is none.
Sockets == Nat \ {0}

NoSocket == 0

VARIABLES
  queue,    \* runs submitted to the pool that no thread has taken
  run,      \* run[t]: what pool thread t is running
  field,    \* field[s]: the socket in the field `server' of s, null at first
  bound,    \* bound[s]: the open socket bound to the port of s
  made,     \* made[s]: sockets s has created
  gw,       \* the gateway's registration page and its init()
  front,    \* the operator
  starts    \* starts asked so far

farmVars == <<queue, run, field, bound, made, gw, front, starts>>

Idle == [pc |-> "idle", srv |-> 0, sock |-> NoSocket]

Run == {Idle} \cup
  [pc   : {"bind", "assign", "register", "registering", "loop", "accept"},
   srv  : Servers,
   sock : Sockets \cup {NoSocket}]

\* The threads of a server's pool that are held: by transfers, until their client
\* has sent or taken the last byte, and by uploads' notifications of the gateway.
Held == {h \in [clients : 0..HandlerThreads, calls : 0..HandlerThreads] :
           h.clients + h.calls <= HandlerThreads}

NoneHeld == [clients |-> 0, calls |-> 0]

\* down: refuses connections; absent: the application is not deployed (404);
\* fresh: no request has reached the bean; init: a request, made by pool thread
\* `by' or by somebody else (0), is creating the bean and `left' is to be asked.
\* taken: the server `at' has accepted the connection, and `held' of its pool's
\* threads are held.  Until then any may be, and it makes no difference here.
Gateway == [pc    : {"down", "absent", "fresh", "init", "ready"},
            by    : Threads \cup {0},
            left  : SUBSET Servers,
            at    : Servers \cup {0},
            sock  : Sockets \cup {NoSocket},
            taken : BOOLEAN,
            held  : Held]

AtRest(pc) ==
  [pc |-> pc, by |-> 0, left |-> {}, at |-> 0, sock |-> NoSocket,
   taken |-> FALSE, held |-> NoneHeld]

\* init() of the request `by', about to ask the servers `left'.
Asking(by, left) ==
  [pc |-> "init", by |-> by, left |-> left, at |-> 0, sock |-> NoSocket,
   taken |-> FALSE, held |-> NoneHeld]

Creating(by) == Asking(by, Servers)

\* The operator: the web page, and close() as its bean is destroyed; or the
\* console of main().
Front(pc) == [pc |-> pc, at |-> 0]

Web == {Front(pc) : pc \in {"page", "closed", "aborted"}}
         \cup [pc : {"closing"}, at : Servers]

Console == {Front(pc) : pc \in {"sleep", "prompt", "ended"}}

FarmTypeOK ==
  /\ queue \in Seq(Servers)
  /\ run \in [Threads -> Run]
  /\ field \in [Servers -> Sockets \cup {NoSocket}]
  /\ bound \in [Servers -> Sockets \cup {NoSocket}]
  /\ made \in [Servers -> Sockets \cup {NoSocket}]
  /\ gw \in Gateway
  /\ front \in Web \cup Console
  /\ starts \in 0..MaxStarts

\* The constructor has put every server on the pool.  The web page shares its
\* application with the gateway.
FarmInit ==
  /\ queue = [i \in 1..NumberOfServers |-> i]
  /\ run = [t \in Threads |-> Idle]
  /\ field = [s \in Servers |-> NoSocket]
  /\ bound = [s \in Servers |-> NoSocket]
  /\ made = [s \in Servers |-> 0]
  /\ \/ /\ front = Front("page")
        /\ gw \in {AtRest("fresh"), AtRest("ready")}
     \/ /\ front = Front("sleep")
        /\ gw \in {AtRest(pc) : pc \in {"down", "absent", "fresh", "ready"}}
  /\ starts = 0

-----------------------------------------------------------------------------
(* FileServer.run() on a thread of the pool *)

\* The thread is about to read the field and call accept() on it.
Looping(s) == [pc |-> "loop", srv |-> s, sock |-> NoSocket]

\* Mutant of TakeRun: the pool has one thread less.
TakeRunShort(t) ==
  /\ run[t].pc = "idle"
  /\ \A u \in Threads : u < t => run[u].pc # "idle"
  /\ t # NumberOfServers
  /\ queue # <<>>
  /\ run' = [run EXCEPT ![t] =
               [pc |-> "bind", srv |-> Head(queue), sock |-> NoSocket]]
  /\ queue' = Tail(queue)
  /\ UNCHANGED <<field, bound, made, gw, front, starts>>

\* Idle threads are alike; the first of them takes the run.
TakeRun(t) ==
  /\ run[t].pc = "idle"
  /\ \A u \in Threads : u < t => run[u].pc # "idle"
  /\ queue # <<>>
  /\ run' = [run EXCEPT ![t] =
               [pc |-> "bind", srv |-> Head(queue), sock |-> NoSocket]]
  /\ queue' = Tail(queue)
  /\ UNCHANGED <<field, bound, made, gw, front, starts>>

\* Mutant of Bind: a port in use is bound again.
BindAgain(t) ==
  LET s == run[t].srv
  IN  /\ run[t].pc = "bind"
      /\ made' = [made EXCEPT ![s] = @ + 1]
      /\ bound' = [bound EXCEPT ![s] = made[s] + 1]
      /\ run' = [run EXCEPT ![t] = [pc |-> "assign", srv |-> s,
                                    sock |-> made[s] + 1]]
      /\ UNCHANGED <<queue, field, gw, front, starts>>

\* Binding to a port in use throws a BindException, which ends the run.
Bind(t) ==
  LET s == run[t].srv
  IN  /\ run[t].pc = "bind"
      /\ \/ /\ bound[s] = NoSocket
            /\ made' = [made EXCEPT ![s] = @ + 1]
            /\ bound' = [bound EXCEPT ![s] = made[s] + 1]
            /\ run' = [run EXCEPT ![t] = [pc |-> "assign", srv |-> s,
                                          sock |-> made[s] + 1]]
         \/ /\ bound[s] # NoSocket
            /\ run' = [run EXCEPT ![t] = Idle]
            /\ UNCHANGED <<bound, made>>
      /\ UNCHANGED <<queue, field, gw, front, starts>>

\* The assignment to the field, which stop() reads.
AssignField(t) ==
  /\ run[t].pc = "assign"
  /\ field' = [field EXCEPT ![run[t].srv] = run[t].sock]
  /\ run' = [run EXCEPT ![t] =
               [pc |-> "register", srv |-> @.srv, sock |-> @.sock]]
  /\ UNCHANGED <<queue, bound, made, gw, front, starts>>

\* Mutant of Register: a 404 ends the run as a refused connection does.
RegisterOrEnd(t) ==
  LET Sent == run' = [run EXCEPT ![t] =
                        [pc |-> "registering", srv |-> @.srv, sock |-> @.sock]]
      GoesOn == run' = [run EXCEPT ![t] = Looping(@.srv)]
  IN  /\ run[t].pc = "register"
      /\ \/ gw.pc \in {"down", "absent"} /\ run' = [run EXCEPT ![t] = Idle]
            /\ gw' = gw
         \/ gw.pc = "ready" /\ GoesOn /\ gw' = gw
         \/ gw.pc = "fresh" /\ Sent /\ gw' = Creating(t)
         \/ gw.pc = "init" /\ Sent /\ gw' = gw
      /\ UNCHANGED <<queue, field, bound, made, front, starts>>

\* A refused connection ends the run and leaves the socket bound; a 404 (a
\* FileNotFoundException) is caught and the run goes on without the gateway.
Register(t) ==
  LET Sent == run' = [run EXCEPT ![t] =
                        [pc |-> "registering", srv |-> @.srv, sock |-> @.sock]]
      GoesOn == run' = [run EXCEPT ![t] = Looping(@.srv)]
  IN  /\ run[t].pc = "register"
      /\ \/ gw.pc = "down" /\ run' = [run EXCEPT ![t] = Idle] /\ gw' = gw
         \/ gw.pc \in {"absent", "ready"} /\ GoesOn /\ gw' = gw
         \/ gw.pc = "fresh" /\ Sent /\ gw' = Creating(t)
         \/ gw.pc = "init" /\ Sent /\ gw' = gw
      /\ UNCHANGED <<queue, field, bound, made, front, starts>>

\* The gateway answers the registrations it held back while init() ran.
Registered(t) ==
  /\ run[t].pc = "registering"
  /\ gw.pc # "init"
  /\ run' = [run EXCEPT ![t] = Looping(@.srv)]
  /\ UNCHANGED <<queue, field, bound, made, gw, front, starts>>

\* server.accept(): the field is read, then the thread waits on its socket.
EnterAccept(t) ==
  /\ run[t].pc = "loop"
  /\ run' = [run EXCEPT ![t] = [pc |-> "accept", srv |-> @.srv,
                                sock |-> field[run[t].srv]]]
  /\ UNCHANGED <<queue, field, bound, made, gw, front, starts>>

Accepting(t) ==
  run[t].pc = "accept" /\ run[t].sock = bound[run[t].srv]

\* Some client's connection is accepted and given to the server's own pool.
AcceptClient(t) ==
  /\ Accepting(t)
  /\ run' = [run EXCEPT ![t] = Looping(@.srv)]
  /\ UNCHANGED <<queue, field, bound, made, gw, front, starts>>

\* The connection of init() is accepted and given to the server's own pool, of
\* which any number of threads may be held by then.
AcceptInit(t) ==
  /\ Accepting(t)
  /\ gw.at = run[t].srv
  /\ gw.sock = run[t].sock
  /\ ~gw.taken
  /\ run' = [run EXCEPT ![t] = Looping(@.srv)]
  /\ \E h \in Held : gw' = [gw EXCEPT !.taken = TRUE, !.held = h]
  /\ UNCHANGED <<queue, field, bound, made, front, starts>>

\* accept() on a closed socket throws and ends the run.
AcceptFails(t) ==
  /\ run[t].pc = "accept"
  /\ run[t].sock # bound[run[t].srv]
  /\ run' = [run EXCEPT ![t] = Idle]
  /\ UNCHANGED <<queue, field, bound, made, gw, front, starts>>

-----------------------------------------------------------------------------
(* The pool of the server that has accepted init()'s connection *)

FreeThread == gw.held.clients + gw.held.calls < HandlerThreads

Holds(clients, calls) ==
  /\ gw' = [gw EXCEPT !.held = [clients |-> clients, calls |-> calls]]
  /\ UNCHANGED <<queue, run, field, bound, made, front, starts>>

\* A client's transfer, accepted before or after, takes a thread.
BeginTransfer ==
  /\ gw.taken
  /\ FreeThread
  /\ Holds(gw.held.clients + 1, gw.held.calls)

\* A client ends.  The handler of a download returns; an upload's notifies the
\* gateway, which holds the request back as it is in init().
EndTransfer ==
  /\ gw.taken
  /\ gw.held.clients > 0
  /\ \/ Holds(gw.held.clients - 1, gw.held.calls)
     \/ Holds(gw.held.clients - 1, gw.held.calls + 1)

\* A thread of the pool sends the file list, and init() goes on.
AnswerInit ==
  /\ gw.taken
  /\ FreeThread
  /\ gw' = Asking(gw.by, gw.left)
  /\ UNCHANGED <<queue, run, field, bound, made, front, starts>>

-----------------------------------------------------------------------------
(* GatewayServer.init(), in the request that creates the bean *)

\* The first request is a browser's, or a notification of an upload.
BrowserVisits ==
  /\ gw.pc = "fresh"
  /\ gw' = Creating(0)
  /\ UNCHANGED <<queue, run, field, bound, made, front, starts>>

\* Mutant of InitConnect: the last server of the range is never asked.
InitConnectShort ==
  /\ gw.pc = "init"
  /\ gw.at = 0
  /\ \E s \in gw.left :
       gw' = IF bound[s] = NoSocket \/ s = NumberOfServers
             THEN Asking(gw.by, gw.left \ {s})
             ELSE [Asking(gw.by, gw.left \ {s}) EXCEPT !.at = s, !.sock = bound[s]]
  /\ UNCHANGED <<queue, run, field, bound, made, front, starts>>

\* The next server: refused when nothing is bound, else the connection waits in
\* the backlog of the socket, accepted or not.
InitConnect ==
  /\ gw.pc = "init"
  /\ gw.at = 0
  /\ \E s \in gw.left :
       gw' = IF bound[s] = NoSocket THEN Asking(gw.by, gw.left \ {s})
             ELSE [Asking(gw.by, gw.left \ {s}) EXCEPT !.at = s, !.sock = bound[s]]
  /\ UNCHANGED <<queue, run, field, bound, made, front, starts>>

\* Mutant of InitReset: the reset goes unnoticed while the port is bound again.
InitResetUnbound ==
  /\ gw.at # 0
  /\ ~gw.taken
  /\ bound[gw.at] = NoSocket
  /\ gw' = Asking(gw.by, gw.left)
  /\ UNCHANGED <<queue, run, field, bound, made, front, starts>>

\* The socket was closed with the connection in its backlog: the read throws a
\* SocketException, and init() goes on to the next server.
InitReset ==
  /\ gw.at # 0
  /\ ~gw.taken
  /\ bound[gw.at] # gw.sock
  /\ gw' = Asking(gw.by, gw.left)
  /\ UNCHANGED <<queue, run, field, bound, made, front, starts>>

InitReturns ==
  /\ gw.pc = "init"
  /\ gw.at = 0
  /\ gw.left = {}
  /\ gw' = AtRest("ready")
  /\ UNCHANGED <<queue, run, field, bound, made, front, starts>>

\* The gateway's program stops, and its pending requests break off, or starts.
\* A farm on the web page is in the gateway's program.
GatewayStops ==
  /\ front \in Console
  /\ gw.pc # "down"
  /\ gw' = AtRest("down")
  /\ run' = [t \in Threads |->
               IF run[t].pc = "registering" THEN Idle ELSE run[t]]
  /\ UNCHANGED <<queue, field, bound, made, front, starts>>

GatewayStarts ==
  /\ front \in Console
  /\ gw.pc = "down"
  /\ gw' = AtRest("fresh")
  /\ UNCHANGED <<queue, run, field, bound, made, front, starts>>

-----------------------------------------------------------------------------
(* The operator *)

\* server.close() on the socket in the field.
CloseSocket(s) ==
  bound' = [bound EXCEPT ![s] = IF @ = field[s] THEN NoSocket ELSE @]

\* The page and the console's status line call isClosed() on every server, which
\* throws on a null field: neither offers anything before every field is set.
MayCommand == /\ front.pc \in {"page", "prompt"}
              /\ \A s \in Servers : field[s] # NoSocket

\* The console sleeps and prints its status line again after every command.
Commanded == front' = IF front.pc = "page" THEN front ELSE Front("sleep")

Stop(s) ==
  /\ MayCommand
  /\ CloseSocket(s)
  /\ Commanded
  /\ UNCHANGED <<queue, run, field, made, gw, starts>>

Start(s) ==
  /\ MayCommand
  /\ starts < MaxStarts
  /\ starts' = starts + 1
  /\ queue' = Append(queue, s)
  /\ Commanded
  /\ UNCHANGED <<run, field, bound, made, gw>>

\* The status line: isClosed() on a null field ends main().
StatusLine ==
  /\ front.pc = "sleep"
  /\ \/ /\ \A s \in Servers : field[s] # NoSocket
        /\ front' = Front("prompt")
     \/ /\ \E s \in Servers : field[s] = NoSocket
        /\ front' = Front("ended")
  /\ UNCHANGED <<queue, run, field, bound, made, gw, starts>>

\* "exit" or the end of the input; a line that is no command throws.  Either
\* ends main(); the servers' threads keep the program running.
ConsoleEnds ==
  /\ front.pc = "prompt"
  /\ front' = Front("ended")
  /\ UNCHANGED <<queue, run, field, bound, made, gw, starts>>

\* The application is undeployed: cleanup() closes the farm.
BeginClose ==
  /\ front.pc = "page"
  /\ front' = [pc |-> "closing", at |-> 1]
  /\ IF gw.pc = "init" THEN gw' = gw
     ELSE gw' \in {AtRest("absent"), AtRest("down")}
  /\ UNCHANGED <<queue, run, field, bound, made, starts>>

\* Mutant of CloseNext: the last server is not stopped.
CloseNextShort ==
  LET s == front.at
  IN  /\ front.pc = "closing"
      /\ \/ /\ field[s] = NoSocket
            /\ front' = Front("aborted")
            /\ UNCHANGED bound
         \/ /\ field[s] # NoSocket
            /\ IF s = NumberOfServers THEN UNCHANGED bound ELSE CloseSocket(s)
            /\ front' = IF s = NumberOfServers THEN Front("closed")
                        ELSE [pc |-> "closing", at |-> s + 1]
      /\ UNCHANGED <<queue, run, field, made, gw, starts>>

\* ServerFarm.close(): each server is stopped; a null field throws out of it.
CloseNext ==
  LET s == front.at
  IN  /\ front.pc = "closing"
      /\ \/ /\ field[s] = NoSocket
            /\ front' = Front("aborted")
            /\ UNCHANGED bound
         \/ /\ field[s] # NoSocket
            /\ CloseSocket(s)
            /\ front' = IF s = NumberOfServers THEN Front("closed")
                        ELSE [pc |-> "closing", at |-> s + 1]
      /\ UNCHANGED <<queue, run, field, made, gw, starts>>

-----------------------------------------------------------------------------

RunStep(t) ==
  \/ TakeRun(t) \/ Bind(t) \/ AssignField(t) \/ Register(t) \/ Registered(t)
  \/ EnterAccept(t) \/ AcceptFails(t)

PoolStep == BeginTransfer \/ EndTransfer \/ AnswerInit

FarmNext ==
  \/ \E t \in Threads : RunStep(t) \/ AcceptClient(t) \/ AcceptInit(t)
  \/ PoolStep
  \/ BrowserVisits \/ InitConnect \/ InitReset \/ InitReturns
  \/ GatewayStops \/ GatewayStarts
  \/ \E s \in Servers : Stop(s) \/ Start(s)
  \/ StatusLine \/ ConsoleEnds \/ BeginClose \/ CloseNext

\* The farm's threads, init() and close() go on.  A socket's backlog and a pool's
\* queue are served in order, so other connections overtake init()'s only so
\* often, whenever a thread accepts or is free again and again.  Nothing is
\* assumed of the clients, the operator or the gateway's operator.
FarmFairness ==
  /\ \A t \in Threads : WF_farmVars(RunStep(t))
  /\ SF_farmVars(\E t \in Threads : AcceptInit(t))
  /\ SF_farmVars(AnswerInit)
  /\ WF_farmVars(InitConnect \/ InitReset \/ InitReturns)
  /\ WF_farmVars(CloseNext)

FarmSpec == FarmInit /\ [][FarmNext]_farmVars

FairFarmSpec == FarmSpec /\ FarmFairness

-----------------------------------------------------------------------------
(* Properties *)

\* stop() reaches the open socket: whatever starts and stops went before, and
\* however many runs of the server overlap, the socket bound to its port is the
\* one in its field, or a run is about to put it there (FileServer.java:49).
StopReaches ==
  \A s \in Servers : bound[s] # NoSocket =>
    \/ bound[s] = field[s]
    \/ \E t \in Threads : /\ run[t].pc = "assign"
                          /\ run[t].srv = s
                          /\ run[t].sock = bound[s]

\* A run knows only sockets that were created; the one it is about to assign is
\* open and newer than the field's; past that there is a socket in the field.
RunInOrder(r) ==
  /\ r.pc # "idle" => r.sock <= made[r.srv]
  /\ r.pc = "assign" =>
       /\ r.sock = bound[r.srv]
       /\ bound[r.srv] # NoSocket
       /\ field[r.srv] < bound[r.srv]
  /\ r.pc \in {"register", "registering", "loop", "accept"} =>
       field[r.srv] # NoSocket

\* However the runs of one server overlap, only its newest socket can be open,
\* and only one run is about to assign it (FileServer.java:63-78).
SocketsInOrder ==
  /\ \A s \in Servers : bound[s] \in {NoSocket, made[s]} /\ field[s] <= made[s]
  /\ \A t \in Threads : RunInOrder(run[t])
  /\ \A t, u \in Threads :
       /\ run[t].pc = "assign"
       /\ run[u].pc = "assign"
       /\ run[t].srv = run[u].srv
       => t = u

\* The inductive invariant of the farm.
FarmInv == FarmTypeOK /\ SocketsInOrder /\ StopReaches

\* A run of s in progress serves its open socket, now or after its registration.
Serves(t, s) ==
  /\ run[t].srv = s
  /\ \/ run[t].pc \in {"assign", "register", "registering"}
        /\ run[t].sock = bound[s]
     \/ run[t].pc = "loop"
     \/ run[t].pc = "accept" /\ run[t].sock = bound[s]

Served(s) == \E t \in Threads : Serves(t, s)

\* An open socket loses the run that serves it only to a gateway that refuses
\* the registration: a stop and a start that overlap, a second run of the same
\* server or a 404 never leave a port bound with nobody accepting
\* (FileServer.java:71-85).
KeepsItsRun ==
  [][\A s \in Servers :
       /\ Served(s)
       /\ bound[s] # NoSocket
       /\ bound'[s] = bound[s]
       /\ ~Served(s)'
       => gw.pc = "down" \/ gw'.pc = "down"]_farmVars

\* The first request that reaches a fresh gateway creates the bean.  When it is
\* a server's registration, init() asks that very server for its file list, and
\* the server will accept only after the registration is answered: init()
\* returns only if the server has been stopped meanwhile, or an older run of
\* it has taken over the new socket (GatewayServer.java:66, FileServer.java:71).
InitAsksItsCaller ==
  [][/\ gw.pc = "init"
     /\ gw.by # 0
     /\ gw'.pc = "ready"
     => LET r == run[gw.by]
        IN  \/ bound[r.srv] # r.sock
            \/ \E t \in Threads \ {gw.by} : run[t].srv = r.srv]_farmVars

\* init() waits for a server that does not accept: its run is registering and
\* waits for init(), or ended when the gateway refused it.
HungOn(s) ==
  /\ gw.pc = "init"
  /\ gw.at = s
  /\ ~gw.taken
  /\ bound[s] = gw.sock
  /\ \A t \in Threads : Serves(t, s) => run[t].pc = "registering"

\* init() waits in the queue of a pool all of whose threads wait, each for its
\* client or, with a notification, for init().
HungInPool == gw.taken /\ ~FreeThread

\* Once begun, init() ends, or the gateway's program does, or init() waits for
\* ever: for a server whose own registration waits for init(), or whose run
\* ended; or for a server all of whose pool waits for clients that never end or
\* for init() itself (GatewayServer.java:66, FileServer.java:40, 71-85).
InitEnds ==
  \/ []<>(gw.pc # "init")
  \/ <>[](HungInPool \/ \E s \in Servers : HungOn(s))

\* Two threads of the pool serve one server: an older run that missed the stop
\* has gone on with the new socket.
Doubled ==
  \E s \in Servers : \E t, u \in Threads :
    /\ t # u
    /\ bound[s] # NoSocket
    /\ Serves(t, s) /\ run[t].pc \in {"loop", "accept"}
    /\ Serves(u, s)

\* The run of a server that was stopped still waits for the gateway's answer.
HeldRun ==
  \E t \in Threads : /\ run[t].pc = "registering"
                     /\ run[t].sock # bound[run[t].srv]

\* A run of s is on the pool's queue, or taken and about to bind.
Due(s) ==
  \/ \E i \in DOMAIN queue : queue[i] = s
  \/ \E t \in Threads : run[t].pc = "bind" /\ run[t].srv = s

\* A server whose start was asked for comes up (or is up) and is not due for
\* ever: the pool's threads suffice unless one server has two runs, or a gateway
\* hung in init() holds the run of a server already stopped (ServerFarm.java:38,
\* 64-70).
StartTaken ==
  \A s \in Servers :
    []<>(~Due(s) \/ bound[s] # NoSocket \/ Doubled \/ HeldRun)

\* No run is queued or between its bind and its assignment.
Settled ==
  /\ queue = <<>>
  /\ \A t \in Threads : run[t].pc \notin {"bind", "assign"}

\* "Close all file servers and shutdown thread pool": closing a farm in which
\* no start is under way closes every server and lets every thread of the pool
\* end, also those that wait for a gateway hung in init() (ServerFarm.java:50).
CloseEnds ==
  (front = [pc |-> "closing", at |-> 1] /\ Settled) ~>
    (/\ front.pc = "closed"
     /\ \A s \in Servers : bound[s] = NoSocket
     /\ \A t \in Threads : run[t].pc = "idle")

================================================================================
