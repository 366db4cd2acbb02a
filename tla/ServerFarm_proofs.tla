--------------------------- MODULE ServerFarm_proofs ---------------------------
(***************************************************************************)
(* The farm's inductive invariant, and what follows from it for any number *)
(* of servers and starts: stop() reaches the open socket, an open socket   *)
(* keeps a run that serves it, and init() waits for the server that called *)
(* it into being.                                                          *)
(*                                                                         *)
(* A step is seen by what it does to the sockets: nothing (RunsMove), a    *)
(* bind, an assignment or a close.                                         *)
(***************************************************************************)
EXTENDS ServerFarm, SequenceTheorems, TLAPS

Active == [pc   : {"bind", "assign", "register", "registering", "loop", "accept"},
           srv  : Servers,
           sock : Sockets \cup {NoSocket}]

LEMMA SocketNumbers == Sockets \cup {NoSocket} = Nat
  BY DEF Sockets, NoSocket

LEMMA RunRecords ==
  /\ Idle \in Run /\ Idle.pc = "idle"
  /\ \A s \in Servers :
       /\ Looping(s) \in Run
       /\ Looping(s).pc = "loop"
       /\ Looping(s).srv = s
       /\ Looping(s).sock = 0
  /\ \A r \in Run : r.pc # "idle" => r \in Active
  /\ \A r \in Active : r \in Run /\ r.srv \in Servers /\ r.sock \in Nat
  BY SocketNumbers DEF Idle, Looping, Run, Active, NoSocket

LEMMA GatewayRecords ==
  /\ \A pc \in {"down", "absent", "fresh", "ready"} : AtRest(pc) \in Gateway
  /\ \A by \in Threads : Creating(by) \in Gateway
  /\ Creating(0) \in Gateway
  /\ \A g \in Gateway : \A left \in SUBSET Servers : Asking(g.by, left) \in Gateway
  /\ \A g \in Gateway : \A left \in SUBSET Servers :
       \A s \in Servers : \A b \in Nat :
         [Asking(g.by, left) EXCEPT !.at = s, !.sock = b] \in Gateway
  /\ \A g \in Gateway : \A h \in Held :
       /\ [g EXCEPT !.held = h] \in Gateway
       /\ [g EXCEPT !.taken = TRUE, !.held = h] \in Gateway
<1>1. NoneHeld \in Held
  BY FarmAssumption DEF NoneHeld, Held
<1>2. Gateway =
        [pc    : {"down", "absent", "fresh", "init", "ready"},
         by    : Threads \cup {0},
         left  : SUBSET Servers,
         at    : Servers \cup {0},
         sock  : Nat,
         taken : BOOLEAN,
         held  : Held]
  BY SocketNumbers DEF Gateway
<1> QED
  BY <1>1, <1>2 DEF AtRest, Creating, Asking, NoSocket

LEMMA PoolStepGateway ==
  ASSUME FarmTypeOK, PoolStep
  PROVE  gw' \in Gateway
<1>0. gw \in Gateway /\ gw.held \in Held /\ gw.left \in SUBSET Servers
  BY DEF FarmTypeOK, Gateway
<1>1. ASSUME NEW x, NEW y, Holds(x, y), [clients |-> x, calls |-> y] \in Held
      PROVE  gw' \in Gateway
  BY <1>0, <1>1, GatewayRecords DEF Holds
<1>2. PICK x \in Nat, y \in Nat :
        /\ x = gw.held.clients /\ y = gw.held.calls
        /\ x <= HandlerThreads /\ y <= HandlerThreads /\ x + y <= HandlerThreads
  BY <1>0, FarmAssumption DEF Held
<1>3. CASE BeginTransfer
  <2>1. [clients |-> x + 1, calls |-> y] \in Held
    BY <1>2, <1>3, FarmAssumption DEF BeginTransfer, FreeThread, Held
  <2> QED  BY <1>1, <1>2, <1>3, <2>1 DEF BeginTransfer
<1>4. CASE EndTransfer
  <2>1. [clients |-> x - 1, calls |-> y] \in Held
    BY <1>2, <1>4, FarmAssumption DEF EndTransfer, Held
  <2>2. [clients |-> x - 1, calls |-> y + 1] \in Held
    BY <1>2, <1>4, FarmAssumption DEF EndTransfer, Held
  <2> QED  BY <1>1, <1>2, <1>4, <2>1, <2>2 DEF EndTransfer
<1>5. CASE AnswerInit
  BY <1>0, <1>5, GatewayRecords DEF AnswerInit
<1> QED  BY <1>3, <1>4, <1>5 DEF PoolStep

LEMMA FrontRecords ==
  /\ \A pc \in {"page", "closed", "aborted"} : Front(pc) \in Web \cup Console
  /\ \A pc \in {"sleep", "prompt", "ended"} : Front(pc) \in Web \cup Console
  /\ \A s \in Servers : [pc |-> "closing", at |-> s] \in Web \cup Console
  /\ \A f \in Web \cup Console : f.pc = "closing" => f.at \in Servers
  BY DEF Front, Web, Console

\* What run[t] becomes, where the step gives it the record r.
LEMMA RunUpdate ==
  ASSUME run \in [Threads -> Run], NEW t \in Threads, NEW r \in Run,
         run' = [run EXCEPT ![t] = r]
  PROVE  /\ run' \in [Threads -> Run]
         /\ run'[t] = r
         /\ \A u \in Threads : u # t => run'[u] = run[u]
  OBVIOUS

-----------------------------------------------------------------------------
(* Steps that leave the sockets alone *)

\* A run that moves on neither binds nor assigns: it ends, is taken, or goes on
\* past its registration with a socket created before.
Moves(r, q) ==
  \/ q = r
  \/ r.pc # "assign" /\ q.pc = "idle"
  \/ r.pc = "idle" /\ q.pc = "bind" /\ q.sock = 0
  \/ /\ r.pc \in {"register", "registering", "loop", "accept"}
     /\ q.pc \in {"registering", "loop", "accept"}
     /\ q.srv = r.srv
     /\ q.sock <= made[r.srv]

LEMMA RunsMove ==
  ASSUME FarmTypeOK, SocketsInOrder, StopReaches,
         UNCHANGED <<field, bound, made>>, run' \in [Threads -> Run],
         \A t \in Threads : Moves(run[t], run'[t])
  PROVE  SocketsInOrder' /\ StopReaches'
<1>0. field' = field /\ bound' = bound /\ made' = made
  OBVIOUS
<1>1. \A t \in Threads :
        run'[t].pc = "assign" \/ run[t].pc = "assign" => run'[t] = run[t]
  BY DEF Moves
<1>3. \A s \in Servers : made[s] \in Nat /\ 0 <= made[s]
  BY SocketNumbers DEF FarmTypeOK
<1>4. ASSUME NEW t \in Threads
      PROVE  RunInOrder(run[t])'
  <2>1. RunInOrder(run[t])
    BY DEF SocketsInOrder
  <2>2. CASE run'[t] = run[t]
    BY <1>0, <2>1, <2>2 DEF RunInOrder
  <2>3. CASE run'[t].pc = "idle"
    BY <2>3 DEF RunInOrder
  <2>4. CASE run'[t].pc = "bind" /\ run'[t].sock = 0
    <3>1. run'[t].srv \in Servers
      BY <2>4, RunRecords
    <3> QED  BY <1>0, <1>3, <2>4, <3>1 DEF RunInOrder
  <2>5. CASE /\ run[t].pc \in {"register", "registering", "loop", "accept"}
             /\ run'[t].pc \in {"registering", "loop", "accept"}
             /\ run'[t].srv = run[t].srv
             /\ run'[t].sock <= made[run[t].srv]
    BY <1>0, <2>1, <2>5 DEF RunInOrder
  <2> QED  BY <2>2, <2>3, <2>4, <2>5 DEF Moves
<1>5. SocketsInOrder'
  BY <1>0, <1>1, <1>4 DEF SocketsInOrder
<1>6. StopReaches'
  BY <1>0, <1>1 DEF StopReaches
<1> QED  BY <1>5, <1>6

\* One thread moves.
LEMMA OneMoves ==
  ASSUME FarmTypeOK, SocketsInOrder, StopReaches,
         UNCHANGED <<field, bound, made>>,
         NEW t \in Threads, NEW r \in Run, Moves(run[t], r),
         run' = [run EXCEPT ![t] = r]
  PROVE  run' \in [Threads -> Run] /\ SocketsInOrder' /\ StopReaches'
<1>1. run' \in [Threads -> Run] /\ run'[t] = r
        /\ \A u \in Threads : u # t => run'[u] = run[u]
  BY RunUpdate DEF FarmTypeOK
<1>2. \A u \in Threads : Moves(run[u], run'[u])
  BY <1>1 DEF Moves
<1> QED  BY <1>1, <1>2, RunsMove

-----------------------------------------------------------------------------
(* Steps that change the sockets *)

LEMMA BindStep ==
  ASSUME FarmTypeOK, SocketsInOrder, StopReaches, NEW t \in Threads, Bind(t)
  PROVE  FarmTypeOK' /\ SocketsInOrder' /\ StopReaches'
<1> DEFINE s == run[t].srv
           n == made[s] + 1
           r == [pc |-> "assign", srv |-> s, sock |-> n]
<1>0. run[t].pc = "bind" /\ s \in Servers
  BY RunRecords DEF Bind, FarmTypeOK
<1>1. CASE /\ bound[s] = NoSocket
           /\ made' = [made EXCEPT ![s] = @ + 1]
           /\ bound' = [bound EXCEPT ![s] = n]
           /\ run' = [run EXCEPT ![t] = r]
  <2>1. made[s] \in Nat /\ n \in Nat /\ n \in Sockets /\ field[s] < n /\ n # NoSocket
    <3>1. made[s] \in Nat /\ field[s] \in Nat
      BY <1>0, SocketNumbers DEF FarmTypeOK
    <3>2. field[s] <= made[s]
      BY <1>0 DEF SocketsInOrder
    <3> QED  BY <3>1, <3>2 DEF Sockets, NoSocket
  <2>2. r \in Run
    BY <1>0, <2>1 DEF Run
  <2> HIDE DEF n
  <2>3. field' = field /\ queue' = queue /\ gw' = gw /\ front' = front
          /\ starts' = starts
    BY DEF Bind
  <2>4. run' \in [Threads -> Run] /\ run'[t] = r
          /\ \A u \in Threads : u # t => run'[u] = run[u]
    <3> HIDE DEF r
    <3> QED  BY <1>1, <2>2, RunUpdate DEF FarmTypeOK
  <2>5. bound'[s] = n /\ made'[s] = n
          /\ \A v \in Servers : v # s => bound'[v] = bound[v] /\ made'[v] = made[v]
    BY <1>0, <1>1 DEF FarmTypeOK, n
  <2>6. FarmTypeOK'
    BY <1>1, <2>1, <2>3, <2>4 DEF FarmTypeOK, n
  <2>7. \A u \in Threads : run[u].pc = "assign" => run[u].srv # s
    BY <1>1 DEF SocketsInOrder, RunInOrder
  <2>8. ASSUME NEW u \in Threads  PROVE RunInOrder(run[u])'
    <3>1. CASE u = t
      <4>1. r.pc = "assign" /\ r.srv = s /\ r.sock = n
        OBVIOUS
      <4>2. n <= n
        BY <2>1
      <4> HIDE DEF r
      <4> QED  BY <2>1, <2>3, <2>4, <2>5, <3>1, <4>1, <4>2 DEF RunInOrder
    <3>2. CASE u # t
      <4>1. run'[u] = run[u] /\ RunInOrder(run[u])
        BY <2>4, <3>2 DEF SocketsInOrder
      <4>2. CASE run[u].pc = "idle"
        BY <4>1, <4>2 DEF RunInOrder
      <4>3. CASE run[u].pc # "idle" /\ run[u].srv = s
        <5>1. run[u].sock \in Nat
          BY <4>3, RunRecords DEF FarmTypeOK
        <5>2. run[u].sock <= made[s]
          BY <4>1, <4>3 DEF RunInOrder
        <5>3. run[u].sock <= n
          BY <2>1, <5>1, <5>2 DEF n
        <5> QED  BY <2>3, <2>5, <2>7, <4>1, <4>3, <5>3 DEF RunInOrder
      <4>4. CASE run[u].pc # "idle" /\ run[u].srv # s
        <5>1. run[u].srv \in Servers
          BY <4>4, RunRecords DEF FarmTypeOK
        <5> QED  BY <2>3, <2>5, <4>1, <4>4, <5>1 DEF RunInOrder
      <4> QED  BY <4>2, <4>3, <4>4
    <3> QED  BY <3>1, <3>2
  <2>9. \A v \in Servers : bound'[v] \in {NoSocket, made'[v]} /\ field'[v] <= made'[v]
    <3>1. field[s] <= n
      <4>1. field[s] \in Nat
        BY <1>0, SocketNumbers DEF FarmTypeOK
      <4> QED  BY <2>1, <4>1
    <3> QED  BY <2>3, <2>5, <3>1 DEF SocketsInOrder
  <2>10. ASSUME NEW u \in Threads, NEW v \in Threads,
                run'[u].pc = "assign", run'[v].pc = "assign",
                run'[u].srv = run'[v].srv
         PROVE  u = v
    <3>1. r.srv = s
      OBVIOUS
    <3> HIDE DEF r
    <3> QED  BY <2>4, <2>7, <2>10, <3>1 DEF SocketsInOrder
  <2>11. SocketsInOrder'
    BY <2>8, <2>9, <2>10 DEF SocketsInOrder
  <2>12. StopReaches'
    <3> SUFFICES ASSUME NEW v \in Servers, bound'[v] # NoSocket
                 PROVE  \/ bound'[v] = field'[v]
                        \/ \E u \in Threads : /\ run'[u].pc = "assign"
                                              /\ run'[u].srv = v
                                              /\ run'[u].sock = bound'[v]
      BY DEF StopReaches
    <3>1. CASE v = s
      <4>1. r.pc = "assign" /\ r.srv = s /\ r.sock = n
        OBVIOUS
      <4> HIDE DEF r
      <4> QED  BY <2>4, <2>5, <3>1, <4>1
    <3>2. CASE v # s
      BY <1>0, <2>3, <2>4, <2>5, <3>2 DEF StopReaches
    <3> QED  BY <3>1, <3>2
  <2> QED  BY <2>6, <2>11, <2>12
<1>2. CASE run' = [run EXCEPT ![t] = Idle] /\ UNCHANGED <<bound, made>>
  <2>1. UNCHANGED <<field, bound, made>> /\ Idle \in Run /\ Moves(run[t], Idle)
    BY <1>0, <1>2, RunRecords DEF Bind, Moves
  <2>2. run' \in [Threads -> Run] /\ SocketsInOrder' /\ StopReaches'
    BY <1>2, <2>1, OneMoves
  <2> QED  BY <1>2, <2>2 DEF Bind, FarmTypeOK
<1> QED  BY <1>1, <1>2 DEF Bind

LEMMA AssignStep ==
  ASSUME FarmTypeOK, SocketsInOrder, StopReaches, NEW t \in Threads,
         AssignField(t)
  PROVE  FarmTypeOK' /\ SocketsInOrder' /\ StopReaches'
<1> DEFINE s == run[t].srv
           n == run[t].sock
           r == [pc |-> "register", srv |-> s, sock |-> n]
<1>0. /\ run[t].pc = "assign" /\ s \in Servers /\ n \in Nat
      /\ n = bound[s] /\ n # NoSocket /\ n \in Sockets
  <2>1. run[t].pc = "assign" /\ s \in Servers /\ n \in Nat
    BY RunRecords DEF AssignField, FarmTypeOK
  <2>2. RunInOrder(run[t])
    BY DEF SocketsInOrder
  <2> QED  BY <2>1, <2>2 DEF RunInOrder, Sockets, NoSocket
<1>1. r \in Run /\ r.pc = "register" /\ r.srv = s /\ r.sock = n
  BY <1>0 DEF Run
<1>2. field' = [field EXCEPT ![s] = n] /\ run' = [run EXCEPT ![t] = r]
  BY DEF AssignField
<1>3. /\ bound' = bound /\ made' = made /\ queue' = queue /\ gw' = gw
      /\ front' = front /\ starts' = starts
  BY DEF AssignField
<1> HIDE DEF r
<1>4. run' \in [Threads -> Run] /\ run'[t] = r
        /\ \A u \in Threads : u # t => run'[u] = run[u]
  BY <1>1, <1>2, RunUpdate DEF FarmTypeOK
<1>5. field'[s] = n /\ \A v \in Servers : v # s => field'[v] = field[v]
  BY <1>0, <1>2 DEF FarmTypeOK
<1>6. FarmTypeOK'
  BY <1>0, <1>2, <1>3, <1>4 DEF FarmTypeOK
<1>7. \A u \in Threads : u # t /\ run[u].pc = "assign" => run[u].srv # s
  BY <1>0 DEF SocketsInOrder
<1>8. n = made[s] /\ n <= made[s]
  <2>1. bound[s] = made[s]
    BY <1>0 DEF SocketsInOrder
  <2> QED  BY <1>0, <2>1
<1>9. ASSUME NEW u \in Threads  PROVE RunInOrder(run[u])'
  <2>1. CASE u = t
    BY <1>0, <1>1, <1>3, <1>4, <1>5, <1>8, <2>1 DEF RunInOrder
  <2>2. CASE u # t
    <3>1. run'[u] = run[u] /\ RunInOrder(run[u])
      BY <1>4, <2>2 DEF SocketsInOrder
    <3>2. CASE run[u].pc = "idle"
      BY <3>1, <3>2 DEF RunInOrder
    <3>3. CASE run[u].pc # "idle" /\ run[u].srv = s
      BY <1>0, <1>3, <1>5, <1>7, <2>2, <3>1, <3>3 DEF RunInOrder
    <3>4. CASE run[u].pc # "idle" /\ run[u].srv # s
      <4>1. run[u].srv \in Servers
        BY <3>4, RunRecords DEF FarmTypeOK
      <4> QED  BY <1>3, <1>5, <3>1, <3>4, <4>1 DEF RunInOrder
    <3> QED  BY <3>2, <3>3, <3>4
  <2> QED  BY <2>1, <2>2
<1>10. SocketsInOrder'
  <2>1. \A v \in Servers : bound'[v] \in {NoSocket, made'[v]} /\ field'[v] <= made'[v]
    BY <1>3, <1>5, <1>8 DEF SocketsInOrder
  <2>2. \A u, v \in Threads : /\ run'[u].pc = "assign"
                              /\ run'[v].pc = "assign"
                              /\ run'[u].srv = run'[v].srv
                              => u = v
    BY <1>1, <1>4 DEF SocketsInOrder
  <2> QED  BY <1>9, <2>1, <2>2 DEF SocketsInOrder
<1>11. StopReaches'
  <2> SUFFICES ASSUME NEW v \in Servers, bound'[v] # NoSocket
               PROVE  \/ bound'[v] = field'[v]
                      \/ \E u \in Threads : /\ run'[u].pc = "assign"
                                            /\ run'[u].srv = v
                                            /\ run'[u].sock = bound'[v]
    BY DEF StopReaches
  <2>1. CASE v = s
    BY <1>0, <1>3, <1>5, <2>1
  <2>2. CASE v # s
    <3>1. \/ bound[v] = field[v]
          \/ \E u \in Threads : /\ run[u].pc = "assign"
                                /\ run[u].srv = v
                                /\ run[u].sock = bound[v]
      BY <1>3 DEF StopReaches
    <3> QED  BY <1>3, <1>4, <1>5, <2>2, <3>1
  <2> QED  BY <2>1, <2>2
<1> QED  BY <1>6, <1>10, <1>11

\* server.close() reaches no socket that a run is about to assign.
LEMMA CloseKeeps ==
  ASSUME FarmTypeOK, SocketsInOrder, StopReaches, NEW s \in Servers,
         CloseSocket(s), UNCHANGED <<run, field, made>>
  PROVE  /\ bound' \in [Servers -> Sockets \cup {NoSocket}]
         /\ SocketsInOrder'
         /\ StopReaches'
<1>0. run' = run /\ field' = field /\ made' = made
  OBVIOUS
<1>1. /\ bound' \in [Servers -> Sockets \cup {NoSocket}]
      /\ \A v \in Servers : bound'[v] = bound[v] \/ bound'[v] = NoSocket
      /\ \A v \in Servers : bound[v] # field[v] => bound'[v] = bound[v]
  BY DEF CloseSocket, FarmTypeOK
<1>2. ASSUME NEW t \in Threads  PROVE RunInOrder(run[t])'
  <2>1. RunInOrder(run[t])
    BY DEF SocketsInOrder
  <2>2. CASE run[t].pc = "assign"
    <3>1. run[t].srv \in Servers
      BY <2>2, RunRecords DEF FarmTypeOK
    <3>2. field[run[t].srv] < bound[run[t].srv]
      BY <2>1, <2>2 DEF RunInOrder
    <3>3. field[run[t].srv] \in Nat /\ bound[run[t].srv] \in Nat
      BY <3>1, SocketNumbers DEF FarmTypeOK
    <3>4. bound'[run[t].srv] = bound[run[t].srv]
      BY <1>1, <3>1, <3>2, <3>3
    <3> QED  BY <1>0, <2>1, <2>2, <3>4 DEF RunInOrder
  <2>3. CASE run[t].pc # "assign"
    BY <1>0, <2>1, <2>3 DEF RunInOrder
  <2> QED  BY <2>2, <2>3
<1>3. SocketsInOrder'
  BY <1>0, <1>1, <1>2 DEF SocketsInOrder
<1>4. StopReaches'
  BY <1>0, <1>1 DEF StopReaches
<1> QED  BY <1>1, <1>3, <1>4

-----------------------------------------------------------------------------
(* The invariant *)

LEMMA FarmStarts ==
  ASSUME FarmAssumption, FarmInit  PROVE FarmInv
<1>1. \A s \in Servers : bound[s] = 0 /\ field[s] = 0 /\ made[s] = 0
  BY DEF FarmInit, NoSocket
<1>2. \A t \in Threads : run[t] = Idle /\ run[t].pc = "idle"
  BY RunRecords DEF FarmInit
<1>3. FarmTypeOK
  <2>1. queue \in Seq(Servers)
    <3>1. queue \in [1..NumberOfServers -> Servers] /\ NumberOfServers \in Nat
      BY DEF FarmInit, FarmAssumption, Servers
    <3> QED  BY <3>1, SeqDef
  <2>4. gw \in Gateway
    <3>1. PICK pc \in {"down", "absent", "fresh", "ready"} : gw = AtRest(pc)
      BY Zenon DEF FarmInit
    <3> QED  BY <3>1, GatewayRecords, Zenon
  <2>2. front \in Web \cup Console /\ starts \in 0..MaxStarts
    BY FrontRecords DEF FarmInit, FarmAssumption
  <2>3. 0 \in Sockets \cup {NoSocket}
    BY DEF NoSocket
  <2> QED  BY <2>1, <2>2, <2>3, <2>4, RunRecords DEF FarmTypeOK, FarmInit, NoSocket
<1>4. SocketsInOrder
  BY <1>1, <1>2 DEF SocketsInOrder, RunInOrder
<1>5. StopReaches
  BY <1>1 DEF StopReaches, NoSocket
<1> QED  BY <1>3, <1>4, <1>5 DEF FarmInv

\* A step of a run that leaves the sockets alone.
LEMMA MovesStep ==
  ASSUME FarmTypeOK, SocketsInOrder, StopReaches, NEW t \in Threads,
         \/ TakeRun(t) \/ Register(t) \/ Registered(t) \/ EnterAccept(t)
         \/ AcceptClient(t) \/ AcceptInit(t) \/ AcceptFails(t)
  PROVE  FarmTypeOK' /\ SocketsInOrder' /\ StopReaches'
<1>0. run[t] \in Run
  BY DEF FarmTypeOK
<1>1. ASSUME run[t].pc # "idle"
      PROVE  /\ run[t].srv \in Servers
             /\ run[t].sock \in Nat
             /\ run[t].sock <= made[run[t].srv]
             /\ 0 <= made[run[t].srv]
             /\ field[run[t].srv] \in Nat
             /\ field[run[t].srv] <= made[run[t].srv]
  <2>1. run[t].srv \in Servers /\ run[t].sock \in Nat
    BY <1>0, <1>1, RunRecords
  <2>2. made[run[t].srv] \in Nat /\ field[run[t].srv] \in Nat
    BY <2>1, SocketNumbers DEF FarmTypeOK
  <2> QED  BY <1>1, <2>1, <2>2 DEF SocketsInOrder, RunInOrder
<1>2. ASSUME run' = [run EXCEPT ![t] = Looping(run[t].srv)],
             run[t].pc \in {"register", "registering", "accept"},
             UNCHANGED <<field, bound, made>>
      PROVE  run' \in [Threads -> Run] /\ SocketsInOrder' /\ StopReaches'
  <2>1. Looping(run[t].srv) \in Run /\ Moves(run[t], Looping(run[t].srv))
    BY <1>1, <1>2, RunRecords DEF Moves
  <2> QED  BY <1>2, <2>1, OneMoves
<1>3. ASSUME run' = [run EXCEPT ![t] = Idle], run[t].pc # "assign",
             UNCHANGED <<field, bound, made>>
      PROVE  run' \in [Threads -> Run] /\ SocketsInOrder' /\ StopReaches'
  <2>1. Idle \in Run /\ Moves(run[t], Idle)
    BY <1>3, RunRecords DEF Moves
  <2> QED  BY <1>3, <2>1, OneMoves
<1>4. CASE TakeRun(t)
  <2> DEFINE r == [pc |-> "bind", srv |-> Head(queue), sock |-> NoSocket]
  <2>1. Head(queue) \in Servers /\ Tail(queue) \in Seq(Servers)
    BY <1>4 DEF TakeRun, FarmTypeOK
  <2>2. r \in Run /\ Moves(run[t], r)
    BY <1>4, <2>1 DEF Run, TakeRun, Moves, NoSocket
  <2>3. run' = [run EXCEPT ![t] = r] /\ UNCHANGED <<field, bound, made>>
    BY <1>4 DEF TakeRun
  <2> HIDE DEF r
  <2>4. run' \in [Threads -> Run] /\ SocketsInOrder' /\ StopReaches'
    BY <2>2, <2>3, OneMoves
  <2> QED  BY <1>4, <2>1, <2>4 DEF TakeRun, FarmTypeOK
<1>5. CASE Register(t)
  <2> DEFINE r == [pc |-> "registering", srv |-> run[t].srv,
                   sock |-> run[t].sock]
  <2>1. run[t].pc = "register" /\ UNCHANGED <<field, bound, made>>
          /\ UNCHANGED <<queue, front, starts>>
    BY <1>5 DEF Register
  <2>2. r \in Run /\ Moves(run[t], r)
    BY <1>1, <2>1, SocketNumbers DEF Run, Moves
  <2>3. \/ run' = [run EXCEPT ![t] = Idle]
        \/ run' = [run EXCEPT ![t] = Looping(run[t].srv)]
        \/ run' = [run EXCEPT ![t] = r]
    BY <1>5 DEF Register
  <2>4. gw' \in Gateway
    BY <1>5, GatewayRecords DEF Register, FarmTypeOK
  <2> HIDE DEF r
  <2>5. run' \in [Threads -> Run] /\ SocketsInOrder' /\ StopReaches'
    BY <1>2, <1>3, <2>1, <2>2, <2>3, OneMoves
  <2> QED  BY <2>1, <2>4, <2>5 DEF FarmTypeOK
<1>6. CASE Registered(t)
  <2>1. run' \in [Threads -> Run] /\ SocketsInOrder' /\ StopReaches'
    BY <1>2, <1>6 DEF Registered
  <2> QED  BY <1>6, <2>1 DEF Registered, FarmTypeOK
<1>7. CASE EnterAccept(t)
  <2> DEFINE r == [pc |-> "accept", srv |-> run[t].srv,
                   sock |-> field[run[t].srv]]
  <2>1. r \in Run /\ Moves(run[t], r)
    BY <1>1, <1>7, SocketNumbers DEF Run, Moves, EnterAccept
  <2>2. run' = [run EXCEPT ![t] = r] /\ UNCHANGED <<field, bound, made>>
    BY <1>7 DEF EnterAccept
  <2> HIDE DEF r
  <2>3. run' \in [Threads -> Run] /\ SocketsInOrder' /\ StopReaches'
    BY <2>1, <2>2, OneMoves
  <2> QED  BY <1>7, <2>3 DEF EnterAccept, FarmTypeOK
<1>8. CASE AcceptClient(t)
  <2>1. run' \in [Threads -> Run] /\ SocketsInOrder' /\ StopReaches'
    BY <1>2, <1>8 DEF AcceptClient, Accepting
  <2> QED  BY <1>8, <2>1 DEF AcceptClient, FarmTypeOK
<1>9. CASE AcceptInit(t)
  <2>1. run' \in [Threads -> Run] /\ SocketsInOrder' /\ StopReaches'
    BY <1>2, <1>9 DEF AcceptInit, Accepting
  <2>2. gw' \in Gateway
    BY <1>9, GatewayRecords DEF AcceptInit, FarmTypeOK
  <2> QED  BY <1>9, <2>1, <2>2 DEF AcceptInit, FarmTypeOK
<1>10. CASE AcceptFails(t)
  <2>1. run' \in [Threads -> Run] /\ SocketsInOrder' /\ StopReaches'
    BY <1>3, <1>10 DEF AcceptFails
  <2> QED  BY <1>10, <2>1 DEF AcceptFails, FarmTypeOK
<1> QED  BY <1>4, <1>5, <1>6, <1>7, <1>8, <1>9, <1>10

\* The gateway and the operator, where they touch neither runs nor sockets.
LEMMA OthersStep ==
  ASSUME FarmTypeOK, SocketsInOrder, StopReaches, FarmAssumption,
         \/ PoolStep \/ BrowserVisits \/ InitConnect \/ InitReset \/ InitReturns
         \/ GatewayStarts \/ StatusLine \/ ConsoleEnds \/ BeginClose
         \/ \E s \in Servers : Start(s)
  PROVE  FarmTypeOK' /\ SocketsInOrder' /\ StopReaches'
<1>1. UNCHANGED <<run, field, bound, made>>
  BY DEF PoolStep, BeginTransfer, EndTransfer, AnswerInit, Holds, BrowserVisits,
     InitConnect, InitReset, InitReturns, GatewayStarts,
         StatusLine, ConsoleEnds, BeginClose, Start
<1>2. SocketsInOrder'
  BY <1>1 DEF SocketsInOrder, RunInOrder
<1>3. StopReaches'
  BY <1>1 DEF StopReaches
<1>8. (queue' = queue /\ starts' = starts) \/ \E s \in Servers : Start(s)
  BY Zenon
     DEF PoolStep, BeginTransfer, EndTransfer, AnswerInit, Holds, BrowserVisits,
         InitConnect, InitReset, InitReturns, GatewayStarts, StatusLine,
         ConsoleEnds, BeginClose
<1>4. queue' \in Seq(Servers)
  BY <1>8 DEF Start, FarmTypeOK
<1>5. starts' \in 0..MaxStarts
  BY <1>8 DEF Start, FarmTypeOK, FarmAssumption
<1>6. gw' \in Gateway
  <2>1. CASE InitConnect
    <3>1. PICK s \in gw.left :
            gw' = IF bound[s] = NoSocket THEN Asking(gw.by, gw.left \ {s})
                  ELSE [Asking(gw.by, gw.left \ {s}) EXCEPT !.at = s,
                                                            !.sock = bound[s]]
      BY <2>1 DEF InitConnect
    <3>2. gw \in Gateway /\ s \in Servers /\ gw.left \ {s} \in SUBSET Servers
      BY DEF FarmTypeOK, Gateway
    <3>3. bound[s] \in Nat
      BY <3>2, SocketNumbers DEF FarmTypeOK
    <3>4. Asking(gw.by, gw.left \ {s}) \in Gateway
      BY <3>2, GatewayRecords
    <3>5. [Asking(gw.by, gw.left \ {s}) EXCEPT !.at = s, !.sock = bound[s]] \in Gateway
      BY <3>2, <3>3, GatewayRecords
    <3> QED  BY <3>1, <3>4, <3>5
  <2>2. CASE BrowserVisits \/ InitReset \/ InitReturns \/ GatewayStarts
    <3>1. gw \in Gateway /\ gw.left \in SUBSET Servers
      BY DEF FarmTypeOK, Gateway
    <3> QED
      BY <2>2, <3>1, GatewayRecords
         DEF BrowserVisits, InitReset, InitReturns, GatewayStarts
  <2>3. CASE StatusLine \/ ConsoleEnds \/ BeginClose \/ \E s \in Servers : Start(s)
    BY <2>3, GatewayRecords
       DEF StatusLine, ConsoleEnds, BeginClose, Start, FarmTypeOK
  <2>4. CASE PoolStep
    BY <2>4, PoolStepGateway
  <2> QED  BY <2>1, <2>2, <2>3, <2>4
<1>7. front' \in Web \cup Console
  <2>1. 1 \in Servers
    BY DEF FarmAssumption, Servers
  <2> QED
    BY <2>1, FrontRecords
       DEF PoolStep, BeginTransfer, EndTransfer, AnswerInit, Holds, BrowserVisits,
       InitConnect, InitReset, InitReturns, GatewayStarts,
           StatusLine, ConsoleEnds, BeginClose, Start, Commanded, FarmTypeOK
<1> QED  BY <1>1, <1>2, <1>3, <1>4, <1>5, <1>6, <1>7 DEF FarmTypeOK

LEMMA GatewayStopsStep ==
  ASSUME FarmTypeOK, SocketsInOrder, StopReaches, GatewayStops
  PROVE  FarmTypeOK' /\ SocketsInOrder' /\ StopReaches'
<1>1. UNCHANGED <<field, bound, made>> /\ UNCHANGED <<queue, front, starts>>
        /\ gw' \in Gateway
  BY GatewayRecords DEF GatewayStops
<1>2. \A t \in Threads :
        run'[t] = IF run[t].pc = "registering" THEN Idle ELSE run[t]
  BY DEF GatewayStops
<1>3. run' \in [Threads -> Run]
  BY RunRecords DEF GatewayStops, FarmTypeOK
<1>4. \A t \in Threads : Moves(run[t], run'[t])
  BY <1>2, RunRecords DEF Moves
<1>5. SocketsInOrder' /\ StopReaches'
  BY <1>1, <1>3, <1>4, RunsMove
<1> QED  BY <1>1, <1>3, <1>5 DEF FarmTypeOK

LEMMA CloseStep ==
  ASSUME FarmTypeOK, SocketsInOrder, StopReaches, FarmAssumption,
         CloseNext \/ \E s \in Servers : Stop(s)
  PROVE  FarmTypeOK' /\ SocketsInOrder' /\ StopReaches'
<1>1. CASE CloseNext
  <2>1. UNCHANGED <<run, field, made>> /\ UNCHANGED <<queue, gw, starts>>
    BY <1>1 DEF CloseNext
  <2>2. front.at \in Servers
    BY <1>1, FrontRecords DEF CloseNext, FarmTypeOK
  <2>3. front' \in Web \cup Console
    <3>1. CASE front' = [pc |-> "closing", at |-> front.at + 1]
                /\ front.at # NumberOfServers
      <4>1. front.at + 1 \in Servers
        BY <2>2, <3>1 DEF Servers, FarmAssumption
      <4> QED  BY <3>1, <4>1, FrontRecords
    <3>2. CASE front' \in {Front("closed"), Front("aborted")}
      BY <3>2, FrontRecords
    <3> QED  BY <1>1, <3>1, <3>2 DEF CloseNext
  <2>4. CASE CloseSocket(front.at)
    BY <2>1, <2>2, <2>3, <2>4, CloseKeeps DEF FarmTypeOK
  <2>5. CASE UNCHANGED bound
    <3>1. SocketsInOrder' /\ StopReaches'
      BY <2>1, <2>5 DEF SocketsInOrder, RunInOrder, StopReaches
    <3> QED  BY <2>1, <2>3, <2>5, <3>1 DEF FarmTypeOK
  <2> QED  BY <1>1, <2>4, <2>5 DEF CloseNext
<1>2. ASSUME NEW s \in Servers, Stop(s)
      PROVE  FarmTypeOK' /\ SocketsInOrder' /\ StopReaches'
  <2>1. /\ CloseSocket(s) /\ UNCHANGED <<run, field, made>>
        /\ UNCHANGED <<queue, gw, starts>>
    BY <1>2 DEF Stop
  <2>2. front' \in Web \cup Console
    BY <1>2, FrontRecords DEF Stop, Commanded, FarmTypeOK
  <2> QED  BY <2>1, <2>2, CloseKeeps DEF FarmTypeOK
<1> QED  BY <1>1, <1>2

LEMMA FarmStep ==
  ASSUME FarmAssumption, FarmInv, [FarmNext]_farmVars
  PROVE  FarmInv'
<1>0. FarmTypeOK /\ SocketsInOrder /\ StopReaches
  BY DEF FarmInv
<1>1. ASSUME NEW t \in Threads, RunStep(t) \/ AcceptClient(t) \/ AcceptInit(t)
      PROVE  FarmTypeOK' /\ SocketsInOrder' /\ StopReaches'
  BY <1>0, <1>1, BindStep, AssignStep, MovesStep DEF RunStep
<1>2. CASE UNCHANGED farmVars
  <2>1. FarmTypeOK'
    BY <1>0, <1>2 DEF farmVars, FarmTypeOK
  <2>2. SocketsInOrder'
    BY <1>0, <1>2 DEF farmVars, SocketsInOrder, RunInOrder
  <2>3. StopReaches'
    BY <1>0, <1>2 DEF farmVars, StopReaches
  <2> QED  BY <2>1, <2>2, <2>3 DEF FarmInv
<1> QED
  BY <1>0, <1>1, <1>2, OthersStep, GatewayStopsStep, CloseStep
     DEF FarmNext, FarmInv

\* However starts, stops and registrations interleave, for any number of servers
\* and of starts, only the newest socket of a server is open, one run assigns
\* it, and stop() reaches it (FileServer.java:49-78).
THEOREM FarmInvariance == FarmSpec => []FarmInv
<1>1. FarmInit => FarmInv
  BY FarmStarts, FarmAssumption
<1>2. FarmInv /\ [FarmNext]_farmVars => FarmInv'
  BY FarmStep, FarmAssumption
<1> QED  BY <1>1, <1>2, PTL DEF FarmSpec

\* No server is left open where stop() does not reach it.
THEOREM StopReachesCorrect == FarmSpec => []StopReaches
<1>1. FarmInv => StopReaches
  BY DEF FarmInv
<1> QED  BY <1>1, FarmInvariance, PTL

-----------------------------------------------------------------------------
(* An open socket keeps its run *)

\* The thread that serves s goes on serving it, unless the gateway is down.
LEMMA ServesOn ==
  ASSUME FarmInv, [FarmNext]_farmVars, gw.pc # "down", gw'.pc # "down",
         NEW s \in Servers, bound[s] # NoSocket, bound'[s] = bound[s],
         NEW t \in Threads, Serves(t, s)
  PROVE  Served(s)'
<1>0. FarmTypeOK /\ SocketsInOrder /\ StopReaches
  BY DEF FarmInv
<1>1. run[t].srv = s /\ run[t].pc \in {"assign", "register", "registering",
                                       "loop", "accept"}
  BY DEF Serves
<1>2. CASE run'[t] = run[t]
  BY <1>2 DEF Serves, Served
<1>3. ASSUME NEW r \in Run, run' = [run EXCEPT ![t] = r], r.srv = s,
             \/ /\ r.pc \in {"register", "registering"}
                /\ r.sock = run[t].sock
                /\ run[t].pc \in {"assign", "register"}
             \/ r.pc = "loop"
      PROVE  Served(s)'
  <2>1. run'[t] = r
    BY <1>0, <1>3, RunUpdate DEF FarmTypeOK
  <2> QED  BY <1>3, <2>1 DEF Serves, Served
<1>4. CASE AssignField(t) \/ Register(t) \/ Registered(t)
  <2> DEFINE q(pc) == [pc |-> pc, srv |-> run[t].srv, sock |-> run[t].sock]
  <2>1. \/ run' = [run EXCEPT ![t] = q("register")] /\ run[t].pc = "assign"
        \/ run' = [run EXCEPT ![t] = q("registering")] /\ run[t].pc = "register"
        \/ run' = [run EXCEPT ![t] = Looping(s)]
    BY <1>1, <1>4 DEF AssignField, Register, Registered
  <2>2. \A pc \in {"register", "registering"} :
          q(pc) \in Run /\ q(pc).pc = pc /\ q(pc).srv = s /\ q(pc).sock = run[t].sock
    BY <1>0, <1>1, RunRecords, SocketNumbers DEF Run, FarmTypeOK
  <2> HIDE DEF q
  <2> QED  BY <1>3, <2>1, <2>2, RunRecords
<1>5. CASE AcceptClient(t) \/ AcceptInit(t)
  BY <1>1, <1>3, <1>5, RunRecords DEF AcceptClient, AcceptInit
<1>6. CASE EnterAccept(t)
  <2> DEFINE r == [pc |-> "accept", srv |-> s, sock |-> field[s]]
  <2>1. r \in Run /\ r.pc = "accept" /\ r.srv = s /\ r.sock = field[s]
    BY <1>0 DEF Run, FarmTypeOK
  <2>2. run' = [run EXCEPT ![t] = r]
    BY <1>1, <1>6 DEF EnterAccept
  <2> HIDE DEF r
  <2>3. run'[t] = r /\ \A u \in Threads : u # t => run'[u] = run[u]
    BY <1>0, <2>1, <2>2, RunUpdate DEF FarmTypeOK
  <2>4. CASE field[s] = bound[s]
    BY <2>1, <2>3, <2>4 DEF Serves, Served
  <2>5. CASE field[s] # bound[s]
    <3>1. PICK u \in Threads : /\ run[u].pc = "assign"
                               /\ run[u].srv = s
                               /\ run[u].sock = bound[s]
      BY <1>0, <2>5 DEF StopReaches
    <3>2. u # t
      BY <1>6, <3>1 DEF EnterAccept
    <3> QED  BY <2>3, <3>1, <3>2 DEF Serves, Served
  <2> QED  BY <2>4, <2>5
<1>7. CASE TakeRun(t) \/ Bind(t) \/ AcceptFails(t)
  BY <1>1, <1>7 DEF TakeRun, Bind, AcceptFails, Serves
<1>8. ASSUME NEW u \in Threads, u # t,
             RunStep(u) \/ AcceptClient(u) \/ AcceptInit(u)
      PROVE  run'[t] = run[t]
  BY <1>0, <1>8 DEF FarmTypeOK, RunStep, TakeRun, Bind, AssignField, Register,
     Registered,
              EnterAccept, AcceptFails, AcceptClient, AcceptInit
<1>9. CASE GatewayStops
  BY <1>9 DEF GatewayStops, AtRest
<1>10. CASE \/ PoolStep \/ BrowserVisits \/ InitConnect \/ InitReset \/ InitReturns
            \/ GatewayStarts \/ StatusLine \/ ConsoleEnds \/ BeginClose
            \/ CloseNext \/ (\E v \in Servers : Stop(v) \/ Start(v))
            \/ UNCHANGED farmVars
  <2>1. run' = run
    BY <1>10 DEF PoolStep, BeginTransfer, EndTransfer, AnswerInit, Holds,
       BrowserVisits, InitConnect, InitReset, InitReturns,
         GatewayStarts, StatusLine, ConsoleEnds, BeginClose, CloseNext, Stop,
         Start, farmVars
  <2> QED  BY <1>2, <2>1
<1> QED
  BY <1>2, <1>4, <1>5, <1>6, <1>7, <1>8, <1>9, <1>10 DEF FarmNext, RunStep

\* For any number of servers and starts, only a gateway that refuses the
\* registration leaves an open socket with nobody to accept on it
\* (FileServer.java:71-85).
THEOREM KeepsItsRunCorrect == FarmSpec => KeepsItsRun
<1>1. FarmInv /\ [FarmNext]_farmVars =>
        [\A s \in Servers :
           /\ Served(s)
           /\ bound[s] # NoSocket
           /\ bound'[s] = bound[s]
           /\ ~Served(s)'
           => gw.pc = "down" \/ gw'.pc = "down"]_farmVars
  BY ServesOn DEF Served
<1> QED  BY <1>1, FarmInvariance, PTL DEF FarmSpec, KeepsItsRun

-----------------------------------------------------------------------------
(* init() asks the server that called it *)

\* A run that registers knows a socket that is not newer than the field's.
RegistersInOrder(r) ==
  r.pc \in {"register", "registering"} =>
    r.sock # NoSocket /\ r.sock <= field[r.srv]

\* Another run serves the server of thread c and will accept.
Relieved(c) ==
  \E t \in Threads \ {c} :
    /\ run[t].pc \in {"loop", "accept"}
    /\ Serves(t, run[c].srv)

\* init(), in the registration made by thread c, is still to ask its server,
\* waits unaccepted at the socket c bound, or need not: the socket is closed, or
\* another run accepts.
CallerWaits(c) ==
  /\ run[c].pc = "registering"
  /\ \/ run[c].srv \in gw.left
     \/ gw.at = run[c].srv /\ gw.sock = run[c].sock /\ ~gw.taken
     \/ bound[run[c].srv] # run[c].sock
     \/ Relieved(c)

CallerInv ==
  /\ \A t \in Threads : RegistersInOrder(run[t])
  /\ gw.pc # "init" => gw.at = 0 /\ ~gw.taken
  /\ gw.pc = "init" /\ gw.by # 0 => CallerWaits(gw.by)

\* What a step does to the sockets: the field only grows, and a port is bound,
\* closed or left as it is.
LEMMA SocketSteps ==
  ASSUME FarmInv, [FarmNext]_farmVars, NEW s \in Servers
  PROVE  /\ field[s] <= field'[s]
         /\ bound'[s] \in {bound[s], NoSocket, made[s] + 1}
<1>0. FarmTypeOK /\ SocketsInOrder /\ StopReaches
  BY DEF FarmInv
<1>1. field[s] \in Nat /\ bound[s] \in Nat /\ made[s] \in Nat
  BY <1>0, SocketNumbers DEF FarmTypeOK
<1>2. field[s] <= field[s]
  BY <1>1
<1>3. ASSUME NEW t \in Threads, Bind(t)  PROVE  /\ field[s] <= field'[s]
             /\ bound'[s] \in {bound[s], NoSocket, made[s] + 1}
  BY <1>0, <1>2, <1>3 DEF Bind, FarmTypeOK
<1>4. ASSUME NEW t \in Threads, AssignField(t)  PROVE  /\ field[s] <= field'[s]
             /\ bound'[s] \in {bound[s], NoSocket, made[s] + 1}
  <2>1. RunInOrder(run[t]) /\ run[t].pc = "assign" /\ bound' = bound
    BY <1>0, <1>4 DEF SocketsInOrder, AssignField
  <2>2. field' = [field EXCEPT ![run[t].srv] = run[t].sock]
    BY <1>4 DEF AssignField
  <2>3. CASE run[t].srv = s
    <3>1. field'[s] = run[t].sock /\ run[t].sock = bound[s] /\ field[s] < bound[s]
      BY <1>0, <2>1, <2>2, <2>3 DEF RunInOrder, FarmTypeOK
    <3> QED  BY <1>1, <2>1, <3>1
  <2>4. CASE run[t].srv # s
    <3>1. field'[s] = field[s]
      BY <1>0, <2>2, <2>4 DEF FarmTypeOK
    <3> QED  BY <1>2, <2>1, <3>1
  <2> QED  BY <2>3, <2>4
<1>5. ASSUME NEW v \in Servers, CloseSocket(v),
field' = field  PROVE  /\ field[s] <= field'[s]
             /\ bound'[s] \in {bound[s], NoSocket, made[s] + 1}
  BY <1>0, <1>2, <1>5 DEF CloseSocket, FarmTypeOK
<1>6. CASE CloseNext
  <2>1. front.at \in Servers /\ field' = field
    BY <1>0, <1>6, FrontRecords DEF CloseNext, FarmTypeOK
  <2> QED  BY <1>2, <1>5, <1>6, <2>1 DEF CloseNext
<1>7. ASSUME NEW v \in Servers, Stop(v)  PROVE  /\ field[s] <= field'[s]
             /\ bound'[s] \in {bound[s], NoSocket, made[s] + 1}
  BY <1>5, <1>7 DEF Stop
<1>8. ASSUME field' = field, bound' = bound  PROVE  /\ field[s] <= field'[s]
             /\ bound'[s] \in {bound[s], NoSocket, made[s] + 1}
  BY <1>2, <1>8
<1>9. ASSUME NEW t \in Threads,
             \/ TakeRun(t) \/ Register(t) \/ Registered(t) \/ EnterAccept(t)
             \/ AcceptClient(t) \/ AcceptInit(t) \/ AcceptFails(t)
      PROVE  field' = field /\ bound' = bound
  BY <1>9 DEF TakeRun, Register, Registered, EnterAccept, AcceptClient,
              AcceptInit, AcceptFails
<1>10. ASSUME \/ PoolStep \/ BrowserVisits \/ InitConnect \/ InitReset \/ InitReturns
              \/ GatewayStops \/ GatewayStarts \/ StatusLine \/ ConsoleEnds
              \/ BeginClose \/ (\E v \in Servers : Start(v))
              \/ UNCHANGED farmVars
       PROVE  field' = field /\ bound' = bound
  BY <1>10 DEF PoolStep, BeginTransfer, EndTransfer, AnswerInit, Holds, BrowserVisits,
     InitConnect, InitReset, InitReturns, GatewayStops,
               GatewayStarts, StatusLine, ConsoleEnds, BeginClose, Start, farmVars
<1> QED
  BY <1>3, <1>4, <1>6, <1>7, <1>8, <1>9, <1>10 DEF FarmNext, RunStep

\* A thread is disturbed only by its own steps, and by a gateway that stops
\* while the thread registers.
LEMMA OthersKeep ==
  ASSUME FarmInv, [FarmNext]_farmVars, NEW t \in Threads
  PROVE  \/ run'[t] = run[t]
         \/ RunStep(t) \/ AcceptClient(t) \/ AcceptInit(t)
         \/ GatewayStops /\ run[t].pc = "registering"
<1>0. FarmTypeOK
  BY DEF FarmInv
<1>1. ASSUME NEW u \in Threads, u # t,
             RunStep(u) \/ AcceptClient(u) \/ AcceptInit(u)
      PROVE  run'[t] = run[t]
  BY <1>0, <1>1 DEF FarmTypeOK, RunStep, TakeRun, Bind, AssignField, Register,
     Registered, EnterAccept, AcceptFails, AcceptClient, AcceptInit
<1>2. CASE GatewayStops
  BY <1>2 DEF GatewayStops
<1>3. CASE \/ PoolStep \/ BrowserVisits \/ InitConnect \/ InitReset \/ InitReturns
           \/ GatewayStarts \/ StatusLine \/ ConsoleEnds \/ BeginClose
           \/ CloseNext \/ (\E v \in Servers : Stop(v) \/ Start(v))
           \/ UNCHANGED farmVars
  BY <1>3 DEF PoolStep, BeginTransfer, EndTransfer, AnswerInit, Holds, BrowserVisits,
     InitConnect, InitReset, InitReturns,
     GatewayStarts, StatusLine, ConsoleEnds, BeginClose, CloseNext, Stop,
     Start, farmVars
<1> QED  BY <1>1, <1>2, <1>3 DEF FarmNext

\* A run that registers keeps to the order of the sockets.
LEMMA RegistersStep ==
  ASSUME FarmInv, [FarmNext]_farmVars, NEW t \in Threads,
         RegistersInOrder(run[t])
  PROVE  RegistersInOrder(run[t])'
<1>0. FarmTypeOK /\ SocketsInOrder /\ run[t] \in Run
  BY DEF FarmInv, FarmTypeOK
<1>1. ASSUME run[t].pc \in {"register", "registering"},
             run'[t].srv = run[t].srv, run'[t].sock = run[t].sock
      PROVE  RegistersInOrder(run[t])'
  <2>1. run[t].srv \in Servers /\ run[t].sock \in Nat
    BY <1>0, <1>1, RunRecords
  <2>2. field[run[t].srv] <= field'[run[t].srv]
    BY <2>1, SocketSteps
  <2>3. field[run[t].srv] \in Nat /\ field'[run[t].srv] \in Nat
    <3>1. FarmTypeOK'
      BY FarmStep, FarmAssumption DEF FarmInv
    <3> QED  BY <1>0, <2>1, <3>1, SocketNumbers DEF FarmTypeOK
  <2> QED  BY <1>1, <2>1, <2>2, <2>3 DEF RegistersInOrder
<1>2. CASE run'[t] = run[t]
  BY <1>1, <1>2 DEF RegistersInOrder
<1>3. CASE AssignField(t)
  <2>1. run[t].pc = "assign" /\ run[t].srv \in Servers /\ run[t].sock \in Nat
    BY <1>0, <1>3, RunRecords DEF AssignField
  <2>2. RunInOrder(run[t])
    BY <1>0 DEF SocketsInOrder
  <2>3. run[t].sock # NoSocket
    BY <2>1, <2>2 DEF RunInOrder
  <2>4. field'[run[t].srv] = run[t].sock
    BY <1>0, <1>3, <2>1 DEF AssignField, FarmTypeOK
  <2>5. run'[t].srv = run[t].srv /\ run'[t].sock = run[t].sock
    BY <1>0, <1>3 DEF AssignField, FarmTypeOK
  <2>6. run[t].sock <= run[t].sock
    BY <2>1
  <2> QED  BY <2>3, <2>4, <2>5, <2>6 DEF RegistersInOrder
<1>4. CASE Register(t)
  <2>1. CASE run' = [run EXCEPT ![t] =
                      [pc |-> "registering", srv |-> @.srv, sock |-> @.sock]]
    BY <1>0, <1>1, <1>4, <2>1 DEF Register, FarmTypeOK
  <2>2. CASE run' = [run EXCEPT ![t] = Idle]
    BY <1>0, <2>2 DEF FarmTypeOK, RegistersInOrder, Idle
  <2>3. CASE run' = [run EXCEPT ![t] = Looping(run[t].srv)]
    BY <1>0, <2>3 DEF FarmTypeOK, RegistersInOrder, Looping
  <2> QED  BY <1>4, <2>1, <2>2, <2>3 DEF Register
<1>5. CASE \/ TakeRun(t) \/ Bind(t) \/ Registered(t) \/ EnterAccept(t)
           \/ AcceptFails(t) \/ AcceptClient(t) \/ AcceptInit(t)
  <2>1. run'[t].pc \notin {"register", "registering"}
    <3>1. CASE AcceptInit(t)
      BY <1>0, <3>1 DEF AcceptInit, Looping, FarmTypeOK
    <3> QED
      BY <1>0, <1>5, <3>1 DEF TakeRun, Bind, Registered, EnterAccept, AcceptFails,
         AcceptClient, Idle, Looping, FarmTypeOK
  <2> QED  BY <2>1 DEF RegistersInOrder
<1>6. CASE GatewayStops /\ run[t].pc = "registering"
  <2>1. run'[t] = Idle
    BY <1>6 DEF GatewayStops
  <2> QED  BY <2>1, RunRecords DEF RegistersInOrder
<1> QED
  BY <1>2, <1>3, <1>4, <1>5, <1>6, OthersKeep DEF RunStep

\* A run that accepts for the caller's server goes on doing so while the
\* caller's socket is open.
LEMMA ReliefStays ==
  ASSUME FarmInv, [FarmNext]_farmVars, NEW c \in Threads,
         run[c].pc = "registering", RegistersInOrder(run[c]),
         run'[c] = run[c], Relieved(c),
         bound[run[c].srv] = run[c].sock, bound'[run[c].srv] = run[c].sock
  PROVE  Relieved(c)'
<1> DEFINE s == run[c].srv
<1>0. FarmTypeOK /\ SocketsInOrder /\ s \in Servers /\ run[c].sock \in Nat
  BY RunRecords DEF FarmInv, FarmTypeOK
<1>1. field[s] = bound[s]
  <2>1. field[s] \in Nat /\ bound[s] \in Nat /\ made[s] \in Nat
    BY <1>0, SocketNumbers DEF FarmTypeOK
  <2>2. bound[s] # NoSocket /\ bound[s] <= field[s]
    BY DEF RegistersInOrder
  <2>3. bound[s] = made[s] /\ field[s] <= made[s]
    BY <1>0, <2>2 DEF SocketsInOrder
  <2> QED  BY <2>1, <2>2, <2>3
<1>2. PICK t \in Threads \ {c} :
             /\ run[t].pc \in {"loop", "accept"}
             /\ Serves(t, s)
  BY DEF Relieved
<1>3. run[t].srv = s
  BY <1>2 DEF Serves
<1>4. SUFFICES /\ run'[t].srv = s
               /\ \/ run'[t].pc = "loop"
                  \/ run'[t].pc = "accept" /\ run'[t].sock = bound[s]
  BY <1>2 DEF Relieved, Serves
<1>5. CASE run'[t] = run[t]
  BY <1>2, <1>5 DEF Serves
<1>6. CASE EnterAccept(t)
  BY <1>0, <1>1, <1>3, <1>6 DEF EnterAccept, FarmTypeOK
<1>7. CASE AcceptClient(t) \/ AcceptInit(t)
  <2>1. run' = [run EXCEPT ![t] = Looping(s)]
    BY <1>3, <1>7 DEF AcceptClient, AcceptInit
  <2>2. run'[t] = Looping(s)
    BY <1>0, <1>2, <2>1 DEF FarmTypeOK
  <2> QED  BY <1>0, <2>2, RunRecords
<1>8. CASE AcceptFails(t)
  BY <1>2, <1>8 DEF AcceptFails, Serves
<1>9. CASE \/ TakeRun(t) \/ Bind(t) \/ AssignField(t) \/ Register(t)
           \/ Registered(t)
  BY <1>2, <1>9 DEF TakeRun, Bind, AssignField, Register, Registered
<1>10. CASE GatewayStops /\ run[t].pc = "registering"
  BY <1>2, <1>10
<1> QED
  BY <1>5, <1>6, <1>7, <1>8, <1>9, <1>10, OthersKeep DEF RunStep

\* While init() runs, the thread whose registration began it stays with it.
LEMMA CallerStays ==
  ASSUME FarmInv, [FarmNext]_farmVars, gw.pc = "init", gw'.pc = "init",
         NEW c \in Threads, run[c].pc = "registering"
  PROVE  run'[c] = run[c]
<1>1. ~GatewayStops
  BY DEF GatewayStops, AtRest
<1>2. ~(RunStep(c) \/ AcceptClient(c) \/ AcceptInit(c))
  BY DEF RunStep, TakeRun, Bind, AssignField, Register, Registered, EnterAccept,
     AcceptFails, AcceptClient, AcceptInit, Accepting
<1> QED  BY <1>1, <1>2, OthersKeep

\* What a step makes of the gateway while init() runs.
LEMMA InitSteps ==
  ASSUME FarmInv, [FarmNext]_farmVars, gw.pc = "init", gw'.pc = "init"
  PROVE  \/ gw' = gw
         \/ (\E t \in Threads : AcceptInit(t)) \/ InitConnect \/ InitReset
         \/ PoolStep
<1>1. ASSUME NEW t \in Threads, RunStep(t) \/ AcceptClient(t)
      PROVE  gw' = gw
  BY <1>1 DEF RunStep, TakeRun, Bind, AssignField, Register, Registered,
     EnterAccept, AcceptFails, AcceptClient
<1>2. ~(BrowserVisits \/ InitReturns \/ GatewayStops \/ GatewayStarts)
  BY DEF BrowserVisits, InitReturns, GatewayStops, GatewayStarts, AtRest
<1>3. CASE \/ StatusLine \/ ConsoleEnds \/ BeginClose \/ CloseNext
           \/ (\E v \in Servers : Stop(v) \/ Start(v)) \/ UNCHANGED farmVars
  BY <1>3 DEF StatusLine, ConsoleEnds, BeginClose, CloseNext, Stop, Start,
     farmVars
<1> QED  BY <1>1, <1>2, <1>3 DEF FarmNext

\* init() goes on from one server to the next.
LEMMA InitAsks ==
  ASSUME InitConnect \/ InitReset  PROVE gw'.pc = "init"
<1>1. CASE InitConnect
  <2>1. ASSUME NEW by, NEW left, NEW s, NEW b
        PROVE  [Asking(by, left) EXCEPT !.at = s, !.sock = b].pc = "init"
    BY DEF Asking
  <2>2. ASSUME NEW by, NEW left  PROVE Asking(by, left).pc = "init"
    BY DEF Asking
  <2>3. PICK s \in gw.left :
          gw' = IF bound[s] = NoSocket THEN Asking(gw.by, gw.left \ {s})
                ELSE [Asking(gw.by, gw.left \ {s}) EXCEPT !.at = s, !.sock = bound[s]]
    BY <1>1 DEF InitConnect
  <2>4. CASE bound[s] = NoSocket
    BY <2>2, <2>3, <2>4
  <2>5. CASE bound[s] # NoSocket
    <3>1. gw' = [Asking(gw.by, gw.left \ {s}) EXCEPT !.at = s, !.sock = bound[s]]
      BY <2>3, <2>5
    <3>2. [Asking(gw.by, gw.left \ {s}) EXCEPT !.at = s, !.sock = bound[s]].pc = "init"
      BY <2>1
    <3> QED  BY <3>1, <3>2
  <2> QED  BY <2>4, <2>5
<1>2. CASE InitReset
  BY <1>2 DEF InitReset, Asking
<1> QED  BY <1>1, <1>2

\* init() keeps the request that it runs in.
LEMMA KeepsCaller ==
  ASSUME FarmInv, [FarmNext]_farmVars, gw.pc = "init", gw'.pc = "init"
  PROVE  gw'.by = gw.by
<1>0. gw \in Gateway
  BY DEF FarmInv, FarmTypeOK
<1>1. CASE gw' = gw
  BY <1>1
<1>2. CASE InitConnect
  BY <1>2 DEF InitConnect, Asking
<1>3. CASE InitReset
  BY <1>3 DEF InitReset, Asking
<1>4. CASE PoolStep
  BY <1>0, <1>4 DEF PoolStep, BeginTransfer, EndTransfer, AnswerInit, Holds, Asking,
     Gateway
<1>5. ASSUME NEW t \in Threads, AcceptInit(t)  PROVE gw'.by = gw.by
  <2>1. ASSUME NEW g \in Gateway, NEW h
        PROVE  [g EXCEPT !.taken = TRUE, !.held = h].by = g.by
    BY DEF Gateway
  <2>2. PICK h \in Held : gw' = [gw EXCEPT !.taken = TRUE, !.held = h]
    BY <1>5 DEF AcceptInit
  <2>3. [gw EXCEPT !.taken = TRUE, !.held = h].by = gw.by
    BY <1>0, <2>1
  <2> QED  BY <2>2, <2>3
<1> QED  BY <1>1, <1>2, <1>3, <1>4, <1>5, InitSteps

LEMMA CallerWaitsStep ==
  ASSUME FarmInv, [FarmNext]_farmVars, gw.pc = "init", gw'.pc = "init",
         NEW c \in Threads, gw.by = c, RegistersInOrder(run[c]), CallerWaits(c)
  PROVE  gw'.by = c /\ CallerWaits(c)'
<1> DEFINE s == run[c].srv
<1>0. /\ FarmTypeOK /\ SocketsInOrder /\ FarmTypeOK'
      /\ run[c].pc = "registering" /\ s \in Servers /\ run[c].sock \in Nat
      /\ run[c].sock # NoSocket
  BY RunRecords, FarmStep, FarmAssumption
     DEF FarmInv, FarmTypeOK, CallerWaits, RegistersInOrder
<1>1. run'[c] = run[c]
  BY <1>0, CallerStays
<1>2. gw'.by = c
  <2>1. gw \in Gateway
    BY <1>0 DEF FarmTypeOK
  <2> QED  BY <2>1, KeepsCaller, Zenon
<1>3. CASE bound'[s] # run[c].sock
  BY <1>0, <1>1, <1>2, <1>3 DEF CallerWaits
<1>4. CASE bound'[s] = run[c].sock
  <2>1. bound[s] = run[c].sock
    <3>1. run[c].sock <= made[s] /\ made[s] \in Nat
      BY <1>0, SocketNumbers DEF SocketsInOrder, RunInOrder, FarmTypeOK
    <3>2. bound'[s] # made[s] + 1
      BY <1>0, <1>4, <3>1
    <3> QED  BY <1>0, <1>4, <3>2, SocketSteps
  <2>2. CASE Relieved(c)
    <3>1. Relieved(c)'
      BY <1>0, <1>1, <1>4, <2>1, <2>2, ReliefStays
    <3> QED  BY <1>0, <1>1, <1>2, <3>1 DEF CallerWaits
  <2>3. CASE gw' = gw
    BY <1>0, <1>1, <1>2, <1>4, <2>1, <2>2, <2>3 DEF CallerWaits
  <2>4. CASE InitConnect
    <3>1. PICK v \in gw.left :
            gw' = IF bound[v] = NoSocket THEN Asking(gw.by, gw.left \ {v})
                  ELSE [Asking(gw.by, gw.left \ {v}) EXCEPT !.at = v,
                                                            !.sock = bound[v]]
      BY <2>4 DEF InitConnect
    <3>2. gw.at # s
      BY <1>0, <2>4 DEF InitConnect, Servers
    <3>3. CASE v = s
      BY <1>0, <1>1, <2>1, <3>1, <3>3 DEF CallerWaits, Asking
    <3>4. CASE v # s
      BY <1>0, <1>1, <2>1, <2>2, <3>1, <3>2, <3>4 DEF CallerWaits, Asking
    <3> QED  BY <3>3, <3>4
  <2>5. ASSUME NEW t \in Threads, AcceptInit(t)  PROVE CallerWaits(c)'
    <3>1. gw'.left = gw.left
      BY <1>0, <2>5 DEF AcceptInit, FarmTypeOK, Gateway
    <3>2. CASE gw.at = s
      <4>1. t # c /\ run[t].srv = s
        BY <1>0, <2>5, <3>2 DEF AcceptInit, Accepting
      <4>2. run'[t] = Looping(s)
        BY <1>0, <2>5, <4>1 DEF AcceptInit, FarmTypeOK
      <4>3. Relieved(c)'
        BY <1>0, <1>1, <4>1, <4>2, RunRecords DEF Relieved, Serves
      <4> QED  BY <1>0, <1>1, <4>3 DEF CallerWaits
    <3>3. CASE gw.at # s
      BY <1>0, <1>1, <2>1, <2>2, <3>1, <3>3 DEF CallerWaits
    <3> QED  BY <3>2, <3>3
  <2>6. CASE InitReset
    <3>1. gw'.left = gw.left
      BY <2>6 DEF InitReset, Asking
    <3>2. ~(gw.at = s /\ gw.sock = run[c].sock)
      BY <2>1, <2>6 DEF InitReset
    <3>3. CASE s \in gw.left
      BY <1>0, <1>1, <1>2, <3>1, <3>3 DEF CallerWaits
    <3> QED  BY <2>1, <2>2, <3>2, <3>3 DEF CallerWaits
  <2>7. CASE PoolStep
    <3>1. gw'.left = gw.left /\ gw.taken
      BY <1>0, <2>7 DEF PoolStep, BeginTransfer, EndTransfer, AnswerInit, Holds,
         Asking, FarmTypeOK, Gateway
    <3> QED  BY <1>0, <1>1, <1>2, <2>1, <2>2, <3>1 DEF CallerWaits
  <2> QED  BY <1>2, <2>3, <2>4, <2>5, <2>6, <2>7, InitSteps
<1> QED  BY <1>3, <1>4, <1>2

\* A request that creates the bean is to ask every server.
LEMMA InitBegins ==
  ASSUME FarmInv, CallerInv, [FarmNext]_farmVars, gw.pc # "init",
         gw'.pc = "init", gw'.by # 0
  PROVE  CallerWaits(gw.by)'
<1>0. FarmTypeOK /\ gw.at = 0 /\ ~gw.taken
  BY DEF FarmInv, CallerInv
<1>1. PICK t \in Threads : Register(t) /\ gw' = Creating(t)
  <2>1. ASSUME NEW t \in Threads, RunStep(t) \/ AcceptClient(t) \/ AcceptInit(t)
        PROVE  Register(t) /\ gw' = Creating(t)
    <3>1. ~AcceptInit(t)
      <4>1. ASSUME AcceptInit(t)  PROVE FALSE
        <5>1. run[t].srv \in Servers /\ run[t].srv = 0
          BY <1>0, <4>1, RunRecords DEF AcceptInit, Accepting, FarmTypeOK
        <5> QED  BY <5>1 DEF Servers
      <4> QED  BY <4>1
    <3>2. gw' # gw
      OBVIOUS
    <3> QED
      BY <2>1, <3>1, <3>2 DEF RunStep, TakeRun, Bind, AssignField, Register,
         Registered, EnterAccept, AcceptFails, AcceptClient
  <2>2. ~(BrowserVisits \/ InitReturns \/ GatewayStops \/ GatewayStarts)
    BY DEF BrowserVisits, InitReturns, GatewayStops, GatewayStarts, AtRest, Creating,
           Asking
  <2>3. ~(InitConnect \/ InitReset \/ PoolStep)
    BY <1>0 DEF InitConnect, InitReset, PoolStep, BeginTransfer, EndTransfer,
       AnswerInit
  <2>4. ~(\/ StatusLine \/ ConsoleEnds \/ BeginClose \/ CloseNext
          \/ (\E v \in Servers : Stop(v) \/ Start(v)) \/ UNCHANGED farmVars)
    BY DEF StatusLine, ConsoleEnds, BeginClose, CloseNext, Stop, Start,
       farmVars, AtRest
  <2> QED  BY <2>1, <2>2, <2>3, <2>4 DEF FarmNext
<1>2. gw'.by = t /\ gw'.left = Servers
  BY <1>1 DEF Creating, Asking
<1>3. run[t].pc = "register" /\ run[t].srv \in Servers
  BY <1>0, <1>1, RunRecords DEF Register, FarmTypeOK
<1>4. gw.pc = "fresh"
  BY <1>1 DEF Register, Creating, Asking, FarmTypeOK, FarmInv
<1>5. run'[t].pc = "registering" /\ run'[t].srv = run[t].srv
  BY <1>0, <1>1, <1>4 DEF Register, FarmTypeOK
<1> QED  BY <1>2, <1>3, <1>5 DEF CallerWaits

LEMMA CallerStep ==
  ASSUME FarmInv, CallerInv, [FarmNext]_farmVars  PROVE CallerInv'
<1>1. \A t \in Threads : RegistersInOrder(run[t])'
  BY RegistersStep DEF CallerInv
<1>0. gw \in Gateway
  BY DEF FarmInv, FarmTypeOK
<1>2. gw'.pc # "init" => gw'.at = 0 /\ ~gw'.taken
  <2>1. ASSUME NEW t \in Threads, RunStep(t) \/ AcceptClient(t)
        PROVE  gw' = gw \/ gw'.pc = "init"
    BY <2>1 DEF RunStep, TakeRun, Bind, AssignField, Register, Registered,
       EnterAccept, AcceptFails, AcceptClient, Creating, Asking
  <2>3. ASSUME NEW t \in Threads, AcceptInit(t)
        PROVE  gw'.pc = "init"
    <3>1. run[t].srv \in Servers
      BY <2>3, RunRecords DEF AcceptInit, Accepting, FarmInv, FarmTypeOK
    <3>2. gw.pc = "init"
      BY <2>3, <3>1 DEF AcceptInit, CallerInv, Servers
    <3> QED  BY <1>0, <2>3, <3>2 DEF AcceptInit, Gateway
  <2>4. ASSUME PoolStep  PROVE gw'.pc = "init"
    BY <1>0, <2>4 DEF PoolStep, BeginTransfer, EndTransfer, AnswerInit, Holds,
       Asking, Gateway, CallerInv
  <2>2. CASE \/ BrowserVisits \/ InitConnect \/ InitReset \/ InitReturns
             \/ GatewayStops \/ GatewayStarts \/ StatusLine \/ ConsoleEnds
             \/ BeginClose \/ CloseNext \/ (\E v \in Servers : Stop(v) \/ Start(v))
             \/ UNCHANGED farmVars
    <3>1. CASE InitConnect \/ InitReset
      BY <3>1, InitAsks
    <3>2. CASE BrowserVisits \/ InitReturns \/ GatewayStops \/ GatewayStarts
      BY <3>2 DEF BrowserVisits, InitReturns, GatewayStops, GatewayStarts,
         Creating, Asking, AtRest
    <3>3. CASE BeginClose
      BY <3>3 DEF BeginClose, AtRest, CallerInv
    <3>4. CASE \/ StatusLine \/ ConsoleEnds \/ CloseNext \/ UNCHANGED farmVars
               \/ \E v \in Servers : Stop(v) \/ Start(v)
      <4>1. gw' = gw
        BY <3>4 DEF StatusLine, ConsoleEnds, CloseNext, Stop, Start, farmVars
      <4> QED  BY <4>1 DEF CallerInv
    <3> QED  BY <2>2, <3>1, <3>2, <3>3, <3>4
  <2> QED  BY <2>1, <2>2, <2>3, <2>4 DEF FarmNext, CallerInv
<1>3. ASSUME gw'.pc = "init", gw'.by # 0  PROVE CallerWaits(gw.by)'
  <2>1. CASE gw.pc = "init"
    <3>1. gw'.by = gw.by
      BY <1>0, <1>3, <2>1, KeepsCaller, Zenon
    <3>2. gw.by \in Threads
      BY <1>3, <3>1 DEF FarmInv, FarmTypeOK, Gateway
    <3>3. PICK c \in Threads : c = gw.by
      BY <3>2
    <3>4. RegistersInOrder(run[c]) /\ CallerWaits(c)
      BY <1>3, <2>1, <3>1, <3>3 DEF CallerInv
    <3>5. CallerWaits(c)'
      BY <1>3, <2>1, <3>3, <3>4, CallerWaitsStep
    <3> QED  BY <3>1, <3>3, <3>5 DEF CallerWaits, Relieved
  <2>2. CASE gw.pc # "init"
    BY <1>3, <2>2, InitBegins
  <2> QED  BY <2>1, <2>2
<1> QED  BY <1>1, <1>2, <1>3 DEF CallerInv

\* For any number of servers and starts, init() asks the server whose
\* registration created the bean: it returns only when that server was stopped
\* or another run of it took over (GatewayServer.java:66, FileServer.java:71).
THEOREM InitAsksItsCallerCorrect == FarmSpec => InitAsksItsCaller
<1>1. FarmInit => CallerInv
  <2> SUFFICES ASSUME FarmInit  PROVE CallerInv
    OBVIOUS
  <2>1. \A t \in Threads : run[t].pc = "idle"
    BY RunRecords DEF FarmInit
  <2>2. gw.at = 0 /\ gw.by = 0 /\ ~gw.taken
    BY DEF FarmInit, AtRest
  <2> QED  BY <2>1, <2>2 DEF CallerInv, RegistersInOrder
<1>2. FarmInv /\ CallerInv /\ [FarmNext]_farmVars => CallerInv'
  BY CallerStep
<1>3. FarmInv /\ CallerInv /\ [FarmNext]_farmVars =>
        [/\ gw.pc = "init"
         /\ gw.by # 0
         /\ gw'.pc = "ready"
         => LET r == run[gw.by]
            IN  \/ bound[r.srv] # r.sock
                \/ \E t \in Threads \ {gw.by} : run[t].srv = r.srv]_farmVars
  <2> SUFFICES ASSUME FarmInv, CallerInv, [FarmNext]_farmVars, gw.pc = "init",
                      gw.by # 0, gw'.pc = "ready"
               PROVE  \/ bound[run[gw.by].srv] # run[gw.by].sock
                      \/ \E t \in Threads \ {gw.by} : run[t].srv = run[gw.by].srv
    OBVIOUS
  <2>1. InitReturns
    <3>0. gw \in Gateway
      BY DEF FarmInv, FarmTypeOK
    <3>1. ASSUME NEW t \in Threads, RunStep(t) \/ AcceptClient(t) \/ AcceptInit(t)
          PROVE  FALSE
      <4>1. CASE AcceptInit(t)
        BY <3>0, <4>1 DEF AcceptInit, Gateway
      <4>2. CASE RunStep(t) \/ AcceptClient(t)
        BY <4>2 DEF RunStep, TakeRun, Bind, AssignField, Register, Registered,
           EnterAccept, AcceptFails, AcceptClient, Creating, Asking
      <4> QED  BY <3>1, <4>1, <4>2
    <3>3. ~PoolStep
      BY <3>0 DEF PoolStep, BeginTransfer, EndTransfer, AnswerInit, Holds, Asking,
         Gateway
    <3>4. ~InitConnect /\ ~InitReset
      BY InitAsks
    <3>2. ~(\/ BrowserVisits \/ GatewayStops \/ GatewayStarts \/ StatusLine
            \/ ConsoleEnds \/ BeginClose \/ CloseNext
            \/ (\E v \in Servers : Stop(v) \/ Start(v)) \/ UNCHANGED farmVars)
      BY DEF BrowserVisits, GatewayStops, GatewayStarts, StatusLine, ConsoleEnds,
         BeginClose, CloseNext, Stop, Start, farmVars, Creating, Asking, AtRest
    <3> QED  BY <3>1, <3>2, <3>3, <3>4 DEF FarmNext
  <2>2. gw.at = 0 /\ gw.left = {}
    BY <2>1 DEF InitReturns
  <2>3. gw.by \in Threads /\ CallerWaits(gw.by) /\ run[gw.by].srv \in Servers
    BY RunRecords DEF CallerInv, CallerWaits, FarmInv, FarmTypeOK, Gateway
  <2>4. run[gw.by].srv # 0
    BY <2>3 DEF Servers
  <2> QED  BY <2>2, <2>3, <2>4 DEF CallerWaits, Relieved, Serves
<1> QED
  BY <1>1, <1>2, <1>3, FarmInvariance, PTL DEF FarmSpec, InitAsksItsCaller

================================================================================
