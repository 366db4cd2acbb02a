-------------------------- MODULE Connections_proofs --------------------------
(***************************************************************************)
(* For any number of connections and any pool: a connection is in one      *)
(* place, and every answer is one the directory gave between the request   *)
(* and the answer.                                                         *)
(*                                                                         *)
(* A step moves one connection from one place to another; stop() empties   *)
(* the backlog, and the end of init() or of the gateway frees the handlers *)
(* that wait for it.                                                       *)
(***************************************************************************)
EXTENDS Connections, FiniteSetTheorems, SequenceTheorems, TLAPS

Members(q) == {q[i] : i \in DOMAIN q}

Distinct(q) == \A i, j \in DOMAIN q : q[i] = q[j] => i = j

\* The connections that are at pc in f wait in q, each once.
Waits(f, pc, q) ==
  /\ {c \in Conns : f[c].pc = pc} = Members(q)
  /\ Distinct(q)

HandledIn(f) == {c \in Conns : f[c].pc \in Holding}

\* From f to g, only c moves, to pc.
Moves(f, g, c, pc) ==
  /\ g \in [Conns -> Conn]
  /\ g[c].pc = pc
  /\ \A d \in Conns : d # c => g[d] = f[d]

-----------------------------------------------------------------------------
(* Queues *)

LEMMA AppendMembers ==
  ASSUME NEW S, NEW q \in Seq(S), NEW e \in S
  PROVE  /\ Append(q, e) \in Seq(S)
         /\ Members(Append(q, e)) = Members(q) \cup {e}
         /\ Distinct(q) /\ e \notin Members(q) => Distinct(Append(q, e))
<1> DEFINE r == Append(q, e)
<1>1. /\ r \in Seq(S)
      /\ DOMAIN r = DOMAIN q \cup {Len(q) + 1}
      /\ Len(q) + 1 \notin DOMAIN q
      /\ \A i \in DOMAIN q : r[i] = q[i]
      /\ r[Len(q) + 1] = e
  BY AppendProperties
<1> HIDE DEF r
<1>2. Members(r) = Members(q) \cup {e}
  BY <1>1 DEF Members
<1>3. ASSUME Distinct(q), e \notin Members(q)
      PROVE  Distinct(r)
  BY <1>1, <1>3 DEF Distinct, Members
<1> QED
  BY <1>1, <1>2, <1>3 DEF r

LEMMA TailMembers ==
  ASSUME NEW S, NEW q \in Seq(S), q # <<>>, Distinct(q)
  PROVE  /\ Tail(q) \in Seq(S)
         /\ Head(q) \in S
         /\ Head(q) \in Members(q)
         /\ Members(Tail(q)) = Members(q) \ {Head(q)}
         /\ Distinct(Tail(q))
<1> DEFINE r == Tail(q)
<1>1. /\ r \in Seq(S)
      /\ Head(q) \in S
      /\ Len(q) \in Nat \ {0}
      /\ DOMAIN q = 1..Len(q)
      /\ Head(q) = q[1]
      /\ DOMAIN r = 1..Len(q) - 1
      /\ \A i \in 1..Len(q) - 1 : r[i] = q[i + 1]
  BY HeadTailProperties
<1> HIDE DEF r
<1>2. 1 \in DOMAIN q
  BY <1>1
<1>3. Head(q) \in Members(q)
  BY <1>1, <1>2 DEF Members
<1>4. \A i \in DOMAIN r : i + 1 \in DOMAIN q /\ i + 1 # 1 /\ r[i] = q[i + 1]
  BY <1>1
<1>5. \A i \in DOMAIN q : i = 1 \/ (i - 1 \in DOMAIN r /\ r[i - 1] = q[i])
  BY <1>1
<1>6. Members(r) \subseteq Members(q) \ {Head(q)}
  BY <1>1, <1>2, <1>4 DEF Members, Distinct
<1>7. Members(q) \ {Head(q)} \subseteq Members(r)
  BY <1>1, <1>5 DEF Members
<1>8. Distinct(r)
  <2> SUFFICES ASSUME NEW i \in DOMAIN r, NEW j \in DOMAIN r, r[i] = r[j]
               PROVE  i = j
    BY DEF Distinct
  <2>1. i + 1 = j + 1
    BY <1>4 DEF Distinct
  <2> QED
    BY <1>1, <2>1
<1> QED
  BY <1>1, <1>3, <1>6, <1>7, <1>8 DEF r

-----------------------------------------------------------------------------
(* What a move does to a queue and to the threads *)

LEMMA WaitsElsewhere ==
  ASSUME NEW f, NEW g, NEW c \in Conns, NEW to, NEW pc, NEW q,
         Moves(f, g, c, to), f[c].pc # pc, to # pc,
         Waits(f, pc, q)
  PROVE  Waits(g, pc, q)
<1>1. {d \in Conns : g[d].pc = pc} = {d \in Conns : f[d].pc = pc}
  BY DEF Moves
<1> QED
  BY <1>1 DEF Waits

LEMMA WaitsEnter ==
  ASSUME NEW f, NEW g, NEW c \in Conns, NEW pc, NEW q \in Seq(Conns),
         Moves(f, g, c, pc), f[c].pc # pc,
         Waits(f, pc, q)
  PROVE  Append(q, c) \in Seq(Conns) /\ Waits(g, pc, Append(q, c))
<1>1. {d \in Conns : g[d].pc = pc} = {d \in Conns : f[d].pc = pc} \cup {c}
  BY DEF Moves
<1>2. c \notin Members(q)
  BY DEF Waits
<1> QED
  BY <1>1, <1>2, AppendMembers DEF Waits

LEMMA WaitsLeave ==
  ASSUME NEW f, NEW g, NEW to, NEW pc, NEW q \in Seq(Conns), q # <<>>,
         Moves(f, g, Head(q), to), to # pc,
         Waits(f, pc, q)
  PROVE  Tail(q) \in Seq(Conns) /\ Waits(g, pc, Tail(q))
<1>1. /\ Tail(q) \in Seq(Conns)
      /\ Members(Tail(q)) = Members(q) \ {Head(q)}
      /\ Distinct(Tail(q))
  BY TailMembers DEF Waits
<1>2. {d \in Conns : g[d].pc = pc} = {d \in Conns : f[d].pc = pc} \ {Head(q)}
  BY DEF Moves
<1> QED
  BY <1>1, <1>2 DEF Waits

\* The head of a queue is a connection at its place.
LEMMA HeadWaits ==
  ASSUME NEW f, NEW pc, NEW q \in Seq(Conns), q # <<>>, Waits(f, pc, q)
  PROVE  Head(q) \in Conns /\ f[Head(q)].pc = pc
  BY TailMembers DEF Waits

\* Only a connection that is taken from the pool's queue takes a thread.
LEMMA ThreadsKept ==
  ASSUME NEW f, NEW g, HandledIn(g) \subseteq HandledIn(f),
         Cardinality(HandledIn(f)) <= PoolSize
  PROVE  Cardinality(HandledIn(g)) <= PoolSize
<1>1. IsFiniteSet(HandledIn(f))
  BY FS_Subset, ConnectionsAssumption DEF HandledIn
<1>2. /\ IsFiniteSet(HandledIn(g))
      /\ Cardinality(HandledIn(g)) <= Cardinality(HandledIn(f))
  BY <1>1, FS_Subset
<1>3. Cardinality(HandledIn(f)) \in Nat /\ Cardinality(HandledIn(g)) \in Nat
  BY <1>1, <1>2, FS_CardinalityType
<1> QED
  BY <1>2, <1>3, ConnectionsAssumption

LEMMA ThreadTaken ==
  ASSUME NEW f, NEW g, NEW c \in Conns, Moves(f, g, c, "handled"),
         Cardinality(HandledIn(f)) < PoolSize
  PROVE  Cardinality(HandledIn(g)) <= PoolSize
<1>1. IsFiniteSet(HandledIn(f))
  BY FS_Subset, ConnectionsAssumption DEF HandledIn
<1>2. HandledIn(g) = HandledIn(f) \cup {c}
  BY DEF HandledIn, Moves, Holding
<1>3. /\ IsFiniteSet(HandledIn(g))
      /\ Cardinality(HandledIn(g)) = IF c \in HandledIn(f)
                                     THEN Cardinality(HandledIn(f))
                                     ELSE Cardinality(HandledIn(f)) + 1
  BY <1>1, <1>2, FS_AddElement, Zenon
<1>4. Cardinality(HandledIn(f)) \in Nat /\ Cardinality(HandledIn(g)) \in Nat
  BY <1>1, <1>3, FS_CardinalityType
<1> QED
  BY <1>3, <1>4, ConnectionsAssumption

-----------------------------------------------------------------------------
(* The inductive invariant *)

\* A connection has a list from its accept on.
Listed(f) ==
  \A c \in Conns : IF f[c].pc \in {"new", "backlog", "refused", "reset"}
                   THEN f[c].list = NoList
                   ELSE f[c].list \in SUBSET Names

Inv ==
  /\ ConnTypeOK
  /\ Waits(conn, "backlog", backlog)
  /\ Waits(conn, "queued", jobs)
  /\ ~accepting => backlog = <<>>
  /\ Cardinality(HandledIn(conn)) <= PoolSize
  /\ Listed(conn)

LEMMA InvImplies == Inv => ConnInv
<1> SUFFICES ASSUME Inv
             PROVE  InOnePlace
  BY DEF Inv, ConnInv
<1>1. HandledIn(conn) = Handled
  BY DEF HandledIn, Handled
<1> QED
  BY <1>1 DEF Inv, InOnePlace, Waits, Members, Distinct

LEMMA GoesMoves ==
  ASSUME ConnTypeOK, NEW c \in Conns,
         NEW pc \in {"new", "backlog", "queued", "handled", "transfer", "notify",
                     "notifying", "ended", "answered", "reset", "refused"},
         Goes(c, pc)
  PROVE  Moves(conn, conn', c, pc) /\ conn'[c].list = conn[c].list
<1>1. conn[c] \in Conn
  BY DEF ConnTypeOK
<1>2. [conn[c] EXCEPT !.pc = pc] \in Conn
  BY <1>1 DEF Conn
<1>3. conn' = [conn EXCEPT ![c] = [conn[c] EXCEPT !.pc = pc]]
  BY DEF Goes
<1> QED
  BY <1>1, <1>2, <1>3 DEF Moves, Conn, ConnTypeOK

\* A connection that holds a thread keeps it or is answered.
LEMMA HandlerKeeps ==
  ASSUME Inv, NEW c \in Conns,
         NEW pc \in {"transfer", "notify", "notifying", "ended", "answered"},
         Moves(conn, conn', c, pc),
         conn[c].pc \in Holding,
         conn'[c].list \in SUBSET Names, names' \subseteq Names, bean' \in Bean,
         UNCHANGED <<accepting, restarts, backlog, jobs>>
  PROVE  Inv'
<1>1. ConnTypeOK'
  BY DEF Inv, ConnTypeOK, Moves
<1>2. Waits(conn', "backlog", backlog) /\ Waits(conn', "queued", jobs)
  BY WaitsElsewhere DEF Inv, Holding
<1>3. HandledIn(conn') \subseteq HandledIn(conn)
  BY DEF HandledIn, Moves
<1>4. Cardinality(HandledIn(conn')) <= PoolSize
  BY <1>3, ThreadsKept DEF Inv
<1>5. Listed(conn')
  BY DEF Inv, Listed, Moves, Holding
<1> QED
  BY <1>1, <1>2, <1>4, <1>5 DEF Inv

\* What Release does to a connection.
LEMMA Released ==
  ASSUME ConnTypeOK, Release
  PROVE  /\ conn' \in [Conns -> Conn]
         /\ UNCHANGED <<accepting, restarts, names, backlog, jobs>>
         /\ \A c \in Conns :
              /\ conn'[c].list = conn[c].list
              /\ conn[c].pc = "notifying" => conn'[c].pc = "ended"
              /\ conn[c].pc # "notifying" => conn'[c] = conn[c]
<1>1. \A c \in Conns :
        conn[c] \in Conn /\ [conn[c] EXCEPT !.pc = "ended"] \in Conn
  BY DEF ConnTypeOK, Conn
<1>2. \A c \in Conns :
        /\ [conn[c] EXCEPT !.pc = "ended"].pc = "ended"
        /\ [conn[c] EXCEPT !.pc = "ended"].list = conn[c].list
  BY <1>1 DEF Conn
<1> QED
  BY <1>1, <1>2 DEF Release

LEMMA ReleaseKeeps ==
  ASSUME Inv, Release, bean' \in Bean
  PROVE  Inv'
<1> USE DEF Inv
<1>1. /\ conn' \in [Conns -> Conn]
      /\ UNCHANGED <<accepting, restarts, names, backlog, jobs>>
      /\ \A c \in Conns :
           /\ conn'[c].list = conn[c].list
           /\ conn[c].pc = "notifying" => conn'[c].pc = "ended"
           /\ conn[c].pc # "notifying" => conn'[c] = conn[c]
  BY Released
<1>2. \A pc \in {"backlog", "queued"} :
        {c \in Conns : conn'[c].pc = pc} = {c \in Conns : conn[c].pc = pc}
  BY <1>1
<1>3. Waits(conn', "backlog", backlog') /\ Waits(conn', "queued", jobs')
  BY <1>1, <1>2 DEF Waits
<1>4. HandledIn(conn') \subseteq HandledIn(conn)
  BY <1>1 DEF HandledIn, Holding
<1>5. Cardinality(HandledIn(conn')) <= PoolSize
  BY <1>4, ThreadsKept
<1>6. Listed(conn')
  BY <1>1 DEF Listed
<1>7. ConnTypeOK'
  BY <1>1 DEF ConnTypeOK
<1> QED
  BY <1>1, <1>3, <1>5, <1>6, <1>7

LEMMA NewRecords ==
  ASSUME NEW pc \in {"new", "reset"}
  PROVE  [pc |-> pc, list |-> NoList] \in Conn
<1> DEFINE Lists == {NoList} \cup SUBSET Names
<1>1. NoList \in Lists
  OBVIOUS
<1> HIDE DEF Lists
<1>2. Conn = [pc   : {"new", "backlog", "queued", "handled", "transfer", "notify",
                     "notifying", "ended", "answered", "reset", "refused"},
              list : Lists]
  BY DEF Conn, Lists
<1> QED
  BY <1>1, <1>2

LEMMA BeanRecords ==
  /\ \A pc \in {"none", "fresh", "ready"} : BeanAt(pc) \in Bean
  /\ \A c \in InitConns : [pc |-> "init", asks |-> c] \in Bean
  BY DEF BeanAt, Bean

LEMMA CreateBeans == Create => bean' \in Bean
  BY BeanRecords DEF Create

LEMMA InitInv == ConnInit => Inv
<1> SUFFICES ASSUME ConnInit
             PROVE  Inv
  OBVIOUS
<1>1. ConnTypeOK
  <2>1. restarts \in 0..MaxRestarts
    BY ConnectionsAssumption DEF ConnInit
  <2>2. [pc |-> "new", list |-> NoList] \in Conn
    BY NewRecords
  <2> QED
    BY <2>1, <2>2, BeanRecords DEF ConnInit, ConnTypeOK
<1>2. Waits(conn, "backlog", backlog) /\ Waits(conn, "queued", jobs)
  BY DEF ConnInit, Waits, Members, Distinct
<1>3. HandledIn(conn) = {}
  BY DEF ConnInit, HandledIn, Holding
<1>4. Cardinality(HandledIn(conn)) <= PoolSize
  BY <1>3, FS_EmptySet, ConnectionsAssumption
<1>5. Listed(conn)
  BY DEF ConnInit, Listed
<1> QED
  BY <1>1, <1>2, <1>4, <1>5 DEF ConnInit, Inv

LEMMA StepInv == Inv /\ [ConnNext]_connVars => Inv'
<1> SUFFICES ASSUME Inv, [ConnNext]_connVars
             PROVE  Inv'
  OBVIOUS
<1> USE DEF Inv
<1>1. ASSUME NEW c \in Conns, ConnectTo(c)
      PROVE  Inv'
  <2>1. CASE accepting
    <3>1. Moves(conn, conn', c, "backlog") /\ conn'[c].list = conn[c].list
      BY <1>1, <2>1, GoesMoves DEF ConnectTo
    <3>2. backlog' = Append(backlog, c) /\ conn[c].pc = "new"
      BY <1>1, <2>1 DEF ConnectTo
    <3>3. backlog' \in Seq(Conns) /\ Waits(conn', "backlog", backlog')
      BY <3>1, <3>2, WaitsEnter DEF ConnTypeOK
    <3>4. Waits(conn', "queued", jobs)
      BY <3>1, <3>2, WaitsElsewhere
    <3>5. HandledIn(conn') \subseteq HandledIn(conn)
      BY <3>1, <3>2 DEF HandledIn, Moves, Holding
    <3>6. Cardinality(HandledIn(conn')) <= PoolSize
      BY <3>5, ThreadsKept
    <3>7. Listed(conn')
      BY <3>1, <3>2 DEF Listed, Moves
    <3> QED
      BY <1>1, <2>1, <3>1, <3>3, <3>4, <3>6, <3>7 DEF ConnectTo, ConnTypeOK, Moves
  <2>2. CASE ~accepting
    <3>1. Moves(conn, conn', c, "refused") /\ conn'[c].list = conn[c].list
      BY <1>1, <2>2, GoesMoves DEF ConnectTo
    <3>2. backlog' = backlog /\ conn[c].pc = "new"
      BY <1>1, <2>2 DEF ConnectTo
    <3>3. Waits(conn', "backlog", backlog) /\ Waits(conn', "queued", jobs)
      BY <3>1, <3>2, WaitsElsewhere
    <3>4. HandledIn(conn') \subseteq HandledIn(conn)
      BY <3>1, <3>2 DEF HandledIn, Moves, Holding
    <3>5. Cardinality(HandledIn(conn')) <= PoolSize
      BY <3>4, ThreadsKept
    <3>6. Listed(conn')
      BY <3>1, <3>2 DEF Listed, Moves
    <3> QED
      BY <1>1, <2>2, <3>1, <3>2, <3>3, <3>5, <3>6 DEF ConnectTo, ConnTypeOK, Moves
  <2> QED
    BY <2>1, <2>2
<1>2. CASE AcceptNext
  <2> DEFINE c == Head(backlog)
  <2>1. c \in Conns /\ conn[c].pc = "backlog"
    BY <1>2, HeadWaits DEF AcceptNext, ConnTypeOK
  <2>2. Moves(conn, conn', c, "queued") /\ conn'[c].list = names
    BY <1>2, <2>1 DEF AcceptNext, Moves, ConnTypeOK, Conn
  <2>3. backlog' \in Seq(Conns) /\ Waits(conn', "backlog", backlog')
    BY <1>2, <2>2, WaitsLeave DEF AcceptNext, ConnTypeOK
  <2>4. jobs' \in Seq(Conns) /\ Waits(conn', "queued", jobs')
    BY <1>2, <2>1, <2>2, WaitsEnter DEF AcceptNext, ConnTypeOK
  <2>5. HandledIn(conn') \subseteq HandledIn(conn)
    BY <2>2 DEF HandledIn, Moves, Holding
  <2>6. Cardinality(HandledIn(conn')) <= PoolSize
    BY <2>5, ThreadsKept
  <2>7. Listed(conn')
    BY <2>2 DEF Listed, Moves, ConnTypeOK
  <2> QED
    BY <1>2, <2>2, <2>3, <2>4, <2>6, <2>7 DEF AcceptNext, ConnTypeOK, Moves
<1>3. CASE Handle
  <2> DEFINE c == Head(jobs)
  <2>1. c \in Conns /\ conn[c].pc = "queued"
    BY <1>3, HeadWaits DEF Handle, ConnTypeOK
  <2>2. Moves(conn, conn', c, "handled") /\ conn'[c].list = conn[c].list
    BY <1>3, <2>1, GoesMoves DEF Handle
  <2>3. jobs' \in Seq(Conns) /\ Waits(conn', "queued", jobs')
    BY <1>3, <2>2, WaitsLeave DEF Handle, ConnTypeOK
  <2>4. Waits(conn', "backlog", backlog)
    BY <2>1, <2>2, WaitsElsewhere
  <2>5. Handled = HandledIn(conn)
    BY DEF Handled, HandledIn
  <2>6. Cardinality(HandledIn(conn')) <= PoolSize
    BY <1>3, <2>1, <2>2, <2>5, ThreadTaken DEF Handle
  <2>7. Listed(conn')
    BY <2>1, <2>2 DEF Listed, Moves
  <2> QED
    BY <1>3, <2>2, <2>3, <2>4, <2>6, <2>7 DEF Handle, ConnTypeOK, Moves
<1>4. ASSUME NEW c \in Conns, Handler(c) \/ ClientEnds(c)
      PROVE  Inv'
  <2>1. conn[c].pc \in Holding
    BY <1>4 DEF Handler, Answer, BeginUpload, BeginDownload, Notify, HandlerEnds,
                ClientEnds, Holding
  <2>2. conn[c].list \in SUBSET Names
    BY <2>1 DEF Listed, Holding
  <2>3. CASE Answer(c) \/ HandlerEnds(c)
    <3>1. Moves(conn, conn', c, "answered") /\ conn'[c].list = conn[c].list
      BY <2>3, GoesMoves DEF Answer, HandlerEnds
    <3> QED
      BY <2>1, <2>2, <2>3, <3>1, HandlerKeeps DEF Answer, HandlerEnds, ConnTypeOK
  <2>4. CASE BeginUpload(c)
    <3>1. Moves(conn, conn', c, "transfer") /\ conn'[c].list = conn[c].list
      BY <2>4, GoesMoves DEF BeginUpload
    <3>2. names' \subseteq Names
      BY <2>4 DEF BeginUpload, ConnTypeOK, Names
    <3> QED
      BY <2>1, <2>2, <2>4, <3>1, <3>2, HandlerKeeps DEF BeginUpload, ConnTypeOK
  <2>5. CASE BeginDownload(c)
    <3>1. PICK pc \in {"transfer", "answered"} :
            conn' = [conn EXCEPT ![c] = [pc |-> pc, list |-> names]]
      BY <2>5 DEF BeginDownload
    <3>2. Moves(conn, conn', c, pc) /\ conn'[c].list = names
      BY <3>1 DEF Moves, ConnTypeOK, Conn
    <3> QED
      BY <2>1, <2>5, <3>2, HandlerKeeps DEF BeginDownload, ConnTypeOK
  <2>6. CASE ClientEnds(c)
    <3>1. PICK pc \in {"notify", "ended"} : Goes(c, pc)
      BY <2>6 DEF ClientEnds
    <3>2. Moves(conn, conn', c, pc) /\ conn'[c].list = conn[c].list
      BY <3>1, GoesMoves
    <3> QED
      BY <2>1, <2>2, <2>6, <3>2, HandlerKeeps DEF ClientEnds, ConnTypeOK
  <2>7. CASE Notify(c)
    <3>1. PICK pc \in {"notifying", "ended"} : Goes(c, pc)
      BY <2>7 DEF Notify
    <3>2. Moves(conn, conn', c, pc) /\ conn'[c].list = conn[c].list
      BY <3>1, GoesMoves
    <3>3. bean' \in Bean
      BY <2>7, CreateBeans DEF Notify, ConnTypeOK
    <3> QED
      BY <2>1, <2>2, <2>7, <3>2, <3>3, HandlerKeeps DEF Notify, ConnTypeOK
  <2> QED
    BY <1>4, <2>3, <2>4, <2>5, <2>6, <2>7 DEF Handler
<1>5. CASE StopServer
  <2>1. /\ conn' \in [Conns -> Conn]
        /\ \A c \in Conns :
             /\ conn[c].pc = "backlog"
                  => conn'[c].pc = "reset" /\ conn'[c].list = NoList
             /\ conn[c].pc # "backlog" => conn'[c] = conn[c]
    <3>1. [pc |-> "reset", list |-> NoList] \in Conn
      BY NewRecords
    <3> QED
      BY <1>5, <3>1 DEF StopServer, ConnTypeOK
  <2>2. Waits(conn', "backlog", <<>>)
    BY <2>1 DEF Waits, Members, Distinct
  <2>3. Waits(conn', "queued", jobs)
    <3>1. {c \in Conns : conn'[c].pc = "queued"} = {c \in Conns : conn[c].pc = "queued"}
      BY <2>1
    <3> QED
      BY <3>1 DEF Waits
  <2>4. HandledIn(conn') \subseteq HandledIn(conn)
    BY <2>1 DEF HandledIn, Holding
  <2>5. Cardinality(HandledIn(conn')) <= PoolSize
    BY <2>4, ThreadsKept
  <2>6. Listed(conn')
    BY <2>1 DEF Listed
  <2>7. restarts' \in 0..MaxRestarts
    BY <1>5, ConnectionsAssumption DEF StopServer, ConnTypeOK
  <2>8. ConnTypeOK'
    <3>1. /\ accepting' = FALSE /\ backlog' = <<>>
          /\ UNCHANGED <<names, jobs, bean>>
      BY <1>5 DEF StopServer
    <3>2. <<>> \in Seq(Conns)
      OBVIOUS
    <3> QED
      BY <2>1, <2>7, <3>1, <3>2 DEF ConnTypeOK
  <2> QED
    BY <1>5, <2>2, <2>3, <2>5, <2>6, <2>8 DEF StopServer
<1>6. CASE StartServer
  BY <1>6 DEF StartServer, ConnTypeOK
<1>7. CASE BeanReady \/ StopGateway
  <2>1. bean' \in Bean /\ Release
    BY <1>7, BeanRecords DEF BeanReady, StopGateway
  <2> QED
    BY <2>1, ReleaseKeeps
<1>8. CASE CreateBean \/ StartGateway \/ UNCHANGED connVars
  <2>1. bean' \in Bean
    BY <1>8, BeanRecords, CreateBeans
       DEF CreateBean, StartGateway, connVars, ConnTypeOK
  <2> QED
    BY <1>8, <2>1 DEF CreateBean, StartGateway, connVars, serverVars, ConnTypeOK
<1> QED
  BY <1>1, <1>2, <1>3, <1>4, <1>5, <1>6, <1>7, <1>8 DEF ConnNext

LEMMA InvHolds == ConnSpec => []Inv
  BY InitInv, StepInv, PTL DEF ConnSpec

\* A connection is in one place: in the backlog of an open socket, in the queue
\* of the pool, or with one of at most PoolSize threads; stop() resets the
\* backlog and loses no accepted connection (FileServer.java:40, 49, 77-81).
THEOREM ConnInvariance == ConnSpec => []ConnInv
  BY InvHolds, InvImplies, PTL

-----------------------------------------------------------------------------
(* The refinement *)

Asked == [c \in Conns |-> Seen(c)]

Answers == [c \in Conns |-> SeenAnswer(c)]

LEMMA SeenMoves ==
  ASSUME NEW c \in Conns, NEW pc, Moves(conn, conn', c, pc)
  PROVE  /\ Asked' = [Asked EXCEPT ![c] = Seen(c)']
         /\ Answers' = [Answers EXCEPT ![c] = SeenAnswer(c)']
<1>1. \A d \in Conns \ {c} : Seen(d)' = Seen(d) /\ SeenAnswer(d)' = SeenAnswer(d)
  BY DEF Moves, Seen, SeenAnswer
<1>2. Asked' = [d \in Conns |-> Seen(d)']
  BY DEF Asked
<1>3. Answers' = [d \in Conns |-> SeenAnswer(d)']
  BY DEF Answers
<1> QED
  BY <1>1, <1>2, <1>3 DEF Asked, Answers

\* A connection that is seen as before, from the same list.
LEMMA SeenAsBefore ==
  ASSUME NEW c \in Conns, NEW pc, Moves(conn, conn', c, pc), UNCHANGED names,
         Seen(c)' = Seen(c), SeenAnswer(c)' = SeenAnswer(c)
  PROVE  UNCHANGED <<names, Asked, Answers>>
<1>1. /\ Asked' = [Asked EXCEPT ![c] = Asked[c]]
      /\ Answers' = [Answers EXCEPT ![c] = Answers[c]]
  BY SeenMoves DEF Asked, Answers
<1> QED
  BY <1>1 DEF Asked, Answers

LEMMA InitImplements == ConnInit => Requested!Init
<1> SUFFICES ASSUME ConnInit
             PROVE  Requested!Init
  OBVIOUS
<1>1. \A c \in Conns : Seen(c) = "idle" /\ SeenAnswer(c) = NoList
  BY DEF ConnInit, Seen, SeenAnswer
<1> QED
  BY <1>1 DEF ConnInit, Requested!Init

(* The steps of Requests, as they are seen *)

LEMMA SeenAsk ==
  ASSUME NEW c \in Conns, Seen(c) = "idle",
         Asked' = [Asked EXCEPT ![c] = "asked"], UNCHANGED <<names, Answers>>
  PROVE  Requested!Next
<1>1. Requested!Ask(c)
  BY DEF Requested!Ask, Asked, Answers
<1> QED
  BY <1>1 DEF Requested!Next

LEMMA SeenDetermine ==
  ASSUME NEW c \in Conns, Seen(c) = "asked", SeenAnswer(c) = NoList,
         Answers' = [Answers EXCEPT ![c] = names], UNCHANGED <<names, Asked>>
  PROVE  Requested!Next
<1>1. Requested!Determine(c)
  BY DEF Requested!Determine, Asked, Answers
<1> QED
  BY <1>1 DEF Requested!Next

LEMMA SeenReply ==
  ASSUME NEW c \in Conns, Seen(c) = "asked", SeenAnswer(c) # NoList,
         Asked' = [Asked EXCEPT ![c] = "answered"],
         UNCHANGED <<names, Answers>>
  PROVE  Requested!Next
<1>1. Requested!Reply(c)
  BY DEF Requested!Reply, Asked, Answers
<1> QED
  BY <1>1 DEF Requested!Next

LEMMA SeenDetermineAndReply ==
  ASSUME NEW c \in Conns, Seen(c) = "asked", SeenAnswer(c) = NoList,
         Answers' = [Answers EXCEPT ![c] = names],
         Asked' = [Asked EXCEPT ![c] = "answered"], UNCHANGED names
  PROVE  Requested!Next
<1>1. Requested!DetermineAndReply(c)
  BY DEF Requested!DetermineAndReply, Asked, Answers
<1> QED
  BY <1>1 DEF Requested!Next

LEMMA SeenAdd ==
  ASSUME NEW f \in Names, names' = names \cup {f},
         UNCHANGED <<Asked, Answers>>
  PROVE  Requested!Next
<1>1. Requested!Add(f)
  BY DEF Requested!Add, Asked, Answers
<1> QED
  BY <1>1 DEF Requested!Next

LEMMA SeenFail ==
  ASSUME NEW C \in SUBSET Conns,
         \A c \in C : Seen(c) \in {"idle", "asked"} /\ SeenAnswer(c) = NoList,
         Asked' = [c \in Conns |-> IF c \in C THEN "failed" ELSE Asked[c]],
         UNCHANGED <<names, Answers>>
  PROVE  Requested!Next
<1>1. Requested!Fail(C)
  BY DEF Requested!Fail, Asked, Answers
<1> QED
  BY <1>1 DEF Requested!Next

LEMMA StepImplements ==
  Inv /\ [ConnNext]_connVars => [Requested!Next]_(Requested!vars)
<1> SUFFICES ASSUME Inv, [ConnNext]_connVars
             PROVE  Requested!Next \/ UNCHANGED <<names, Asked, Answers>>
  BY DEF Requested!vars, Asked, Answers
<1>0. ConnTypeOK /\ Listed(conn)
  BY DEF Inv
<1>1. ASSUME NEW c \in Conns, ConnectTo(c)
      PROVE  Requested!Next
  <2>1. /\ conn[c].pc = "new" /\ conn[c].list = NoList
        /\ UNCHANGED names
    BY <1>0, <1>1 DEF ConnectTo, Listed
  <2>2. Seen(c) = "idle" /\ SeenAnswer(c) = NoList
    BY <2>1 DEF Seen, SeenAnswer
  <2>3. CASE accepting
    <3>1. Moves(conn, conn', c, "backlog") /\ conn'[c].list = conn[c].list
      BY <1>0, <1>1, <2>3, GoesMoves DEF ConnectTo
    <3>2. Seen(c)' = "asked" /\ SeenAnswer(c)' = NoList
      BY <2>1, <3>1 DEF Seen, SeenAnswer, Moves
    <3>3. Asked' = [Asked EXCEPT ![c] = "asked"] /\ Answers' = Answers
      BY <2>2, <3>1, <3>2, SeenMoves DEF Asked, Answers
    <3> QED
      BY <2>1, <2>2, <3>3, SeenAsk
  <2>4. CASE ~accepting
    <3>1. Moves(conn, conn', c, "refused") /\ conn'[c].list = conn[c].list
      BY <1>0, <1>1, <2>4, GoesMoves DEF ConnectTo
    <3>2. Seen(c)' = "failed" /\ SeenAnswer(c)' = NoList
      BY <2>1, <3>1 DEF Seen, SeenAnswer, Moves
    <3>3. /\ Asked' = [d \in Conns |-> IF d \in {c} THEN "failed" ELSE Asked[d]]
          /\ Answers' = Answers
      BY <2>2, <3>1, <3>2, SeenMoves DEF Asked, Answers
    <3>4. /\ {c} \in SUBSET Conns
          /\ \A d \in {c} : Seen(d) \in {"idle", "asked"} /\ SeenAnswer(d) = NoList
      BY <2>2
    <3> QED
      BY <2>1, <3>3, <3>4, SeenFail
  <2> QED
    BY <2>3, <2>4
<1>2. CASE AcceptNext
  <2>0. UNCHANGED names
    BY <1>2 DEF AcceptNext
  <2>1. PICK c \in Conns : c = Head(backlog) /\ conn[c].pc = "backlog"
    BY <1>0, <1>2, HeadWaits DEF AcceptNext, ConnTypeOK, Inv
  <2>2. Moves(conn, conn', c, "queued") /\ conn'[c].list = names
    BY <1>0, <1>2, <2>1 DEF AcceptNext, Moves, ConnTypeOK, Conn
  <2>3. Seen(c) = "asked" /\ Seen(c)' = "asked" /\ SeenAnswer(c) = NoList
    BY <1>0, <2>1, <2>2 DEF Seen, SeenAnswer, Moves, Listed
  <2>4. CASE KindOf[c] = "DOWNLOAD"
    <3>1. SeenAnswer(c)' = NoList
      BY <2>2, <2>4 DEF SeenAnswer, Moves
    <3> QED
      BY <2>0, <2>2, <2>3, <3>1, SeenAsBefore
  <2>5. CASE KindOf[c] # "DOWNLOAD"
    <3>1. SeenAnswer(c)' = names
      BY <2>2, <2>5 DEF SeenAnswer, Moves
    <3>2. Asked' = Asked /\ Answers' = [Answers EXCEPT ![c] = names]
      BY <2>1, <2>2, <2>3, <3>1, SeenMoves DEF Asked, Answers
    <3> QED
      BY <2>0, <2>3, <3>2, SeenDetermine
  <2> QED
    BY <2>4, <2>5
<1>3. CASE Handle
  <2>0. UNCHANGED names
    BY <1>3 DEF Handle
  <2>1. PICK c \in Conns : c = Head(jobs) /\ conn[c].pc = "queued"
    BY <1>0, <1>3, HeadWaits DEF Handle, ConnTypeOK, Inv
  <2>2. Moves(conn, conn', c, "handled") /\ conn'[c].list = conn[c].list
    BY <1>0, <1>3, <2>1, GoesMoves DEF Handle
  <2>3. Seen(c)' = Seen(c) /\ SeenAnswer(c)' = SeenAnswer(c)
    BY <2>1, <2>2 DEF Seen, SeenAnswer, Moves
  <2> QED
    BY <2>0, <2>2, <2>3, SeenAsBefore
<1>4. ASSUME NEW c \in Conns, Answer(c) \/ HandlerEnds(c)
      PROVE  Requested!Next \/ UNCHANGED <<names, Asked, Answers>>
  <2>1. Moves(conn, conn', c, "answered") /\ conn'[c].list = conn[c].list
    BY <1>0, <1>4, GoesMoves DEF Answer, HandlerEnds
  <2>2. /\ conn[c].pc \in {"handled", "ended"} /\ UNCHANGED names
        /\ conn[c].pc = "handled" => KindOf[c] # "DOWNLOAD"
    BY <1>4 DEF Answer, HandlerEnds
  <2>3. Seen(c)' = "answered" /\ SeenAnswer(c)' = SeenAnswer(c)
    BY <2>1, <2>2 DEF Seen, SeenAnswer, Moves
  <2>4. CASE conn[c].pc = "ended" /\ KindOf[c] # "UPLOAD"
    <3>1. Seen(c) = "answered"
      BY <2>4 DEF Seen
    <3> QED
      BY <2>1, <2>2, <2>3, <3>1, SeenAsBefore
  <2>5. CASE conn[c].pc = "handled" \/ KindOf[c] = "UPLOAD"
    <3>1. Seen(c) = "asked"
      BY <2>2, <2>5 DEF Seen
    <3>2. SeenAnswer(c) # NoList
      BY <1>0, <2>2, <2>5, ConnectionsAssumption DEF SeenAnswer, Listed
    <3>3. Asked' = [Asked EXCEPT ![c] = "answered"] /\ Answers' = Answers
      BY <2>1, <2>3, SeenMoves DEF Asked, Answers
    <3> QED
      BY <2>2, <3>1, <3>2, <3>3, SeenReply
  <2> QED
    BY <2>2, <2>4, <2>5
<1>5. ASSUME NEW c \in Conns, BeginUpload(c)
      PROVE  Requested!Next
  <2>1. Moves(conn, conn', c, "transfer") /\ conn'[c].list = conn[c].list
    BY <1>0, <1>5, GoesMoves DEF BeginUpload
  <2>2. /\ conn[c].pc = "handled" /\ KindOf[c] = "UPLOAD"
        /\ NameOf[c] \in Names /\ names' = names \cup {NameOf[c]}
    BY <1>5 DEF BeginUpload, Names
  <2>3. Seen(c)' = Seen(c) /\ SeenAnswer(c)' = SeenAnswer(c)
    BY <2>1, <2>2 DEF Seen, SeenAnswer, Moves
  <2>4. UNCHANGED <<Asked, Answers>>
    BY <2>1, <2>3, SeenMoves DEF Asked, Answers
  <2> QED
    BY <2>2, <2>4, SeenAdd
<1>6. ASSUME NEW c \in Conns, BeginDownload(c)
      PROVE  Requested!Next
  <2>1. /\ conn[c].pc = "handled" /\ KindOf[c] = "DOWNLOAD"
        /\ UNCHANGED names
    BY <1>6 DEF BeginDownload
  <2>2. PICK pc \in {"transfer", "answered"} :
          conn' = [conn EXCEPT ![c] = [pc |-> pc, list |-> names]]
    BY <1>6 DEF BeginDownload
  <2>3. Moves(conn, conn', c, pc) /\ conn'[c].list = names
    BY <1>0, <2>2 DEF Moves, ConnTypeOK, Conn
  <2>4. /\ Seen(c) = "asked" /\ SeenAnswer(c) = NoList
        /\ Seen(c)' = "answered" /\ SeenAnswer(c)' = names
    BY <2>1, <2>3 DEF Seen, SeenAnswer, Moves
  <2>5. /\ Asked' = [Asked EXCEPT ![c] = "answered"]
        /\ Answers' = [Answers EXCEPT ![c] = names]
    BY <2>3, <2>4, SeenMoves
  <2> QED
    BY <2>1, <2>4, <2>5, SeenDetermineAndReply
<1>7. ASSUME NEW c \in Conns, ClientEnds(c) \/ Notify(c)
      PROVE  UNCHANGED <<names, Asked, Answers>>
  <2>1. PICK pc \in {"notify", "notifying", "ended"} : Goes(c, pc)
    BY <1>7 DEF ClientEnds, Notify
  <2>2. Moves(conn, conn', c, pc) /\ conn'[c].list = conn[c].list
    BY <1>0, <2>1, GoesMoves
  <2>3. conn[c].pc \in {"transfer", "notify"} /\ UNCHANGED names
    BY <1>7 DEF ClientEnds, Notify
  <2>4. Seen(c)' = Seen(c) /\ SeenAnswer(c)' = SeenAnswer(c)
    BY <2>2, <2>3 DEF Seen, SeenAnswer, Moves
  <2> QED
    BY <2>2, <2>3, <2>4, SeenAsBefore
<1>8. CASE StopServer
  <2> DEFINE C == {c \in Conns : conn[c].pc = "backlog"}
  <2>1. /\ UNCHANGED names
        /\ \A c \in C : conn'[c].pc = "reset" /\ conn'[c].list = NoList
        /\ \A c \in Conns \ C : conn'[c] = conn[c]
    BY <1>8 DEF StopServer
  <2>2. \A c \in C : /\ Seen(c) = "asked" /\ SeenAnswer(c) = NoList
                    /\ Seen(c)' = "failed" /\ SeenAnswer(c)' = NoList
    BY <1>0, <2>1 DEF Seen, SeenAnswer, Listed
  <2>3. \A c \in Conns \ C : Seen(c)' = Seen(c) /\ SeenAnswer(c)' = SeenAnswer(c)
    BY <2>1 DEF Seen, SeenAnswer
  <2> HIDE DEF C
  <2>4. C \in SUBSET Conns
    BY DEF C
  <2>5. Asked' = [c \in Conns |-> Seen(c)'] /\ Answers' = [c \in Conns |-> SeenAnswer(c)']
    BY DEF Asked, Answers
  <2>6. /\ Asked' = [c \in Conns |-> IF c \in C THEN "failed" ELSE Asked[c]]
        /\ Answers' = Answers
    BY <2>2, <2>3, <2>4, <2>5 DEF Asked, Answers
  <2> QED
    BY <2>1, <2>2, <2>4, <2>6, SeenFail
<1>9. CASE BeanReady \/ StopGateway
  <2>1. Release
    BY <1>9 DEF BeanReady, StopGateway
  <2>2. /\ UNCHANGED names
        /\ \A c \in Conns :
             /\ conn'[c].list = conn[c].list
             /\ conn[c].pc = "notifying" => conn'[c].pc = "ended"
             /\ conn[c].pc # "notifying" => conn'[c] = conn[c]
    BY <1>0, <2>1, Released
  <2>3. \A c \in Conns : Seen(c)' = Seen(c) /\ SeenAnswer(c)' = SeenAnswer(c)
    BY <2>2 DEF Seen, SeenAnswer
  <2>4. Asked' = [c \in Conns |-> Seen(c)'] /\ Answers' = [c \in Conns |-> SeenAnswer(c)']
    BY DEF Asked, Answers
  <2> QED
    BY <2>2, <2>3, <2>4 DEF Asked, Answers
<1>10. CASE StartServer \/ CreateBean \/ StartGateway \/ UNCHANGED connVars
  <2>1. UNCHANGED <<names, conn>>
    BY <1>10 DEF StartServer, CreateBean, StartGateway, connVars, serverVars
  <2> QED
    BY <2>1 DEF Asked, Answers, Seen, SeenAnswer
<1> QED
  BY <1>1, <1>2, <1>3, <1>4, <1>5, <1>6, <1>7, <1>8, <1>9, <1>10
     DEF ConnNext, Handler

\* Whatever waits in the backlog, the pool's queue or behind a transfer, and
\* whenever the server stops, every answer is what the directory said at one
\* moment between the request and the answer (FileServer.java:79,
\* FileServerHandleConnection.java:47-70).
THEOREM RequestsImplemented == ConnSpec => ImplementsRequests
<1>1. ConnSpec => Requested!Init /\ [][Requested!Next]_(Requested!vars)
  BY InvHolds, InitImplements, StepImplements, PTL DEF ConnSpec
<1> QED
  BY <1>1 DEF ImplementsRequests, Requested!Spec

================================================================================
