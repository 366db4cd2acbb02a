----------------------------- MODULE MCSyncSystem -----------------------------
(***************************************************************************)
(* Instances of SyncSystem for TLC: the requests, names and slots are      *)
(* model values, and the gateway visits the servers in one order or the    *)
(* other.                                                                  *)
(***************************************************************************)
EXTENDS SyncSystem, TLC

CONSTANTS u1, u2, f1, f2, k1, k2, d1

\* Every request uploads a file of the same name.
SameName == [u \in Uploads |-> f1]

\* Two requests that upload files of different names.
OwnName == (u1 :> f1) @@ (u2 :> f2)

\* The gateway's set of servers is iterated in the replication service's order,
\* or in the opposite one.
SameOrder == [i \in 1..NumberOfServers |-> i]
OtherOrder == [i \in 1..NumberOfServers |-> NumberOfServers + 1 - i]

\* Slots are interchangeable.
SlotSymmetry == Permutations(Cycles) \cup Permutations(CopyConns)

\* Nothing is under way in the service, or with a download.
Quiet ==
  DownloadInit /\ ReplicationInit /\ lost = {} /\ bean = "ready" /\ registering = {}

\* Both requests have uploaded to the first server, u2 last, and all is over but
\* for the notifications, which hold the threads of its pool.
Uploaded ==
  LET s == GatewayOrder[1]
      f == NameOf[u1]
  IN  /\ Quiet
      /\ port = [x \in Servers |-> "served"]
      /\ dir = [x \in Servers |-> IF x = s THEN {f} ELSE {}]
      /\ bytes = [x \in Servers |-> [g \in Files |->
                   IF x = s /\ g = f THEN Whole(u2) ELSE {}]]
      /\ conn = [k \in ConnIds |->
                  IF k \in Uploads
                  THEN [pc |-> "notify", srv |-> s, file |-> f,
                        data |-> Whole(k), got |-> FileLength, end |-> "closed"]
                  ELSE FreeConn]
      /\ part = u2
      /\ upload = [u \in Uploads |->
                    [pc |-> "done", at |-> 1, name |-> f, src |-> u,
                     sent |-> FileLength]]
      /\ uploadingList = [g \in Files |-> IF g = f THEN 2 ELSE 0]
      /\ files = {f}
      /\ stops = 0
      /\ crashes = 0

\* Nothing is uploaded, and of the requests only u1 is still to come: of the two
\* failures one is over, and ended u2 before it was connected, be it the gateway
\* that went down, or a server that was stopped while u2 waited for its reply.
Begun ==
  /\ Quiet
  /\ ServerInit
  /\ stops \in {0, 1}
  /\ crashes = 1 - stops
  /\ part = IF crashes = 1 THEN NoPart ELSE u2
  /\ upload = [u \in Uploads |->
                IF u = u1 THEN IdleUpload
                ELSE [IdleUpload EXCEPT !.pc = "done", !.name = NameOf[u2]]]
  /\ uploadingList = [f \in Files |-> 0]
  /\ files = {}

FairFromEither == (Uploaded \/ Begun) /\ [][Next]_vars /\ Fairness

================================================================================
