------------------------------- MODULE Placement -------------------------------
(***************************************************************************)
(* What the system promises about the files on its servers, without        *)
(* threads, connections, cycles or failures.                               *)
(*                                                                         *)
(* A request names a file, and may reach one server with a Part to store   *)
(* under that name.  From then on the file may arrive at that server, and, *)
(* once some server has it, at any other; an arrival truncates the file.   *)
(* Only bytes of Parts sent under its name are ever written to it.  A      *)
(* server that one request alone sent the file to is the first to have it, *)
(* and the file never arrives there again.                                 *)
(***************************************************************************)
EXTENDS Protocol

VARIABLES
  request,  \* request[u]: the file it names, and the server and Part it sent
  dir,      \* dir[s]: the files on server s
  bytes     \* bytes[s][f]: what the file f of s holds

placement == <<request, dir, bytes>>

NoServer == 0

NoRequest == [name |-> NoFile, srv |-> NoServer, part |-> NoPart]

Init ==
  /\ request = [u \in Uploads |-> NoRequest]
  /\ dir = [s \in Servers |-> {}]
  /\ bytes = [s \in Servers |-> [f \in Files |-> {}]]

\* The requests that reached a server with a file of this name.
Senders(f) ==
  {u \in Uploads : request[u].name = f /\ request[u].srv # NoServer}

SentAs(f) == {x \in Chunk : \E u \in Senders(f) : request[u].part = x[2]}

\* u reached s with the file, and no other request names it.
SoleSender(u, s, f) ==
  /\ u \in Senders(f)
  /\ request[u].srv = s
  /\ \A v \in Uploads \ {u} : request[v].name # f

Name(u, f) ==
  /\ request[u] = NoRequest
  /\ request' = [request EXCEPT ![u].name = f]
  /\ UNCHANGED <<dir, bytes>>

Send(u, s, p) ==
  /\ request[u].name # NoFile
  /\ request[u].srv = NoServer
  /\ request' = [request EXCEPT
                   ![u] = [name |-> @.name, srv |-> s, part |-> p]]
  /\ UNCHANGED <<dir, bytes>>

\* The file is created on s, or truncated there.
Arrive(s, f) ==
  /\ \/ \E u \in Senders(f) : request[u].srv = s
     \/ \E t \in Servers : f \in dir[t]
  /\ f \in dir[s] => ~\E u \in Uploads : SoleSender(u, s, f)
  /\ dir' = [dir EXCEPT ![s] = @ \cup {f}]
  /\ bytes' = [bytes EXCEPT ![s][f] = {}]
  /\ UNCHANGED request

\* Bytes at one position of the file are written, over what was there.
Write(s, f) ==
  /\ f \in dir[s]
  /\ \E p \in 1..FileLength : \E new \in SUBSET At(SentAs(f), p) :
       bytes' = [bytes EXCEPT ![s][f] = Overwrite(@, new)]
  /\ UNCHANGED <<request, dir>>

Next ==
  \/ \E u \in Uploads, f \in Files : Name(u, f)
  \/ \E u, p \in Uploads, s \in Servers : Send(u, s, p)
  \/ \E s \in Servers, f \in Files : Arrive(s, f) \/ Write(s, f)

Spec == Init /\ [][Next]_placement

================================================================================
