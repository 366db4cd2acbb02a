------------------------------- MODULE MCServers -------------------------------
(***************************************************************************)
(* Instances of ServerFarm and of Connections for TLC.  A behaviour is one *)
(* of one of them, and the other stays as it is: they share nothing, and   *)
(* their state spaces add up.                                              *)
(***************************************************************************)
EXTENDS ServerFarm, Connections, TLC

CONSTANTS c1, c2, c3, c4, f1

\* Two uploads of a file, one download of it, and init()'s question, which stands
\* for every question that is answered from the list read at the accept.
TwoUploads ==
  (c1 :> "UPLOAD") @@ (c2 :> "UPLOAD") @@ (c3 :> "DOWNLOAD")
    @@ (c4 :> "FILE_LIST")

OneName == [c \in {c1, c2, c3, c4} |-> f1]

VARIABLE part   \* the part that takes steps

\* Every server was stopped and main() has ended: no step is due.
FarmIdle ==
  /\ queue = <<>>
  /\ run = [t \in Threads |-> Idle]
  /\ field = [s \in Servers |-> 1]
  /\ bound = [s \in Servers |-> NoSocket]
  /\ made = [s \in Servers |-> 1]
  /\ gw = AtRest("ready")
  /\ front = Front("ended")
  /\ starts = 0

\* No client has connected: no step is due.
ConnIdle == ConnInit /\ bean = BeanAt("ready")

Init ==
  \/ part = "farm" /\ FarmInit /\ ConnIdle
  \/ part = "connections" /\ ConnInit /\ FarmIdle

Next ==
  /\ UNCHANGED part
  /\ \/ part = "farm" /\ FarmNext /\ UNCHANGED connVars
     \/ part = "connections" /\ ConnNext /\ UNCHANGED farmVars

Spec ==
  /\ Init /\ [][Next]_<<farmVars, connVars, part>>
  /\ FarmFairness /\ ConnFairness

================================================================================
