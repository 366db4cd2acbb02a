------------------------------- MODULE Requests -------------------------------
(***************************************************************************)
(* What a client may count on when it asks a file server: the answer is    *)
(* what the server's directory said at one moment between the request and  *)
(* the answer.  A request that is refused or reset gets none.              *)
(***************************************************************************)
CONSTANTS Conns, Names, NoAnswer

VARIABLES
  store,    \* the names in the server's directory
  asked,    \* asked[c]: how far the request c is
  answer    \* answer[c]: the names the answer to c is read from

vars == <<store, asked, answer>>

Init ==
  /\ store = {}
  /\ asked = [c \in Conns |-> "idle"]
  /\ answer = [c \in Conns |-> NoAnswer]

\* A file appears in the directory; none ever leaves it.
Add(f) ==
  /\ store' = store \cup {f}
  /\ UNCHANGED <<asked, answer>>

Ask(c) ==
  /\ asked[c] = "idle"
  /\ asked' = [asked EXCEPT ![c] = "asked"]
  /\ UNCHANGED <<store, answer>>

\* The answer is determined, once, from the directory as it is now.
Determine(c) ==
  /\ asked[c] = "asked"
  /\ answer[c] = NoAnswer
  /\ answer' = [answer EXCEPT ![c] = store]
  /\ UNCHANGED <<store, asked>>

Reply(c) ==
  /\ asked[c] = "asked"
  /\ answer[c] # NoAnswer
  /\ asked' = [asked EXCEPT ![c] = "answered"]
  /\ UNCHANGED <<store, answer>>

\* The answer is determined as it is given.
DetermineAndReply(c) ==
  /\ asked[c] = "asked"
  /\ answer[c] = NoAnswer
  /\ answer' = [answer EXCEPT ![c] = store]
  /\ asked' = [asked EXCEPT ![c] = "answered"]
  /\ UNCHANGED store

\* Refused at once, or reset while no answer is determined.
Fail(C) ==
  /\ \A c \in C : asked[c] \in {"idle", "asked"} /\ answer[c] = NoAnswer
  /\ asked' = [c \in Conns |-> IF c \in C THEN "failed" ELSE asked[c]]
  /\ UNCHANGED <<store, answer>>

Next ==
  \/ \E f \in Names : Add(f)
  \/ \E c \in Conns : Ask(c) \/ Determine(c) \/ Reply(c) \/ DetermineAndReply(c)
  \/ \E C \in SUBSET Conns : Fail(C)

Spec == Init /\ [][Next]_vars

================================================================================
