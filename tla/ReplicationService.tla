-------------------------- MODULE ReplicationService --------------------------
(***************************************************************************)
(* The replication service.  Its thread starts a cycle every second: it    *)
(* pings the servers one after another and counts in how many file lists   *)
(* each name occurs, then, for each name that occurs less often than the   *)
(* replication amount and is not in the gateway's uploadingList, it looks  *)
(* for a server that has the file, downloads it into the service's own     *)
(* directory and uploads it to servers that do not have it.                *)
(*                                                                         *)
(* All of that runs on the thread until the first error.  An error is      *)
(* retried after a delay on a thread of RxJava, while the thread that met  *)
(* it goes on with the next file or the next cycle: cycles, and the copies *)
(* of one cycle, overlap.  A copy is identified by its cycle and its file. *)
(*                                                                         *)
(* Servers are numbered in the order the service's set is iterated.        *)
(***************************************************************************)
EXTENDS GatewayServer, RetryWithDelay

CONSTANTS
  Cycles,       \* the cycles that can overlap (bounds the model)
  NoCycle

ASSUME ReplicationAssumption == NoCycle \notin Cycles

VARIABLES
  main,         \* the cycle the service's thread is busy with
  cycle,        \* cycle[c]: the pipeline of analyzeFileHealth
  copy,         \* copy[c][f]: the pipeline of replicate for the file f
  granted,      \* granted[c]: the retries the operators of c have granted
  local         \* local[f]: what the file f of the service's directory holds

replicationVars == <<main, cycle, copy, granted, local>>

Cycle == [pc     : {"idle", "listing", "delay", "files"},
          at     : Servers,
          counts : [Files -> Nat],
          todo   : SUBSET Files,            \* entries not yet passed on
          cur    : Files \cup {NoFile}]     \* the copy its thread is busy with

IdleCycle == [pc |-> "idle", at |-> 1, counts |-> [f \in Files |-> 0],
              todo |-> {}, cur |-> NoFile]

Copy == [pc    : {"none", "search", "fetch", "fill", "spread", "send",
                  "delaySearch", "delaySpread"},
         at    : Servers,
         taken : Nat]                       \* what take() has let through

NoCopy == [pc |-> "none", at |-> 1, taken |-> 0]

\* The retryWhen operators of a cycle, by the code they guard.  "alive" is
\* part of the observable of live servers, which the scan and every copy of
\* the cycle subscribe to.
Operators == ({"alive", "lists", "entries"} \X {NoFile})
               \cup ({"has", "first", "distribute", "rest"} \X Files)

Alive == <<"alive", NoFile>>
ScanPath == <<Alive, <<"lists", NoFile>>, <<"entries", NoFile>>>>
FirstPath(f) == <<<<"first", f>>, <<"rest", f>>>>
HasPath(f) == <<<<"has", f>>>> \o FirstPath(f)
SearchPath(f) == <<Alive>> \o HasPath(f)
RestPath(f) == <<<<"rest", f>>>>
SpreadPath(f) == <<<<"distribute", f>>>> \o RestPath(f)

ReplicationTypeOK ==
  /\ main \in Cycles \cup {NoCycle}
  /\ cycle \in [Cycles -> Cycle]
  /\ copy \in [Cycles -> [Files -> Copy]]
  /\ granted \in [Cycles -> [Operators -> Granted]]
  /\ local \in [Files -> SUBSET Chunk]

ReplicationInit ==
  /\ main = NoCycle
  /\ cycle = [c \in Cycles |-> IdleCycle]
  /\ copy = [c \in Cycles |-> [f \in Files |-> NoCopy]]
  /\ granted = [c \in Cycles |-> [op \in Operators |-> 0]]
  /\ local = [f \in Files |-> {}]

-------------------------------------------------------------------------------
(* analyzeFileHealth *)

StartCycle(c) ==
  /\ main = NoCycle
  /\ cycle[c].pc = "idle"
  /\ \A f \in Files : copy[c][f].pc = "none"
  /\ main' = c
  /\ cycle' = [cycle EXCEPT ![c].pc = "listing"]
  /\ granted' = [granted EXCEPT ![c] = [op \in Operators |-> 0]]
  /\ UNCHANGED <<serverVars, gatewayVars, copy, local>>

\* The thread that runs cycle c is done with it.
Released(c) == IF main = c THEN NoCycle ELSE main

\* Mutant of ScanOn: a file one copy short of the amount is not passed on.
ScanOnShort(c, counts) ==
  /\ cycle' = IF cycle[c].at < NumberOfServers
              THEN [cycle EXCEPT ![c].at = @ + 1, ![c].counts = counts]
              ELSE [cycle EXCEPT
                      ![c].pc = "files", ![c].at = 1, ![c].counts = counts,
                      ![c].todo = {f \in Files : counts[f] \in 1..(Target - 2)}]
  /\ UNCHANGED <<main, granted>>

\* The scan goes on after the server it is at, with counts so far.
ScanOn(c, counts) ==
  /\ cycle' = IF cycle[c].at < NumberOfServers
              THEN [cycle EXCEPT ![c].at = @ + 1, ![c].counts = counts]
              ELSE [cycle EXCEPT
                      ![c].pc = "files", ![c].at = 1, ![c].counts = counts,
                      ![c].todo = {f \in Files : counts[f] \in 1..(Target - 1)}]
  /\ UNCHANGED <<main, granted>>

\* The reply to a ping is missing.  Counting starts again from the first
\* server, into the same HashMap, after a delay; or the cycle is over.
ScanError(c) ==
  /\ \/ \E i \in 1..Len(ScanPath) :
          /\ HandledAt(granted[c], ScanPath, i)
          /\ granted' = [granted EXCEPT ![c] = Regranted(@, ScanPath[i])]
          /\ cycle' = [cycle EXCEPT ![c].pc = "delay", ![c].at = 1]
     \/ /\ PassedOn(granted[c], ScanPath)
        /\ cycle' = [cycle EXCEPT ![c] = IdleCycle]
        /\ UNCHANGED granted
  /\ main' = Released(c)

\* Ping the next server and read its file list.
ListServer(c) ==
  LET s == cycle[c].at
      counted == [f \in Files |-> cycle[c].counts[f]
                                    + (IF f \in dir[s] THEN 1 ELSE 0)]
  IN  /\ cycle[c].pc = "listing"
      /\ \/ c \notin lost /\ Served(s) /\ ScanOn(c, counted)
         \/ c \notin lost /\ Refuses(s) /\ ScanOn(c, cycle[c].counts)
         \/ c \in lost /\ ScanOn(c, cycle[c].counts)    \* the list was lost
         \/ c \in lost /\ ScanError(c)                  \* the ping was lost
      /\ lost' = lost \ {c}
      /\ UNCHANGED <<port, dir, bytes, conn, gatewayVars, copy, local>>

ResumeScan(c) ==
  /\ cycle[c].pc = "delay"
  /\ cycle' = [cycle EXCEPT ![c].pc = "listing"]
  /\ UNCHANGED <<serverVars, gatewayVars, main, copy, granted, local>>

\* What getUploadingList prints; nothing when the gateway does not answer.
CurrentlyUploading(f) == bean = "ready" /\ uploadingList[f] > 0

\* The list is read anew for every entry; the request may be the first to reach
\* the bean, and waits while init() runs.
FirstToReadList(c) ==
  /\ cycle[c].pc = "files"
  /\ cycle[c].cur = NoFile
  /\ cycle[c].todo # {}
  /\ CreateBean
  /\ UNCHANGED <<serverVars, part, upload, uploadingList, files, replicationVars>>

\* The next entry that needs replication is skipped, or its copy begins.
NextFile(c) ==
  /\ cycle[c].pc = "files"
  /\ cycle[c].cur = NoFile
  /\ bean \in {"none", "ready"}
  /\ \E f \in cycle[c].todo :
       IF CurrentlyUploading(f)
       THEN /\ cycle' = [cycle EXCEPT ![c].todo = @ \ {f}]
            /\ UNCHANGED copy
       ELSE /\ cycle' = [cycle EXCEPT ![c].todo = @ \ {f}, ![c].cur = f]
            /\ copy' = [copy EXCEPT ![c][f] = [NoCopy EXCEPT !.pc = "search"]]
  /\ UNCHANGED <<serverVars, gatewayVars, main, granted, local>>

\* Mutant of EndCycle: the HashMap of counts outlives its cycle.
EndCycleCounted(c) ==
  /\ cycle[c].pc = "files"
  /\ cycle[c].cur = NoFile
  /\ cycle[c].todo = {}
  /\ cycle' = [cycle EXCEPT ![c] = [IdleCycle EXCEPT !.counts = cycle[c].counts]]
  /\ main' = Released(c)
  /\ UNCHANGED <<serverVars, gatewayVars, copy, granted, local>>

EndCycle(c) ==
  /\ cycle[c].pc = "files"
  /\ cycle[c].cur = NoFile
  /\ cycle[c].todo = {}
  /\ cycle' = [cycle EXCEPT ![c] = IdleCycle]
  /\ main' = Released(c)
  /\ UNCHANGED <<serverVars, gatewayVars, copy, granted, local>>

-------------------------------------------------------------------------------
(* replicate *)

\* Where the copy of f in cycle c is, and the server it is at.
CopyIn(c, f, pc) == copy[c][f].pc = pc
ServerOf(c, f) == copy[c][f].at
CopyLost(c, f) == <<c, f>> \in lost

\* The copy goes on at pc and server s.
CopyTo(c, f, pc, s) ==
  /\ copy' = [copy EXCEPT ![c][f].pc = pc, ![c][f].at = s]
  /\ UNCHANGED <<cycle, granted>>

\* The thread of the cycle turns to the next file, if it is busy with f.
Leave(c, f) ==
  cycle' = [cycle EXCEPT ![c].cur = IF @ = f THEN NoFile ELSE @]

EndCopy(c, f) ==
  /\ copy' = [copy EXCEPT ![c][f] = NoCopy]
  /\ Leave(c, f)
  /\ UNCHANGED granted

\* An error that meets the operators of path.  The one that grants a retry
\* starts its source again: the search, or the distribution alone.
CopyError(c, f, path) ==
  \/ /\ PassedOn(granted[c], path)
     /\ EndCopy(c, f)
  \/ \E i \in 1..Len(path) :
       /\ HandledAt(granted[c], path, i)
       /\ granted' = [granted EXCEPT ![c] = Regranted(@, path[i])]
       /\ copy' = [copy EXCEPT
                     ![c][f].pc = IF path[i][1] = "distribute"
                                  THEN "delaySpread" ELSE "delaySearch",
                     ![c][f].at = 1]
       /\ Leave(c, f)

\* The server does not have the file: on to the next; first() fails with a
\* NoSuchElementException when there is none.
SearchOn(c, f) ==
  IF ServerOf(c, f) < NumberOfServers
  THEN CopyTo(c, f, "search", ServerOf(c, f) + 1)
  ELSE CopyError(c, f, FirstPath(f))

\* Ping a server and ask it whether it has the file.
Search(c, f) ==
  LET s == ServerOf(c, f)
  IN  /\ CopyIn(c, f, "search")
      /\ \/ ~CopyLost(c, f) /\ Has(s, f) /\ CopyTo(c, f, "fetch", s)
         \/ ~CopyLost(c, f) /\ HasNot(s, f) /\ SearchOn(c, f)
         \/ CopyLost(c, f) /\ CopyError(c, f, SearchPath(f))    \* ping
         \/ CopyLost(c, f) /\ CopyError(c, f, HasPath(f))       \* has file
      /\ lost' = lost \ {<<c, f>>}
      /\ UNCHANGED <<port, dir, bytes, conn, gatewayVars, main, local>>

\* Ask for the file; receiveFile truncates the service's copy of it.
Fetch(c, f) ==
  LET s == ServerOf(c, f)
  IN  /\ CopyIn(c, f, "fetch")
      /\ \/ ~CopyLost(c, f) /\ Has(s, f) /\ CopyTo(c, f, "fill", s)
         \/ ~CopyLost(c, f) /\ HasNot(s, f) /\ SearchOn(c, f)
         \/ CopyLost(c, f) /\ CopyError(c, f, FirstPath(f))
      /\ local' = IF ~CopyLost(c, f) /\ Has(s, f) THEN [local EXCEPT ![f] = {}]
                  ELSE local
      /\ lost' = lost \ {<<c, f>>}
      /\ UNCHANGED <<port, dir, bytes, conn, gatewayVars, main>>

\* Receive what the server's file holds, whatever size it announced, then
\* subscribe to the live servers afresh.
Fill(c, f) ==
  /\ CopyIn(c, f, "fill")
  /\ local' = [local EXCEPT ![f] = Overwrite(@, bytes[ServerOf(c, f)][f])]
  /\ copy' = [copy EXCEPT ![c][f].pc = "spread", ![c][f].at = 1]
  /\ granted' = [granted EXCEPT ![c][<<"distribute", f>>] = 0]
  /\ UNCHANGED <<serverVars, gatewayVars, main, cycle>>

SpreadOn(c, f) ==
  IF ServerOf(c, f) < NumberOfServers
  THEN CopyTo(c, f, "spread", ServerOf(c, f) + 1)
  ELSE EndCopy(c, f)

\* Mutant of Spread: every live server is taken, without asking for the file.
SpreadUnasked(c, f) ==
  LET s == ServerOf(c, f)
  IN  /\ CopyIn(c, f, "spread")
      /\ \/ ~CopyLost(c, f) /\ Served(s) /\ CopyTo(c, f, "send", s)
         \/ ~CopyLost(c, f) /\ Refuses(s) /\ SpreadOn(c, f)
         \/ CopyLost(c, f) /\ CopyError(c, f, SpreadPath(f))
      /\ lost' = lost \ {<<c, f>>}
      /\ UNCHANGED <<port, dir, bytes, conn, gatewayVars, main, local>>

\* Mutant of Spread: == for !=, servers that have the file are taken.
SpreadInverted(c, f) ==
  LET s == ServerOf(c, f)
  IN  /\ CopyIn(c, f, "spread")
      /\ \/ ~CopyLost(c, f) /\ Has(s, f) /\ CopyTo(c, f, "send", s)
         \/ ~CopyLost(c, f) /\ HasNot(s, f) /\ SpreadOn(c, f)
         \/ CopyLost(c, f) /\ CopyError(c, f, SpreadPath(f))
         \/ CopyLost(c, f) /\ CopyError(c, f, RestPath(f))
      /\ lost' = lost \ {<<c, f>>}
      /\ UNCHANGED <<port, dir, bytes, conn, gatewayVars, main, local>>

\* Ping a server and ask it whether it lacks the file.
Spread(c, f) ==
  LET s == ServerOf(c, f)
  IN  /\ CopyIn(c, f, "spread")
      /\ \/ /\ ~CopyLost(c, f)
            /\ Served(s)
            /\ IF f \in dir[s] THEN SpreadOn(c, f) ELSE CopyTo(c, f, "send", s)
         \/ ~CopyLost(c, f) /\ Refuses(s) /\ SpreadOn(c, f)
         \/ CopyLost(c, f) /\ CopyError(c, f, SpreadPath(f))    \* ping
         \/ CopyLost(c, f) /\ CopyError(c, f, RestPath(f))      \* has file
      /\ lost' = lost \ {<<c, f>>}
      /\ UNCHANGED <<port, dir, bytes, conn, gatewayVars, main, local>>

\* Upload the service's copy to the server and go on; take() ends the pipeline
\* when it has let enough servers through, whether their uploads worked or not.
Send(c, f) ==
  LET s == ServerOf(c, f)
      taken == copy[c][f].taken + 1
  IN  /\ CopyIn(c, f, "send")
      /\ \/ /\ ~Refuses(s)
            /\ \E k \in CopyConns :
                 /\ conn[k].pc = "free"
                 /\ conn' = [conn EXCEPT
                               ![k] = NewConn(s, f, local[f], "closed")]
         \/ /\ Refuses(s)
            /\ UNCHANGED conn
      /\ IF taken = Target \/ s = NumberOfServers
         THEN EndCopy(c, f)
         ELSE /\ copy' = [copy EXCEPT ![c][f].pc = "spread", ![c][f].at = s + 1,
                                      ![c][f].taken = taken]
              /\ UNCHANGED <<cycle, granted>>
      /\ UNCHANGED <<port, dir, bytes, lost, gatewayVars, main, local>>

ResumeCopy(c, f) ==
  /\ \/ CopyIn(c, f, "delaySearch") /\ CopyTo(c, f, "search", 1)
     \/ CopyIn(c, f, "delaySpread") /\ CopyTo(c, f, "spread", 1)
  /\ UNCHANGED <<serverVars, gatewayVars, main, local>>

CycleThread(c) ==
  \/ ListServer(c)
  \/ ResumeScan(c)
  \/ FirstToReadList(c)
  \/ NextFile(c)
  \/ EndCycle(c)

CopyThread(c, f) ==
  \/ Search(c, f)
  \/ Fetch(c, f)
  \/ Fill(c, f)
  \/ Spread(c, f)
  \/ Send(c, f)
  \/ ResumeCopy(c, f)

================================================================================
