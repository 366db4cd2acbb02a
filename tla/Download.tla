------------------------------- MODULE Download -------------------------------
(***************************************************************************)
(* The gateway's download(): a browser asks for a file the page lists.  The *)
(* gateway pings its servers one after another, twice each, asks the first *)
(* that answers whether it has the file, and streams the file from it into *)
(* the response.                                                           *)
(*                                                                         *)
(* All of it runs on the thread of the request until a reply is missing.   *)
(* A missing reply to a ping is retried after a delay on a thread of       *)
(* RxJava, from the first server on; the request's own thread has then     *)
(* returned, and what becomes of a late response is undefined.             *)
(***************************************************************************)
EXTENDS GatewayServer, RetryWithDelay

CONSTANT Downloads      \* the browsers' download requests

ASSUME DownloadAssumption == Downloads \cap Uploads = {}

VARIABLE download       \* download[d]: request d and its pipeline

\* The retryWhen operators of a pipeline: of the live servers, of download().
Pings == {"alive", "ping"}

Download == [pc      : {"idle", "alive", "ping", "has", "get", "stream",
                        "delay", "done"},
             at      : 1..Len(GatewayOrder),    \* the server being asked
             name    : Files \cup {NoFile},
             granted : [Pings -> Granted],
             late    : BOOLEAN,                 \* the request has returned
             size    : SUBSET (1..FileLength),  \* positions the server announced
             got     : 0..FileLength,           \* positions streamed
             body    : SUBSET Chunk]            \* what the browser received

IdleDownload ==
  [pc |-> "idle", at |-> 1, name |-> NoFile, granted |-> [p \in Pings |-> 0],
   late |-> FALSE, size |-> {}, got |-> 0, body |-> {}]

DownloadTypeOK == download \in [Downloads -> Download]

DownloadInit == download = [d \in Downloads |-> IdleDownload]

Source(d) == GatewayOrder[download[d].at]

\* The step of d that leads to pc, and nothing else.
GoesTo(d, pc) == download' = [download EXCEPT ![d].pc = pc]

DownloadUnchanged ==
  UNCHANGED <<port, dir, bytes, conn, gatewayVars>>

-------------------------------------------------------------------------------

\* The browser follows a link of the list of files.
StartDownload(d) ==
  /\ bean = "ready"
  /\ download[d].pc = "idle"
  /\ \E f \in files :
       download' = [download EXCEPT ![d].pc = "alive", ![d].name = f]
  /\ UNCHANGED <<serverVars, gatewayVars>>

\* Mutant of AskNext: after the last server the first is asked again.
AskNextAgain(d) ==
  download' = [download EXCEPT
                 ![d].pc = "alive",
                 ![d].at = IF @ < Len(GatewayOrder) THEN @ + 1 ELSE 1]

\* The server is filtered out: on to the next.  After the last one the default
\* null reaches map, which throws.
AskNext(d) ==
  IF download[d].at < Len(GatewayOrder)
  THEN download' = [download EXCEPT ![d].pc = "alive", ![d].at = @ + 1]
  ELSE GoesTo(d, "done")

\* A missing reply to a ping meets the operators of path: one of them starts
\* from the first server again, or the subscriber is told.
PingLost(d, path) ==
  \/ /\ PassedOn(download[d].granted, path)
     /\ GoesTo(d, "done")
  \/ \E i \in 1..Len(path) :
       /\ HandledAt(download[d].granted, path, i)
       /\ download' = [download EXCEPT
                         ![d].pc = "delay", ![d].at = 1, ![d].late = TRUE,
                         ![d].granted = Regranted(@, path[i])]

\* The filter of the live servers, then download()'s own, which pings again.
Ping(d) ==
  LET first == download[d].pc = "alive"
  IN  /\ download[d].pc \in Pings
      /\ \/ /\ d \notin lost
            /\ Served(Source(d))
            /\ GoesTo(d, IF first THEN "ping" ELSE "has")
         \/ d \notin lost /\ Refuses(Source(d)) /\ AskNext(d)
         \/ d \in lost /\ PingLost(d, IF first THEN <<"alive", "ping">>
                                      ELSE <<"ping">>)
      /\ lost' = lost \ {d}
      /\ DownloadUnchanged

ResumeDownload(d) ==
  /\ download[d].pc = "delay"
  /\ GoesTo(d, "alive")
  /\ UNCHANGED <<serverVars, gatewayVars>>

\* Mutant of AskHasFile: only the first server alive is asked.
AskHasFileOnce(d) ==
  /\ download[d].pc = "has"
  /\ \/ d \notin lost /\ Has(Source(d), download[d].name) /\ GoesTo(d, "get")
     \/ /\ d \in lost \/ HasNot(Source(d), download[d].name)
        /\ GoesTo(d, "done")
  /\ lost' = lost \ {d}
  /\ DownloadUnchanged

\* Ask the server whether it has the file.  A missing reply is an error below
\* the operators that retry.
AskHasFile(d) ==
  /\ download[d].pc = "has"
  /\ \/ d \notin lost /\ Has(Source(d), download[d].name) /\ GoesTo(d, "get")
     \/ d \notin lost /\ HasNot(Source(d), download[d].name) /\ AskNext(d)
     \/ d \in lost /\ GoesTo(d, "done")
  /\ lost' = lost \ {d}
  /\ DownloadUnchanged

\* Ask for the file: the server announces its size, which nobody compares with
\* what follows.  When the connection is refused nothing is sent, and the
\* download counts as successful; a late response may no longer be written to.
AskForFile(d) ==
  LET s == Source(d)
      f == download[d].name
  IN  /\ download[d].pc = "get"
      /\ \/ /\ d \notin lost
            /\ Has(s, f)
            /\ download' = [download EXCEPT ![d].pc = "stream",
                                            ![d].size = {x[1] : x \in bytes[s][f]}]
         \/ /\ d \in lost \/ HasNot(s, f) \/ (Served(s) /\ download[d].late)
            /\ GoesTo(d, "done")
      /\ lost' = lost \ {d}
      /\ DownloadUnchanged

Remaining(d) ==
  {x \in bytes[Source(d)][download[d].name] : x[1] > download[d].got}

\* The handler reads the next position of the file, as it is now, and it is
\* written to the response.  A connection that was accepted outlives its server.
StreamBytes(d) ==
  LET p == download[d].got + 1
  IN  /\ download[d].pc = "stream"
      /\ Remaining(d) # {}
      /\ download' = [download EXCEPT ![d].got = p,
                                      ![d].body = @ \cup At(Remaining(d), p)]
      /\ UNCHANGED <<serverVars, gatewayVars>>

\* End of the file, wherever that is now, whatever size was announced.
EndDownload(d) ==
  /\ download[d].pc = "stream"
  /\ Remaining(d) = {}
  /\ GoesTo(d, "done")
  /\ UNCHANGED <<serverVars, gatewayVars>>

\* The web application goes down: its downloads are gone.
DownloadsCrash ==
  download' = [d \in Downloads |->
                 IF download[d].pc \in {"idle", "done"} THEN download[d]
                 ELSE [download[d] EXCEPT !.pc = "done"]]

DownloadThread(d) ==
  \/ Ping(d)
  \/ ResumeDownload(d)
  \/ AskHasFile(d)
  \/ AskForFile(d)
  \/ StreamBytes(d)
  \/ EndDownload(d)

================================================================================
