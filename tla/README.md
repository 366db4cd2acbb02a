# Verification of the file synchronisation project

TLA+ models of the gateway, the file servers, their farm and the replication
service in `src/java/advanos`, and of the scripts of the web pages; TLC
configurations that check them on small instances; and proofs of what holds for
every instance.

## 1. The system

| Part | Source | State | Operations |
|---|---|---|---|
| Gateway | `gateway/GatewayServer.java`, `web/*.xhtml` | `file` (Part selected last), `files` (offered), `uploadingList`, `servers`; upload threads and downloads | `setFile`, `upload`, `download`, `registerServer`, `uploadingFinished`, `getUploadingList`, `init` |
| File server | `server/FileServer.java`, `FileServerHandleConnection.java`, `FileServerInfo.java` | listening socket, directory on disk, two handler threads | `run` (bind, register, accept), `stop`; PING, FILE_LIST, HAS_FILE, DOWNLOAD, UPLOAD |
| Server farm | `server/ServerFarm.java`, `ServerController.java`, `web/server.xhtml` | a pool of one thread per server, its queue | `start`, `stop`, `close`, from the page or the console |
| Replication service | `replication/ReplicationService.java`, `observers/AliveServersObserver.java` | own directory, RxJava pipelines in progress | one cycle a second: `analyzeFileHealth`, `replicate` |
| Retry handler | `observers/RetryWithDelay.java` | `retryCount` per operator | grants a delayed resubscription or passes the error on |
| Protocol | `Protocol.java` | none | wire helpers, `uploadFile`, `receiveFile`, `sendRequestedFile`, `computeReplicationAmount` |
| Browser scripts | `web/resources/js/bootstrap.js` | classes of page elements, one object per widget | handlers of clicks, keys, the pointer, scrolling, timers and transition ends |

How they interact. A browser's request sets the bean's field `file` and calls
`upload()`. That starts a thread, which pings servers until one answers, opens
an UPLOAD connection to it, adds the name to `uploadingList`, streams the bytes
and adds the name to `files`. The server's handler writes the file and calls
`uploadingfinish.xhtml`, which removes the name from `uploadingList`. Every
second the replication service counts in how many file lists each name occurs.
For each name below two thirds of the servers and not in `uploadingList` it
downloads the file from a server that has it and uploads it to servers that
have not. A link in the list of files calls `download()`, which looks for a
server that is up and has the file and streams it into the response. A server
that starts calls `register.xhtml`, and the gateway fetches its file list. The
scripts run in the browser and share nothing with the rest.

What is hard here:

- *Shared field.* One application-scoped bean serves all requests, and each
  upload thread reads `file` again long after `upload()` took the name from it.
- *Check, then act.* Lists, pings and HAS_FILE answers are used long after they
  were read, by cycles that overlap with each other, with uploads, with downloads
  and with servers stopping.
- *Order of announcements.* The server creates a file before the gateway lists
  it; the gateway offers it before the server has stored it.
- *Retries.* Nested `retryWhen` operators resubscribe each other's sources, on
  other threads, with one mutable count map behind them.
- *Failures.* A stopped server resets the connections in its backlog; a web
  application that goes down loses all lists and threads; truncated transfers
  look complete.
- *Waiting in a circle.* A server accepts connections after the gateway has
  answered its registration; the gateway's bean, created by that very request,
  first asks every server for its file list. The handlers that receive uploads
  call that gateway from a pool of two threads, which are the ones to answer it.
  No read has a timeout.
- *Overlapping runs.* Stop and start of a server work on one field that several
  runs may share, on a pool that counts its threads.
- *Transitions.* Every widget changes state at the end of a CSS transition, which
  the browser or a timer announces, while clicks go on.

What makes each part correct. Gateway: bytes stored under a name are the Part
selected under it, `uploadingList` is exactly the uploads in progress, `files`
exactly what can be downloaded, a download brings the file. File server: every
accepted connection is answered, truly, and what is stored was sent. Farm: the
socket `stop()` closes is the open one, a bound port is served, a start is
carried out. Replication: a file on a running server reaches the replication
amount in spite of failures; copying never damages the original; every pipeline
ends. Scripts: between transitions a widget is in one of its states, whatever was
clicked meanwhile. The runs and findings below say which of these hold.

## 2. Modules

| Module | Models |
|---|---|
| `Protocol` | number of servers, replication amount, file names, the bytes of a file as a set of chunks `<<position, request>>` |
| `RetryWithDelay` | the grant counts of a pipeline's `retryWhen` operators and which operator handles an error |
| `FileServer` | each server's port and the run behind it, directories and contents, the UPLOAD connections from backlog to notification, the pool's threads |
| `GatewayServer` (extends `FileServer`) | requests, upload threads, the two lists, the bean and its `init()`, registration, crash and restart |
| `ReplicationService` (extends `GatewayServer`, `RetryWithDelay`) | cycles, copies, retries, the service's own directory |
| `Download` (extends `GatewayServer`, `RetryWithDelay`) | downloads, from the link to the last byte |
| `SyncSystem` (extends `ReplicationService`, `Download`) | the composition: steps by thread, environment, fairness, all properties |
| `Placement` | abstract: what may happen to the files on the servers, with no threads, connections or failures |
| `ServerFarm` | the farm's pool, `run()` step by step, `init()` and the registrations, the pool of the server that `init()` asks, the operator |
| `Connections` | one server's backlog, accept loop, pool of handlers and every command, with the notifications that wait for the gateway's `init()` |
| `Requests` | abstract: a request is answered by what the directory was at one moment after it |
| `Browser`, `Transition` | whether the browser has CSS transitions; the end of one, by event or timer |
| `Collapse`, `Carousel`, `Tooltip`, `Dropdown`, `ScrollSpy`, `Button`, `Affix` | one widget each |
| `MCSyncSystem`, `MCServers`, `MCPages` | instances for TLC |
| `SyncSystem_proofs`, `Lists_proofs`, `Download_proofs`, `Placement_proofs`, `ServerFarm_proofs`, `Connections_proofs` | proofs about the servers, the gateway and the service |
| `Pages_proofs`, `Transitions_proofs` (extend `MCPages`) | proofs about the widgets: those that change at once, those that move |

`ServerFarm` and `Connections` have in detail what `FileServer` and
`GatewayServer` take as a step: a run of a server with its socket and its field,
and a question with the backlog, the queue and the thread it goes through.
`MCServers` (of `ServerFarm` and `Connections`) and `MCPages` (of the widgets) put
modules that share no state into one instance: a behaviour is one of a single
module, so the state spaces add up rather than multiply.

Operators whose comment begins with "Mutant of" are wrong variants of the
operator that follows them. No specification uses them; substituting one shows
that a property can fail.

### Correspondence with the code

`upload[u]` is request `u` with the thread it starts:

| Action | Code |
|---|---|
| `SelectFile`, `StartUpload` | JSF's `setFile`, then `upload()` to `subscribeOn` |
| `Probe` | the ping filter, one server a step; a missing reply is a NullPointerException that nobody handles, and the thread ends |
| `Connect` | `getSocket`, `file.getInputStream()`, command, name and size |
| `Announce` | `uploadingList.add` |
| `SendBytes`, `FinishTransfer`, `AbortTransfer` | `transferBytes`; its return and `files.add`; its exception |
| `CloseConnection` | the end of try-with-resources |

`conn[k]` is an UPLOAD connection, `k` the request that opened it, or a slot in
`CopyConns` when the replication service did. `Accept` is the accept loop,
`OpenFile`, `WriteBytes`, `EndOfStream` are `receiveFile`, `HeaderLost` a client
that died first, `UploadingFinished` the call to the gateway with what it does
there. A connection from `OpenFile` to the end of that call holds a thread of its
server's pool (`Handled`, `FreeThread`).

`port[s]` is what a client finds at server `s`: closed, served by a run in its
accept loop, held by a run whose registration waits for the gateway, or left open
by a run that has ended. `bean` is the gateway's application: none (down, or a
404), fresh, in `init()`, or ready. The first request to reach a fresh gateway
creates the bean: a browser's (`BrowserVisits`), a handler's notification
(`FirstNotified`), the service's read of the uploading list (`FirstToReadList`) or
a server's registration (`StartServer`). `init()` is `CreateBean`, a
`FetchFileList` for every server, and `InitReturns`; until then every request
waits. `StartServer` opens the port whatever the gateway does: a gateway that
refuses the registration leaves the port open and nobody behind it, as
`GatewayCrash` does with the registrations it breaks off.

`cycle[c]` is the pipeline of `analyzeFileHealth` in one turn of the service's
loop, `copy[c][f]` the pipeline of `replicate` for file `f`, `granted[c]` the
counts of the RetryWithDelay objects of that turn. `main` is the cycle the
service's own thread is still in. An error sends the pipeline to a timer thread,
and the thread that met it goes on, so `main` is released and the next cycle may
start: `Released` and `Leave`. `ListServer`, `Search`, `Fetch`, `Fill`,
`Spread`, `Send` are one request to one server each, with the replies of the
code and the loss of the reply. The file list is applied to the counts in the
step that reads it, which is safe because nobody else sees the counts.

`download[d]` is a request for a file with its pipeline. `Ping` is the filter of
`AliveServersObserver` and then `download()`'s own; a missing reply to either
meets that filter's `retryWhen` (`PingLost`), which starts from the first server
on a timer's thread after the request has returned (`late`). `AskHasFile` is
`firstOrDefault`'s predicate, `AskForFile`, `StreamBytes`, `EndDownload` are
`map`. A size is announced and the bytes follow; nobody compares them.

`run[t]` is what thread `t` of the farm's pool does: `TakeRun`, `Bind`,
`AssignField` (the two halves of `server = new ServerSocket(port)`), `Register`
and `Registered` (the HTTP request and its answer), `EnterAccept` (the field is
read), `AcceptClient`, `AcceptInit`, `AcceptFails`. Sockets of a server are
numbered as they are created; `bound[s]` is the one that is open, `field[s]` the
one in the field. `gw` is the gateway as the servers see it: down, answering 404,
not yet asked, in `init()`, or ready. `front` is the operator: the page, whose
bean closes the farm when it is destroyed, or the console, which prints a status
line before every command.

In `Connections`, `conn[c]` goes from the backlog (`ConnectTo`) by `AcceptNext`,
which reads the list of files, to the queue of the pool, by `Handle` to a
thread, and by `Answer`, `BeginUpload`, `BeginDownload`, `ClientEnds` and
`HandlerEnds` to its answer. An upload's handler first notifies the gateway
(`Notify`), which answers at once, or is down, or holds the request back until
`init()` ends or the program does (`Release`). That `init()` asks this server on a
connection of its own (`InitConns`), which waits behind the others. In
`ServerFarm`, `AcceptInit` hands `init()`'s connection to the server's pool, of
which transfers and notifications may hold any number of threads then and later
(`BeginTransfer`, `EndTransfer`), and `AnswerInit` needs a free one.

The scripts' handlers are one action each, since a browser runs them one at a
time, to their end. Where a widget arms a callback for the end of a transition,
the callback waits in a sequence (`panelEnds`, `slideEnds`, `tip.ends`), and one
action runs the sequence in order, at some later moment; without transitions
(`support` is FALSE) the callback runs within the handler. That a callback armed
by `one().emulateTransitionEnd()` runs, once, and with all others armed on the
element by then, is what `Transition` shows of the two functions that do it.

| Module | Actions and code (`bootstrap.js`) |
|---|---|
| `Collapse` | `ClickPanel`: the data-api's click, `toggle`, `show`, `hide` and the constructor (548-741); `PanelTransitionEnd`: their `complete` |
| `Carousel` | `Control`: `next`, `prev`; `Indicator`: `to`; `MouseEnter`, `MouseLeave`: `pause(e)`, `cycle(e)`; `Call`: `pause()`, `cycle()` by a script or a control; `Tick`: the interval; `SlideEnd`, `Slid`: the callback of `slide` and its timer of 0 ms (310-529) |
| `Tooltip` | `Enter`, `Leave`, `Toggle`: `enter`, `leave`, `toggle`; `TipTimer`: the delays; `TipTransitionEnd`: `complete` of `show` and `hide` (1265-1589, 1699-1713) |
| `Dropdown` | `ClickToggle`, `ClickAway`, `KeyDown`: `toggle`, `clearMenus`, `keydown` (760-907) |
| `ScrollSpy` | `Scroll`: `process`, with `refresh`, `activate`, `clear`; `Relayout`: the page changes (1888-2002) |
| `Button` | `ClickLabel`, `ClickInput`: `toggle`; `SetState`, `StateTimer`: `setState` (189-287) |
| `Affix` | `ScrollPage`, `ClickPage`, `CheckTimer`: `checkPosition`, `getState` (2217-2314) |

External behaviour is taken from its use: RxJava (`retryWhen` resubscribes the
source after a timer; `reduce` with a seed object goes on with that same object
after a resubscription; `first` fails when no element passes; `take` unsubscribes
after the last element), TCP (a backlog is served by the kernel until `accept`;
closing the listening socket resets it, and leaves accepted connections alone),
the servlet container (it creates an application-scoped bean once, and requests
wait for that), jQuery and the browser (handlers bound with `one` are unbound as
they run, a transition that is cancelled sends no event, timers of 0 ms are not
overtaken by an interval or the end of a transition).

### Abstractions

- In `SyncSystem`, PING, FILE_LIST, HAS_FILE and DOWNLOAD take effect when the
  server accepts the connection, which is when it reads its directory; the client
  does nothing else while it waits. `Connections` with `ImplementsRequests` is why:
  each answer is one the directory gave between request and answer. While nobody
  accepts at the server the step is impossible, and while the pool has no free
  thread the client is not forced to take it (`MayWait`): for safety that is more
  behaviours than the program has, and a liveness property never relies on an
  answer that a full pool would withhold. In the same way a client waiting in the
  queue of a pool when the server stops need not go on until a thread is free. If
  the server stops first, the client is put in `lost` and finds a reset. `lost` is
  a subset chosen freely of the clients that may have been waiting in the backlog.
- In `SyncSystem` only uploads hold threads of a server's pool: every stream of a
  download or an upload there ends. Clients that stall for ever are in `ServerFarm`
  and `Connections`. `init()` asks the servers in any order, where the code has
  one, with all of the questions pending at once; `ServerFarm` has one at a time.
- The bytes of a download into the service's directory (`Fill`) and out of it
  (`Send`) go in one step each.
- A file is `FileLength` chunks. Holes left by overlapping writers count as
  absent bytes. Contents matter only by position and by the request they came
  from. The size a DOWNLOAD announces is the set of positions present.
- The service's set of servers is iterated in the order in which the model
  numbers them; the gateway iterates its own set in `GatewayOrder`.
- In `SyncSystem` a server has one run at a time; `ServerFarm` has the runs that
  overlap. The servers' farm and the gateway are programs of their own there: the
  web application that goes down does not close the servers.
- The set `servers` of the gateway is constant: `servers.add` of a registered
  address, which is one `init()` has put there, changes nothing.
- The carousel's interval does not fire before the timer of 0 ms that triggers
  `slid`: browsers do not promise that order for an interval of next to nothing,
  and with the default of 5000 ms it is what happens.
- `Part.getInputStream` does not fail, disks do not fill, and a server's
  directory is empty at first. A late response of a download is written to or not.
- Geometry in the scripts is integers, and is left out where only an order or a
  comparison matters. Elements with an affix have a bottom offset and fit the
  page, also while they are fixed at their top offset, unless the page cannot be
  scrolled that far (`PlacesAssumption`: the offsets do not cross); sections of a
  page are finitely many, of different tops (`LayoutsAssumption`).

## 3. Runs

Bounds common to the runs of `MCSyncSystem`: three servers, so the replication
amount is 2 and there is one server more than needed; `MaxRetries` 2, so every
operator can both grant a retry and be exhausted; one copy connection at a time,
in `CopyConns` (two make the runs with stops several times as large, and the
safety properties about copies are proved for any number). Pools have
two threads, as in the code. Each other bound is as
small as the question allows, and as large as five minutes allow. A copy runs out
of retries in `failures` when the only holder of its file stays down. A whole
scan does so only after four lost pings in one cycle, which one stop cannot
cause: that branch of `ScanError` is covered by the proofs of safety, not by a
run.

| Run | Instance | Checks | Shows |
|---|---|---|---|
| `server_stops` | 1 upload, 2 cycles, 1 stop, slots symmetric | `OriginNotTargeted`, `OriginKept`, `ImplementsPlacement` | stale answers and overlapping cycles may overwrite a replica, never the server the upload went to; the system implements `Placement` |
| `two_uploads` | 2 uploads of 2 names, no failure, fair | `ListedIsUploading`, `CountsAreReferences`, `ContentIsUploaded`, `OfferedIsReplicated` | without failures the lists and counts are safe to act on, and replication gets there; even when the field is raced for, bytes under a name were streamed as that name |
| `failures` | 2 starting points: 1 upload, 1 cycle and one more failure; or 2 uploads of one name that only have to be notified, 1 cycle, a stop and a crash of the gateway; servers in the opposite order, fair | `ReadyIsServed`, `ConnectionsEnd`, `PipelinesEnd`, `ReplicatedDespiteFailures` | below |
| `downloads` | 1 upload, 1 cycle, 1 download, 1 stop | `TypeOK`, `FromOriginIsWhole` | a download overlaps an upload, a copy and a stop; from the server of the upload it is never cut short |
| `downloads_end` | 1 upload, 1 download, 2 stops, no cycle, fair | `DownloadsEnd`, `DownloadServed` | a download's retries are bounded; the search for a server passes over those that are down or lack the file |
| `servers` | farm: 2 servers, 2 threads, 2 further starts, stops at will, page or console, the gateway in every state, pools of 2 handlers; connections: 2 uploads and a DOWNLOAD of one name, one question of `init()`, a pool of 2, 1 stop, the gateway down and up; fair | `FarmInv`, `KeepsItsRun`, `InitAsksItsCaller`, `InitEnds`, `StartTaken`, `CloseEnds`; `ConnInv`, `ImplementsRequests`, `AcceptedIsAnswered` | below |
| `pages` | an element armed 3 times; 3 panels; 3 items and 4 clicks; a tip with all triggers; 2 menus of 2 items; 5 layouts; 2 buttons; 128 places of an affixed element | `PagesTypeOK` and one or two properties a widget | below |

What `failures` shows. The gateway goes down and a server is stopped while files
are uploaded, copied and notified, and each comes back at any moment, or not. A
handler whose client died ends (`ConnectionsEnd`), cycles and copies end
(`PipelinesEnd`), and what a running server holds is replicated
(`ReplicatedDespiteFailures`), a later cycle making up for a miscount or a failed
copy, unless somebody waits for ever, and the properties name for what. One is a
port with nobody behind it: a server started while the gateway is down, or
registering when it goes down, leaves one, and a ping, a copy or a connection
there waits until the server is stopped. The other is `init()` (`InitHangs`): it
asks such a port, or a server all of whose pool notifies the gateway. TLC reaches
both: with two uploads and a pool of two, both handlers notify the restarted
gateway, the first creates its bean, `init()` asks their server, and everyone
waits. `ReadyIsServed` is the other side: a gateway that got through `init()` has
no port left open behind it. A whole upload, a cycle, a stop and a crash do not
fit five minutes together, hence two starting points: `Begun`, where one of the
two failures has happened and cost the other request its thread, and `Uploaded`,
where both failures are to come and the two uploads are over but for their
notifications, which fill the pool. Both are states the system gets to.

What `servers` shows of the farm. The socket open on a port is the one in the field, which
`stop()` closes, or a run is about to put it there (`FarmInv`), however many runs
of a server overlap; a port that is bound loses the thread that serves it only to
a gateway that is down (`KeepsItsRun`). `InitAsksItsCaller` and `InitEnds` say
exactly how the first registration and `init()` wait for each other: when the
first request to a fresh gateway is a server's registration, `init()` cannot
return until that server is stopped, or an older run of it accepts on the new
socket. Two other things keep it from ending: a port bound by a run that a refused
registration ended, and a pool all of whose threads wait for clients that never
end or, with the notifications of finished uploads, for `init()` itself
(`HungInPool`). A queued start is carried out unless a server has two
runs or the run of a stopped one is held by a hung gateway (`StartTaken`), and
closing a settled farm closes everything (`CloseEnds`). Two servers are the least
where one waits for the gateway while another is asked, and where the pool's
threads can be used up; two starts give a server two overlapping runs.

What it shows of the connections. Answers are true at some moment after the
question although they come from a list read at the accept
(`ImplementsRequests`), and every accepted connection is answered, also after
`stop()`, unless every thread of the pool waits for ever, for its client or for
the gateway (`AcceptedIsAnswered`): with a pool of 2, two stalled uploads are
enough, or two that are through and notify a gateway whose `init()` is in the
queue behind them.

What `pages` shows. Callbacks of transitions run once and are not lost; panels and
triggers agree, and an accordion has one panel open (`CollapseAgrees`,
`AccordionExclusive`); a carousel has one active item and no timer but
the one it can stop, and an indicator clicked in mid slide is obeyed (`OneActive`, `ToReached`); a tip does
not stay behind (`NeverLingers`); one menu is open (`OneMenu`); the spy shows the
section at the top (`SpyHighlights`); buttons show what their inputs hold and get
their text back (`PressedIsChecked`, `ResetRestores`); an affixed element is where
it belongs after the second event at a position (`SecondEventPlaces`). Three
panels are the least where a group has a first active panel, another one and one
that is clicked; three items the least where next and previous differ; four clicks
let two indicators wait while a slide is under way and another begins.

Deadlock is checked in every run of `MCSyncSystem` in which the service runs and
nothing can hold it: its loop never ends. In `downloads_end` there is no service,
in `failures` it may wait for ever at a port that nobody serves or for `init()`, in
`servers` all servers may be stopped, and in `pages` a page may be left as it is:
these may come to rest. Two uploads of one name that are both under way meet in no
run; the properties of safety about them are proved for any number (section 4).

Five runs end in a violation of what a comment in the code says:

| Run | Comment | What happens |
|---|---|---|
| `doc_not_uploading` | `ReplicationService.java:166` "not currently uploading" | the server has created the file, the gateway has not listed it yet: an empty file is counted and copied during the upload |
| `doc_uploading_list` | `GatewayServer.java:213` "Retrieves a list of file currently uploading." | the server is stopped with the upload in its backlog: nobody ever removes the entry |
| `doc_files` | `GatewayServer.java:239` "Gets all files that can be downloaded." | same stop: the name is offered, and no server ever stores the file |
| `doc_selected_file` | `GatewayServer.java:160` "Uploads the selected file to 2/3 of servers." | another request selects its file between the name and the stream: its bytes are stored under the first name |
| `doc_remaining` | `ReplicationService.java:247` "Determine how many remaining servers are needed to replicate, and take that many" | line 248 takes the whole replication amount: a file that one server has is sent to two more, where one would do |

Fairness. `SyncSystem!FairSpec`: weak fairness for each thread. A runnable Java
thread is scheduled, a kernel delivers an accepted connection, a timer fires.
Nothing is assumed of users and operators: they may never upload, download, stop,
start or crash. A thread that may wait for a server (`MayWait`: nobody accepts
there, or its pool has no free thread) is not forced on, nor is the gateway's
question to a server with a full pool. `ReplicatedDespiteFailures` excludes by its own wording the two
conditions in which the code can do nothing: no running holder again and again,
or a name listed as uploading again and again. `FarmFairness`: weak fairness for
the pool's threads, `init()` and `close()`, and strong fairness for accepting the
connection of `init()` and for answering it, since a socket's backlog and a pool's
queue are served in order, and the connections of other clients, which disable
those steps for a time each, are finitely many before it; a client's transfer need
not end. `ConnFairness`: the accept loop, the pool and the
handlers; a client need never send or take its last byte, and `init()` need not
return, since another server may keep it. In the scripts only
timers are fair: those that emulate the end of a transition, and the one of
`slid`; the browser need not send an event, nor the user click.

What does not hold, and no line promises, is not stated as a property: the
uploading list may lack an upload in progress (a replicator's upload of the same
name removes one entry), a count may exceed the references after a retried scan,
a copy may be cut short by another cycle that fetches the same file, a download from a replica
may be cut short, and a tip may be out although the pointer is on its element.

## 4. Proofs

The proofs hold for every number of servers, requests, downloads, names, chunks,
cycles, connection slots, retries, starts, stops and crashes, and any gateway
order, that satisfy the named assumptions of the modules.

`SyncSystem_proofs`:

- `TypeInvariance`: `Spec => []TypeInv`. The types alone are not inductive:
  `SendBytes` counts to `FileLength` and stores chunks of `upload[u].src`,
  `Announce` indexes the list with `upload[u].name`. `TypeInv` adds `UploadOK`,
  which ties a thread's program counter to its name, its Part and what its
  connection holds.
- `ContentCorrect`: `Spec => []ContentIsUploaded`. The argument: once a thread
  has its Part, name and Part never change (`Settled`), and every step moves bytes
  only between places of one name (`ContentMoves`): connection to server, server
  to the service, service to connection, and request to connection.
- `OriginNotTargetedCorrect`: `Spec => []OriginNotTargeted`. The property is not
  inductive: a copy that is about to be sent must also be aimed elsewhere, and that
  depends on who had the file first. `OriginInv` adds that stored files were
  uploaded, that opened connections have created their file, that a copy in
  progress has a holder, and that the server a file's only upload reached is its
  first holder. `OriginMoves` says what a step may do to directories, connections
  and copies; every step but `OpenFile` is shown to be such a move, and
  `OpenFileKeepsOrigin` treats that one.
- `OriginKeptCorrect`: `Spec => OriginKept`. Bytes change only in `OpenFile` and
  `WriteBytes` (`BytesChange`). By `OriginInv` the connection at the origin is the
  upload's own; it cannot open the file again, and what it still writes is already
  there (`OverwriteWhole`).

- `ReadyIsServedCorrect`: `Spec => []ReadyIsServed`. What must be added is that a
  port left open while `init()` runs is still to be asked (`ServedInv`): ports are
  left only when the gateway is down, the bean is created with all servers to ask,
  and `FetchFileList` is through only with a port that is served or closed.

`Download_proofs`:

- `TypeCorrect`: `Spec => []TypeOK`, the types of `SyncSystem_proofs` with those
  of downloads.
- `DownloadIsUploadedCorrect`: what a browser received is of Parts sent under the
  name, by `ContentIsUploaded` at the server it is read from.
- `FromOriginIsWholeCorrect`: `Spec => []FromOriginIsWhole`. Positions at the
  origin only grow once the file is there, since no connection but the upload's
  own is ever aimed at it and that one has opened the file already.

`Placement_proofs`: `PlacementImplemented`, `Spec => ImplementsPlacement`, by the
refinement mapping `RequestOf`. Steps that change no file and send no request are
stutters; `StartUpload` is `Name`, `Connect` is `Send`, `OpenFile` is `Arrive`
and `WriteBytes` is `Write`. The guard of `Arrive`, that a sole sender's server
does not get the file twice, is what `OriginInv` gives; the bytes of `Write` are
those of `ContentIsUploaded`.

`ServerFarm_proofs`: `FarmInvariance` (`FarmSpec => []FarmInv`),
`StopReachesCorrect` and `KeepsItsRunCorrect`. `StopReaches` is not inductive:
two runs of one server could be about to assign different sockets, and a socket
could be reused. `SocketsInOrder` says that only a server's newest socket can be
open and only one run is about to assign it; with it, a step of `Bind` or
`AssignField` cannot separate field and socket.

`Connections_proofs`: `ConnInvariance` (`ConnSpec => []ConnInv`) and
`RequestsImplemented` (`ConnSpec => ImplementsRequests`). The inductive invariant
`Inv` says of each queue that the connections at its place are in it once, and
`Listed` that a connection has a list exactly from its accept on. A step moves one
connection (`Moves`), except `StopServer`, which resets the backlog, and
`Release`, which lets all handlers go on that wait for the gateway (`Released`). Under the
mapping `Seen`, `SeenAnswer`, `AcceptNext` determines the answer of every command
but DOWNLOAD, which `BeginDownload` determines and answers at once; `Handle`,
`ClientEnds`, `Notify`, `StartServer` and the gateway's steps are stutters; `BeginUpload` is `Add`; refusals and
`StopServer` are `Fail`, possible since nothing is determined before the accept.
The proof assumes a finite set of connections and that "no list read" is not a
list.

`InitAsksItsCallerCorrect` (`FarmSpec => InitAsksItsCaller`) adds `CallerInv` to
that: while `init()` runs for a server's registration, the run that sent it is
registering, and it was asked already, is being asked on its own socket, has lost
that socket, or another run of the server can answer for it.

`Lists_proofs`: `ListedIsUploadingCorrect` and `CountsAreReferencesCorrect`. The
two properties hold until a server is stopped, which is how they are stated:
`[](stops = 0 => ...)`, with the gateway free to go down and come up, which the
run `two_uploads` has not. For the list, `EntriesInv` counts the entries of a name
against the announced uploads that their server is still to report, and
`ThreadInv` says that threads die with the bean, and that a thread about to
announce has a connection that is served; each `UploadingFinished` removes one
entry and one such upload. For the counts, `CountInv` says that a scan has counted
only servers it has passed that hold the file, since holders do not go away and no
reply is lost. Both need that requests are finitely many (`UploadsAssumption`).

`Pages_proofs` and `Transitions_proofs` prove every invariant of the run `pages`,
and the action properties `SpyHighlights` and `ResetRestores`, for any number of
armings, panels, items, clicks, triggers, menus, buttons, layouts and places. A
page's step is one widget's (`PageSteps`), so that each widget has an inductive
invariant of its own, checked by TLC on the instance of `pages` before it was
proved:

| Widget | Inductive invariant | What it adds |
|---|---|---|
| an element's transition | `TransitionInv` | types; `RunsOnce` is inductive with them |
| `Dropdown` | `DropdownInv` | `open` is empty or one menu, `expanded` is `open`, and a backdrop needs an open menu |
| `Button` | `ButtonInv` | the text to reset to is saved while a timer runs and while another one is shown; a button is disabled exactly while it is loading |
| `Affix` | `AffixInv` | what each class says of the position of the last event, whatever the state was before |
| `ScrollSpy` | `SpyTypeOK` | enough, since `process()` finds its section anew; the lemmas are that sections can be put in order (`OrderExists`), that there is a first one in view, and that it is the one at the top (`ProcessedRight`) |
| `Collapse` | `CollapseInv` | a panel is still, or moves with one callback waiting (`Still`, `Moving`); its trigger says what it will be; two panels of a group do not both open |
| `Carousel` | `CarouselInv` | during a slide exactly one callback waits, for the slide from the active item to the one the indicator shows; a timer runs exactly while `this.interval` holds it, and none after `pause()` (`TimerInv`, which every one of `cycle`, `pause` and their sequences keeps) |
| `Tooltip` | `TooltipInv` | a tip that nothing holds is neither awaited nor about to be shown, and its timer or a callback of `hide()` takes it out (`Loose`) |

At the end of a transition a collapse and a carousel run one callback
(`CompletedOnce`, `SlideEndsOnce`); a tooltip may run any number, in the order in
which they were armed. `EndsInOrder` shows that the fold is that order, and
`EndsKeep` that a tip stays on its way out through all of them.

Two things came out of the attempts to prove. `SecondEventPlaces` does not hold
for an element whose offsets cross, one that at its top offset already reaches
below the bottom offset: scrolled to that offset it changes its class with every
event, and above it it may stay at the bottom (`bootstrap.js:2241-2261`).
`PlacesAssumption` therefore excludes it. And the order of the sections had to be
stated as the choice of one (`Sorted`) rather than by the library's sort, of which
nothing could be proved.

The proofs go by one case for each action, under the threads that take them.

Only model-checked, with TLC: all liveness (`OfferedIsReplicated`,
`ReplicatedDespiteFailures`, `ConnectionsEnd`, `PipelinesEnd`, `DownloadsEnd`,
`DownloadServed`, `InitEnds`, `StartTaken`, `CloseEnds`, `AcceptedIsAnswered`,
`CallbackRuns`, `ToReached`), which TLAPS cannot prove since fairness speaks of
ENABLED. Every other property that a passing run checks is proved.

## 5. Not modelled

- The growth of the gateway's `servers` by a registration under a second address,
  and the exception when that set changes under an iteration: the set is constant.
- Sockets that are never closed: how many are open depends on the garbage
  collector.
- `FileHealth`, `pasteAll`, `fileExists`, `deliverFileToBrowser` and `SERVER_INFO`
  are used by nothing; `npm.js` is a generated list.
- Scripts. The pages load `bootstrap.min.js`, the minified build of
  `bootstrap.js`, and their markup uses `Collapse` alone, for the navigation bar;
  the other widgets are modelled as the library offers them to a page. Left out:
  `Modal` (toggled by the keyboard while it opens it leaves a backdrop or a
  dialog behind, so that no invariant of interest survives without restricting
  the user), `Tab` (clicks during its fade leave two panes active, likewise),
  `Alert` (one step), a page that prevents `hide.bs.dropdown`, an accordion with a panel open in the page as loaded (its
  panels have no object yet, and a click opens a second one), calls of the API by a
  page's own script other than the carousel's `pause` and `cycle`, placement and geometry of tips, and jQuery itself.
- Page layout and logging.

## 6. What is left

1. A registration under another address, with the set of servers growing under
   the threads that iterate it.
2. `Modal` and `Tab` under a user who waits for transitions to end.
