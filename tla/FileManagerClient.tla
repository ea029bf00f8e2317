------------------------- MODULE FileManagerClient -------------------------
(***************************************************************************)
(* The file manager of the web page (app/fileManager.js): its WebSocket,   *)
(* which is opened again when it is lost, the upload in progress and the   *)
(* reader of its blocks, the download in progress, the directory on        *)
(* display.  The page is single-threaded: a handler is one step, and       *)
(* handlers run in any order the browser may call them.                    *)
(*                                                                         *)
(* The other end, one handler of filemanager.go per connection, is reduced *)
(* to what its answers depend on: who uploads what, and how far.  Requests *)
(* and answers of a socket are queues.  close() on a socket silences it,   *)
(* yet its close event comes later, maybe after a new socket was made.     *)
(***************************************************************************)
EXTENDS Integers, FiniteSets, Sequences

CONSTANTS
  File,         \* the user's files
  Size,         \* Size[f]: blocks of the file f
  Selections,   \* what the user picks in the file dialog: sequences of files
  Actions,      \* what the user asks for: some of "rename", "delete", "createFolder"
  Dir, Root,    \* directories of the container, and the one shown first
  Targets,      \* bound of the model: directories the user uploads to
  Socket,       \* identities of WebSockets, used again when all is closed
  None,         \* no socket, no download
  MaxLosses,    \* bound of the model: connections lost
  MaxLate,      \* bound of the model: sockets made while another one still closes
  MaxRequests,  \* bound of the model: requests under way when the user clicks
  LateAnswers,  \* answers may still come 800 ms after an upload was cancelled
  ReadFails     \* reading a block of a local file may fail

ASSUME FileManagerClientAssumption ==
  /\ Size \in [File -> Nat] /\ Selections \subseteq Seq(File) \ {<<>>}
  /\ Actions \subseteq {"rename", "delete", "createFolder"}
  /\ Root \in Dir /\ Targets \subseteq Dir /\ None \notin Socket /\ None \notin File
  /\ {MaxLosses, MaxLate, MaxRequests} \subseteq Nat
  /\ LateAnswers \in BOOLEAN /\ ReadFails \in BOOLEAN

VARIABLES
  opened,        \* fileManagerOpened
  enabled,       \* the spinner does not cover the dialog
  webSocket,     \* the socket in use, or None
  timer,         \* webSocketConnectTimer is set
  currentPath,   \* the directory on display
  picking,       \* the file dialog of the browser is open
  activeUpload,  \* activeUpload; not active: null
  stopped,       \* a reader that was stopped has a read under way
  activeDownload,\* a download was asked for
  resetTimer,    \* uploadUiResetTimer is set
  disabled,      \* the upload button is disabled
  sock,          \* each socket: "unused", "connecting", "open" or "closing"
  req,           \* requests on their way to the server
  ans,           \* answers on their way to the page
  serving,       \* sockets the server has a handler for
  stored,        \* each path: its blocks, who uploads it, and whether it is whole
  chosen,        \* history: paths the user chose to upload to
  faults         \* counters of the bounds

pageVars   == <<opened, enabled, webSocket, timer>>
uploadVars == <<activeUpload, stopped, resetTimer, disabled>>
userVars   == <<picking, chosen>>
netVars    == <<sock, req, ans, serving>>
vars == <<pageVars, uploadVars, userVars, netVars, currentPath, activeDownload, stored, faults>>

Path == Dir \X File

NoUpload == [active |-> FALSE, destDir |-> Root, files |-> <<>>, filesProcessed |-> 0,
             reader |-> "none", filePos |-> 0, cur |-> 0, tot |-> 0, on |-> None]

Absent == [blocks |-> 0, by |-> None, whole |-> FALSE]

Msg(type, path) == [type |-> type, path |-> path]

\* listDir is about a directory; a path stands for it when it has no file.
Here(dir) == <<dir, None>>

\* The requests whose success refreshes the list.
Changes == Actions \cup {"cancelUpload"}

-----------------------------------------------------------------------------
(* The WebSocket.                                                          *)

Live(s) == sock[s] \in {"connecting", "open"}

\* send() throws without a socket and on one that still connects.
CanSend == webSocket # None /\ sock[webSocket] = "open"

Send(msgs) == req' = [req EXCEPT ![webSocket] = @ \o msgs]

\* The socket a new WebSocket gets: one nothing refers to any more.
Fresh(s) == sock[s] = "unused" /\ s \notin serving /\ s # activeUpload.on

Closing == {s \in Socket : sock[s] = "closing"}

\* The end of a connection: no answer of it is seen any more.  What the server
\* still reads of it can as well have been read before.
Silence(S) ==
  /\ req' = [s \in Socket |-> IF s \in S THEN <<>> ELSE req[s]]
  /\ ans' = [s \in Socket |-> IF s \in S THEN <<>> ELSE ans[s]]

\* close(): of the events of the socket, only its close event is seen.
CloseSockets(S) ==
  /\ sock' = [s \in Socket |-> IF s \in S /\ Live(s) THEN "closing" ELSE sock[s]]
  /\ Silence(S)

\* A new WebSocket.
NewSocket ==
  \E s \in Socket :
    /\ Fresh(s)
    /\ Closing # {} => faults.late < MaxLate
    /\ faults' = IF Closing = {} THEN faults ELSE [faults EXCEPT !.late = @ + 1]
    /\ webSocket' = s /\ timer' = FALSE
    /\ sock' = [sock EXCEPT ![s] = "connecting"]

\* connectWebSocket: nothing, not even for the timer, when there is a socket.
connectWebSocket ==
  IF webSocket # None THEN UNCHANGED <<webSocket, timer, sock, faults>> ELSE NewSocket

\* disconnectWebSocket
disconnectWebSocket ==
  CloseSockets({webSocket} \ {None}) /\ webSocket' = None /\ timer' = FALSE

\* disableFileManager: the spinner covers the dialog.
disableFileManager == enabled' = FALSE

\* webSocket.onopen
Open(s) ==
  /\ sock[s] = "connecting"
  /\ sock' = [sock EXCEPT ![s] = "open"]
  /\ serving' = serving \cup {s}
  /\ req' = [req EXCEPT ![s] = <<Msg("listDir", Here(currentPath))>>]
  /\ enabled' = TRUE
  /\ UNCHANGED <<opened, webSocket, timer, uploadVars, userVars, ans, currentPath,
                 activeDownload, stored, faults>>

\* Mutant: a socket that was replaced leaves the new one alone.
MutSilenced(s) == {s}

\* The sockets that end with the close event of s: s, and the one in use.
Silenced(s) == {s, webSocket}

\* Mutant: no attempt to connect again.
MutWillReconnect == FALSE

WillReconnect == opened

\* webSocket.onclose
onclose(s) ==
  /\ disableFileManager
  /\ webSocket' = None /\ timer' = WillReconnect
  /\ sock' = [t \in Socket |-> IF t = s THEN "unused"
                               ELSE IF t \in Silenced(s) /\ Live(t) THEN "closing" ELSE sock[t]]
  /\ Silence(Silenced(s))

ClosedUnchanged == UNCHANGED <<opened, uploadVars, userVars, serving, currentPath,
                               activeDownload, stored>>

\* The close event of a socket the page closed.
Closed(s) ==
  /\ sock[s] = "closing" /\ onclose(s) /\ UNCHANGED faults /\ ClosedUnchanged

\* The connection fails, or the server ends it.
Lose(s) ==
  /\ Live(s) /\ faults.losses < MaxLosses
  /\ faults' = [faults EXCEPT !.losses = @ + 1]
  /\ onclose(s) /\ ClosedUnchanged

\* The reconnect timer, one second after the connection was lost.
Reconnect ==
  /\ timer /\ connectWebSocket
  /\ UNCHANGED <<opened, enabled, uploadVars, userVars, req, ans, serving, currentPath,
                 activeDownload, stored>>

-----------------------------------------------------------------------------
(* The upload in progress.                                                 *)

\* The path of the file being uploaded.
\* Mutant: the directory on display.
MutUploadPath(u) == <<currentPath, u.files[u.filesProcessed + 1]>>

UploadPath(u) == <<u.destDir, u.files[u.filesProcessed + 1]>>

prepare(u) == <<Msg("upload", UploadPath(u))>>

\* Mutant: only the first block of a file is read.
MutrequestNextBlock(u) == IF u.filePos = 0 THEN [u EXCEPT !.reader = "reading"] ELSE u

\* requestNextBlock; it throws, and changes nothing, while a read is under way.
requestNextBlock(u) ==
  IF u.reader # "none" /\ u.filePos < Size[u.files[u.filesProcessed + 1]]
  THEN [u EXCEPT !.reader = "reading"] ELSE u

\* activeUpload.advance: a file is complete when its last block was answered.
\* Mutant: one block early.
Mutadvance(u) ==
  IF u.cur + 1 < u.tot THEN requestNextBlock(u)
  ELSE [u EXCEPT !.filesProcessed = @ + 1, !.reader = "none"]

advance(u) ==
  IF u.cur # u.tot THEN requestNextBlock(u)
  ELSE [u EXCEPT !.filesProcessed = @ + 1,
                 !.reader = IF u.filesProcessed + 1 = Len(u.files) THEN @ ELSE "none"]

AllDone(u) == u.filesProcessed = Len(u.files)

\* The reader is stopped; a read it has under way goes on.
StopReader == stopped' = (stopped \/ activeUpload.reader = "reading")

\* terminateUpload, after the upload itself was ended: the timer that enables
\* the button again is set.
ForgetUpload ==
  IF activeUpload.active
  THEN activeUpload' = NoUpload /\ resetTimer' = TRUE /\ UNCHANGED disabled
  ELSE UNCHANGED <<activeUpload, resetTimer, disabled>>

terminateUpload == StopReader /\ ForgetUpload

\* advanceUpload
advanceUpload(u) ==
  IF ~u.active
  THEN UNCHANGED <<uploadVars, req>>
  ELSE LET v == advance(u)
       IN IF AllDone(v)
          THEN terminateUpload /\ Send(<<Msg("listDir", Here(currentPath))>>)
          ELSE /\ activeUpload' = v /\ UNCHANGED <<stopped, resetTimer, disabled>>
               /\ IF v.filesProcessed # u.filesProcessed THEN Send(prepare(v)) ELSE req' = req

\* startUpload and activeUpload.start
startUpload ==
  LET u == activeUpload
  IN IF ~u.active \/ u.reader # "none"
     THEN UNCHANGED <<uploadVars, req>>
     ELSE IF Size[u.files[u.filesProcessed + 1]] = 0
     THEN advanceUpload(u)
     ELSE /\ activeUpload' = requestNextBlock([u EXCEPT !.reader = "idle", !.filePos = 0])
          /\ UNCHANGED <<stopped, resetTimer, disabled, req>>

\* Where the reader is once it read a block.
\* Mutant: it goes on with the next one at once.
MutAfterBlock(u) ==
  requestNextBlock([u EXCEPT !.reader = "idle", !.filePos = @ + 1, !.cur = u.filePos + 1,
                             !.tot = Size[u.files[u.filesProcessed + 1]]])

AfterBlock(u) ==
  [u EXCEPT !.reader = "idle", !.filePos = @ + 1, !.cur = u.filePos + 1,
            !.tot = Size[u.files[u.filesProcessed + 1]]]

\* A block was read from the disk: it is sent, if it can be.
BlockRead ==
  LET u == activeUpload
  IN /\ u.reader = "reading"
     /\ activeUpload' = AfterBlock(u)
     /\ IF CanSend THEN Send(<<Msg("uploadBlock", UploadPath(u))>>) ELSE req' = req
     /\ UNCHANGED <<pageVars, stopped, resetTimer, disabled, userVars, sock, ans, serving,
                    currentPath, activeDownload, stored, faults>>

\* terminateUpload(true): with no connection the send throws before the
\* upload is forgotten, and only the reader is gone.
cancelUpload ==
  CASE ~activeUpload.active -> UNCHANGED <<activeUpload, resetTimer, disabled, req>>
    [] activeUpload.active /\ ~CanSend ->
         /\ activeUpload' = [activeUpload EXCEPT !.reader = "none"]
         /\ UNCHANGED <<resetTimer, disabled, req>>
    [] OTHER -> ForgetUpload /\ Send(<<Msg("cancelUpload", UploadPath(activeUpload))>>)

CancelUnchanged == UNCHANGED <<pageVars, userVars, sock, ans, serving, currentPath,
                               activeDownload, stored, faults>>

\* A read fails.  stop() leaves the error handler of a reader in place: the
\* failure of a stopped reader ends whatever upload is active by then.
ReadError ==
  /\ ReadFails
  /\ \/ activeUpload.reader = "reading" /\ StopReader
     \/ activeUpload.reader # "reading" /\ stopped /\ stopped' = FALSE
  /\ cancelUpload
  /\ CancelUnchanged

\* A stopped reader ends its read: nobody is told.
StoppedReadEnds ==
  /\ stopped /\ stopped' = FALSE
  /\ UNCHANGED <<pageVars, activeUpload, resetTimer, disabled, userVars, netVars, currentPath,
                 activeDownload, stored, faults>>

-----------------------------------------------------------------------------
(* The user.  The spinner takes the clicks while the dialog is disabled.   *)

Outstanding(s) == Len(req[s]) + Len(ans[s])

MayClick == opened /\ enabled /\ webSocket # None

MayRequest == MayClick /\ Outstanding(webSocket) < MaxRequests

\* openFileManager
openFileManager ==
  /\ ~opened /\ opened' = TRUE
  /\ disableFileManager
  /\ currentPath' = Root
  /\ connectWebSocket
  /\ UNCHANGED <<uploadVars, userVars, req, ans, serving, activeDownload, stored>>

\* closeFileManager: by the user, or because the desktop was disconnected.
closeFileManager ==
  /\ opened /\ opened' = FALSE
  /\ disconnectWebSocket
  /\ activeDownload' = FALSE
  /\ terminateUpload
  /\ UNCHANGED <<enabled, userVars, serving, currentPath, stored, faults>>

UserUnchanged == UNCHANGED <<pageVars, sock, ans, serving, currentPath, stored, faults>>

\* The requests of the toolbar and of the list: navigate, refresh, goUp, and
\* the confirmed rename, delete and createFolder.
navigate(dir) ==
  /\ MayRequest /\ Send(<<Msg("listDir", Here(dir))>>)
  /\ UNCHANGED <<uploadVars, userVars, activeDownload>> /\ UserUnchanged

handleConfirmAction(type) ==
  /\ MayRequest /\ Send(<<Msg(type, Here(currentPath))>>)
  /\ UNCHANGED <<uploadVars, userVars, activeDownload>> /\ UserUnchanged

\* downloadFile: one at a time.
downloadFile ==
  /\ MayRequest /\ ~activeDownload /\ activeDownload' = TRUE
  /\ Send(<<Msg("download", Here(currentPath))>>)
  /\ UNCHANGED <<uploadVars, userVars>> /\ UserUnchanged

\* The upload button: the browser shows its file dialog.
clickUpload ==
  /\ MayClick /\ ~disabled /\ ~picking /\ picking' = TRUE
  /\ UNCHANGED <<uploadVars, chosen, req, activeDownload>> /\ UserUnchanged

\* uploadFiles.  The dialog may outlive the connection, and even the file
\* manager: then the upload is there, and its first request is not.  (A send
\* that throws also raises the overlay of error-handler.js, left out here.)
uploadFiles(files) ==
  LET u == [NoUpload EXCEPT !.active = TRUE, !.destDir = currentPath, !.files = files,
                            !.on = IF CanSend THEN webSocket ELSE None]
  IN /\ picking /\ picking' = FALSE /\ currentPath \in Targets
     /\ IF activeUpload.active
        THEN UNCHANGED <<uploadVars, req, chosen>>
        ELSE /\ activeUpload' = u /\ resetTimer' = FALSE /\ disabled' = TRUE
             /\ stopped' = stopped
             /\ chosen' = chosen \cup {<<currentPath, files[i]>> : i \in DOMAIN files}
             /\ IF CanSend THEN Send(prepare(u)) ELSE req' = req
     /\ UNCHANGED activeDownload /\ UserUnchanged

\* The file dialog is dismissed.
dismiss ==
  /\ picking /\ picking' = FALSE
  /\ UNCHANGED <<uploadVars, chosen, req, activeDownload>> /\ UserUnchanged

\* The cancel button.
clickCancel ==
  /\ MayClick /\ activeUpload.active /\ StopReader /\ cancelUpload
  /\ UNCHANGED <<userVars, activeDownload>> /\ UserUnchanged

\* The messages of an upload that the page waits for the answer of.
Transfers(q) == {i \in DOMAIN q : q[i].type \in {"upload", "uploadBlock"}}

\* How many of them the server, or the page, has yet to see.
Unanswered(s) == Cardinality(Transfers(req[s])) + Cardinality(Transfers(ans[s]))

Answered == webSocket # None => Unanswered(webSocket) = 0

\* The timer of terminateUpload, after 800 ms.
UiReset ==
  /\ resetTimer /\ resetTimer' = FALSE
  /\ LateAnswers \/ Answered
  /\ disabled' = (disabled /\ activeUpload.active)
  /\ UNCHANGED <<activeUpload, stopped, userVars, req, activeDownload>> /\ UserUnchanged

-----------------------------------------------------------------------------
(* Answers.                                                                *)

\* What the page makes of an answer, by the type of the request it is to.
Handle(m) ==
  \/ /\ m.type = "listDir" /\ currentPath' = IF m.ok THEN m.path[1] ELSE currentPath
     /\ UNCHANGED <<uploadVars, req, activeDownload>>
  \/ m.type = "upload" /\ m.ok /\ startUpload /\ UNCHANGED <<currentPath, activeDownload>>
  \/ /\ m.type = "uploadBlock" /\ m.ok /\ advanceUpload(activeUpload)
     /\ UNCHANGED <<currentPath, activeDownload>>
  \/ /\ m.type \in {"upload", "uploadBlock"} /\ ~m.ok /\ terminateUpload
     /\ UNCHANGED <<req, currentPath, activeDownload>>
  \/ /\ m.type = "download" /\ activeDownload' = FALSE
     /\ UNCHANGED <<uploadVars, req, currentPath>>
  \/ /\ m.type \in Changes /\ m.ok /\ Send(<<Msg("listDir", Here(currentPath))>>)
     /\ UNCHANGED <<uploadVars, currentPath, activeDownload>>
  \/ m.type \in Changes /\ ~m.ok /\ UNCHANGED <<uploadVars, req, currentPath, activeDownload>>

handleWebSocketMessage(s) ==
  /\ sock[s] = "open" /\ ans[s] # <<>>
  /\ ans' = [ans EXCEPT ![s] = Tail(@)]
  /\ Handle(Head(ans[s]))
  /\ UNCHANGED <<pageVars, userVars, sock, serving, stored, faults>>

-----------------------------------------------------------------------------
(* The server: the handler of the socket s takes its next request.         *)

Answer(s, m, ok) ==
  /\ req' = [req EXCEPT ![s] = Tail(@)]
  /\ ans' = [ans EXCEPT ![s] = Append(@, [type |-> m.type, path |-> m.path, ok |-> ok])]

\* The outcome of a request: the paths as they are after it.
Served(s, m) ==
  LET e == stored[m.path]
      n == e.blocks + 1
  IN CASE m.type = "upload" /\ e = Absent ->
            [stored EXCEPT ![m.path] = [blocks |-> 0, by |-> IF Size[m.path[2]] = 0 THEN None ELSE s,
                                        whole |-> Size[m.path[2]] = 0]]
       [] m.type = "uploadBlock" /\ e.by = s ->
            [stored EXCEPT ![m.path] = [blocks |-> n, by |-> IF n = Size[m.path[2]] THEN None ELSE s,
                                        whole |-> n = Size[m.path[2]]]]
       [] m.type = "cancelUpload" /\ e.by = s -> [stored EXCEPT ![m.path] = Absent]
       [] OTHER -> stored

IsUpload(m) == m.type \in {"upload", "uploadBlock", "cancelUpload"}

\* A block cannot be written: the upload is removed.
Dropped(s, p) == IF stored[p].by = s THEN [stored EXCEPT ![p] = Absent] ELSE stored

Serve(s) ==
  LET m == Head(req[s])
  IN /\ s \in serving /\ req[s] # <<>>
     /\ \/ IsUpload(m) /\ stored' = Served(s, m) /\ Answer(s, m, Served(s, m) # stored)
        \/ m.type = "upload" /\ stored' = stored /\ Answer(s, m, FALSE)
        \/ m.type = "uploadBlock" /\ stored' = Dropped(s, m.path) /\ Answer(s, m, FALSE)
        \/ ~IsUpload(m) /\ stored' = stored /\ \E ok \in BOOLEAN : Answer(s, m, ok)
     /\ UNCHANGED <<pageVars, uploadVars, userVars, sock, serving, currentPath,
                    activeDownload, faults>>

\* The handler ends, and clears the uploads of its connection.
ServerEnd(s) ==
  /\ s \in serving /\ sock[s] \in {"closing", "unused"}
  /\ serving' = serving \ {s}
  /\ stored' = [p \in Path |-> IF stored[p].by = s THEN Absent ELSE stored[p]]
  /\ UNCHANGED <<pageVars, uploadVars, userVars, sock, req, ans, currentPath, activeDownload,
                 faults>>

-----------------------------------------------------------------------------
Init ==
  /\ opened = FALSE /\ enabled = FALSE /\ webSocket = None /\ timer = FALSE
  /\ currentPath = Root /\ picking = FALSE /\ chosen = {}
  /\ activeUpload = NoUpload /\ stopped = FALSE /\ activeDownload = FALSE
  /\ resetTimer = FALSE /\ disabled = FALSE
  /\ sock = [s \in Socket |-> "unused"] /\ serving = {}
  /\ req = [s \in Socket |-> <<>>] /\ ans = [s \in Socket |-> <<>>]
  /\ stored = [p \in Path |-> Absent]
  /\ faults = [losses |-> 0, late |-> 0]

User ==
  \/ openFileManager \/ closeFileManager
  \/ \E dir \in Dir : navigate(dir)
  \/ \E type \in Actions : handleConfirmAction(type)
  \/ downloadFile
  \/ clickUpload \/ dismiss \/ clickCancel
  \/ \E files \in Selections : uploadFiles(files)

Browser ==
  \/ \E s \in Socket : Open(s) \/ Closed(s) \/ handleWebSocketMessage(s)
  \/ Reconnect \/ UiReset \/ BlockRead \/ StoppedReadEnds

Server == \E s \in Socket : Serve(s) \/ ServerEnd(s)

Fault == ReadError \/ \E s \in Socket : Lose(s)

Next == User \/ Browser \/ Server \/ Fault

\* The browser runs its timers and its events, the server answers, and reads
\* of local files end.  Nothing makes the user act, or a fault happen.
Fairness ==
  /\ \A s \in Socket : /\ WF_vars(Open(s)) /\ WF_vars(Closed(s))
                       /\ WF_vars(handleWebSocketMessage(s))
                       /\ WF_vars(Serve(s)) /\ WF_vars(ServerEnd(s))
  /\ WF_vars(Reconnect) /\ WF_vars(BlockRead)

Spec == Init /\ [][Next]_vars /\ Fairness

-----------------------------------------------------------------------------
(* Properties.                                                             *)

UploadState ==
  [active : BOOLEAN, destDir : Dir, files : Seq(File), filesProcessed : Nat,
   reader : {"none", "idle", "reading"}, filePos : Nat, cur : Nat, tot : Nat,
   on : Socket \cup {None}]

\* Requests about a directory, and about the file of an upload.
Request ==
  [type : {"listDir", "download"} \cup Actions, path : Dir \X {None}]
    \cup [type : {"upload", "uploadBlock", "cancelUpload"}, path : Path]

Answers ==
  [type : {"listDir", "download"} \cup Actions, path : Dir \X {None}, ok : BOOLEAN]
    \cup [type : {"upload", "uploadBlock", "cancelUpload"}, path : Path, ok : BOOLEAN]

TypeOK ==
  /\ {opened, enabled, timer, picking, stopped, resetTimer, disabled, activeDownload} \subseteq BOOLEAN
  /\ webSocket \in Socket \cup {None} /\ currentPath \in Dir /\ chosen \subseteq Path
  /\ activeUpload \in UploadState
  /\ IF activeUpload.active THEN activeUpload.filesProcessed < Len(activeUpload.files)
     ELSE activeUpload = NoUpload
  /\ sock \in [Socket -> {"unused", "connecting", "open", "closing"}] /\ serving \subseteq Socket
  /\ req \in [Socket -> Seq(Request)] /\ ans \in [Socket -> Seq(Answers)]
  /\ stored \in [Path -> [blocks : Nat, by : Socket \cup {None}, whole : BOOLEAN]]
  /\ faults \in [losses : Nat, late : Nat]

\* At any time at most one socket of the file manager is open or opening, and
\* it is the one the page refers to: none is leaked by a reconnection, a
\* close or a close event that comes late.
OneSocket == \A s \in Socket : Live(s) => s = webSocket

\* The dialog accepts clicks only while the socket is open, so that no handler
\* of the toolbar or of the list can throw on its send.
EnabledMeansOpen == (opened /\ enabled) => CanSend

\* While the file manager is opened it has a socket or will make one: a close
\* event, late or not, never leaves it without either.
NeverStranded == opened => webSocket # None \/ timer

\* Once the file manager is closed nothing of it goes on: no socket, no
\* reconnection, no download, no file being read.
ClosedIsQuiet ==
  ~opened => webSocket = None /\ ~timer /\ ~activeDownload /\ activeUpload.reader = "none"

\* The upload button is disabled exactly while an upload is active or the
\* timer that enables it again is set.
ButtonFollowsUpload == disabled <=> (activeUpload.active \/ resetTimer)

\* The dialog of the file manager, its socket and its upload agree, although
\* each may end on its own, and close events and timers come late
\* (connectWebSocket, onclose, closeFileManager, terminateUpload).
DialogAgrees ==
  OneSocket /\ EnabledMeansOpen /\ NeverStranded /\ ClosedIsQuiet /\ ButtonFollowsUpload

\* One block at a time: the client never has two requests of its upload
\* under way, which is how it paces itself (advance).
OneBlock == webSocket # None => Unanswered(webSocket) <= 1

\* Files only appear where the user chose to put them, even when the user
\* goes to another directory during the upload.
UploadsLandWhereChosen == \A p \in Path : stored[p] # Absent => p \in chosen

\* The client counts a file as processed, and with the last one shows 100 %,
\* only when the server has all of it.  ("This means that the previous block
\* was successfully sent", says the comment on the stage "advance".)
Counted == activeUpload'.filesProcessed > activeUpload.filesProcessed

Shows100 ==
  /\ activeUpload.active /\ ~activeUpload'.active /\ opened'
  /\ \E s \in Socket : ans[s] # <<>> /\ ans'[s] = Tail(ans[s]) /\ Head(ans[s]).ok

ReportedIsStored == [][Counted \/ Shows100 => stored[UploadPath(activeUpload)].whole]_vars

\* Once opened, and while it stays so, the file manager gets a connection in
\* the end, whatever was lost and however late close events came.
Reconnects == opened ~> (enabled \/ ~opened)

\* An upload ends if the connection it was started on lasts.
UploadEnds == activeUpload.active ~> (~activeUpload.active \/ activeUpload.on \notin {webSocket} \ {None})
=============================================================================
