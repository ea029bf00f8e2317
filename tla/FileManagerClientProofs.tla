---------------------- MODULE FileManagerClientProofs ----------------------
(***************************************************************************)
(* Proofs about FileManagerClient, for any files, directories, sockets and *)
(* bounds.                                                                 *)
(***************************************************************************)
EXTENDS FileManagerClient, FiniteSetTheorems, TLAPS

-----------------------------------------------------------------------------
(* Types: first the upload, then the messages, then the steps.             *)

\* An upload in progress is at one of its files.
InProgress(u) == u \in UploadState /\ u.active /\ u.filesProcessed < Len(u.files)

\* The upload variables have their types.
UploadOK(u) ==
  /\ u \in UploadState
  /\ IF u.active THEN u.filesProcessed < Len(u.files) ELSE u = NoUpload

LEMMA CurrentFile ==
  ASSUME NEW u, InProgress(u)
  PROVE  /\ u.files[u.filesProcessed + 1] \in File /\ UploadPath(u) \in Path
         /\ Size[u.files[u.filesProcessed + 1]] \in Nat
<1>1. u.files \in Seq(File) /\ u.filesProcessed \in Nat /\ u.filesProcessed < Len(u.files)
      /\ u.destDir \in Dir
  BY DEF InProgress, UploadState
<1>2. u.filesProcessed + 1 \in 1..Len(u.files) BY <1>1
<1>3. u.files[u.filesProcessed + 1] \in File BY <1>1, <1>2
<1> QED BY <1>1, <1>3, FileManagerClientAssumption DEF UploadPath, Path

LEMMA NoUploadOK == UploadOK(NoUpload)
BY FileManagerClientAssumption DEF UploadOK, NoUpload, UploadState

LEMMA RequestNextBlock ==
  ASSUME NEW u, InProgress(u)
  PROVE  LET v == requestNextBlock(u)
         IN  InProgress(v) /\ v.filesProcessed = u.filesProcessed /\ v.files = u.files
             /\ v.destDir = u.destDir
BY DEF InProgress, UploadState, requestNextBlock

LEMMA AfterBlockOK ==
  ASSUME NEW u, InProgress(u)
  PROVE  LET v == AfterBlock(u)
         IN  /\ InProgress(v) /\ v.filesProcessed = u.filesProcessed
             /\ v.files = u.files /\ v.destDir = u.destDir
<1> DEFINE n == u.filePos + 1
           z == Size[u.files[u.filesProcessed + 1]]
<1>1. n \in Nat /\ z \in Nat BY CurrentFile DEF InProgress, UploadState
<1>2. AfterBlock(u) = [u EXCEPT !.reader = "idle", !.filePos = n, !.cur = n, !.tot = z]
  BY DEF AfterBlock
<1> HIDE DEF n, z
<1> QED BY <1>1, <1>2 DEF InProgress, UploadState

\* advance: the next block of the same file, the next file, or the end.
LEMMA AdvanceOK ==
  ASSUME NEW u, InProgress(u)
  PROVE  LET v == advance(u)
         IN  /\ v \in UploadState /\ v.active /\ v.files = u.files /\ v.destDir = u.destDir
             /\ AllDone(v) \/ v.filesProcessed < Len(v.files)
<1>1. CASE u.cur # u.tot
  BY <1>1, RequestNextBlock DEF advance, InProgress
<1>2. CASE u.cur = u.tot
  <2> DEFINE n == u.filesProcessed + 1
             r == IF n = Len(u.files) THEN u.reader ELSE "none"
  <2>1. n \in Nat /\ (n = Len(u.files) \/ n < Len(u.files)) /\ r \in {"none", "idle", "reading"}
    BY DEF InProgress, UploadState
  <2>2. advance(u) = [u EXCEPT !.filesProcessed = n, !.reader = r] BY <1>2 DEF advance
  <2> HIDE DEF n, r
  <2> QED BY <2>1, <2>2 DEF InProgress, UploadState, AllDone
<1> QED BY <1>1, <1>2

MessagesOK == req \in [Socket -> Seq(Request)] /\ ans \in [Socket -> Seq(Answers)]

LEMMA SendOK ==
  ASSUME MessagesOK, NEW msgs \in Seq(Request), Send(msgs)
  PROVE  req' \in [Socket -> Seq(Request)]
<1>1. CASE webSocket \in Socket
  <2>1. req[webSocket] \o msgs \in Seq(Request) BY <1>1 DEF MessagesOK
  <2> DEFINE q == req[webSocket] \o msgs
  <2>2. req' = [req EXCEPT ![webSocket] = q] BY DEF Send
  <2> HIDE DEF q
  <2> QED BY <2>1, <2>2 DEF MessagesOK, q
<1>2. CASE webSocket \notin Socket
  <2>1. req' = req BY <1>2 DEF MessagesOK, Send
  <2> QED BY <2>1 DEF MessagesOK
<1> QED BY <1>1, <1>2

LEMMA OneMessage == \A m \in Request : <<m>> \in Seq(Request)
OBVIOUS

LEMMA DirRequest ==
  ASSUME NEW type \in {"listDir", "download"} \cup Actions, NEW dir \in Dir
  PROVE  <<Msg(type, Here(dir))>> \in Seq(Request)
BY OneMessage DEF Msg, Here, Request

LEMMA FileRequest ==
  ASSUME NEW type \in {"upload", "uploadBlock", "cancelUpload"}, NEW u, InProgress(u)
  PROVE  <<Msg(type, UploadPath(u))>> \in Seq(Request)
BY OneMessage, CurrentFile DEF Msg, Request

\* The part of TypeOK the upload has a hand in.
TransferOK ==
  /\ {stopped, resetTimer, disabled} \subseteq BOOLEAN /\ UploadOK(activeUpload)
  /\ req \in [Socket -> Seq(Request)]

LEMMA AdvanceUpload ==
  ASSUME TypeOK, advanceUpload(activeUpload)
  PROVE  TransferOK'
<1> DEFINE u == activeUpload
           v == advance(u)
<1>1. CASE ~u.active BY <1>1 DEF TypeOK, advanceUpload, uploadVars, TransferOK, UploadOK
<1>2. CASE u.active
  <2>1. InProgress(u) /\ MessagesOK BY <1>2 DEF TypeOK, InProgress, MessagesOK
  <2>2. /\ v \in UploadState /\ v.active /\ (AllDone(v) \/ v.filesProcessed < Len(v.files))
    BY <2>1, AdvanceOK
  <2> HIDE DEF v
  <2>3. CASE AllDone(v)
    <3>1. terminateUpload /\ Send(<<Msg("listDir", Here(currentPath))>>)
      BY <1>2, <2>3 DEF advanceUpload, v
    <3>2. req' \in [Socket -> Seq(Request)] BY <2>1, <3>1, SendOK, DirRequest DEF TypeOK
    <3> QED BY <1>2, <3>1, <3>2, NoUploadOK
            DEF TypeOK, terminateUpload, StopReader, ForgetUpload, TransferOK
  <2>4. CASE ~AllDone(v)
    <3>1. /\ activeUpload' = v /\ UNCHANGED <<stopped, resetTimer, disabled>>
          /\ IF v.filesProcessed # u.filesProcessed THEN Send(prepare(v)) ELSE req' = req
      BY <1>2, <2>4 DEF advanceUpload, v
    <3>2. InProgress(v) BY <2>2, <2>4 DEF InProgress
    <3>3. prepare(v) \in Seq(Request) BY <3>2, FileRequest DEF prepare
    <3>4. req' \in [Socket -> Seq(Request)] BY <2>1, <3>1, <3>3, SendOK DEF MessagesOK
    <3> QED BY <3>1, <3>2, <3>4 DEF TypeOK, TransferOK, UploadOK, InProgress
  <2> QED BY <2>3, <2>4
<1> QED BY <1>1, <1>2

LEMMA StartUpload ==
  ASSUME TypeOK, startUpload
  PROVE  TransferOK'
<1> DEFINE u == activeUpload
<1>1. CASE ~u.active \/ u.reader # "none"
  BY <1>1 DEF TypeOK, startUpload, uploadVars, TransferOK, UploadOK
<1>2. CASE u.active /\ u.reader = "none" /\ Size[u.files[u.filesProcessed + 1]] = 0
  BY <1>2, AdvanceUpload DEF startUpload
<1>3. CASE u.active /\ u.reader = "none" /\ Size[u.files[u.filesProcessed + 1]] # 0
  <2> DEFINE v == [u EXCEPT !.reader = "idle", !.filePos = 0]
  <2>1. InProgress(v) BY <1>3 DEF TypeOK, InProgress, UploadState
  <2>2. activeUpload' = requestNextBlock(v) /\ UNCHANGED <<stopped, resetTimer, disabled, req>>
    BY <1>3 DEF startUpload
  <2> HIDE DEF v
  <2>3. InProgress(activeUpload') BY <2>1, <2>2, RequestNextBlock
  <2> QED BY <2>2, <2>3 DEF TypeOK, TransferOK, UploadOK, InProgress
<1> QED BY <1>1, <1>2, <1>3

LEMMA CancelUpload ==
  ASSUME TypeOK, cancelUpload, stopped' \in BOOLEAN
  PROVE  TransferOK'
<1> DEFINE u == activeUpload
<1>1. CASE ~u.active BY <1>1 DEF TypeOK, cancelUpload, TransferOK, UploadOK
<1>2. CASE u.active /\ ~CanSend
  <2>1. activeUpload' = [u EXCEPT !.reader = "none"] /\ UNCHANGED <<resetTimer, disabled, req>>
    BY <1>2 DEF cancelUpload
  <2> QED BY <1>2, <2>1 DEF TypeOK, TransferOK, UploadOK, UploadState
<1>3. CASE u.active /\ CanSend
  <2>1. ForgetUpload /\ Send(<<Msg("cancelUpload", UploadPath(u))>>) BY <1>3 DEF cancelUpload
  <2>2. InProgress(u) /\ MessagesOK BY <1>3 DEF TypeOK, InProgress, MessagesOK
  <2>3. req' \in [Socket -> Seq(Request)] BY <2>1, <2>2, SendOK, FileRequest
  <2> QED BY <1>3, <2>1, <2>3, NoUploadOK DEF TypeOK, ForgetUpload, TransferOK
<1> QED BY <1>1, <1>2, <1>3

\* Silence and the ends of sockets keep the messages and the sockets typed.
LEMMA EndsOK ==
  ASSUME TypeOK
  PROVE  /\ \A S : Silence(S) => MessagesOK'
         /\ \A S : CloseSockets(S) =>
               MessagesOK' /\ sock' \in [Socket -> {"unused", "connecting", "open", "closing"}]
         /\ \A s : onclose(s) =>
               /\ MessagesOK' /\ sock' \in [Socket -> {"unused", "connecting", "open", "closing"}]
               /\ enabled' \in BOOLEAN /\ webSocket' = None /\ timer' \in BOOLEAN
<1>0. \A A : <<>> \in Seq(A) OBVIOUS
<1>1. ASSUME NEW S, Silence(S) PROVE MessagesOK'
  BY <1>0, <1>1 DEF TypeOK, Silence, MessagesOK
<1>2. ASSUME NEW S, CloseSockets(S)
      PROVE  sock' \in [Socket -> {"unused", "connecting", "open", "closing"}]
  BY <1>2 DEF TypeOK, CloseSockets
<1>3. ASSUME NEW s, onclose(s)
      PROVE  /\ sock' \in [Socket -> {"unused", "connecting", "open", "closing"}]
             /\ enabled' \in BOOLEAN /\ webSocket' = None /\ timer' \in BOOLEAN
  BY <1>3 DEF TypeOK, onclose, disableFileManager, WillReconnect
<1> QED BY <1>1, <1>2, <1>3 DEF CloseSockets, onclose

LEMMA ConnectOK ==
  ASSUME TypeOK, connectWebSocket
  PROVE  /\ webSocket' \in Socket \cup {None} /\ timer' \in BOOLEAN
         /\ sock' \in [Socket -> {"unused", "connecting", "open", "closing"}]
         /\ faults' \in [losses : Nat, late : Nat]
<1>1. CASE webSocket # None BY <1>1 DEF TypeOK, connectWebSocket
<1>2. CASE webSocket = None
  <2>1. PICK s \in Socket :
          /\ faults' = IF Closing = {} THEN faults ELSE [faults EXCEPT !.late = @ + 1]
          /\ webSocket' = s /\ timer' = FALSE
          /\ sock' = [sock EXCEPT ![s] = "connecting"]
    BY <1>2 DEF connectWebSocket, NewSocket
  <2> DEFINE n == faults.late + 1
  <2>2. n \in Nat BY DEF TypeOK
  <2>3. faults' = IF Closing = {} THEN faults ELSE [faults EXCEPT !.late = n] BY <2>1
  <2> HIDE DEF n
  <2>4. faults' \in [losses : Nat, late : Nat] BY <2>2, <2>3 DEF TypeOK
  <2> QED BY <2>1, <2>4 DEF TypeOK
<1> QED BY <1>1, <1>2

LEMMA InitTypeOK == Init => TypeOK
<1> SUFFICES ASSUME Init PROVE TypeOK OBVIOUS
<1>0. \A A : <<>> \in Seq(A) OBVIOUS
<1>1. UploadOK(activeUpload) /\ activeUpload.active = FALSE BY NoUploadOK DEF Init, NoUpload
<1>2. faults \in [losses : Nat, late : Nat] BY DEF Init
<1>3. stored \in [Path -> [blocks : Nat, by : Socket \cup {None}, whole : BOOLEAN]]
  BY DEF Init, Absent
<1> QED BY <1>0, <1>1, <1>2, <1>3, FileManagerClientAssumption DEF Init, TypeOK, UploadOK

LEMMA MessageOK ==
  ASSUME TypeOK, NEW s \in Socket, ans[s] # <<>>
  PROVE  Head(ans[s]) \in Answers /\ [ans EXCEPT ![s] = Tail(@)] \in [Socket -> Seq(Answers)]
BY DEF TypeOK

LEMMA AnswerTypeOK ==
  ASSUME TypeOK, NEW s \in Socket, handleWebSocketMessage(s) PROVE TypeOK'
<1> USE DEF pageVars, uploadVars, userVars
<1> DEFINE m == Head(ans[s])
<1>1. /\ m \in Answers /\ ans' \in [Socket -> Seq(Answers)]
      /\ UNCHANGED <<pageVars, userVars, sock, serving, stored, faults>>
  BY MessageOK DEF handleWebSocketMessage
<1>2. ASSUME TransferOK', currentPath' \in Dir, activeDownload' \in BOOLEAN PROVE TypeOK'
  BY <1>1, <1>2 DEF TypeOK, TransferOK, UploadOK
<1>a. ASSUME UNCHANGED <<uploadVars, req>> PROVE TransferOK'
  BY <1>a DEF TypeOK, TransferOK, UploadOK
<1>b. Handle(m) BY DEF handleWebSocketMessage
<1> HIDE DEF m
<1>3. ASSUME m.type = "listDir", currentPath' = IF m.ok THEN m.path[1] ELSE currentPath,
             UNCHANGED <<uploadVars, req, activeDownload>>
      PROVE  TypeOK'
  <2>1. m.path[1] \in Dir BY <1>1, <1>3, FileManagerClientAssumption DEF Answers
  <2> QED BY <2>1, <1>3, <1>2, <1>a DEF TypeOK
<1>4. ASSUME startUpload \/ advanceUpload(activeUpload), UNCHANGED <<currentPath, activeDownload>>
      PROVE  TypeOK'
  BY <1>2, <1>4, StartUpload, AdvanceUpload DEF TypeOK
<1>5. ASSUME terminateUpload, UNCHANGED <<req, currentPath, activeDownload>> PROVE TypeOK'
  <2>1. TransferOK'
    BY <1>5, NoUploadOK DEF TypeOK, TransferOK, terminateUpload, StopReader, ForgetUpload, UploadOK
  <2> QED BY <1>2, <1>5, <2>1 DEF TypeOK
<1>6. ASSUME activeDownload' = FALSE \/ UNCHANGED activeDownload, UNCHANGED <<uploadVars, req, currentPath>>
      PROVE  TypeOK'
  BY <1>2, <1>6, <1>a DEF TypeOK
<1>7. ASSUME Send(<<Msg("listDir", Here(currentPath))>>),
             UNCHANGED <<uploadVars, currentPath, activeDownload>>
      PROVE  TypeOK'
  <2>1. req' \in [Socket -> Seq(Request)] BY <1>7, SendOK, DirRequest DEF TypeOK, MessagesOK
  <2> QED BY <1>2, <1>7, <2>1 DEF TypeOK, TransferOK, UploadOK
<1> QED BY <1>b, <1>3, <1>4, <1>5, <1>6, <1>7 DEF Handle

\* The server's step: its answer, and the paths after it.
LEMMA ServeOK ==
  ASSUME TypeOK, NEW s \in Socket, Serve(s)
  PROVE  MessagesOK' /\ stored' \in [Path -> [blocks : Nat, by : Socket \cup {None}, whole : BOOLEAN]]
<1> DEFINE m == Head(req[s])
<1>1. m \in Request /\ Tail(req[s]) \in Seq(Request) BY DEF TypeOK, Serve
<1>2. ASSUME NEW ok \in BOOLEAN, Answer(s, m, ok) PROVE MessagesOK'
  <2> DEFINE a == [type |-> m.type, path |-> m.path, ok |-> ok]
             q == Append(ans[s], a)
  <2>1. a \in Answers BY <1>1 DEF Answers, Request
  <2> HIDE DEF a, m
  <2>2. q \in Seq(Answers) BY <2>1 DEF TypeOK
  <2>3. ans' = [ans EXCEPT ![s] = q] BY <1>2 DEF Answer, a
  <2>4. req' = [req EXCEPT ![s] = Tail(req[s])] BY <1>2 DEF Answer
  <2> HIDE DEF q
  <2> QED BY <1>1, <2>2, <2>3, <2>4 DEF TypeOK, MessagesOK
<1> DEFINE Entry == [blocks : Nat, by : Socket \cup {None}, whole : BOOLEAN]
<1>3. Absent \in Entry BY DEF Absent
<1>4. IsUpload(m) => m.path \in Path /\ Size[m.path[2]] \in Nat
  BY <1>1, FileManagerClientAssumption DEF IsUpload, Request, Path
<1>5. ASSUME IsUpload(m) PROVE Served(s, m) \in [Path -> Entry]
  <2> DEFINE z == Size[m.path[2]]
             n == stored[m.path].blocks + 1
             fst == [blocks |-> 0, by |-> IF z = 0 THEN None ELSE s, whole |-> z = 0]
             nxt == [blocks |-> n, by |-> IF n = z THEN None ELSE s, whole |-> n = z]
  <2>1. n \in Nat /\ z \in Nat BY <1>4, <1>5 DEF TypeOK
  <2> HIDE DEF n, z
  <2>2. fst \in Entry /\ nxt \in Entry BY <2>1
  <2>3. \/ Served(s, m) = [stored EXCEPT ![m.path] = fst]
        \/ Served(s, m) = [stored EXCEPT ![m.path] = nxt]
        \/ Served(s, m) = [stored EXCEPT ![m.path] = Absent]
        \/ Served(s, m) = stored
    BY <1>5 DEF Served, IsUpload, n, z
  <2> HIDE DEF fst, nxt
  <2> QED BY <1>3, <2>2, <2>3 DEF TypeOK
<1>6. Dropped(s, m.path) \in [Path -> Entry] BY <1>3 DEF TypeOK, Dropped
<1>7. \E ok \in BOOLEAN : Answer(s, m, ok) BY DEF Serve
<1>8. stored' \in [Path -> Entry] BY <1>5, <1>6 DEF Serve, TypeOK
<1> QED BY <1>2, <1>7, <1>8

LEMMA BlockReadOK == ASSUME TypeOK, BlockRead PROVE TransferOK'
<1> DEFINE u == activeUpload
<1>1. InProgress(u) /\ MessagesOK
  BY DEF TypeOK, BlockRead, InProgress, MessagesOK, NoUpload
<1>2. /\ activeUpload' = AfterBlock(u) /\ UNCHANGED <<stopped, resetTimer, disabled>>
      /\ Send(<<Msg("uploadBlock", UploadPath(u))>>) \/ req' = req
  BY DEF BlockRead
<1>3. req' \in [Socket -> Seq(Request)] BY <1>1, <1>2, SendOK, FileRequest DEF MessagesOK
<1>4. InProgress(activeUpload') BY <1>1, <1>2, AfterBlockOK
<1> QED BY <1>2, <1>3, <1>4 DEF TypeOK, TransferOK, UploadOK, InProgress

\* A new upload.
LEMMA UploadFilesOK ==
  ASSUME TypeOK, NEW files \in Selections, uploadFiles(files)
  PROVE  TransferOK' /\ chosen' \subseteq Path
<1>1. CASE activeUpload.active
  BY <1>1 DEF TypeOK, TransferOK, UploadOK, uploadFiles, uploadVars
<1>2. CASE ~activeUpload.active
  <2> DEFINE on == IF CanSend THEN webSocket ELSE None
             u == [NoUpload EXCEPT !.active = TRUE, !.destDir = currentPath, !.files = files,
                                   !.on = on]
  <2>0. on \in Socket \cup {None} /\ currentPath \in Dir BY DEF TypeOK
  <2>1. /\ activeUpload' = u /\ resetTimer' = FALSE /\ disabled' = TRUE
        /\ stopped' = stopped
        /\ chosen' = chosen \cup {<<currentPath, files[i]>> : i \in DOMAIN files}
        /\ (IF CanSend THEN Send(prepare(u)) ELSE req' = req)
    BY <1>2 DEF uploadFiles
  <2> HIDE DEF on
  <2>2. files \in Seq(File) /\ files # <<>> BY FileManagerClientAssumption
  <2>3. Len(files) > 0 BY <2>2
  <2>4. u \in UploadState BY <2>0, <2>2, NoUploadOK DEF UploadOK, NoUpload, UploadState
  <2>5. u.active /\ u.filesProcessed = 0 /\ u.files = files BY DEF NoUpload
  <2>6. InProgress(u) BY <2>3, <2>4, <2>5 DEF InProgress
  <2> HIDE DEF u
  <2>7. req' \in [Socket -> Seq(Request)]
    BY <2>1, <2>6, SendOK, FileRequest DEF TypeOK, MessagesOK, prepare
  <2>8. chosen' \subseteq Path BY <2>0, <2>1, <2>2 DEF TypeOK, Path
  <2> QED BY <2>1, <2>6, <2>7, <2>8 DEF TypeOK, TransferOK, UploadOK, InProgress
<1> QED BY <1>1, <1>2

LEMMA StepTypeOK == TypeOK /\ [Next]_vars => TypeOK'
<1> SUFFICES ASSUME TypeOK, [Next]_vars PROVE TypeOK' OBVIOUS
<1> USE DEF pageVars, uploadVars, userVars, netVars, UserUnchanged, ClosedUnchanged,
            CancelUnchanged
\* Actions that only touch the upload and the requests.
<1>u. ASSUME TransferOK', chosen' \subseteq Path, picking' \in BOOLEAN,
             UNCHANGED <<pageVars, sock, ans, serving, currentPath, stored, faults, activeDownload>>
      PROVE  TypeOK'
  BY <1>u DEF TypeOK, TransferOK, UploadOK
\* Actions that only send a request.
<1>m. ASSUME NEW type \in {"listDir", "download"} \cup Actions, NEW dir \in Dir,
             Send(<<Msg(type, Here(dir))>>)
      PROVE  req' \in [Socket -> Seq(Request)]
  BY <1>m, SendOK, DirRequest DEF TypeOK, MessagesOK
\* The user.
<1>1. CASE openFileManager
  BY <1>1, ConnectOK, FileManagerClientAssumption DEF openFileManager, disableFileManager, TypeOK
<1>2. CASE closeFileManager
  <2>1. MessagesOK' /\ sock' \in [Socket -> {"unused", "connecting", "open", "closing"}]
    BY <1>2, EndsOK DEF closeFileManager, disconnectWebSocket
  <2>2. UploadOK(activeUpload') /\ {stopped', resetTimer', disabled'} \subseteq BOOLEAN
    BY <1>2, NoUploadOK
    DEF closeFileManager, terminateUpload, StopReader, ForgetUpload, TypeOK, UploadOK
  <2> QED BY <1>2, <2>1, <2>2
          DEF closeFileManager, disconnectWebSocket, TypeOK, UploadOK, MessagesOK
<1>3. ASSUME NEW dir \in Dir, navigate(dir) PROVE TypeOK'
  <2>1. req' \in [Socket -> Seq(Request)] BY <1>3, <1>m DEF navigate
  <2> QED BY <1>3, <2>1 DEF navigate, TypeOK
<1>4. ASSUME NEW type \in Actions, handleConfirmAction(type) PROVE TypeOK'
  <2>1. req' \in [Socket -> Seq(Request)] BY <1>4, <1>m DEF handleConfirmAction, TypeOK
  <2> QED BY <1>4, <2>1 DEF handleConfirmAction, TypeOK
<1>5. CASE downloadFile
  <2>1. req' \in [Socket -> Seq(Request)] BY <1>5, <1>m DEF downloadFile, TypeOK
  <2> QED BY <1>5, <2>1 DEF downloadFile, TypeOK
<1>6. CASE clickUpload \/ dismiss
  BY <1>6 DEF clickUpload, dismiss, TypeOK
<1>7. CASE clickCancel
  BY <1>7, <1>u, CancelUpload DEF clickCancel, StopReader, TypeOK
<1>8. ASSUME NEW files \in Selections, uploadFiles(files) PROVE TypeOK'
  BY <1>8, <1>u, UploadFilesOK DEF uploadFiles
\* The browser.
<1>9. ASSUME NEW s \in Socket, Open(s) PROVE TypeOK'
  <2>1. <<Msg("listDir", Here(currentPath))>> \in Seq(Request) BY DirRequest DEF TypeOK
  <2>2. req' \in [Socket -> Seq(Request)] BY <1>9, <2>1 DEF Open, TypeOK
  <2> QED BY <1>9, <2>2 DEF Open, TypeOK
<1>10. ASSUME NEW s \in Socket, Closed(s) PROVE TypeOK'
  BY <1>10, EndsOK DEF Closed, TypeOK, MessagesOK
<1>11. ASSUME NEW s \in Socket, handleWebSocketMessage(s) PROVE TypeOK'
  BY <1>11, AnswerTypeOK
<1>12. CASE Reconnect
  BY <1>12, ConnectOK DEF Reconnect, TypeOK
<1>13. CASE UiReset
  BY <1>13 DEF UiReset, TypeOK
<1>14. CASE BlockRead
  BY <1>14, <1>u, BlockReadOK DEF BlockRead, TypeOK
<1>15. CASE StoppedReadEnds
  BY <1>15 DEF StoppedReadEnds, TypeOK
\* The server and the faults.
<1>16. ASSUME NEW s \in Socket, Serve(s) PROVE TypeOK'
  BY <1>16, ServeOK DEF Serve, TypeOK, MessagesOK
<1>17. ASSUME NEW s \in Socket, ServerEnd(s) PROVE TypeOK'
  <2>1. stored' \in [Path -> [blocks : Nat, by : Socket \cup {None}, whole : BOOLEAN]]
    BY <1>17 DEF ServerEnd, Absent, TypeOK
  <2> QED BY <1>17, <2>1 DEF ServerEnd, TypeOK
<1>18. CASE ReadError
  BY <1>18, <1>u, CancelUpload DEF ReadError, StopReader, TypeOK
<1>19. ASSUME NEW s \in Socket, Lose(s) PROVE TypeOK'
  <2> DEFINE n == faults.losses + 1
  <2>1. n \in Nat /\ faults' = [faults EXCEPT !.losses = n] BY <1>19 DEF Lose, TypeOK
  <2> HIDE DEF n
  <2>2. faults' \in [losses : Nat, late : Nat] BY <2>1 DEF TypeOK
  <2> QED BY <1>19, <2>2, EndsOK DEF Lose, TypeOK, MessagesOK
<1>20. CASE UNCHANGED vars
  BY <1>20 DEF vars, TypeOK
<1> QED BY <1>1, <1>2, <1>3, <1>4, <1>5, <1>6, <1>7, <1>8, <1>9, <1>10, <1>11, <1>12, <1>13,
           <1>14, <1>15, <1>16, <1>17, <1>18, <1>19, <1>20
        DEF Next, User, Browser, Server, Fault

\* Every variable keeps its type: an upload is active exactly while it has a
\* file left, and requests and answers carry the paths of their kind.
THEOREM TypeCorrect == Spec => []TypeOK
BY InitTypeOK, StepTypeOK, PTL DEF Spec

-----------------------------------------------------------------------------
(* The dialog, its socket and its upload: DialogAgrees is inductive once   *)
(* the types are known.                                                    *)

\* What the handlers of the upload do to it: it stays the active one, or is
\* forgotten with the timer of the button set.
UploadGoesOn ==
  \/ activeUpload'.active = activeUpload.active /\ UNCHANGED <<resetTimer, disabled>>
  \/ activeUpload.active /\ ~activeUpload'.active /\ resetTimer' = TRUE /\ UNCHANGED disabled

LEMMA AdvanceGoesOn == ASSUME TypeOK, advanceUpload(activeUpload) PROVE UploadGoesOn
<1> DEFINE u == activeUpload
           v == advance(u)
<1>1. CASE ~u.active BY <1>1 DEF advanceUpload, uploadVars, UploadGoesOn
<1>2. CASE u.active
  <2>1. v.active = u.active BY <1>2, AdvanceOK DEF TypeOK, InProgress, UploadState
  <2> HIDE DEF v
  <2>2. \/ terminateUpload
        \/ activeUpload' = v /\ UNCHANGED <<stopped, resetTimer, disabled>>
    BY <1>2 DEF advanceUpload, v
  <2>3. CASE terminateUpload
    BY <2>3 DEF terminateUpload, ForgetUpload, UploadGoesOn, NoUpload
  <2>4. CASE activeUpload' = v /\ UNCHANGED <<stopped, resetTimer, disabled>>
    BY <1>2, <2>1, <2>4 DEF UploadGoesOn
  <2> QED BY <2>2, <2>3, <2>4
<1> QED BY <1>1, <1>2

LEMMA AnswerGoesOn ==
  ASSUME TypeOK, NEW s \in Socket, handleWebSocketMessage(s) PROVE UploadGoesOn
<1> USE DEF uploadVars
<1> DEFINE m == Head(ans[s])
<1>1. Handle(m) BY DEF handleWebSocketMessage
<1> HIDE DEF m
<1>2. CASE startUpload
  <2> DEFINE u == activeUpload
             v == [u EXCEPT !.reader = "idle", !.filePos = 0]
  <2>1. v.active = u.active /\ requestNextBlock(v).active = v.active
    BY DEF TypeOK, UploadState, requestNextBlock
  <2> HIDE DEF v
  <2>2. \/ UNCHANGED uploadVars \/ advanceUpload(u)
        \/ activeUpload' = requestNextBlock(v) /\ UNCHANGED <<resetTimer, disabled>>
    BY <1>2 DEF startUpload, v
  <2> QED BY <2>1, <2>2, AdvanceGoesOn DEF UploadGoesOn
<1>3. CASE terminateUpload
  BY <1>3 DEF terminateUpload, ForgetUpload, UploadGoesOn, NoUpload
<1>4. CASE UNCHANGED uploadVars BY <1>4 DEF UploadGoesOn
<1> QED BY <1>1, <1>2, <1>3, <1>4, AdvanceGoesOn DEF Handle

LEMMA CancelGoesOn ==
  ASSUME TypeOK, cancelUpload PROVE UploadGoesOn /\ activeUpload'.reader = "none"
BY DEF TypeOK, UploadState, cancelUpload, ForgetUpload, UploadGoesOn, NoUpload

LEMMA ConnectAgrees ==
  ASSUME TypeOK, OneSocket, connectWebSocket
  PROVE  OneSocket' /\ webSocket' # None
         /\ (webSocket = None \/ UNCHANGED <<webSocket, timer, sock>>)
<1>1. CASE webSocket # None BY <1>1 DEF connectWebSocket, OneSocket, Live
<1>2. CASE webSocket = None
  <2>1. PICK s \in Socket : webSocket' = s /\ sock' = [sock EXCEPT ![s] = "connecting"]
    BY <1>2 DEF connectWebSocket, NewSocket
  <2>2. \A t \in Socket : ~Live(t) BY <1>2, FileManagerClientAssumption DEF OneSocket
  <2> QED BY <1>2, <2>1, <2>2, FileManagerClientAssumption DEF OneSocket, Live, TypeOK
<1> QED BY <1>1, <1>2

\* The upload does not change the rest of DialogAgrees while the dialog is open.
LEMMA DialogStep == TypeOK /\ TypeOK' /\ DialogAgrees /\ [Next]_vars => DialogAgrees'
<1> SUFFICES ASSUME TypeOK, TypeOK', DialogAgrees, [Next]_vars PROVE DialogAgrees' OBVIOUS
<1> USE DEF pageVars, uploadVars, userVars, netVars, UserUnchanged, ClosedUnchanged,
            CancelUnchanged, DialogAgrees
<1>b. ASSUME UploadGoesOn PROVE ButtonFollowsUpload'
  BY <1>b DEF UploadGoesOn, ButtonFollowsUpload, TypeOK, UploadState
<1>k. ASSUME UNCHANGED <<pageVars, sock>>, ButtonFollowsUpload',
             opened \/ activeUpload'.reader = "none", opened \/ ~activeDownload'
      PROVE  DialogAgrees'
  BY <1>k DEF OneSocket, Live, EnabledMeansOpen, CanSend, NeverStranded, ClosedIsQuiet
<1>o. \A s \in Socket : Live(s) => opened
  BY FileManagerClientAssumption DEF OneSocket, ClosedIsQuiet
<1>u. ASSUME UNCHANGED <<activeUpload, resetTimer, disabled>> PROVE ButtonFollowsUpload'
  BY <1>u DEF ButtonFollowsUpload
<1>1. CASE openFileManager
  <2>1. OneSocket' /\ webSocket' # None BY <1>1, ConnectAgrees DEF openFileManager
  <2> QED BY <1>1, <2>1, <1>u
          DEF openFileManager, disableFileManager, EnabledMeansOpen, NeverStranded, ClosedIsQuiet
<1>2. CASE closeFileManager
  <2>1. OneSocket'
    BY <1>2 DEF closeFileManager, disconnectWebSocket, CloseSockets, OneSocket, Live, TypeOK
  <2>2. activeUpload' = NoUpload /\ UploadGoesOn
    BY <1>2 DEF closeFileManager, terminateUpload, ForgetUpload, UploadGoesOn, TypeOK, NoUpload
  <2> QED BY <1>2, <2>1, <2>2, <1>b DEF closeFileManager, disconnectWebSocket, NoUpload,
             EnabledMeansOpen, NeverStranded, ClosedIsQuiet
<1>3. ASSUME NEW dir \in Dir, navigate(dir) PROVE DialogAgrees'
  BY <1>3, <1>k, <1>u DEF navigate, MayRequest, MayClick
<1>4. ASSUME NEW type \in Actions, handleConfirmAction(type) PROVE DialogAgrees'
  BY <1>4, <1>k, <1>u DEF handleConfirmAction, MayRequest, MayClick
<1>5. CASE downloadFile
  BY <1>5, <1>k, <1>u DEF downloadFile, MayRequest, MayClick
<1>6. CASE clickUpload \/ dismiss
  BY <1>6, <1>k, <1>u DEF clickUpload, dismiss, ClosedIsQuiet
<1>7. CASE clickCancel
  BY <1>7, <1>k, <1>b, CancelGoesOn DEF clickCancel, MayClick
<1>8. ASSUME NEW files \in Selections, uploadFiles(files) PROVE DialogAgrees'
  <2>1. CASE activeUpload.active
    BY <1>8, <2>1, <1>k, <1>u DEF uploadFiles, ClosedIsQuiet
  <2>2. CASE ~activeUpload.active
    <3>1. activeUpload'.active /\ activeUpload'.reader = "none" /\ disabled' /\ ~resetTimer'
      BY <1>8, <2>2 DEF uploadFiles, NoUpload
    <3>2. ButtonFollowsUpload' BY <3>1 DEF ButtonFollowsUpload
    <3> QED BY <1>8, <3>1, <3>2, <1>k DEF uploadFiles, ClosedIsQuiet
  <2> QED BY <2>1, <2>2
<1>9. ASSUME NEW s \in Socket, Open(s) PROVE DialogAgrees'
  <2>1. s = webSocket BY <1>9 DEF Open, OneSocket, Live
  <2> QED BY <1>9, <2>1, <1>u, FileManagerClientAssumption DEF Open, OneSocket, Live,
             EnabledMeansOpen, CanSend, NeverStranded, ClosedIsQuiet, TypeOK
<1>10. ASSUME NEW s \in Socket, onclose(s), ClosedUnchanged PROVE DialogAgrees'
  BY <1>10, <1>u DEF onclose, disableFileManager, WillReconnect, Silenced, OneSocket, Live,
     EnabledMeansOpen, NeverStranded, ClosedIsQuiet, TypeOK
<1>11. ASSUME NEW s \in Socket, handleWebSocketMessage(s) PROVE DialogAgrees'
  <2>1. opened BY <1>11, <1>o DEF handleWebSocketMessage, Live
  <2> QED BY <1>11, <2>1, <1>k, <1>b, AnswerGoesOn DEF handleWebSocketMessage
<1>12. CASE Reconnect
  <2>1. opened /\ OneSocket' /\ webSocket' # None
        /\ (webSocket = None \/ UNCHANGED <<webSocket, timer, sock>>)
    BY <1>12, ConnectAgrees DEF Reconnect, ClosedIsQuiet
  <2> QED BY <1>12, <2>1, <1>u
          DEF Reconnect, EnabledMeansOpen, CanSend, NeverStranded, ClosedIsQuiet
<1>13. CASE UiReset
  <2>1. ButtonFollowsUpload' BY <1>13 DEF UiReset, ButtonFollowsUpload
  <2> QED BY <1>13, <2>1, <1>k DEF UiReset, ClosedIsQuiet
<1>14. CASE BlockRead
  <2>1. activeUpload'.active = activeUpload.active
    BY <1>14 DEF BlockRead, AfterBlock, TypeOK, UploadState
  <2>2. UploadGoesOn BY <1>14, <2>1 DEF BlockRead, UploadGoesOn
  <2>3. opened BY <1>14 DEF BlockRead, ClosedIsQuiet
  <2> QED BY <1>14, <2>2, <2>3, <1>k, <1>b DEF BlockRead
<1>15. CASE StoppedReadEnds
  BY <1>15, <1>k, <1>u DEF StoppedReadEnds, ClosedIsQuiet
<1>16. ASSUME NEW s \in Socket, Serve(s) \/ ServerEnd(s) PROVE DialogAgrees'
  <2>1. UNCHANGED <<pageVars, uploadVars, sock, activeDownload>> BY <1>16 DEF Serve, ServerEnd
  <2> QED BY <2>1, <1>k, <1>u DEF ClosedIsQuiet
<1>17. CASE ReadError
  BY <1>17, <1>k, <1>b, CancelGoesOn DEF ReadError, ClosedIsQuiet
<1>18. CASE UNCHANGED vars
  BY <1>18, <1>k, <1>u DEF vars, ClosedIsQuiet
<1> QED BY <1>1, <1>2, <1>3, <1>4, <1>5, <1>6, <1>7, <1>8, <1>9, <1>10, <1>11, <1>12, <1>13,
           <1>14, <1>15, <1>16, <1>17, <1>18
        DEF Next, User, Browser, Server, Fault, Closed, Lose

LEMMA DialogInit == Init => DialogAgrees
BY DEF Init, NoUpload, DialogAgrees, OneSocket, Live, EnabledMeansOpen, NeverStranded,
   ClosedIsQuiet, ButtonFollowsUpload

\* Whatever order close events, timers, reads and clicks come in: one socket
\* at most, clicks only on an open one, never without a socket or a timer for
\* one, nothing left over once closed, and a button that follows the upload.
THEOREM DialogConsistent == Spec => []DialogAgrees
<1>1. Spec => [](TypeOK /\ DialogAgrees)
  BY InitTypeOK, StepTypeOK, DialogInit, DialogStep, PTL DEF Spec
<1> QED BY <1>1, PTL

-----------------------------------------------------------------------------
(* Where files appear.                                                     *)

ChosenUpload(u) ==
  u.active => \A i \in DOMAIN u.files : <<u.destDir, u.files[i]>> \in chosen

Asked(q) == \A i \in DOMAIN q : q[i].type = "upload" => q[i].path \in chosen

\* UploadsLandWhereChosen, and what makes it last: the files of the active
\* upload, and the uploads asked for, were chosen.
OnlyChosen ==
  UploadsLandWhereChosen /\ ChosenUpload(activeUpload) /\ \A s \in Socket : Asked(req[s])

LEMMA InProgressChosen ==
  ASSUME NEW u, InProgress(u), ChosenUpload(u) PROVE UploadPath(u) \in chosen
<1>1. u.filesProcessed + 1 \in DOMAIN u.files BY DEF InProgress, UploadState
<1> QED BY <1>1 DEF ChosenUpload, InProgress, UploadPath

LEMMA AskedSend ==
  ASSUME TypeOK, OnlyChosen, NEW msgs \in Seq(Request), Asked(msgs), Send(msgs) \/ req' = req
  PROVE  \A s \in Socket : Asked(req'[s])
<1> SUFFICES ASSUME NEW s \in Socket PROVE Asked(req'[s]) OBVIOUS
<1> DEFINE q == req[s]
<1>1. q \in Seq(Request) /\ Asked(q) BY DEF TypeOK, OnlyChosen, Asked
<1>2. req'[s] = q \/ req'[s] = q \o msgs BY DEF TypeOK, Send
<1> HIDE DEF q
<1>3. Asked(q \o msgs)
  <2> SUFFICES ASSUME NEW i \in DOMAIN (q \o msgs), (q \o msgs)[i].type = "upload"
               PROVE  (q \o msgs)[i].path \in chosen
    BY DEF Asked
  <2>1. CASE i \in DOMAIN q BY <1>1, <2>1 DEF Asked
  <2>2. CASE i \notin DOMAIN q
    <3>1. i - Len(q) \in DOMAIN msgs /\ (q \o msgs)[i] = msgs[i - Len(q)] BY <1>1, <2>2
    <3> QED BY <3>1 DEF Asked
  <2> QED BY <2>1, <2>2
<1> QED BY <1>1, <1>2, <1>3

LEMMA AskedMsg ==
  ASSUME NEW type, NEW path, type = "upload" => path \in chosen PROVE Asked(<<Msg(type, path)>>)
BY DEF Asked, Msg

\* The first request of a new upload, of a file that was just chosen.
LEMMA NewAsked ==
  ASSUME TypeOK, OnlyChosen, NEW path \in chosen', chosen \subseteq chosen',
         Send(<<Msg("upload", path)>>) \/ req' = req
  PROVE  \A s \in Socket : Asked(req[s])'
<1> SUFFICES ASSUME NEW s \in Socket PROVE Asked(req[s])' OBVIOUS
<1> DEFINE q == req[s]
           a == Msg("upload", path)
<1>1. q \in Seq(Request) /\ Asked(q) BY DEF TypeOK, OnlyChosen
<1>2. req'[s] = q \/ req'[s] = q \o <<a>> BY DEF TypeOK, Send
<1>3. a.path \in chosen' BY DEF Msg
<1> HIDE DEF q, a
<1>4. \A i \in DOMAIN (q \o <<a>>) : \/ i \in DOMAIN q /\ (q \o <<a>>)[i] = q[i]
                                     \/ (q \o <<a>>)[i] = a
  BY <1>1
<1> QED BY <1>1, <1>2, <1>3, <1>4 DEF Asked

LEMMA SilenceChosen == ASSUME OnlyChosen, NEW S, Silence(S) PROVE \A s \in Socket : Asked(req'[s])
BY DEF OnlyChosen, Silence, Asked

\* What an upload step has to keep.
KeepsChosen == ChosenUpload(activeUpload') /\ \A s \in Socket : Asked(req'[s])

LEMMA AdvanceChosen ==
  ASSUME TypeOK, OnlyChosen, advanceUpload(activeUpload) PROVE KeepsChosen
<1> DEFINE u == activeUpload
           v == advance(u)
<1>1. CASE ~u.active
  BY <1>1 DEF advanceUpload, uploadVars, KeepsChosen, OnlyChosen
<1>2. CASE u.active
  <2>1. InProgress(u) BY <1>2 DEF TypeOK, InProgress
  <2>2. /\ v \in UploadState /\ v.active /\ v.files = u.files /\ v.destDir = u.destDir
        /\ AllDone(v) \/ v.filesProcessed < Len(v.files)
    BY <2>1, AdvanceOK
  <2> HIDE DEF v
  <2>3. ChosenUpload(v) BY <1>2, <2>2 DEF ChosenUpload, OnlyChosen
  <2>4. CASE AllDone(v)
    <3>1. terminateUpload /\ Send(<<Msg("listDir", Here(currentPath))>>)
      BY <1>2, <2>4 DEF advanceUpload, v
    <3>2. \A s \in Socket : Asked(req'[s]) BY <3>1, AskedSend, AskedMsg, DirRequest DEF TypeOK
    <3> QED BY <1>2, <3>1, <3>2
      DEF terminateUpload, ForgetUpload, NoUpload, KeepsChosen, ChosenUpload
  <2>5. CASE ~AllDone(v)
    <3>1. activeUpload' = v /\ (Send(prepare(v)) \/ req' = req)
      BY <1>2, <2>5 DEF advanceUpload, v
    <3>2. InProgress(v) BY <2>2, <2>5 DEF InProgress
    <3>3. prepare(v) \in Seq(Request) /\ Asked(prepare(v))
      BY <2>3, <3>2, FileRequest, InProgressChosen, AskedMsg DEF prepare
    <3> QED BY <2>3, <3>1, <3>3, AskedSend DEF KeepsChosen
  <2> QED BY <2>4, <2>5
<1> QED BY <1>1, <1>2

LEMMA AnswerChosen ==
  ASSUME TypeOK, OnlyChosen, NEW s \in Socket, handleWebSocketMessage(s) PROVE KeepsChosen
<1> USE DEF uploadVars
<1> DEFINE m == Head(ans[s])
<1>1. Handle(m) BY DEF handleWebSocketMessage
<1> HIDE DEF m
<1>2. CASE startUpload
  <2> DEFINE u == activeUpload
             v == [u EXCEPT !.reader = "idle", !.filePos = 0]
             w == requestNextBlock(v)
  <2>1. w.active = u.active /\ w.files = u.files /\ w.destDir = u.destDir
    BY DEF TypeOK, UploadState, requestNextBlock
  <2> HIDE DEF v, w
  <2>2. \/ UNCHANGED <<uploadVars, req>> \/ advanceUpload(u)
        \/ activeUpload' = w /\ UNCHANGED req
    BY <1>2 DEF startUpload, v, w
  <2>3. ChosenUpload(w) BY <2>1 DEF ChosenUpload, OnlyChosen
  <2> QED BY <2>2, <2>3, AdvanceChosen DEF KeepsChosen, OnlyChosen
<1>3. CASE terminateUpload /\ UNCHANGED req
  BY <1>3 DEF terminateUpload, ForgetUpload, KeepsChosen, OnlyChosen, ChosenUpload, NoUpload
<1>4. CASE UNCHANGED <<activeUpload, req>> BY <1>4 DEF KeepsChosen, OnlyChosen
<1>5. CASE Send(<<Msg("listDir", Here(currentPath))>>) /\ UNCHANGED activeUpload
  BY <1>5, AskedSend, AskedMsg, DirRequest DEF TypeOK, KeepsChosen, OnlyChosen
<1> QED BY <1>1, <1>2, <1>3, <1>4, <1>5, AdvanceChosen DEF Handle

LEMMA CancelChosen == ASSUME TypeOK, OnlyChosen, cancelUpload PROVE KeepsChosen
<1> DEFINE u == activeUpload
<1>1. CASE ~u.active BY <1>1 DEF cancelUpload, KeepsChosen, OnlyChosen
<1>2. CASE u.active /\ ~CanSend
  <2>1. activeUpload' = [u EXCEPT !.reader = "none"] /\ req' = req BY <1>2 DEF cancelUpload
  <2> QED BY <2>1 DEF TypeOK, UploadState, KeepsChosen, OnlyChosen, ChosenUpload
<1>3. CASE u.active /\ CanSend
  <2>1. ForgetUpload /\ Send(<<Msg("cancelUpload", UploadPath(u))>>) BY <1>3 DEF cancelUpload
  <2>2. InProgress(u) BY <1>3 DEF TypeOK, InProgress
  <2>3. \A s \in Socket : Asked(req'[s]) BY <2>1, <2>2, AskedSend, AskedMsg, FileRequest
  <2> QED BY <1>3, <2>1, <2>3 DEF ForgetUpload, NoUpload, KeepsChosen, ChosenUpload
<1> QED BY <1>1, <1>2, <1>3

\* The server: an upload it starts was asked for, a block continues one.
LEMMA ServeChosen ==
  ASSUME TypeOK, OnlyChosen, NEW s \in Socket, Serve(s)
  PROVE  /\ \A p \in Path : stored'[p] # Absent => p \in chosen
         /\ \A t \in Socket : Asked(req'[t])
<1> DEFINE m == Head(req[s])
           q == req[s]
<1>1. q \in Seq(Request) /\ q # <<>> /\ Asked(q) BY DEF TypeOK, OnlyChosen, Serve
<1>2. Asked(Tail(q)) /\ (m.type = "upload" => m.path \in chosen) /\ m \in Request
  <2> HIDE DEF q
  <2>1. m = q[1] /\ 1 \in DOMAIN q BY <1>1 DEF q
  <2>2. \A i \in DOMAIN Tail(q) : i + 1 \in DOMAIN q /\ Tail(q)[i] = q[i + 1] BY <1>1
  <2> HIDE DEF m
  <2> QED BY <1>1, <2>1, <2>2 DEF Asked
<1>3. req' = [req EXCEPT ![s] = Tail(q)] BY DEF Serve, Answer
<1>4. \A t \in Socket : Asked(req'[t]) BY <1>2, <1>3 DEF TypeOK, OnlyChosen
<1>5. stored' \in {stored, Served(s, m), Dropped(s, m.path)} BY DEF Serve
<1>6. stored' = Served(s, m) => IsUpload(m) \/ stored' = stored BY DEF Serve, Served, IsUpload
<1> HIDE DEF m
<1>7. ASSUME NEW p \in Path, stored'[p] # Absent PROVE p \in chosen
  <2>1. stored[p] # Absent => p \in chosen BY DEF OnlyChosen, UploadsLandWhereChosen
  <2>2. CASE stored' = stored BY <1>7, <2>1, <2>2
  <2>3. CASE stored' = Dropped(s, m.path) BY <1>7, <2>1, <2>3 DEF Dropped, TypeOK
  <2>4. CASE stored' = Served(s, m) /\ m.type = "upload"
    BY <1>2, <1>7, <2>1, <2>4 DEF Served, TypeOK
  <2>5. CASE stored' = Served(s, m) /\ m.type = "uploadBlock"
    <3>1. CASE m.path = p /\ stored[p].by = s
      <4>1. stored[p] # Absent BY <3>1, FileManagerClientAssumption DEF Absent
      <4> QED BY <2>1, <4>1
    <3>2. CASE ~(m.path = p /\ stored[p].by = s)
      BY <1>7, <2>1, <2>5, <3>2 DEF Served, TypeOK
    <3> QED BY <3>1, <3>2
  <2>6. CASE stored' = Served(s, m) /\ m.type \notin {"upload", "uploadBlock"}
    BY <1>7, <2>1, <2>6 DEF Served, TypeOK
  <2> QED BY <1>5, <2>2, <2>3, <2>4, <2>5, <2>6
<1> QED BY <1>4, <1>7

LEMMA ChosenStep == TypeOK /\ OnlyChosen /\ [Next]_vars => OnlyChosen'
<1> SUFFICES ASSUME TypeOK, OnlyChosen, [Next]_vars PROVE OnlyChosen' OBVIOUS
<1> USE DEF uploadVars, userVars, netVars, UserUnchanged, ClosedUnchanged, CancelUnchanged
<1>k. ASSUME KeepsChosen, chosen \subseteq chosen', stored' = stored PROVE OnlyChosen'
  BY <1>k DEF KeepsChosen, OnlyChosen, ChosenUpload, Asked, UploadsLandWhereChosen
<1>s. ASSUME \A s \in Socket : Asked(req'[s]), UNCHANGED <<activeUpload, chosen, stored>>
      PROVE  OnlyChosen'
  BY <1>k, <1>s DEF KeepsChosen, OnlyChosen
<1>n. ASSUME UNCHANGED <<activeUpload, req, chosen, stored>> PROVE OnlyChosen'
  BY <1>n, <1>s DEF OnlyChosen
<1>m. ASSUME NEW type \in {"listDir", "download"} \cup Actions, NEW dir \in Dir,
             Send(<<Msg(type, Here(dir))>>)
      PROVE  \A s \in Socket : Asked(req'[s])
  <2>1. type # "upload" BY FileManagerClientAssumption
  <2> QED BY <1>m, <2>1, AskedSend, AskedMsg, DirRequest
<1>1. CASE openFileManager \/ Reconnect
  BY <1>1, <1>n DEF openFileManager, Reconnect
<1>2. CASE closeFileManager
  <2>1. \A s \in Socket : Asked(req'[s])
    BY <1>2, SilenceChosen DEF closeFileManager, disconnectWebSocket, CloseSockets
  <2> QED BY <1>2, <2>1, <1>k DEF closeFileManager, terminateUpload, ForgetUpload, NoUpload,
             KeepsChosen, ChosenUpload, OnlyChosen
<1>3. ASSUME NEW dir \in Dir, navigate(dir) PROVE OnlyChosen'
  BY <1>3, <1>m, <1>s DEF navigate
<1>4. ASSUME NEW type \in Actions, handleConfirmAction(type) PROVE OnlyChosen'
  BY <1>4, <1>m, <1>s DEF handleConfirmAction, TypeOK
<1>5. CASE downloadFile
  BY <1>5, <1>m, <1>s DEF downloadFile, TypeOK
<1>6. CASE clickUpload \/ dismiss \/ UiReset \/ StoppedReadEnds \/ UNCHANGED vars
  BY <1>6, <1>n DEF clickUpload, dismiss, UiReset, StoppedReadEnds, vars
<1>7. CASE clickCancel \/ ReadError
  BY <1>7, <1>k, CancelChosen DEF clickCancel, ReadError
<1>8. ASSUME NEW files \in Selections, uploadFiles(files) PROVE OnlyChosen'
  <2>1. CASE activeUpload.active BY <1>8, <2>1, <1>n DEF uploadFiles
  <2>2. CASE ~activeUpload.active
    <3> DEFINE on == IF CanSend THEN webSocket ELSE None
               u == [NoUpload EXCEPT !.active = TRUE, !.destDir = currentPath, !.files = files,
                                     !.on = on]
    <3>1. /\ activeUpload' = u
          /\ chosen' = chosen \cup {<<currentPath, files[i]>> : i \in DOMAIN files}
          /\ Send(prepare(u)) \/ req' = req
      BY <1>8, <2>2 DEF uploadFiles
    <3> HIDE DEF on
    <3>2. u.files = files /\ u.destDir = currentPath /\ u.filesProcessed = 0 BY DEF NoUpload
    <3>3. files \in Seq(File) /\ 1 \in DOMAIN files BY FileManagerClientAssumption
    <3>4. UploadPath(u) = <<currentPath, files[1]>> BY <3>2 DEF UploadPath
    <3> HIDE DEF u
    <3>5. ChosenUpload(activeUpload)' BY <3>1, <3>2 DEF ChosenUpload
    <3>6. \A s \in Socket : Asked(req[s])' BY <3>1, <3>2, <3>3, <3>4, NewAsked DEF prepare
    <3>7. stored' = stored /\ chosen \subseteq chosen' BY <1>8, <3>1 DEF uploadFiles
    <3>8. UploadsLandWhereChosen' BY <3>7 DEF OnlyChosen, UploadsLandWhereChosen
    <3> QED BY <3>5, <3>6, <3>8 DEF OnlyChosen
  <2> QED BY <2>1, <2>2
<1>9. ASSUME NEW s \in Socket, Open(s) PROVE OnlyChosen'
  <2>1. Asked(<<Msg("listDir", Here(currentPath))>>) BY AskedMsg
  <2>2. \A t \in Socket : Asked(req'[t]) BY <1>9, <2>1 DEF Open, TypeOK, OnlyChosen
  <2> QED BY <1>9, <2>2, <1>s DEF Open
<1>10. ASSUME NEW s \in Socket, onclose(s), ClosedUnchanged PROVE OnlyChosen'
  BY <1>10, <1>s, SilenceChosen DEF onclose
<1>11. ASSUME NEW s \in Socket, handleWebSocketMessage(s) PROVE OnlyChosen'
  BY <1>11, <1>k, AnswerChosen DEF handleWebSocketMessage
<1>12. CASE BlockRead
  <2>1. InProgress(activeUpload) BY <1>12 DEF BlockRead, TypeOK, InProgress, NoUpload
  <2>2. ChosenUpload(activeUpload')
    BY <1>12, <2>1, AfterBlockOK DEF BlockRead, OnlyChosen, ChosenUpload, InProgress
  <2>3. \A s \in Socket : Asked(req'[s])
    BY <1>12, <2>1, AskedSend, AskedMsg, FileRequest DEF BlockRead, OnlyChosen
  <2> QED BY <1>12, <2>2, <2>3, <1>k DEF BlockRead, KeepsChosen
<1>13. ASSUME NEW s \in Socket, Serve(s) PROVE OnlyChosen'
  BY <1>13, ServeChosen DEF Serve, OnlyChosen, UploadsLandWhereChosen, ChosenUpload, Asked
<1>14. ASSUME NEW s \in Socket, ServerEnd(s) PROVE OnlyChosen'
  BY <1>14 DEF ServerEnd, OnlyChosen, UploadsLandWhereChosen, ChosenUpload, Asked
<1> QED BY <1>1, <1>2, <1>3, <1>4, <1>5, <1>6, <1>7, <1>8, <1>9, <1>10, <1>11, <1>12, <1>13, <1>14
        DEF Next, User, Browser, Server, Fault, Closed, Lose

LEMMA ChosenInit == Init => OnlyChosen
BY DEF Init, OnlyChosen, UploadsLandWhereChosen, ChosenUpload, Asked, NoUpload

\* Files only appear where the user chose to put them, however the user moves
\* between directories and whatever is lost in the middle of an upload.
THEOREM UploadsWhereChosen == Spec => []UploadsLandWhereChosen
<1>1. Spec => [](TypeOK /\ OnlyChosen)
  BY InitTypeOK, StepTypeOK, ChosenInit, ChosenStep, PTL DEF Spec
<1>2. OnlyChosen => UploadsLandWhereChosen BY DEF OnlyChosen
<1> QED BY <1>1, <1>2, PTL

-----------------------------------------------------------------------------
(* The pace of an upload, and what the server has of it.  The messages of  *)
(* the socket in use are q, on their way to the server, and a, back.       *)

\* At most one of them is a message of an upload; none is.
Single(q, a) ==
  /\ \A i, j \in Transfers(q) : i = j
  /\ \A i, j \in Transfers(a) : i = j
  /\ Transfers(q) = {} \/ Transfers(a) = {}

Free(q, a) == Transfers(q) = {} /\ Transfers(a) = {}

\* The client does not read the next block before the last one was answered, and
\* the button stays disabled as long.
PacedAt(q, a, u, d) == Single(q, a) /\ (Free(q, a) \/ (d /\ u.reader # "reading"))

Has(q, type) == \E i \in DOMAIN q : q[i].type = type

\* An answer says that such a request was carried out.
Done(a, type) == \E i \in DOMAIN a : a[i].type = type /\ a[i].ok

\* The connection is not the one the upload began on: nothing of it works there.
Foreign(s, q, a, st) ==
  /\ \A p \in Path : st[p].by # s
  /\ ~Has(q, "upload") /\ ~Done(a, "upload") /\ ~Done(a, "uploadBlock")

\* Of the file of u, the server holds n blocks, and nobody else will remove them.
Holds(s, q, u, st, n) ==
  /\ st[UploadPath(u)].blocks = n /\ st[UploadPath(u)].by \in {s, None}
  /\ ~Has(q, "cancelUpload")

Whole(u, st) == st[UploadPath(u)].whole

SizeOf(u) == Size[UploadPath(u)[2]]

\* The client and the server agree on how far the upload is.
InStep(s, q, a, u, st) ==
  /\ \A i \in Transfers(q) : q[i].path = UploadPath(u)
  /\ \A i \in DOMAIN q : q[i].type = "upload" =>
       /\ u.reader = "none" /\ u.cur = u.tot
       /\ \A j \in DOMAIN q : i < j => q[j].type # "cancelUpload"
  /\ Has(q, "uploadBlock") =>
       Holds(s, q, u, st, u.cur - 1) /\ u.filePos = u.cur /\ u.tot = SizeOf(u)
  /\ Done(a, "upload") =>
       /\ u.reader = "none" /\ u.cur = u.tot /\ Holds(s, q, u, st, 0)
       /\ SizeOf(u) = 0 => Whole(u, st)
  /\ Done(a, "uploadBlock") =>
       /\ Holds(s, q, u, st, u.cur) /\ u.filePos = u.cur /\ u.tot = SizeOf(u)
       /\ u.cur = u.tot => Whole(u, st)
  /\ u.reader = "reading" => Holds(s, q, u, st, u.filePos)

TrackedAt(s, q, a, u, st) ==
  u.active => IF u.on = s THEN InStep(s, q, a, u, st) ELSE Foreign(s, q, a, st)

\* The socket in use lives.  One that is not open holds no message; the server
\* does not know it before it is open, and forgets its uploads when it ends.
Connections ==
  /\ webSocket # None => Live(webSocket)
  /\ \A s \in Socket : sock[s] # "open" => req[s] = <<>> /\ ans[s] = <<>>
  /\ \A s \in Socket : sock[s] = "connecting" => s \notin serving
  /\ \A p \in Path : stored[p].by # None => stored[p].by \in serving

UploadInv ==
  /\ Connections
  /\ picking => ~disabled
  /\ webSocket # None =>
       /\ PacedAt(req[webSocket], ans[webSocket], activeUpload, disabled)
       /\ TrackedAt(webSocket, req[webSocket], ans[webSocket], activeUpload, stored)
       /\ (activeUpload.active /\ activeUpload.on = webSocket) => sock[webSocket] = "open"

-----------------------------------------------------------------------------
(* Queues.                                                                 *)

LEMMA OneMore ==
  ASSUME NEW q \in Seq(Request), NEW m \in Request
  PROVE  LET r == q \o <<m>>
         IN  /\ Len(q) \in Nat /\ DOMAIN q = 1..Len(q) /\ DOMAIN r = 1..Len(q) + 1
             /\ \A i \in 1..Len(q) : r[i] = q[i]
             /\ r[Len(q) + 1] = m
OBVIOUS

LEMMA OneLess ==
  ASSUME NEW S, NEW q \in Seq(S), q # <<>>
  PROVE  /\ Tail(q) \in Seq(S) /\ Len(q) \in Nat \ {0} /\ Head(q) = q[1] /\ Head(q) \in S
         /\ DOMAIN q = 1..Len(q) /\ DOMAIN Tail(q) = 1..Len(q) - 1
         /\ \A i \in 1..Len(q) - 1 : Tail(q)[i] = q[i + 1]
OBVIOUS

\* A message that is not of an upload is sent.
LEMMA SendPlain ==
  ASSUME NEW q \in Seq(Request), NEW a, NEW m \in Request, m.type \notin {"upload", "uploadBlock"}
  PROVE  LET r == q \o <<m>>
         IN  /\ \A u, d : PacedAt(q, a, u, d) => PacedAt(r, a, u, d)
             /\ \A s, u, st : (m.type # "cancelUpload" /\ TrackedAt(s, q, a, u, st))
                                => TrackedAt(s, r, a, u, st)
<1> DEFINE r == q \o <<m>>
<1>1. /\ Len(q) \in Nat /\ DOMAIN q = 1..Len(q) /\ DOMAIN r = 1..Len(q) + 1
      /\ \A i \in 1..Len(q) : r[i] = q[i]
      /\ r[Len(q) + 1] = m
  BY OneMore
<1> HIDE DEF r
<1>2. Transfers(r) = Transfers(q) BY <1>1 DEF Transfers
<1>3. \A i \in Transfers(q) : i \in 1..Len(q) BY <1>1 DEF Transfers
<1>4. \A u, d : PacedAt(q, a, u, d) => PacedAt(r, a, u, d) BY <1>2 DEF PacedAt, Single, Free
<1>5. Has(r, "upload") => Has(q, "upload") BY <1>1 DEF Has
<1>6. Has(r, "uploadBlock") => Has(q, "uploadBlock") BY <1>1 DEF Has
<1>7. \A s, st : Foreign(s, q, a, st) => Foreign(s, r, a, st) BY <1>5 DEF Foreign
<1>8. ASSUME m.type # "cancelUpload", NEW s, NEW u, NEW st, InStep(s, q, a, u, st)
      PROVE  InStep(s, r, a, u, st)
  <2>1. Has(r, "cancelUpload") => Has(q, "cancelUpload") BY <1>1, <1>8 DEF Has
  <2>2. \A n : Holds(s, q, u, st, n) => Holds(s, r, u, st, n) BY <2>1 DEF Holds
  <2>3. \A i \in Transfers(r) : r[i].path = UploadPath(u) BY <1>1, <1>2, <1>3, <1>8 DEF InStep
  <2>4. ASSUME NEW i \in DOMAIN r, r[i].type = "upload"
        PROVE  /\ u.reader = "none" /\ u.cur = u.tot
               /\ \A j \in DOMAIN r : i < j => r[j].type # "cancelUpload"
    <3>1. i \in 1..Len(q) /\ q[i].type = "upload" BY <1>1, <2>4
    <3>2. /\ u.reader = "none" /\ u.cur = u.tot
          /\ \A j \in DOMAIN q : i < j => q[j].type # "cancelUpload"
      BY <1>1, <1>8, <3>1 DEF InStep
    <3>3. \A j \in DOMAIN r : j \in DOMAIN q \/ r[j] = m BY <1>1
    <3> QED BY <1>1, <1>8, <3>2, <3>3
  <2> QED BY <1>6, <1>8, <2>2, <2>3, <2>4 DEF InStep
<1> QED BY <1>4, <1>7, <1>8 DEF TrackedAt, r

\* A message of an upload is sent while none is under way: it is the only one.
LEMMA SendTransfer ==
  ASSUME NEW q \in Seq(Request), NEW a, NEW m \in Request, m.type \in {"upload", "uploadBlock"},
         Free(q, a)
  PROVE  LET r == q \o <<m>>
         IN  /\ Single(r, a) /\ Transfers(a) = {} /\ Transfers(r) = {Len(q) + 1}
             /\ r[Len(q) + 1] = m
             /\ \A j \in DOMAIN r : ~(Len(q) + 1 < j)
             /\ \A i \in DOMAIN r : i = Len(q) + 1 \/ (i \in DOMAIN q /\ r[i] = q[i])
<1> DEFINE r == q \o <<m>>
<1>1. /\ Len(q) \in Nat /\ DOMAIN q = 1..Len(q) /\ DOMAIN r = 1..Len(q) + 1
      /\ \A i \in 1..Len(q) : r[i] = q[i]
      /\ r[Len(q) + 1] = m
  BY OneMore
<1> HIDE DEF r
<1>2. \A i \in DOMAIN q : q[i].type \notin {"upload", "uploadBlock"} BY DEF Free, Transfers
<1>3. Transfers(r) = {Len(q) + 1} BY <1>1, <1>2 DEF Transfers
<1>4. Transfers(a) = {} BY DEF Free
<1>5. Single(r, a) BY <1>3, <1>4 DEF Single
<1>6. \A j \in DOMAIN r : ~(Len(q) + 1 < j) BY <1>1
<1>7. \A i \in DOMAIN r : i = Len(q) + 1 \/ (i \in DOMAIN q /\ r[i] = q[i]) BY <1>1
<1> QED BY <1>1, <1>3, <1>4, <1>5, <1>6, <1>7 DEF r

\* The page takes an answer.
LEMMA TakeAnswer ==
  ASSUME NEW q, NEW a \in Seq(Answers), a # <<>>
  PROVE  /\ \A u, d : PacedAt(q, a, u, d) => PacedAt(q, Tail(a), u, d)
         /\ \A s, u, st : TrackedAt(s, q, a, u, st) => TrackedAt(s, q, Tail(a), u, st)
         /\ (Single(q, a) /\ Head(a).type \in {"upload", "uploadBlock"}) => Free(q, Tail(a))
         /\ \A type : (Head(a).type = type /\ Head(a).ok) => Done(a, type)
<1> DEFINE b == Tail(a)
<1>1. /\ Len(a) \in Nat \ {0} /\ Head(a) = a[1]
      /\ DOMAIN a = 1..Len(a) /\ DOMAIN b = 1..Len(a) - 1
      /\ \A i \in 1..Len(a) - 1 : b[i] = a[i + 1]
  BY OneLess
<1> HIDE DEF b
<1>2. \A i \in Transfers(b) : i + 1 \in Transfers(a) /\ i \in Int /\ i > 0 BY <1>1 DEF Transfers
<1>3. \A type : Done(b, type) => Done(a, type) BY <1>1 DEF Done
<1>4. (\A i, j \in Transfers(a) : i = j) => (\A i, j \in Transfers(b) : i = j)
  <2> SUFFICES ASSUME \A i, j \in Transfers(a) : i = j, NEW i \in Transfers(b), NEW j \in Transfers(b)
               PROVE  i = j
    OBVIOUS
  <2>1. i + 1 = j + 1 /\ i \in Int /\ j \in Int BY <1>2
  <2> QED BY <2>1
<1>5. Transfers(a) = {} => Transfers(b) = {} BY <1>2
<1>6. Single(q, a) => Single(q, b) BY <1>4, <1>5 DEF Single
<1>7. Free(q, a) => Free(q, b) BY <1>5 DEF Free
<1>8. \A u, d : PacedAt(q, a, u, d) => PacedAt(q, b, u, d) BY <1>6, <1>7 DEF PacedAt
<1>9. ASSUME Single(q, a), Head(a).type \in {"upload", "uploadBlock"} PROVE Free(q, b)
  <2>1. 1 \in Transfers(a) BY <1>1, <1>9 DEF Transfers
  <2>2. \A i \in Transfers(b) : i + 1 = 1 BY <1>2, <1>9, <2>1 DEF Single
  <2>3. Transfers(b) = {} BY <1>2, <2>2
  <2> QED BY <1>9, <2>1, <2>3 DEF Single, Free
<1>10. \A s, u, st : TrackedAt(s, q, a, u, st) => TrackedAt(s, q, b, u, st)
  BY <1>3 DEF TrackedAt, InStep, Foreign
<1>11. \A type : (Head(a).type = type /\ Head(a).ok) => Done(a, type) BY <1>1 DEF Done
<1> QED BY <1>8, <1>9, <1>10, <1>11 DEF b

\* The server takes the request m, and answers it.
Reply(m, ok) == [type |-> m.type, path |-> m.path, ok |-> ok]

\* The queues q and a before it, r and b after.
Replies(q, a, m, ok, r, b) ==
  /\ \A i \in DOMAIN r : i + 1 \in DOMAIN q /\ r[i] = q[i + 1] /\ 1 < i + 1
  /\ \A i \in DOMAIN b : (i \in DOMAIN a /\ b[i] = a[i]) \/ b[i] = Reply(m, ok)
  /\ 1 \in DOMAIN q /\ m = q[1] /\ m \in Request
  /\ \A u, d : PacedAt(q, a, u, d) => PacedAt(r, b, u, d)
  /\ (Single(q, a) /\ m.type \in {"upload", "uploadBlock"}) =>
       Transfers(a) = {} /\ Transfers(r) = {}
  /\ \A type : Has(r, type) => Has(q, type)

LEMMA ServeQueues ==
  ASSUME NEW q \in Seq(Request), q # <<>>, NEW a \in Seq(Answers), NEW ok,
         NEW m, m = Head(q), NEW b, b = Append(a, Reply(m, ok)), NEW r, r = Tail(q)
  PROVE  Replies(q, a, m, ok, r, b)
<1>1. /\ r \in Seq(Request) /\ Len(q) \in Nat \ {0} /\ m = q[1] /\ m \in Request
      /\ DOMAIN q = 1..Len(q) /\ DOMAIN r = 1..Len(q) - 1
      /\ \A i \in 1..Len(q) - 1 : r[i] = q[i + 1]
  BY OneLess
<1> DEFINE c == Reply(m, ok)
<1>2. /\ Len(a) \in Nat /\ DOMAIN a = 1..Len(a) /\ DOMAIN b = 1..Len(a) + 1
      /\ \A i \in 1..Len(a) : b[i] = a[i]
      /\ b[Len(a) + 1] = c
  OBVIOUS
<1>3. c.type = m.type BY DEF Reply
<1> HIDE DEF c
<1>4. \A i \in DOMAIN r : i + 1 \in DOMAIN q /\ r[i] = q[i + 1] /\ 1 < i + 1 BY <1>1
<1>5. \A i \in DOMAIN b : (i \in DOMAIN a /\ b[i] = a[i]) \/ (i = Len(a) + 1 /\ b[i] = c) BY <1>2
<1>6. 1 \in DOMAIN q BY <1>1
<1>7. \A i \in Transfers(r) : i + 1 \in Transfers(q) /\ i \in Int /\ i > 0 BY <1>1 DEF Transfers
<1>8. (\A i, j \in Transfers(q) : i = j) => (\A i, j \in Transfers(r) : i = j)
  <2> SUFFICES ASSUME \A i, j \in Transfers(q) : i = j, NEW i \in Transfers(r), NEW j \in Transfers(r)
               PROVE  i = j
    OBVIOUS
  <2>1. i + 1 = j + 1 /\ i \in Int /\ j \in Int BY <1>7
  <2> QED BY <2>1
<1>9. ASSUME Single(q, a), m.type \in {"upload", "uploadBlock"}
      PROVE  Transfers(a) = {} /\ Transfers(r) = {} /\ Single(r, b) /\ ~Free(q, a)
  <2>1. 1 \in Transfers(q) BY <1>1, <1>6, <1>9 DEF Transfers
  <2>2. \A i \in Transfers(r) : i + 1 = 1 BY <1>7, <1>9, <2>1 DEF Single
  <2>3. Transfers(r) = {} BY <1>7, <2>2
  <2>4. Transfers(a) = {} BY <1>9, <2>1 DEF Single
  <2>5. \A i \in Transfers(b) : i = Len(a) + 1 BY <1>2, <1>5, <2>4 DEF Transfers
  <2> QED BY <2>1, <2>3, <2>4, <2>5 DEF Single, Free
<1>10. ASSUME m.type \notin {"upload", "uploadBlock"} PROVE Transfers(b) = Transfers(a)
  BY <1>2, <1>3, <1>5, <1>10 DEF Transfers
<1>11. Transfers(q) = {} => Transfers(r) = {} BY <1>7
<1>12. ASSUME NEW u, NEW d, PacedAt(q, a, u, d) PROVE PacedAt(r, b, u, d)
  <2>1. CASE m.type \in {"upload", "uploadBlock"} BY <1>9, <1>12, <2>1 DEF PacedAt
  <2>2. CASE m.type \notin {"upload", "uploadBlock"}
    BY <1>8, <1>10, <1>11, <1>12, <2>2 DEF PacedAt, Single, Free
  <2> QED BY <2>1, <2>2
<1>13. \A type : Has(r, type) => Has(q, type) BY <1>4 DEF Has
<1> QED BY <1>1, <1>4, <1>5, <1>6, <1>9, <1>12, <1>13 DEF c, Replies

\* What the server made of a request for s: st before it, st2 after.
Outcome(s, m, ok, st, st2) ==
  /\ (m.type = "upload" /\ ok) =>
       /\ st2[m.path].blocks = 0 /\ st2[m.path].by \in {s, None}
       /\ Size[m.path[2]] = 0 => st2[m.path].whole
  /\ (m.type = "uploadBlock" /\ ok) =>
       /\ st2[m.path].blocks = st[m.path].blocks + 1 /\ st2[m.path].by \in {s, None}
       /\ st2[m.path].blocks = Size[m.path[2]] => st2[m.path].whole
  /\ m.type \notin {"upload", "uploadBlock", "cancelUpload"} => st2 = st

LEMMA ServeInStep ==
  ASSUME NEW q \in Seq(Request), q # <<>>, NEW a \in Seq(Answers), NEW ok \in BOOLEAN,
         NEW m, m = Head(q), NEW b, b = Append(a, Reply(m, ok)), NEW r, r = Tail(q),
         NEW s, NEW u, NEW d, NEW st, NEW st2, u.cur \in Nat,
         PacedAt(q, a, u, d), InStep(s, q, a, u, st), Outcome(s, m, ok, st, st2)
  PROVE  InStep(s, r, b, u, st2)
<1>0. Replies(q, a, m, ok, r, b) BY ServeQueues
<1>1. /\ \A i \in DOMAIN r : i + 1 \in DOMAIN q /\ r[i] = q[i + 1] /\ 1 < i + 1
      /\ \A i \in DOMAIN b : (i \in DOMAIN a /\ b[i] = a[i]) \/ b[i] = Reply(m, ok)
      /\ 1 \in DOMAIN q /\ m = q[1] /\ m \in Request
      /\ (Single(q, a) /\ m.type \in {"upload", "uploadBlock"}) =>
              Transfers(a) = {} /\ Transfers(r) = {}
      /\ \A type : Has(r, type) => Has(q, type)
  BY <1>0 DEF Replies
<1>2. Reply(m, ok).type = m.type /\ Reply(m, ok).ok = ok BY DEF Reply
<1>3. \A type : Done(b, type) => Done(a, type) \/ (m.type = type /\ ok) BY <1>1, <1>2 DEF Done
<1>4. \A i \in Transfers(r) : i + 1 \in Transfers(q) /\ r[i] = q[i + 1] BY <1>1 DEF Transfers
<1>5. \A i \in Transfers(r) : r[i].path = UploadPath(u) BY <1>4 DEF InStep
<1>6. ASSUME NEW i \in DOMAIN r, r[i].type = "upload"
      PROVE  /\ u.reader = "none" /\ u.cur = u.tot
             /\ \A j \in DOMAIN r : i < j => r[j].type # "cancelUpload"
  <2>1. DOMAIN q \subseteq Int /\ DOMAIN r \subseteq Int OBVIOUS
  <2>2. i + 1 \in DOMAIN q /\ q[i + 1].type = "upload" BY <1>1, <1>6
  <2>3. \A j \in DOMAIN r : i < j => i + 1 < j + 1 BY <2>1
  <2> QED BY <1>1, <2>2, <2>3 DEF InStep
<1>7. m.type \in {"upload", "uploadBlock"} => m.path = UploadPath(u)
  BY <1>1 DEF InStep, Transfers
<1>8. CASE m.type = "cancelUpload"
  <2>1. Has(q, "cancelUpload") BY <1>1, <1>8 DEF Has
  <2>2. ~Has(q, "uploadBlock") /\ ~Done(a, "upload") /\ ~Done(a, "uploadBlock") /\ u.reader # "reading"
    BY <2>1 DEF InStep, Holds
  <2>3. ~Has(r, "uploadBlock") /\ ~Done(b, "upload") /\ ~Done(b, "uploadBlock")
    BY <1>1, <1>3, <1>8, <2>2
  <2> QED BY <1>5, <1>6, <2>2, <2>3 DEF InStep
<1>9. CASE m.type \notin {"upload", "uploadBlock", "cancelUpload"}
  <2>1. st2 = st BY <1>9 DEF Outcome
  <2>2. Done(b, "upload") => Done(a, "upload") BY <1>3, <1>9
  <2>3. Done(b, "uploadBlock") => Done(a, "uploadBlock") BY <1>3, <1>9
  <2>4. \A n : Holds(s, q, u, st, n) => Holds(s, r, u, st2, n) BY <1>1, <2>1 DEF Holds
  <2>5. Whole(u, st2) = Whole(u, st) BY <2>1
  <2> QED BY <1>1, <1>5, <1>6, <2>2, <2>3, <2>4, <2>5 DEF InStep
<1>10. ASSUME m.type \in {"upload", "uploadBlock"}
       PROVE  /\ Transfers(a) = {} /\ Transfers(r) = {} /\ u.reader # "reading"
              /\ ~Has(r, "upload") /\ ~Has(r, "uploadBlock")
              /\ ~Done(a, "upload") /\ ~Done(a, "uploadBlock")
  <2>1. 1 \in Transfers(q) BY <1>1, <1>10 DEF Transfers
  <2>2. Transfers(a) = {} /\ Transfers(r) = {} /\ u.reader # "reading"
    BY <1>1, <1>10, <2>1 DEF PacedAt, Free
  <2> QED BY <2>2 DEF Transfers, Has, Done
<1>11. CASE m.type = "upload"
  <2>1. /\ u.reader = "none" /\ u.cur = u.tot
        /\ \A j \in DOMAIN q : 1 < j => q[j].type # "cancelUpload"
    BY <1>1, <1>11 DEF InStep
  <2>2. ~Has(r, "cancelUpload") BY <1>1, <2>1 DEF Has
  <2>3. ok => /\ Holds(s, r, u, st2, 0)
              /\ SizeOf(u) = 0 => Whole(u, st2)
    BY <1>7, <1>11, <2>2 DEF Outcome, Holds, Whole, SizeOf
  <2>4. ~Done(b, "uploadBlock") /\ (Done(b, "upload") => ok) BY <1>3, <1>10, <1>11
  <2> QED BY <1>5, <1>6, <1>10, <1>11, <2>1, <2>3, <2>4 DEF InStep
<1>12. CASE m.type = "uploadBlock"
  <2>1. Has(q, "uploadBlock") BY <1>1, <1>12 DEF Has
  <2>2. Holds(s, q, u, st, u.cur - 1) /\ u.filePos = u.cur /\ u.tot = SizeOf(u) BY <2>1 DEF InStep
  <2>3. ~Has(r, "cancelUpload") BY <1>1, <2>2 DEF Holds
  <2>4. ok => /\ Holds(s, r, u, st2, u.cur)
              /\ u.cur = u.tot => Whole(u, st2)
    BY <1>7, <1>12, <2>2, <2>3 DEF Outcome, Holds, Whole, SizeOf
  <2>5. ~Done(b, "upload") /\ (Done(b, "uploadBlock") => ok) BY <1>3, <1>10, <1>12
  <2> QED BY <1>5, <1>6, <1>10, <1>12, <2>2, <2>4, <2>5 DEF InStep
<1> QED BY <1>8, <1>9, <1>11, <1>12

LEMMA ServeForeign ==
  ASSUME NEW q \in Seq(Request), q # <<>>, NEW a \in Seq(Answers), NEW ok \in BOOLEAN,
         NEW m, m = Head(q), NEW b, b = Append(a, Reply(m, ok)), NEW r, r = Tail(q),
         NEW s, NEW st, NEW st2, Foreign(s, q, a, st), \A p \in Path : st2[p].by # s,
         m.type = "uploadBlock" => ~ok
  PROVE  Foreign(s, r, b, st2)
<1>0. Replies(q, a, m, ok, r, b) BY ServeQueues
<1>1. /\ \A i \in DOMAIN b : (i \in DOMAIN a /\ b[i] = a[i]) \/ b[i] = Reply(m, ok)
      /\ 1 \in DOMAIN q /\ m = q[1]
      /\ \A type : Has(r, type) => Has(q, type)
  BY <1>0 DEF Replies
<1>2. Reply(m, ok).type = m.type /\ Reply(m, ok).ok = ok BY DEF Reply
<1>3. \A type : Done(b, type) => Done(a, type) \/ (m.type = type /\ ok) BY <1>1, <1>2 DEF Done
<1>4. m.type # "upload" BY <1>1 DEF Foreign, Has
<1> QED BY <1>1, <1>3, <1>4 DEF Foreign

-----------------------------------------------------------------------------
(* Steps.                                                                  *)

\* What a step on the socket in use has to keep.
KeepsPace(w) ==
  /\ PacedAt(req'[w], ans'[w], activeUpload', disabled')
  /\ TrackedAt(w, req'[w], ans'[w], activeUpload', stored')
  /\ (activeUpload'.active /\ activeUpload'.on = w) => sock[w] = "open"

OnlyAt(w) == \A s \in Socket \ {w} : req'[s] = req[s] /\ ans'[s] = ans[s]

LEMMA SocketStep ==
  ASSUME TypeOK, UploadInv, NEW w \in Socket, w = webSocket, UNCHANGED <<webSocket, sock, serving>>,
         OnlyAt(w), KeepsPace(w),
         sock[w] # "open" => req'[w] = <<>> /\ ans'[w] = <<>>,
         \A p \in Path : stored'[p].by # None => stored'[p].by \in serving,
         picking' => ~disabled'
  PROVE  UploadInv'
<1>1. Connections' BY DEF UploadInv, Connections, Live, OnlyAt
<1> QED BY <1>1 DEF UploadInv, KeepsPace

LEMMA NoSocketStep ==
  ASSUME TypeOK, UploadInv, webSocket' = None, UNCHANGED <<sock, serving, req, ans>>,
         \A p \in Path : stored'[p].by # None => stored'[p].by \in serving,
         picking' => ~disabled'
  PROVE  UploadInv'
BY DEF UploadInv, Connections, Live

\* The socket in use, if there is one, and its queues.
LEMMA AtSocket ==
  ASSUME TypeOK, UploadInv, webSocket # None
  PROVE  /\ webSocket \in Socket
         /\ req[webSocket] \in Seq(Request) /\ ans[webSocket] \in Seq(Answers)
         /\ PacedAt(req[webSocket], ans[webSocket], activeUpload, disabled)
         /\ TrackedAt(webSocket, req[webSocket], ans[webSocket], activeUpload, stored)
         /\ (activeUpload.active /\ activeUpload.on = webSocket) => sock[webSocket] = "open"
         /\ sock[webSocket] # "open" => req[webSocket] = <<>> /\ ans[webSocket] = <<>>
BY DEF TypeOK, UploadInv, Connections

LEMMA SendAt ==
  ASSUME TypeOK, webSocket # None, NEW m, Send(<<m>>)
  PROVE  /\ req'[webSocket] = req[webSocket] \o <<m>>
         /\ \A s \in Socket \ {webSocket} : req'[s] = req[s]
BY DEF TypeOK, Send

\* Nothing that matters changes, or a message that is not of an upload is sent.
LEMMA PlainStep ==
  ASSUME TypeOK, UploadInv, UNCHANGED <<webSocket, sock, serving, activeUpload, disabled, stored>>,
         picking' => ~disabled,
         \/ UNCHANGED req
         \/ /\ CanSend
            /\ \E m \in Request : /\ m.type \notin {"upload", "uploadBlock", "cancelUpload"}
                                  /\ Send(<<m>>),
         \/ UNCHANGED ans
         \/ \E s \in Socket : s = webSocket /\ ans[s] # <<>> /\ ans' = [ans EXCEPT ![s] = Tail(@)]
  PROVE  UploadInv'
<1>0. \A p \in Path : stored'[p].by # None => stored'[p].by \in serving
  BY DEF UploadInv, Connections
<1>1. CASE webSocket = None
  <2>1. UNCHANGED <<req, ans>> BY <1>1, FileManagerClientAssumption DEF CanSend
  <2> QED BY <1>0, <1>1, <2>1, NoSocketStep
<1>2. CASE webSocket # None
  <2> DEFINE w == webSocket
             q == req[w]
             a == ans[w]
  <2>1. /\ w \in Socket /\ q \in Seq(Request) /\ a \in Seq(Answers)
        /\ PacedAt(q, a, activeUpload, disabled)
        /\ TrackedAt(w, q, a, activeUpload, stored)
        /\ (activeUpload.active /\ activeUpload.on = w) => sock[w] = "open"
        /\ sock[w] # "open" => q = <<>> /\ a = <<>>
    BY <1>2, AtSocket
  <2>2. \/ UNCHANGED req
        \/ /\ CanSend
           /\ \E m \in Request : /\ m.type \notin {"upload", "uploadBlock", "cancelUpload"}
                                 /\ req'[w] = q \o <<m>>
           /\ \A s \in Socket \ {w} : req'[s] = req[s]
    BY <1>2, SendAt
  <2>3. \/ UNCHANGED ans
        \/ a # <<>> /\ ans'[w] = Tail(a) /\ \A s \in Socket \ {w} : ans'[s] = ans[s]
    BY DEF TypeOK
  <2> DEFINE r == req'[w]
             b == ans'[w]
             Good(x, y) == /\ PacedAt(x, y, activeUpload, disabled)
                           /\ TrackedAt(w, x, y, activeUpload, stored)
  <2>4. Good(r, a)
    <3>1. CASE UNCHANGED req BY <2>1, <3>1
    <3>2. ASSUME NEW m \in Request, m.type \notin {"upload", "uploadBlock", "cancelUpload"}, r = q \o <<m>>
          PROVE  Good(r, a)
      <4> DEFINE x == q \o <<m>>
      <4>1. /\ PacedAt(q, a, activeUpload, disabled) => PacedAt(x, a, activeUpload, disabled)
            /\ TrackedAt(w, q, a, activeUpload, stored) => TrackedAt(w, x, a, activeUpload, stored)
        BY <2>1, <3>2, SendPlain
      <4> HIDE DEF x
      <4>2. Good(x, a) BY <2>1, <4>1
      <4> QED BY <3>2, <4>2 DEF x
    <3> QED BY <2>2, <3>1, <3>2
  <2>5. Good(r, b)
    <3>1. CASE UNCHANGED ans BY <2>4, <3>1
    <3>2. CASE a # <<>> /\ b = Tail(a)
      <4> HIDE DEF r, a, b
      <4>1. a \in Seq(Answers) BY <2>1
      <4>2. /\ \A u, d : PacedAt(r, a, u, d) => PacedAt(r, Tail(a), u, d)
            /\ \A s, u, st : TrackedAt(s, r, a, u, st) => TrackedAt(s, r, Tail(a), u, st)
        BY <3>2, <4>1, TakeAnswer
      <4> QED BY <2>4, <3>2, <4>2
    <3> QED BY <2>3, <3>1, <3>2
  <2>6. OnlyAt(w) BY <2>2, <2>3 DEF OnlyAt
  <2>7. KeepsPace(w) BY <2>1, <2>5 DEF KeepsPace
  <2>8. sock[w] # "open" => req'[w] = <<>> /\ ans'[w] = <<>> BY <2>1, <2>2, <2>3 DEF CanSend
  <2> QED BY <1>0, <2>1, <2>6, <2>7, <2>8, SocketStep
<1> QED BY <1>1, <1>2

\* connectWebSocket: a new socket knows nothing of an upload.
LEMMA ConnectStep ==
  ASSUME TypeOK, UploadInv, connectWebSocket,
         UNCHANGED <<uploadVars, userVars, req, ans, serving, stored>>
  PROVE  UploadInv'
<1> USE DEF uploadVars, userVars
<1>1. CASE webSocket # None
  <2>1. UNCHANGED <<webSocket, sock>> BY <1>1 DEF connectWebSocket
  <2> QED BY <2>1, PlainStep DEF UploadInv
<1>2. CASE webSocket = None
  <2>1. PICK s \in Socket : Fresh(s) /\ webSocket' = s /\ sock' = [sock EXCEPT ![s] = "connecting"]
    BY <1>2 DEF connectWebSocket, NewSocket
  <2>2. req[s] = <<>> /\ ans[s] = <<>> /\ \A p \in Path : stored[p].by # s
    BY <2>1, FileManagerClientAssumption DEF Fresh, UploadInv, Connections
  <2>3. Connections' BY <2>1, <2>2 DEF Fresh, UploadInv, Connections, Live, TypeOK
  <2>4. PacedAt(<<>>, <<>>, activeUpload, disabled)
    BY DEF PacedAt, Free, Single, Transfers
  <2>5. Foreign(s, <<>>, <<>>, stored) BY <2>2 DEF Foreign, Has, Done
  <2>6. activeUpload.on # s BY <2>1 DEF Fresh
  <2> QED BY <2>1, <2>2, <2>3, <2>4, <2>5, <2>6 DEF UploadInv, TrackedAt
<1> QED BY <1>1, <1>2

\* The socket in use is gone, and its messages; so may be another one.
LEMMA DisconnectStep ==
  ASSUME TypeOK, UploadInv, webSocket' = None, UNCHANGED <<serving, stored>>,
         picking' => ~disabled',
         \A s \in Socket : \/ req'[s] = <<>> /\ ans'[s] = <<>> /\ sock'[s] # "connecting"
                           \/ req'[s] = req[s] /\ ans'[s] = ans[s] /\ sock'[s] = sock[s]
  PROVE  UploadInv'
BY DEF UploadInv, Connections

\* The upload is forgotten or its reader stopped; a request to cancel it may go out.
LEMMA CancelStep ==
  ASSUME TypeOK, UploadInv, ButtonFollowsUpload, cancelUpload,
         UNCHANGED <<webSocket, sock, serving, stored, ans, picking>>
  PROVE  UploadInv'
<1> DEFINE w == webSocket
           u == activeUpload
<1>0. \A p \in Path : stored'[p].by # None => stored'[p].by \in serving
  BY DEF UploadInv, Connections
<1>1. CASE ~u.active
  <2>1. UNCHANGED <<activeUpload, disabled, req>> BY <1>1 DEF cancelUpload
  <2> QED BY <2>1, PlainStep DEF UploadInv
<1>2. CASE u.active /\ ~CanSend
  <2>1. activeUpload' = [u EXCEPT !.reader = "none"] /\ UNCHANGED <<disabled, req>>
    BY <1>2 DEF cancelUpload
  <2>2. activeUpload'.reader = "none" /\ activeUpload'.active /\ activeUpload'.on = u.on
    BY <1>2, <2>1 DEF TypeOK, UploadState
  <2>3. CASE w = None BY <1>0, <2>1, <2>3, NoSocketStep DEF UploadInv
  <2>4. CASE w # None
    <3>1. /\ w \in Socket /\ PacedAt(req[w], ans[w], u, disabled)
          /\ TrackedAt(w, req[w], ans[w], u, stored)
          /\ u.on # w /\ (sock[w] # "open" => req[w] = <<>> /\ ans[w] = <<>>)
      BY <1>2, <2>4, AtSocket DEF CanSend
    <3>2. KeepsPace(w) BY <1>2, <2>1, <2>2, <3>1 DEF KeepsPace, PacedAt, TrackedAt
    <3> QED BY <1>0, <2>1, <3>1, <3>2, SocketStep DEF UploadInv, OnlyAt
  <2> QED BY <2>3, <2>4
<1>3. CASE u.active /\ CanSend
  <2> DEFINE m == Msg("cancelUpload", UploadPath(u))
  <2>1. ForgetUpload /\ Send(<<m>>) BY <1>3 DEF cancelUpload
  <2>2. activeUpload' = NoUpload /\ UNCHANGED disabled BY <1>3, <2>1 DEF ForgetUpload
  <2>3. InProgress(u) BY <1>3 DEF TypeOK, InProgress
  <2>4. m \in Request /\ m.type = "cancelUpload" BY <2>3, CurrentFile DEF Msg, Request
  <2> HIDE DEF m
  <2>5. /\ w \in Socket /\ req[w] \in Seq(Request) /\ PacedAt(req[w], ans[w], u, disabled)
        /\ sock[w] = "open"
    BY <1>3, AtSocket DEF CanSend
  <2>6. req'[w] = req[w] \o <<m>> /\ OnlyAt(w) BY <1>3, <2>1, SendAt DEF OnlyAt, CanSend
  <2>7. PacedAt(req'[w], ans[w], u, disabled) BY <2>4, <2>5, <2>6, SendPlain
  <2>8. NoUpload.reader = "none" /\ ~NoUpload.active BY DEF NoUpload
  <2>9. KeepsPace(w) BY <2>2, <2>7, <2>8 DEF KeepsPace, PacedAt, TrackedAt
  <2> QED BY <1>0, <2>2, <2>5, <2>6, <2>9, SocketStep DEF UploadInv
<1> QED BY <1>1, <1>2, <1>3

LEMMA FreeInStep ==
  ASSUME NEW s, NEW q, NEW a, NEW u, NEW st, Free(q, a),
         u.reader = "reading" => Holds(s, q, u, st, u.filePos)
  PROVE  InStep(s, q, a, u, st)
BY DEF Free, InStep, Transfers, Has, Done

\* An upload, or its next file, is asked for.
LEMMA AskStep ==
  ASSUME NEW s, NEW q \in Seq(Request), NEW a, NEW u, NEW st, Free(q, a), InProgress(u),
         u.reader = "none", u.cur = u.tot
  PROVE  LET r == q \o prepare(u)
         IN  Single(r, a) /\ InStep(s, r, a, u, st)
<1> DEFINE m == Msg("upload", UploadPath(u))
           r == q \o <<m>>
<1>1. m \in Request /\ m.type = "upload" /\ m.path = UploadPath(u)
  BY CurrentFile DEF Msg, Request
<1> HIDE DEF m
<1>2. /\ Single(r, a) /\ Transfers(a) = {} /\ Transfers(r) = {Len(q) + 1} /\ r[Len(q) + 1] = m
      /\ \A j \in DOMAIN r : ~(Len(q) + 1 < j)
      /\ \A i \in DOMAIN r : i = Len(q) + 1 \/ (i \in DOMAIN q /\ r[i] = q[i])
  BY <1>1, SendTransfer
<1> HIDE DEF r
<1>3. ~Done(a, "upload") /\ ~Done(a, "uploadBlock") BY <1>2 DEF Done, Transfers
<1>4. ~Has(r, "uploadBlock") BY <1>1, <1>2 DEF Has, Transfers
<1>5. \A i \in DOMAIN r : r[i].type = "upload" => i = Len(q) + 1 BY <1>2 DEF Transfers
<1>6. InStep(s, r, a, u, st) BY <1>1, <1>2, <1>3, <1>4, <1>5 DEF InStep
<1> QED BY <1>2, <1>6 DEF r, m, prepare

\* An answer was taken, and nothing of the upload is under way.
Taken(w) ==
  /\ Free(req[w], ans'[w]) /\ sock[w] = "open" /\ w \in Socket /\ w = webSocket
  /\ UNCHANGED stored /\ activeUpload.reader # "reading"

\* Requests go to the socket in use only.
ToSocket(w) == \A s \in Socket \ {w} : req'[s] = req[s]

LEMMA AdvanceStep ==
  ASSUME TypeOK, ButtonFollowsUpload, NEW w, Taken(w), advanceUpload(activeUpload),
         activeUpload.active => activeUpload.on = w,
         activeUpload.cur # activeUpload.tot =>
           Holds(w, req[w], activeUpload, stored, activeUpload.filePos)
  PROVE  KeepsPace(w) /\ ToSocket(w)
<1> DEFINE u == activeUpload
           v == advance(u)
           q == req[w]
           b == ans'[w]
<1>0. w # None /\ w \in Socket /\ q \in Seq(Request) /\ Free(q, b)
  BY FileManagerClientAssumption DEF Taken, TypeOK
<1>1. CASE ~u.active
  <2>1. UNCHANGED <<activeUpload, disabled, req>> BY <1>1 DEF advanceUpload, uploadVars
  <2>2. Single(q, b) BY <1>0 DEF Free, Single
  <2> QED BY <1>0, <1>1, <2>1, <2>2 DEF KeepsPace, ToSocket, PacedAt, TrackedAt
<1>2. CASE u.active
  <2>1. InProgress(u) /\ disabled = TRUE /\ u.on = w
    BY <1>2 DEF TypeOK, InProgress, ButtonFollowsUpload
  <2>2. /\ v \in UploadState /\ v.active /\ v.files = u.files /\ v.destDir = u.destDir
        /\ AllDone(v) \/ v.filesProcessed < Len(v.files)
    BY <2>1, AdvanceOK
  <2>3. CASE AllDone(v)
    <3> DEFINE m == Msg("listDir", Here(currentPath))
    <3>1. terminateUpload /\ Send(<<m>>) BY <1>2, <2>3 DEF advanceUpload
    <3>2. activeUpload' = NoUpload /\ UNCHANGED disabled
      BY <1>2, <3>1 DEF terminateUpload, ForgetUpload
    <3>3. ~NoUpload.active /\ NoUpload.reader = "none" BY DEF NoUpload
    <3>4. m \in Request /\ m.type = "listDir" BY DEF TypeOK, Msg, Request, Here
    <3>5. req'[w] = q \o <<m>> /\ ToSocket(w) BY <1>0, <3>1, SendAt DEF Taken, ToSocket
    <3> HIDE DEF m, v
    <3>6. PacedAt(q, b, NoUpload, disabled) BY <1>0 DEF Free, Single, PacedAt
    <3>7. PacedAt(req'[w], b, NoUpload, disabled) BY <1>0, <3>4, <3>5, <3>6, SendPlain
    <3> QED BY <3>2, <3>3, <3>5, <3>7 DEF KeepsPace, TrackedAt
  <2>4. CASE ~AllDone(v)
    <3>1. /\ activeUpload' = v /\ UNCHANGED disabled
          /\ IF v.filesProcessed # u.filesProcessed THEN Send(prepare(v)) ELSE req' = req
      BY <1>2, <2>4 DEF advanceUpload
    <3>2. CASE u.cur # u.tot
      <4>1. v = requestNextBlock(u) BY <3>2 DEF advance
      <4>2. /\ v.filesProcessed = u.filesProcessed /\ v.on = u.on /\ v.filePos = u.filePos
            /\ UploadPath(v) = UploadPath(u)
        BY <2>1, <4>1 DEF requestNextBlock, InProgress, UploadState, UploadPath
      <4> HIDE DEF v
      <4>3. req' = req BY <3>1, <4>2
      <4>4. Holds(w, q, v, stored, v.filePos) BY <3>2, <4>2 DEF Holds
      <4>5. InStep(w, q, b, v, stored) BY <1>0, <4>4, FreeInStep
      <4>6. PacedAt(q, b, v, disabled) BY <1>0 DEF Free, Single, PacedAt
      <4> QED BY <2>1, <3>1, <4>2, <4>3, <4>5, <4>6 DEF KeepsPace, ToSocket, TrackedAt, Taken
    <3>3. CASE u.cur = u.tot
      <4> DEFINE n == u.filesProcessed + 1
                 d == IF n = Len(u.files) THEN u.reader ELSE "none"
      <4>1. v = [u EXCEPT !.filesProcessed = n, !.reader = d] BY <3>3 DEF advance
      <4>2. n # u.filesProcessed BY <2>1 DEF InProgress, UploadState
      <4> HIDE DEF n
      <4>3. v.filesProcessed = n /\ v.reader = d /\ v.on = u.on /\ v.cur = v.tot
        BY <2>1, <3>3, <4>1 DEF InProgress, UploadState
      <4>4. n # Len(u.files) BY <2>2, <2>4, <4>3 DEF AllDone
      <4>5. v.reader = "none" BY <4>3, <4>4
      <4> HIDE DEF v
      <4>6. InProgress(v) BY <2>2, <2>4 DEF InProgress
      <4>7. Send(prepare(v)) BY <3>1, <4>2, <4>3
      <4>8. req'[w] = q \o prepare(v) /\ ToSocket(w)
        BY <1>0, <4>7, SendAt DEF Taken, ToSocket, prepare
      <4>9. Single(req'[w], b) /\ InStep(w, req'[w], b, v, stored)
        BY <1>0, <4>3, <4>5, <4>6, <4>8, AskStep
      <4> QED BY <2>1, <3>1, <4>3, <4>5, <4>8, <4>9 DEF KeepsPace, TrackedAt, PacedAt, Taken
    <3> QED BY <3>2, <3>3
  <2> QED BY <2>3, <2>4
<1> QED BY <1>1, <1>2

LEMMA StartStep ==
  ASSUME TypeOK, ButtonFollowsUpload, NEW w, Taken(w), startUpload,
         activeUpload.active =>
           /\ activeUpload.on = w /\ activeUpload.reader = "none"
           /\ activeUpload.cur = activeUpload.tot /\ Holds(w, req[w], activeUpload, stored, 0)
  PROVE  KeepsPace(w) /\ ToSocket(w)
<1> DEFINE u == activeUpload
           q == req[w]
           b == ans'[w]
<1>0. w # None /\ w \in Socket /\ q \in Seq(Request) /\ Free(q, b) /\ Single(q, b)
  BY FileManagerClientAssumption DEF Taken, TypeOK, Free, Single
<1>1. CASE ~u.active
  <2>1. UNCHANGED <<activeUpload, disabled, req>> BY <1>1 DEF startUpload, uploadVars
  <2> QED BY <1>0, <1>1, <2>1 DEF KeepsPace, ToSocket, PacedAt, TrackedAt
<1>2. CASE u.active /\ Size[u.files[u.filesProcessed + 1]] = 0
  <2>1. advanceUpload(u) BY <1>2 DEF startUpload
  <2> QED BY <1>2, <2>1, AdvanceStep
<1>3. CASE u.active /\ Size[u.files[u.filesProcessed + 1]] # 0
  <2> DEFINE v == [u EXCEPT !.reader = "idle", !.filePos = 0]
             x == requestNextBlock(v)
  <2>1. activeUpload' = x /\ UNCHANGED <<disabled, req>> BY <1>3 DEF startUpload
  <2>2. v.on = u.on /\ v.filePos = 0 /\ UploadPath(v) = UploadPath(u)
        /\ x.on = v.on /\ x.filePos = v.filePos /\ UploadPath(x) = UploadPath(v)
    BY DEF TypeOK, UploadState, requestNextBlock, UploadPath
  <2> HIDE DEF v, x
  <2>3. Holds(w, q, x, stored, x.filePos) BY <1>3, <2>2 DEF Holds
  <2>4. InStep(w, q, b, x, stored) BY <1>0, <2>3, FreeInStep
  <2> QED BY <1>0, <1>3, <2>1, <2>2, <2>4 DEF KeepsPace, ToSocket, TrackedAt, PacedAt, Taken
<1> QED BY <1>1, <1>2, <1>3

\* What an answer that reports success says of the upload.
LEMMA Reported ==
  ASSUME TypeOK, UploadInv, OneSocket, NEW s \in Socket, sock[s] = "open", ans[s] # <<>>,
         NEW m, m = Head(ans[s]), m.type \in {"upload", "uploadBlock"}
  PROVE  LET u == activeUpload
         IN  /\ s = webSocket /\ Single(req[s], ans[s]) /\ Free(req[s], Tail(ans[s]))
             /\ u.reader # "reading"
             /\ (u.active /\ m.ok) => u.on = s
             /\ (u.active /\ m.ok /\ m.type = "upload") =>
                  /\ u.reader = "none" /\ u.cur = u.tot /\ Holds(s, req[s], u, stored, 0)
                  /\ SizeOf(u) = 0 => Whole(u, stored)
             /\ (u.active /\ m.ok /\ m.type = "uploadBlock") =>
                  /\ Holds(s, req[s], u, stored, u.cur) /\ u.filePos = u.cur
                  /\ u.cur = u.tot => Whole(u, stored)
<1> DEFINE u == activeUpload
           q == req[s]
           a == ans[s]
<1>1. s = webSocket /\ s # None BY FileManagerClientAssumption DEF OneSocket, Live
<1>2. /\ a \in Seq(Answers) /\ a # <<>> /\ PacedAt(q, a, u, disabled) /\ TrackedAt(s, q, a, u, stored)
  BY <1>1, AtSocket
<1> HIDE DEF a
<1>3. Free(q, Tail(a)) /\ Single(q, a) /\ (m.ok => Done(a, m.type))
  BY <1>2, TakeAnswer DEF PacedAt, a
<1>4. ~Free(q, a)
  <2>1. 1 \in Transfers(a) BY <1>2, OneLess DEF Transfers, a
  <2> QED BY <2>1 DEF Free
<1>5. u.reader # "reading" BY <1>2, <1>4 DEF PacedAt
<1>6. (u.active /\ m.ok) => u.on = s /\ InStep(s, q, a, u, stored)
  BY <1>2, <1>3 DEF TrackedAt, Foreign
<1>7. (u.active /\ m.ok /\ m.type = "upload") =>
        /\ u.reader = "none" /\ u.cur = u.tot /\ Holds(s, q, u, stored, 0)
        /\ SizeOf(u) = 0 => Whole(u, stored)
  BY <1>3, <1>6 DEF InStep
<1>8. (u.active /\ m.ok /\ m.type = "uploadBlock") =>
        /\ Holds(s, q, u, stored, u.cur) /\ u.filePos = u.cur
        /\ u.cur = u.tot => Whole(u, stored)
  BY <1>3, <1>6 DEF InStep
<1> QED BY <1>1, <1>3, <1>5, <1>6, <1>7, <1>8 DEF a

LEMMA AnswerStep ==
  ASSUME TypeOK, UploadInv, DialogAgrees, NEW s \in Socket, handleWebSocketMessage(s)
  PROVE  UploadInv'
<1> USE DEF pageVars, uploadVars, userVars, DialogAgrees
<1> DEFINE m == Head(ans[s])
           q == req[s]
           b == ans'[s]
           u == activeUpload
<1>1. /\ sock[s] = "open" /\ ans[s] # <<>> /\ ans' = [ans EXCEPT ![s] = Tail(@)] /\ Handle(m)
      /\ UNCHANGED <<webSocket, sock, serving, stored, picking>>
  BY DEF handleWebSocketMessage
<1>2. s = webSocket /\ s # None /\ b = Tail(ans[s])
  BY <1>1, FileManagerClientAssumption DEF OneSocket, Live, TypeOK
<1>3. CanSend BY <1>1, <1>2 DEF CanSend
<1>4. (picking => ~disabled) /\ \A p \in Path : stored'[p].by # None => stored'[p].by \in serving
  BY <1>1 DEF UploadInv, Connections
<1> HIDE DEF m
<1>5. CASE UNCHANGED <<uploadVars, req>> BY <1>1, <1>2, <1>4, <1>5, PlainStep
<1>6. CASE Send(<<Msg("listDir", Here(currentPath))>>) /\ UNCHANGED uploadVars
  <2>1. Msg("listDir", Here(currentPath)) \in Request /\ Msg("listDir", Here(currentPath)).type = "listDir"
    BY DEF TypeOK, Msg, Request, Here
  <2> QED BY <1>1, <1>2, <1>3, <1>4, <1>6, <2>1, PlainStep
<1>7. ASSUME m.type \in {"upload", "uploadBlock"},
             \/ m.ok /\ m.type = "upload" /\ startUpload
             \/ m.ok /\ m.type = "uploadBlock" /\ advanceUpload(u)
             \/ terminateUpload /\ UNCHANGED req
      PROVE  UploadInv'
  <2>1. /\ Free(q, b) /\ u.reader # "reading"
        /\ (u.active /\ m.ok) => u.on = s
        /\ (u.active /\ m.ok /\ m.type = "upload") =>
             u.reader = "none" /\ u.cur = u.tot /\ Holds(s, q, u, stored, 0)
        /\ (u.active /\ m.ok /\ m.type = "uploadBlock") =>
             Holds(s, q, u, stored, u.cur) /\ u.filePos = u.cur
    BY <1>1, <1>2, <1>7, Reported DEF m
  <2>2. Taken(s) BY <1>1, <1>2, <2>1 DEF Taken
  <2>3. KeepsPace(s) /\ ToSocket(s)
    <3>1. CASE m.ok /\ m.type = "upload" /\ startUpload BY <2>1, <2>2, <3>1, StartStep
    <3>2. CASE m.ok /\ m.type = "uploadBlock" /\ advanceUpload(u)
      <4>1. CASE u.active BY <2>1, <2>2, <3>2, <4>1, AdvanceStep
      <4>2. CASE ~u.active
        <5>1. u.cur = u.tot BY <4>2 DEF TypeOK, NoUpload
        <5> QED BY <2>2, <3>2, <4>2, <5>1, AdvanceStep
      <4> QED BY <4>1, <4>2
    <3>3. CASE terminateUpload /\ UNCHANGED req
      <4>1. ~activeUpload'.active /\ activeUpload'.reader # "reading"
        BY <3>3, <2>1 DEF terminateUpload, ForgetUpload, NoUpload, TypeOK
      <4>2. Single(q, b) BY <2>1 DEF Free, Single
      <4> QED BY <2>1, <3>3, <4>1, <4>2 DEF KeepsPace, ToSocket, PacedAt, TrackedAt
    <3> QED BY <1>7, <3>1, <3>2, <3>3
  <2>4. OnlyAt(s) BY <1>1, <2>3 DEF OnlyAt, ToSocket, TypeOK
  <2>5. disabled' = disabled
    BY <1>1, AnswerGoesOn DEF UploadGoesOn
  <2> QED BY <1>1, <1>2, <1>4, <2>3, <2>4, <2>5, SocketStep
<1> QED BY <1>1, <1>5, <1>6, <1>7 DEF Handle

\* A block is sent while nothing is under way.
LEMMA BlockInStep ==
  ASSUME NEW s, NEW q \in Seq(Request), NEW a, NEW u, NEW v, NEW st, Free(q, a), InProgress(u),
         NEW m \in Request, m.type = "uploadBlock", m.path = UploadPath(u),
         UploadPath(v) = UploadPath(u), v.reader = "idle", v.filePos = v.cur, v.cur - 1 = u.filePos,
         v.tot = SizeOf(v), Holds(s, q, u, st, u.filePos)
  PROVE  InStep(s, q \o <<m>>, a, v, st)
<1> DEFINE r == q \o <<m>>
<1>1. /\ Transfers(a) = {} /\ Transfers(r) = {Len(q) + 1} /\ r[Len(q) + 1] = m
      /\ \A i \in DOMAIN r : i = Len(q) + 1 \/ (i \in DOMAIN q /\ r[i] = q[i])
  BY SendTransfer
<1> HIDE DEF r
<1>2. ~Done(a, "upload") /\ ~Done(a, "uploadBlock") BY <1>1 DEF Done, Transfers
<1>3. ~Has(r, "upload") BY <1>1 DEF Has, Transfers
<1>4. ~Has(r, "cancelUpload") BY <1>1 DEF Has, Holds
<1>5. Holds(s, r, v, st, v.cur - 1) BY <1>4 DEF Holds
<1> QED BY <1>1, <1>2, <1>3, <1>5 DEF InStep, Has, r

LEMMA BlockForeign ==
  ASSUME NEW s, NEW q \in Seq(Request), NEW a, NEW st, Foreign(s, q, a, st),
         NEW m \in Request, m.type = "uploadBlock"
  PROVE  Foreign(s, q \o <<m>>, a, st)
<1> DEFINE r == q \o <<m>>
<1>1. DOMAIN q = 1..Len(q) /\ DOMAIN r = 1..Len(q) + 1 /\ (\A i \in 1..Len(q) : r[i] = q[i])
      /\ r[Len(q) + 1] = m /\ Len(q) \in Nat
  BY OneMore
<1> HIDE DEF r
<1>2. ~Has(r, "upload") BY <1>1 DEF Has, Foreign
<1> QED BY <1>2 DEF Foreign, r

LEMMA BlockStep ==
  ASSUME TypeOK, UploadInv, DialogAgrees, BlockRead PROVE UploadInv'
<1> USE DEF pageVars, uploadVars, userVars, DialogAgrees
<1> DEFINE w == webSocket
           u == activeUpload
           v == AfterBlock(u)
           m == Msg("uploadBlock", UploadPath(u))
<1>1. /\ u.reader = "reading" /\ activeUpload' = v
      /\ IF CanSend THEN Send(<<m>>) ELSE req' = req
      /\ UNCHANGED <<webSocket, sock, serving, stored, ans, picking, disabled>>
  BY DEF BlockRead
<1>2. InProgress(u) BY <1>1 DEF TypeOK, InProgress, NoUpload
<1>3. disabled = TRUE BY <1>2 DEF InProgress, ButtonFollowsUpload, TypeOK
<1>4. m \in Request /\ m.type = "uploadBlock" /\ m.path = UploadPath(u)
  BY <1>2, CurrentFile DEF Msg, Request
<1>5. /\ v.reader = "idle" /\ v.filePos = v.cur /\ v.cur - 1 = u.filePos /\ v.active /\ v.on = u.on
      /\ UploadPath(v) = UploadPath(u) /\ v.tot = SizeOf(v)
  <2> DEFINE n == u.filePos + 1
             z == Size[u.files[u.filesProcessed + 1]]
  <2>1. n - 1 = u.filePos BY <1>2 DEF InProgress, UploadState
  <2>2. v = [u EXCEPT !.reader = "idle", !.filePos = n, !.cur = n, !.tot = z] BY DEF AfterBlock
  <2>3. z = SizeOf(u) BY DEF SizeOf, UploadPath
  <2> HIDE DEF n, z
  <2>4. /\ v.reader = "idle" /\ v.filePos = n /\ v.cur = n /\ v.active /\ v.on = u.on /\ v.tot = z
        /\ v.destDir = u.destDir /\ v.files = u.files /\ v.filesProcessed = u.filesProcessed
    BY <1>2, <2>2 DEF InProgress, UploadState
  <2> HIDE DEF v
  <2> QED BY <2>1, <2>3, <2>4 DEF UploadPath, SizeOf
<1> HIDE DEF v, m
<1>6. (picking' => ~disabled') /\ \A p \in Path : stored'[p].by # None => stored'[p].by \in serving
  BY <1>1 DEF UploadInv, Connections
<1>7. CASE w = None
  <2>1. req' = req BY <1>1, <1>7 DEF CanSend
  <2> QED BY <1>1, <1>6, <1>7, <2>1, NoSocketStep
<1>8. CASE w # None
  <2>1. /\ w \in Socket /\ req[w] \in Seq(Request)
        /\ PacedAt(req[w], ans[w], u, disabled) /\ TrackedAt(w, req[w], ans[w], u, stored)
        /\ (u.active /\ u.on = w) => sock[w] = "open"
        /\ sock[w] # "open" => req[w] = <<>> /\ ans[w] = <<>>
    BY <1>8, AtSocket
  <2>2. Free(req[w], ans[w]) BY <1>1, <2>1 DEF PacedAt
  <2>3. u.active BY <1>2 DEF InProgress
  <2>4. CASE ~CanSend
    <3>1. req' = req BY <1>1, <2>4
    <3>2. u.on # w BY <1>8, <2>1, <2>3, <2>4 DEF CanSend
    <3>3. KeepsPace(w)
      BY <1>1, <1>5, <2>1, <2>2, <2>3, <3>1, <3>2 DEF KeepsPace, PacedAt, TrackedAt
    <3> QED BY <1>1, <1>6, <2>1, <3>1, <3>3, SocketStep DEF OnlyAt
  <2>5. CASE CanSend
    <3>1. req'[w] = req[w] \o <<m>> /\ OnlyAt(w) BY <1>1, <1>8, <2>5, SendAt DEF OnlyAt
    <3>2. Single(req'[w], ans[w]) BY <1>4, <2>1, <2>2, <3>1, SendTransfer
    <3>3. PacedAt(req'[w], ans[w], v, disabled) BY <1>3, <1>5, <3>2 DEF PacedAt
    <3>4. TrackedAt(w, req'[w], ans[w], v, stored)
      <4>1. CASE u.on = w
        <5>1. Holds(w, req[w], u, stored, u.filePos)
          BY <1>1, <2>1, <2>3, <4>1 DEF TrackedAt, InStep
        <5>2. InStep(w, req'[w], ans[w], v, stored)
          BY <1>2, <1>4, <1>5, <2>1, <2>2, <3>1, <5>1, BlockInStep
        <5> QED BY <1>5, <4>1, <5>2 DEF TrackedAt
      <4>2. CASE u.on # w
        <5>1. Foreign(w, req[w], ans[w], stored) BY <2>1, <2>3, <4>2 DEF TrackedAt
        <5>2. Foreign(w, req'[w], ans[w], stored) BY <1>4, <2>1, <3>1, <5>1, BlockForeign
        <5> QED BY <1>5, <4>2, <5>2 DEF TrackedAt
      <4> QED BY <4>1, <4>2
    <3>5. KeepsPace(w) /\ sock[w] = "open" BY <1>1, <2>5, <3>3, <3>4 DEF KeepsPace, CanSend
    <3> QED BY <1>1, <1>6, <2>1, <3>1, <3>5, SocketStep
  <2> QED BY <2>4, <2>5
<1> QED BY <1>7, <1>8

\* A new upload, on the connection in use or on none.
LEMMA NewUploadStep ==
  ASSUME TypeOK, TypeOK', UploadInv, DialogAgrees, NEW files \in Selections, uploadFiles(files)
  PROVE  UploadInv'
<1> USE DEF pageVars, userVars, DialogAgrees, UserUnchanged
<1> DEFINE w == webSocket
           on == IF CanSend THEN w ELSE None
           u == [NoUpload EXCEPT !.active = TRUE, !.destDir = currentPath, !.files = files,
                                 !.on = on]
<1>0. picking /\ ~disabled /\ ~activeUpload.active
  BY DEF uploadFiles, UploadInv, ButtonFollowsUpload
<1>1. /\ activeUpload' = u /\ disabled' = TRUE /\ picking' = FALSE
      /\ IF CanSend THEN Send(prepare(u)) ELSE req' = req
      /\ UNCHANGED <<webSocket, sock, serving, stored, ans>>
  BY <1>0 DEF uploadFiles
<1> HIDE DEF on
<1>2. u.active /\ u.reader = "none" /\ u.cur = u.tot /\ u.on = on BY DEF NoUpload
<1>3. InProgress(u) BY <1>1, <1>2 DEF TypeOK, InProgress
<1> HIDE DEF u
<1>4. \A p \in Path : stored'[p].by # None => stored'[p].by \in serving
  BY <1>1 DEF UploadInv, Connections
<1>5. CASE w = None
  <2>1. req' = req BY <1>1, <1>5 DEF CanSend
  <2> QED BY <1>1, <1>4, <1>5, <2>1, NoSocketStep
<1>6. CASE w # None
  <2>1. /\ w \in Socket /\ req[w] \in Seq(Request)
        /\ PacedAt(req[w], ans[w], activeUpload, disabled)
        /\ sock[w] # "open" => req[w] = <<>> /\ ans[w] = <<>>
    BY <1>6, AtSocket
  <2>2. Free(req[w], ans[w]) BY <1>0, <2>1 DEF PacedAt
  <2>3. CASE CanSend
    <3>1. req'[w] = req[w] \o prepare(u) /\ OnlyAt(w)
      BY <1>1, <1>6, <2>3, SendAt DEF OnlyAt, prepare
    <3>2. Single(req'[w], ans[w]) /\ InStep(w, req'[w], ans[w], u, stored)
      BY <1>2, <1>3, <2>1, <2>2, <3>1, AskStep
    <3>3. u.on = w /\ sock[w] = "open" BY <1>2, <2>3 DEF on, CanSend
    <3>4. KeepsPace(w) BY <1>1, <1>2, <3>2, <3>3 DEF KeepsPace, PacedAt, TrackedAt
    <3> QED BY <1>1, <1>4, <2>1, <3>1, <3>3, <3>4, SocketStep
  <2>4. CASE ~CanSend
    <3>1. req' = req /\ u.on # w BY <1>1, <1>2, <1>6, <2>4 DEF on
    <3>2. sock[w] # "open" BY <1>6, <2>4 DEF CanSend
    <3>3. w \notin serving
      <4>1. sock[w] = "connecting"
        BY <1>6, <3>2 DEF UploadInv, Connections, Live
      <4> QED BY <2>1, <4>1 DEF UploadInv, Connections
    <3>4. Foreign(w, <<>>, <<>>, stored)
      BY <1>4, <1>1, <1>6, <3>3 DEF Foreign, Has, Done
    <3>5. KeepsPace(w)
      BY <1>1, <1>2, <2>1, <2>2, <3>1, <3>2, <3>4 DEF KeepsPace, PacedAt, TrackedAt
    <3> QED BY <1>1, <1>4, <2>1, <3>1, <3>5, SocketStep DEF OnlyAt
  <2> QED BY <2>3, <2>4
<1> QED BY <1>5, <1>6

\* What Serve makes of a request for s.
LEMMA ServeOutcome ==
  ASSUME TypeOK, NEW s \in Socket, NEW m \in Request, NEW ok \in BOOLEAN,
         \/ IsUpload(m) /\ stored' = Served(s, m) /\ ok = (Served(s, m) # stored)
         \/ m.type = "upload" /\ stored' = stored /\ ok = FALSE
         \/ m.type = "uploadBlock" /\ stored' = Dropped(s, m.path) /\ ok = FALSE
         \/ ~IsUpload(m) /\ stored' = stored
  PROVE  /\ Outcome(s, m, ok, stored, stored')
         /\ \A p \in Path : stored'[p].by \in {stored[p].by, s, None}
         /\ (m.type # "upload" /\ \A p \in Path : stored[p].by # s) =>
              /\ \A p \in Path : stored'[p].by # s
              /\ m.type = "uploadBlock" => ~ok
<1> DEFINE e == stored[m.path]
           z == Size[m.path[2]]
           n == e.blocks + 1
           fst == [blocks |-> 0, by |-> IF z = 0 THEN None ELSE s, whole |-> z = 0]
           nxt == [blocks |-> n, by |-> IF n = z THEN None ELSE s, whole |-> n = z]
<1>1. IsUpload(m) => m.path \in Path BY FileManagerClientAssumption DEF IsUpload, Request
<1>2. Absent.by = None BY DEF Absent
<1>3. ASSUME m.type = "upload", stored' = Served(s, m), ok = (stored' # stored)
      PROVE  ok => stored' = [stored EXCEPT ![m.path] = fst]
  BY <1>3 DEF Served
<1>4. ASSUME m.type = "uploadBlock", stored' = Served(s, m), ok = (stored' # stored)
      PROVE  ok => e.by = s /\ stored' = [stored EXCEPT ![m.path] = nxt]
  BY <1>4 DEF Served
<1>5. ASSUME m.type = "cancelUpload", stored' = Served(s, m)
      PROVE  \/ stored' = stored
             \/ e.by = s /\ stored' = [stored EXCEPT ![m.path] = Absent]
  BY <1>5 DEF Served
<1>6. ASSUME stored' = Dropped(s, m.path)
      PROVE  \/ stored' = stored
             \/ e.by = s /\ stored' = [stored EXCEPT ![m.path] = Absent]
  BY <1>6 DEF Dropped
<1>7. fst.blocks = 0 /\ fst.by \in {s, None} /\ (z = 0 => fst.whole) OBVIOUS
<1>8. nxt.blocks = n /\ nxt.by \in {s, None} /\ (n = z => nxt.whole) OBVIOUS
<1>9. DOMAIN stored = Path BY DEF TypeOK
<1> HIDE DEF fst, nxt
<1>10. CASE m.type = "upload"
  <2>1. IsUpload(m) /\ m.path \in Path BY <1>1, <1>10 DEF IsUpload
  <2>2. \/ stored' = stored /\ ~ok
        \/ stored' = [stored EXCEPT ![m.path] = fst]
    BY <1>3, <1>10, <2>1
  <2>3. ok => stored'[m.path] = fst BY <1>9, <2>1, <2>2
  <2>4. Outcome(s, m, ok, stored, stored') BY <1>7, <1>10, <2>3 DEF Outcome
  <2>5. \A p \in Path : stored'[p].by \in {stored[p].by, s, None} BY <1>7, <1>9, <2>2
  <2> QED BY <1>10, <2>4, <2>5
<1>11. CASE m.type = "uploadBlock"
  <2>1. IsUpload(m) /\ m.path \in Path BY <1>1, <1>11 DEF IsUpload
  <2>2. \/ stored' = stored /\ ~ok
        \/ ~ok /\ e.by = s /\ stored' = [stored EXCEPT ![m.path] = Absent]
        \/ e.by = s /\ stored' = [stored EXCEPT ![m.path] = nxt]
    BY <1>4, <1>6, <1>11, <2>1
  <2>3. ok => stored'[m.path] = nxt /\ e.by = s BY <1>9, <2>1, <2>2
  <2>4. Outcome(s, m, ok, stored, stored') BY <1>8, <1>11, <2>3 DEF Outcome
  <2>5. \A p \in Path : stored'[p].by \in {stored[p].by, s, None} BY <1>2, <1>8, <1>9, <2>2
  <2>6. (\A p \in Path : stored[p].by # s) => stored' = stored /\ ~ok BY <2>1, <2>2
  <2> QED BY <1>11, <2>4, <2>5, <2>6
<1>12. CASE m.type = "cancelUpload"
  <2>1. IsUpload(m) /\ m.path \in Path BY <1>1, <1>12 DEF IsUpload
  <2>2. \/ stored' = stored
        \/ e.by = s /\ stored' = [stored EXCEPT ![m.path] = Absent]
    BY <1>5, <1>12, <2>1
  <2>3. Outcome(s, m, ok, stored, stored') BY <1>12 DEF Outcome
  <2>4. \A p \in Path : stored'[p].by \in {stored[p].by, s, None} BY <1>2, <1>9, <2>2
  <2>5. (\A p \in Path : stored[p].by # s) => stored' = stored BY <2>1, <2>2
  <2> QED BY <1>12, <2>3, <2>4, <2>5
<1>13. CASE m.type \notin {"upload", "uploadBlock", "cancelUpload"}
  <2>1. stored' = stored BY <1>13 DEF IsUpload
  <2> QED BY <1>13, <2>1 DEF Outcome
<1> QED BY <1>10, <1>11, <1>12, <1>13

LEMMA ServeKeeps ==
  ASSUME TypeOK, UploadInv, DialogAgrees, NEW s \in Socket, Serve(s) PROVE UploadInv'
<1> USE DEF pageVars, uploadVars, userVars, DialogAgrees
<1> DEFINE q == req[s]
           a == ans[s]
           m == Head(q)
           r == req'[s]
           b == ans'[s]
           u == activeUpload
<1>1. /\ s \in serving /\ q # <<>>
      /\ UNCHANGED <<webSocket, sock, serving, activeUpload, disabled, picking>>
  BY DEF Serve
<1>2. s = webSocket /\ s # None /\ sock[s] = "open"
  BY <1>1, FileManagerClientAssumption DEF UploadInv, Connections, OneSocket, Live
<1>3. /\ q \in Seq(Request) /\ a \in Seq(Answers)
      /\ PacedAt(q, a, u, disabled) /\ TrackedAt(s, q, a, u, stored)
  BY <1>2, AtSocket
<1>4. m \in Request BY <1>1, <1>3, OneLess
<1>5. PICK ok \in BOOLEAN :
        /\ Answer(s, m, ok)
        /\ \/ IsUpload(m) /\ stored' = Served(s, m) /\ ok = (Served(s, m) # stored)
           \/ m.type = "upload" /\ stored' = stored /\ ok = FALSE
           \/ m.type = "uploadBlock" /\ stored' = Dropped(s, m.path) /\ ok = FALSE
           \/ ~IsUpload(m) /\ stored' = stored
  BY DEF Serve
<1>6. r = Tail(q) /\ b = Append(a, Reply(m, ok)) /\ OnlyAt(s)
  BY <1>5 DEF Answer, Reply, TypeOK, OnlyAt
<1>7. /\ Outcome(s, m, ok, stored, stored')
      /\ \A p \in Path : stored'[p].by \in {stored[p].by, s, None}
      /\ (m.type # "upload" /\ \A p \in Path : stored[p].by # s) =>
              /\ \A p \in Path : stored'[p].by # s
              /\ m.type = "uploadBlock" => ~ok
  BY <1>4, <1>5, ServeOutcome
<1>8. \A p \in Path : stored'[p].by # None => stored'[p].by \in serving
  BY <1>1, <1>7 DEF UploadInv, Connections
<1>9. u.cur \in Nat BY DEF TypeOK, UploadState
<1> HIDE DEF q, a, m, r, b
<1>10. Replies(q, a, m, ok, r, b) BY <1>1, <1>3, <1>6, ServeQueues DEF m, q
<1>11. PacedAt(r, b, u, disabled) BY <1>3, <1>10 DEF Replies
<1>12. m = Head(q) BY DEF m
<1>13. TrackedAt(s, r, b, u, stored')
  <2>1. CASE u.active /\ u.on = s
    <3>1. InStep(s, q, a, u, stored) BY <1>3, <2>1 DEF TrackedAt
    <3>2. InStep(s, r, b, u, stored')
      <4> DEFINE st == stored
                 st2 == stored'
      <4>1. InStep(s, q, a, u, st) /\ Outcome(s, m, ok, st, st2) BY <1>7, <3>1
      <4> HIDE DEF st, st2
      <4>2. InStep(s, r, b, u, st2) BY <1>1, <1>3, <1>6, <1>9, <1>12, <4>1, ServeInStep DEF q
      <4> QED BY <4>2 DEF st2
    <3> QED BY <2>1, <3>2 DEF TrackedAt
  <2>2. CASE u.active /\ u.on # s
    <3>1. Foreign(s, q, a, stored) BY <1>3, <2>2 DEF TrackedAt
    <3>2. m.type # "upload"
      BY <1>10, <3>1 DEF Replies, Foreign, Has
    <3>3. (\A p \in Path : stored'[p].by # s) /\ (m.type = "uploadBlock" => ~ok)
      BY <1>7, <3>1, <3>2 DEF Foreign
    <3>4. Foreign(s, r, b, stored')
      <4> DEFINE st == stored
                 st2 == stored'
      <4>1. Foreign(s, q, a, st) /\ \A p \in Path : st2[p].by # s BY <3>1, <3>3
      <4> HIDE DEF st, st2
      <4>2. Foreign(s, r, b, st2) BY <1>1, <1>3, <1>6, <1>12, <3>3, <4>1, ServeForeign DEF q
      <4> QED BY <4>2 DEF st2
    <3> QED BY <2>2, <3>4 DEF TrackedAt
  <2>3. CASE ~u.active BY <2>3 DEF TrackedAt
  <2> QED BY <2>1, <2>2, <2>3
<1>14. KeepsPace(s) BY <1>1, <1>2, <1>11, <1>13 DEF KeepsPace, r, b
<1> QED BY <1>1, <1>2, <1>6, <1>8, <1>14, SocketStep DEF UploadInv

LEMMA ServerEndKeeps ==
  ASSUME TypeOK, UploadInv, NEW s \in Socket, ServerEnd(s) PROVE UploadInv'
<1> USE DEF pageVars, uploadVars, userVars
<1> DEFINE w == webSocket
           u == activeUpload
<1>1. /\ UNCHANGED <<webSocket, sock, req, ans, activeUpload, disabled, picking>>
      /\ serving' = serving \ {s} /\ sock[s] \in {"closing", "unused"}
      /\ stored' = [p \in Path |-> IF stored[p].by = s THEN Absent ELSE stored[p]]
  BY DEF ServerEnd
<1>2. Absent.by = None BY DEF Absent
<1>3. Connections' BY <1>1, <1>2 DEF UploadInv, Connections, Live
<1>4. ASSUME w # None PROVE KeepsPace(w)
  <2>1. /\ w \in Socket /\ PacedAt(req[w], ans[w], u, disabled)
        /\ TrackedAt(w, req[w], ans[w], u, stored)
        /\ (u.active /\ u.on = w) => sock[w] = "open"
    BY <1>4, AtSocket
  <2>2. ASSUME u.active, u.on = w, InStep(w, req[w], ans[w], u, stored)
        PROVE  InStep(w, req[w], ans[w], u, stored')
    <3>1. UploadPath(u) \in Path BY <2>2, CurrentFile DEF TypeOK, InProgress
    <3>2. s # w BY <1>1, <2>1, <2>2
    <3>3. stored[UploadPath(u)].by \in {w, None} => stored'[UploadPath(u)] = stored[UploadPath(u)]
      BY <1>1, <3>1, <3>2, FileManagerClientAssumption
    <3>4. \A n : Holds(w, req[w], u, stored, n) =>
            Holds(w, req[w], u, stored', n) /\ Whole(u, stored') = Whole(u, stored)
      BY <3>3 DEF Holds, Whole
    <3> QED BY <2>2, <3>4 DEF InStep
  <2>3. ASSUME Foreign(w, req[w], ans[w], stored) PROVE Foreign(w, req[w], ans[w], stored')
    BY <1>1, <1>2, <1>4, <2>3 DEF Foreign
  <2> QED BY <1>1, <2>1, <2>2, <2>3 DEF KeepsPace, TrackedAt
<1>5. (webSocket' # None) => webSocket # None BY <1>1
<1> QED BY <1>1, <1>3, <1>4, <1>5 DEF UploadInv, KeepsPace

LEMMA OpenKeeps ==
  ASSUME TypeOK, UploadInv, OneSocket, NEW s \in Socket, Open(s) PROVE UploadInv'
<1> USE DEF pageVars, uploadVars, userVars
<1> DEFINE m == Msg("listDir", Here(currentPath))
           u == activeUpload
<1>1. /\ sock[s] = "connecting" /\ sock' = [sock EXCEPT ![s] = "open"]
      /\ serving' = serving \cup {s} /\ req' = [req EXCEPT ![s] = <<m>>]
      /\ UNCHANGED <<webSocket, ans, activeUpload, disabled, stored, picking>>
  BY DEF Open
<1>2. s = webSocket /\ s # None BY <1>1, FileManagerClientAssumption DEF OneSocket, Live
<1>3. req[s] = <<>> /\ ans[s] = <<>> /\ s \notin serving BY <1>1 DEF UploadInv, Connections
<1>4. \A p \in Path : stored[p].by # s
  BY <1>2, <1>3 DEF UploadInv, Connections
<1>5. m.type = "listDir" BY DEF Msg
<1> HIDE DEF m
<1>6. Connections' BY <1>1, <1>2 DEF UploadInv, Connections, Live, TypeOK
<1>7. PacedAt(<<m>>, <<>>, u, disabled) BY <1>5 DEF PacedAt, Free, Single, Transfers
<1>8. Foreign(s, <<m>>, <<>>, stored) BY <1>4, <1>5 DEF Foreign, Has, Done
<1>9. u.active => u.on # s BY <1>1, <1>2 DEF UploadInv
<1>10. req'[s] = <<m>> /\ ans'[s] = <<>> /\ (picking => ~disabled)
  BY <1>1, <1>3 DEF TypeOK, UploadInv
<1> QED BY <1>1, <1>2, <1>6, <1>7, <1>8, <1>9, <1>10 DEF UploadInv, TrackedAt

LEMMA TransferCount ==
  ASSUME NEW S, NEW q \in Seq(S)
  PROVE  IsFiniteSet(Transfers(q)) /\ Cardinality(Transfers(q)) \in Nat
<1>1. Transfers(q) \in SUBSET (1..Len(q)) /\ Len(q) \in Nat BY DEF Transfers
<1>2. IsFiniteSet(1..Len(q)) BY <1>1, FS_Interval
<1> QED BY <1>1, <1>2, FS_Subset, FS_CardinalityType

\* The button is not enabled again before the last message of an upload was answered.
LEMMA ResetKeeps ==
  ASSUME ~LateAnswers, TypeOK, UploadInv, UiReset PROVE UploadInv'
<1> USE DEF pageVars, uploadVars, userVars, UserUnchanged
<1> DEFINE w == webSocket
           u == activeUpload
<1>1. /\ UNCHANGED <<webSocket, sock, serving, req, ans, activeUpload, stored, picking>>
      /\ disabled' = (disabled /\ u.active) /\ Answered
  BY DEF UiReset
<1>2. (picking' => ~disabled') /\ \A p \in Path : stored'[p].by # None => stored'[p].by \in serving
  BY <1>1 DEF UploadInv, Connections
<1>3. CASE w = None BY <1>1, <1>2, <1>3, NoSocketStep
<1>4. CASE w # None
  <2>1. /\ w \in Socket /\ req[w] \in Seq(Request) /\ ans[w] \in Seq(Answers)
        /\ PacedAt(req[w], ans[w], u, disabled)
        /\ TrackedAt(w, req[w], ans[w], u, stored)
        /\ (u.active /\ u.on = w) => sock[w] = "open"
        /\ sock[w] # "open" => req[w] = <<>> /\ ans[w] = <<>>
    BY <1>4, AtSocket
  <2>2. Unanswered(w) = 0 BY <1>1, <1>4 DEF Answered
  <2>3. Free(req[w], ans[w])
    <3> DEFINE x == Cardinality(Transfers(req[w]))
               y == Cardinality(Transfers(ans[w]))
    <3>1. x \in Nat /\ y \in Nat /\ x + y = 0 BY <2>1, <2>2, TransferCount DEF Unanswered
    <3>2. x = 0 /\ y = 0 BY <3>1
    <3> QED BY <2>1, <3>2, TransferCount, FS_EmptySet DEF Free
  <2>4. KeepsPace(w) BY <1>1, <2>1, <2>3 DEF KeepsPace, PacedAt
  <2> QED BY <1>1, <1>2, <2>1, <2>4, SocketStep DEF OnlyAt
<1> QED BY <1>3, <1>4

\* Taking the first message changes a queue.
LEMMA TailDiffers ==
  ASSUME NEW S, NEW q \in Seq(S), q # <<>> PROVE Tail(q) # q
<1>1. Len(q) \in Nat /\ Len(Tail(q)) = Len(q) - 1 OBVIOUS
<1> SUFFICES ASSUME Tail(q) = q PROVE FALSE OBVIOUS
<1>2. Len(Tail(q)) = Len(q) OBVIOUS
<1> DEFINE n == Len(q)
           k == Len(Tail(q))
<1>3. n \in Nat /\ k = n - 1 /\ k = n BY <1>1, <1>2
<1> HIDE DEF n, k
<1> QED BY <1>3

LEMMA UploadStep ==
  ~LateAnswers /\ TypeOK /\ TypeOK' /\ DialogAgrees /\ UploadInv /\ [Next]_vars => UploadInv'
<1> SUFFICES ASSUME ~LateAnswers, TypeOK, TypeOK', DialogAgrees, UploadInv, [Next]_vars
      PROVE UploadInv'
  OBVIOUS
<1> USE DEF pageVars, uploadVars, userVars, netVars, UserUnchanged, ClosedUnchanged,
            CancelUnchanged
<1>p. picking => ~disabled BY DEF UploadInv
<1>m. ASSUME NEW type \in {"listDir", "download"} \cup Actions, NEW dir \in Dir,
             Send(<<Msg(type, Here(dir))>>), MayRequest, DialogAgrees,
             UNCHANGED <<webSocket, sock, serving, activeUpload, disabled, stored, picking, ans>>
      PROVE  UploadInv'
  <2>1. type \notin {"upload", "uploadBlock", "cancelUpload"} BY FileManagerClientAssumption
  <2> DEFINE m == Msg(type, Here(dir))
  <2>2. m \in Request /\ m.type = type BY DEF Msg, Here, Request
  <2> HIDE DEF m
  <2>3. CanSend BY <1>m DEF MayRequest, MayClick, DialogAgrees, EnabledMeansOpen
  <2>4. Send(<<m>>) BY <1>m DEF m
  <2> QED BY <1>m, <1>p, <2>1, <2>2, <2>3, <2>4, PlainStep
<1>1. CASE openFileManager \/ Reconnect
  BY <1>1, ConnectStep DEF openFileManager, Reconnect
<1>2. CASE closeFileManager
  <2>1. disabled' = disabled
    BY <1>2 DEF closeFileManager, terminateUpload, ForgetUpload
  <2>2. \A s \in Socket : \/ req'[s] = <<>> /\ ans'[s] = <<>> /\ sock'[s] # "connecting"
                          \/ req'[s] = req[s] /\ ans'[s] = ans[s] /\ sock'[s] = sock[s]
    BY <1>2 DEF closeFileManager, disconnectWebSocket, CloseSockets, Silence, Live, TypeOK
  <2> QED BY <1>2, <1>p, <2>1, <2>2, DisconnectStep DEF closeFileManager, disconnectWebSocket
<1>3. ASSUME NEW dir \in Dir, navigate(dir) PROVE UploadInv'
  BY <1>3, <1>m DEF navigate
<1>4. ASSUME NEW type \in Actions, handleConfirmAction(type) PROVE UploadInv'
  BY <1>4, <1>m DEF handleConfirmAction, TypeOK
<1>5. CASE downloadFile BY <1>5, <1>m DEF downloadFile, TypeOK
<1>6. CASE clickUpload \/ dismiss \/ StoppedReadEnds \/ UNCHANGED vars
  BY <1>6, <1>p, PlainStep DEF clickUpload, dismiss, StoppedReadEnds, vars
<1>7. CASE clickCancel \/ ReadError
  BY <1>7, CancelStep DEF clickCancel, ReadError, DialogAgrees
<1>8. ASSUME NEW files \in Selections, uploadFiles(files) PROVE UploadInv'
  BY <1>8, NewUploadStep
<1>9. ASSUME NEW s \in Socket, Open(s) PROVE UploadInv'
  BY <1>9, OpenKeeps DEF DialogAgrees
<1>10. ASSUME NEW s \in Socket, onclose(s), ClosedUnchanged PROVE UploadInv'
  <2>1. \A t \in Socket : \/ req'[t] = <<>> /\ ans'[t] = <<>> /\ sock'[t] # "connecting"
                          \/ req'[t] = req[t] /\ ans'[t] = ans[t] /\ sock'[t] = sock[t]
    BY <1>10 DEF onclose, Silence, Silenced, Live, TypeOK
  <2> QED BY <1>10, <1>p, <2>1, DisconnectStep DEF onclose
<1>11. ASSUME NEW s \in Socket, handleWebSocketMessage(s) PROVE UploadInv' BY <1>11, AnswerStep
<1>12. CASE BlockRead BY <1>12, BlockStep
<1>13. CASE UiReset BY <1>13, ResetKeeps
<1>14. ASSUME NEW s \in Socket, Serve(s) \/ ServerEnd(s) PROVE UploadInv'
  BY <1>14, ServeKeeps, ServerEndKeeps
<1> QED BY <1>1, <1>2, <1>3, <1>4, <1>5, <1>6, <1>7, <1>8, <1>9, <1>10, <1>11, <1>12, <1>13, <1>14
        DEF Next, User, Browser, Server, Fault, Closed, Lose

LEMMA UploadInit == Init => UploadInv
<1> SUFFICES ASSUME Init PROVE UploadInv OBVIOUS
<1>1. \A p \in Path : stored[p].by = None BY DEF Init, Absent
<1> QED BY <1>1 DEF Init, UploadInv, Connections

UploadSafe == TypeOK /\ DialogAgrees /\ UploadInv

LEMMA UploadSafety == ~LateAnswers => (Init /\ [][Next]_vars => []UploadSafe)
<1> SUFFICES ASSUME ~LateAnswers PROVE Init /\ [][Next]_vars => []UploadSafe OBVIOUS
<1>1. Init => UploadSafe BY InitTypeOK, DialogInit, UploadInit DEF UploadSafe
<1>2. UploadSafe /\ [Next]_vars => UploadSafe'
  BY StepTypeOK, DialogStep, UploadStep DEF UploadSafe
<1> QED BY <1>1, <1>2, PTL

LEMMA SingleOneBlock == UploadSafe => OneBlock
<1> SUFFICES ASSUME UploadSafe, webSocket # None PROVE Unanswered(webSocket) <= 1
  BY DEF OneBlock
<1> DEFINE T == Transfers(req[webSocket])
           U == Transfers(ans[webSocket])
<1>1. /\ req[webSocket] \in Seq(Request) /\ ans[webSocket] \in Seq(Answers)
      /\ Single(req[webSocket], ans[webSocket])
  BY AtSocket DEF UploadSafe, PacedAt
<1>2. /\ IsFiniteSet(T) /\ Cardinality(T) \in Nat /\ IsFiniteSet(U) /\ Cardinality(U) \in Nat
  BY <1>1, TransferCount
<1>3. /\ \A i, j \in T : i = j
      /\ \A i, j \in U : i = j
      /\ T = {} \/ U = {}
  BY <1>1 DEF Single
<1> HIDE DEF T, U
<1>4. ASSUME NEW S, IsFiniteSet(S), \A i, j \in S : i = j
      PROVE  Cardinality(S) = 0 \/ Cardinality(S) = 1
  <2>1. CASE S = {} BY <2>1, FS_EmptySet
  <2>2. CASE S # {}
    <3>1. PICK i : i \in S BY <2>2
    <3>2. S = {i} BY <1>4, <3>1
    <3> QED BY <3>2, FS_Singleton
  <2> QED BY <2>1, <2>2
<1>5. (T = {} => Cardinality(T) = 0) /\ (U = {} => Cardinality(U) = 0) BY FS_EmptySet
<1>6. Cardinality(T) + Cardinality(U) <= 1 BY <1>2, <1>3, <1>4, <1>5
<1> QED BY <1>6 DEF T, U, Unanswered

\* When no answer comes later than the 800 ms the page waits after an upload
\* ended: at most one request of an upload is on its way or unanswered, across
\* files, cancelled uploads, failed reads, lost and late connections.
THEOREM OneBlockAtATime == ~LateAnswers => (Spec => []OneBlock)
<1> SUFFICES ASSUME ~LateAnswers PROVE Spec => []OneBlock OBVIOUS
<1>1. Init /\ [][Next]_vars => []UploadSafe BY UploadSafety
<1> QED BY <1>1, SingleOneBlock, PTL DEF Spec

-----------------------------------------------------------------------------
(* What the page reports.                                                  *)

StoredFirst == Counted \/ Shows100 => Whole(activeUpload, stored)

\* An upload goes on to its next file, or ends well, after the last block of a file.
LEMMA AdvanceReports ==
  ASSUME TypeOK, advanceUpload(activeUpload), activeUpload.active,
         activeUpload.cur = activeUpload.tot => Whole(activeUpload, stored)
  PROVE  Counted \/ ~activeUpload'.active => Whole(activeUpload, stored)
<1> DEFINE u == activeUpload
           v == advance(u)
<1> SUFFICES ASSUME u.cur # u.tot PROVE ~Counted /\ activeUpload'.active OBVIOUS
<1>1. InProgress(u) BY DEF TypeOK, InProgress
<1>2. v = requestNextBlock(u) BY DEF advance
<1>3. v.filesProcessed = u.filesProcessed /\ v.files = u.files /\ v.active
  BY <1>1, <1>2, RequestNextBlock DEF InProgress
<1>4. ~AllDone(v) BY <1>1, <1>3 DEF AllDone, InProgress, UploadState
<1> HIDE DEF v
<1>5. activeUpload' = v BY <1>4 DEF advanceUpload, v
<1> QED BY <1>1, <1>3, <1>5 DEF Counted, InProgress, UploadState

LEMMA AnswerReports ==
  ASSUME UploadSafe, NEW s \in Socket, handleWebSocketMessage(s) PROVE StoredFirst
<1> USE DEF pageVars, uploadVars, userVars, DialogAgrees
<1> DEFINE m == Head(ans[s])
           u == activeUpload
<1>0. TypeOK /\ UploadInv /\ OneSocket BY DEF UploadSafe
<1>1. sock[s] = "open" /\ ans[s] # <<>> /\ ans' = [ans EXCEPT ![s] = Tail(@)] /\ Handle(m)
  BY DEF handleWebSocketMessage
<1>2. u.filesProcessed \in Nat BY <1>0 DEF TypeOK, UploadState
<1> HIDE DEF m
<1>3. ASSUME activeUpload'.filesProcessed = u.filesProcessed,
             activeUpload'.active = u.active \/ ~(u.active /\ ~activeUpload'.active)
      PROVE  StoredFirst
  BY <1>2, <1>3 DEF StoredFirst, Counted, Shows100
<1>4. CASE UNCHANGED activeUpload BY <1>3, <1>4
<1>5. CASE ~u.active
  <2>1. activeUpload' = u
    <3>1. CASE startUpload BY <1>5, <3>1 DEF startUpload
    <3>2. CASE advanceUpload(u) BY <1>5, <3>2 DEF advanceUpload
    <3>3. CASE terminateUpload BY <1>5, <3>3 DEF terminateUpload, ForgetUpload
    <3> QED BY <1>1, <3>1, <3>2, <3>3 DEF Handle
  <2> QED BY <1>4, <2>1
<1>6. ASSUME u.active, m.ok, m.type = "upload", startUpload PROVE StoredFirst
  <2>1. /\ u.reader = "none" /\ u.cur = u.tot /\ (SizeOf(u) = 0 => Whole(u, stored))
    BY <1>0, <1>1, <1>6, Reported DEF m
  <2>2. SizeOf(u) = Size[u.files[u.filesProcessed + 1]] BY DEF SizeOf, UploadPath
  <2>3. CASE SizeOf(u) = 0
    BY <2>1, <2>3 DEF StoredFirst
  <2>4. CASE SizeOf(u) # 0
    <3> DEFINE v == [u EXCEPT !.reader = "idle", !.filePos = 0]
               x == requestNextBlock(v)
    <3>1. activeUpload' = x BY <1>6, <2>1, <2>2, <2>4 DEF startUpload
    <3>2. x.filesProcessed = u.filesProcessed /\ x.active = u.active
      BY <1>0 DEF TypeOK, UploadState, requestNextBlock
    <3> HIDE DEF x
    <3> QED BY <1>3, <3>1, <3>2
  <2> QED BY <2>3, <2>4
<1>7. ASSUME u.active, m.ok, m.type = "uploadBlock", advanceUpload(u) PROVE StoredFirst
  <2>1. u.cur = u.tot => Whole(u, stored) BY <1>0, <1>1, <1>7, Reported DEF m
  <2> QED BY <1>0, <1>7, <2>1, AdvanceReports DEF StoredFirst, Shows100
<1>8. ASSUME ~m.ok, terminateUpload, u.active PROVE StoredFirst
  <2>1. activeUpload'.filesProcessed = 0
    BY <1>8 DEF terminateUpload, ForgetUpload, NoUpload
  <2>2. ~Counted BY <1>2, <2>1 DEF Counted
  <2>3. ~Shows100
    <3> SUFFICES ASSUME NEW t \in Socket, ans[t] # <<>>, ans'[t] = Tail(ans[t]), Head(ans[t]).ok
                 PROVE  FALSE
      BY DEF Shows100
    <3>1. t # s BY <1>8 DEF m
    <3>2. ans'[t] = ans[t] /\ ans[t] \in Seq(Answers) BY <1>0, <1>1, <3>1 DEF TypeOK
    <3> QED BY <3>2, TailDiffers
  <2> QED BY <2>2, <2>3 DEF StoredFirst
<1> QED BY <1>1, <1>4, <1>5, <1>6, <1>7, <1>8 DEF Handle

\* Every other step either leaves the upload active at the same file, or forgets
\* it and takes no answer.
LEMMA OtherReports ==
  ASSUME UploadSafe, [Next]_vars, ~\E s \in Socket : handleWebSocketMessage(s) PROVE StoredFirst
<1> USE DEF pageVars, uploadVars, userVars, netVars, UserUnchanged, ClosedUnchanged,
            CancelUnchanged
<1> DEFINE u == activeUpload
           p == activeUpload'
<1>0. TypeOK /\ u.filesProcessed \in Nat BY DEF UploadSafe, TypeOK, UploadState
<1>a. ASSUME p.filesProcessed = u.filesProcessed \/ p.filesProcessed = 0,
             p.active \/ ~u.active \/ ~opened' \/ ans' = ans
      PROVE  StoredFirst
  <2>1. ~Counted BY <1>0, <1>a DEF Counted
  <2>2. ~Shows100
    <3> SUFFICES ASSUME ans' = ans, NEW t \in Socket, ans[t] # <<>>, ans'[t] = Tail(ans[t])
                 PROVE  FALSE
      BY <1>a DEF Shows100
    <3>1. ans[t] \in Seq(Answers) BY <1>0 DEF TypeOK
    <3> QED BY <3>1, TailDiffers
  <2> QED BY <2>1, <2>2 DEF StoredFirst
<1>1. CASE UNCHANGED activeUpload BY <1>1, <1>a
<1>2. CASE closeFileManager
  BY <1>2, <1>0, <1>a DEF closeFileManager, terminateUpload, ForgetUpload, NoUpload
<1>3. CASE clickCancel \/ ReadError
  <2>1. p.filesProcessed = u.filesProcessed \/ p.filesProcessed = 0
    BY <1>3, <1>0 DEF clickCancel, ReadError, cancelUpload, ForgetUpload, NoUpload, TypeOK, UploadState
  <2> QED BY <1>3, <2>1, <1>a DEF clickCancel, ReadError
<1>4. ASSUME NEW files \in Selections, uploadFiles(files) PROVE StoredFirst
  <2>1. p = u \/ p.filesProcessed = 0 BY <1>4 DEF uploadFiles, NoUpload
  <2> QED BY <1>4, <2>1, <1>a DEF uploadFiles
<1>5. CASE BlockRead
  <2>1. p.filesProcessed = u.filesProcessed
    BY <1>5, <1>0 DEF BlockRead, AfterBlock, TypeOK, UploadState
  <2> QED BY <1>5, <2>1, <1>a DEF BlockRead
<1> QED BY <1>1, <1>2, <1>3, <1>4, <1>5
        DEF Next, User, Browser, Server, Fault, openFileManager, navigate, handleConfirmAction,
            downloadFile, clickUpload, dismiss, Open, Closed, Lose, Reconnect, UiReset,
            StoppedReadEnds, Serve, ServerEnd, vars

\* The page counts a file as processed, and shows 100 %, only when the server has
\* the whole of it: the client's count of blocks and the server's agree whatever
\* is cancelled, fails, is lost or reconnected in between.
THEOREM ReportsAreTrue == ~LateAnswers => (Spec => ReportedIsStored)
<1> SUFFICES ASSUME ~LateAnswers PROVE Spec => ReportedIsStored OBVIOUS
<1>1. Init /\ [][Next]_vars => []UploadSafe BY UploadSafety
<1>2. UploadSafe /\ [Next]_vars => [Counted \/ Shows100 => stored[UploadPath(activeUpload)].whole]_vars
  BY AnswerReports, OtherReports DEF StoredFirst, Whole
<1> QED BY <1>1, <1>2, PTL DEF Spec, ReportedIsStored
=============================================================================
