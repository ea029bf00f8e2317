---------------------------- MODULE FileUploads ----------------------------
(***************************************************************************)
(* Uploads of the web file manager (src/webservices/filemanager.go): one   *)
(* handler goroutine per WebSocket connection, the table pendingUploads    *)
(* they share, the files they write, and the end of the process            *)
(* (webservices.go, utils.go).                                             *)
(*                                                                         *)
(* The table is an expirable LRU.  Its lock is held while an entry that is *)
(* leaving is cleaned up, and the clean-up takes the mutex of the entry's  *)
(* upload; a handler takes that mutex too, to write.  A file is an inode   *)
(* with the identities of the uploads that wrote its blocks.               *)
(***************************************************************************)
EXTENDS Integers, FiniteSets, Sequences, Functions

CONSTANTS
  Conn,         \* WebSocket connections, each used once
  Path,         \* the paths clients name
  Home,         \* Home[c]: the paths the client of c uploads to
  Capacity,     \* MAX_PENDING_UPLOADS
  Size,         \* the sizes of uploaded files, in blocks
  MaxBlocks,    \* bound of the model: the largest size, and the largest message
  MaxUploads,   \* bound of the model: files created by uploads
  MayStall,     \* a block may be written more than PENDING_UPLOAD_VALIDITY_TIME after
                \* its entry was renewed
  FileOps,      \* the paths that clients rename, delete and create folders at
  MayMeddle,    \* ... "no": but not what is being uploaded; "early": even a path that
                \* an upload has seen free and not created yet; "yes": any path
  None,         \* no file, no lock
  Folder,       \* a folder
  Sweeper       \* the goroutine of the LRU that deletes expired entries

ASSUME FileUploadsAssumption ==
  /\ Home \in [Conn -> SUBSET Path] /\ FileOps \subseteq Path
  /\ Capacity \in Nat \ {0} /\ MaxBlocks \in Nat /\ Size \subseteq 0..MaxBlocks /\ MaxUploads \in Nat
  /\ MayStall \in BOOLEAN /\ MayMeddle \in {"no", "early", "yes"}
  /\ Sweeper \notin Conn /\ None \notin Conn \cup 1..MaxUploads
  /\ Folder \notin 1..MaxUploads \cup {None}
  /\ None \notin [by : Conn \cup {Sweeper}, id : 1..MaxUploads]
  /\ {None, Folder} \cap [by : 1..MaxUploads, whole : BOOLEAN] = {}

VARIABLES
  phase,      \* the process: "up", "stopping" or "exited"
  registered, \* connections of webSocketConnectionManager
  h,          \* the handler of each connection
  uploads,    \* every UploadFileContext ever created
  pending,    \* pendingUploads: path -> index in uploads
  expired,    \* keys whose ExpiresAt has passed
  order,      \* keys of pendingUploads, least recently used first
  lock,       \* who is cleaning which upload under the lock of the LRU, or None
  held,       \* uploads whose mu a handler holds
  dir,        \* the file at each path: an inode, Folder or None
  data        \* the blocks of each inode, as the uploads that wrote them

tableVars == <<pending, expired, order, lock>>
fileVars  == <<dir, data>>
vars == <<phase, registered, h, uploads, tableVars, held, fileVars>>

Ids == 1..MaxUploads

Open(i) == i \in DOMAIN uploads /\ uploads[i].open

Upload == [conn : Conn, path : Path, FileSize : Size, BytesReceived : 0..MaxBlocks,
           open : BOOLEAN, inode : Ids]

Idle == [pc |-> "read", path |-> None, id |-> 0, size |-> 0, keys |-> <<>>]

\* The handler of c can take a step: it is not inside an eviction callback.
Runs(c) == phase # "exited" /\ (lock # None => lock.by # c)

-----------------------------------------------------------------------------
(* The expirable LRU.                                                      *)

LockFree == lock = None

\* What Peek and Get find: entries past their time are not returned.
Live(p) == p \in DOMAIN pending /\ p \notin expired

\* The elements of s that are in S, in the order they have in s.  (Over a set,
\* and as a recursive function: FileUploadsProofs proves what it returns.)
Only(s, S) ==
  LET only[n \in 0..Len(s)] ==
        IF n = 0 THEN <<>>
        ELSE IF s[n] \in S THEN Append(only[n - 1], s[n]) ELSE only[n - 1]
  IN only[Len(s)]

\* The list without p.
Unlinked(p) == Only(order, DOMAIN pending \ {p})

Touched(p) == Append(Unlinked(p), p)

\* Add renews an entry and replaces its value, with no callback for the old
\* one.  A new key beyond the capacity evicts the least recently used.
AddEntry(p, i, by) ==
  LET grown  == [q \in DOMAIN pending \cup {p} |-> IF q = p THEN i ELSE pending[q]]
      oldest == Head(Touched(p))
      full   == Cardinality(DOMAIN grown) > Capacity
  IN /\ LockFree
     /\ expired' = expired \ (IF full THEN {p, oldest} ELSE {p})
     /\ order'   = IF full THEN Tail(Touched(p)) ELSE Touched(p)
     /\ pending' = IF full THEN [q \in DOMAIN grown \ {oldest} |-> grown[q]] ELSE grown
     /\ lock'    = IF full THEN [by |-> by, id |-> grown[oldest]] ELSE lock

\* Remove unlinks the entry, whoever owns it, and calls back.
RemoveEntry(p, by) ==
  /\ LockFree
  /\ IF p \in DOMAIN pending
     THEN /\ pending' = [q \in DOMAIN pending \ {p} |-> pending[q]]
          /\ expired' = expired \ {p}
          /\ order'   = Unlinked(p)
          /\ lock'    = [by |-> by, id |-> pending[p]]
     ELSE UNCHANGED tableVars

\* Mutant: the callback is forgotten.
MutCleanup(i, removeFile) == UNCHANGED <<uploads, fileVars>>

\* Mutant: the file is removed even when it was closed before.
MutCleanupAgain(i, removeFile) ==
  /\ uploads' = [uploads EXCEPT ![i].open = FALSE]
  /\ dir' = IF removeFile THEN [dir EXCEPT ![uploads[i].path] = None] ELSE dir
  /\ data' = data

\* UploadFileContext.Cleanup: only the first one does anything.
Cleanup(i, removeFile) ==
  IF uploads[i].open
  THEN /\ uploads' = [uploads EXCEPT ![i].open = FALSE]
       /\ dir' = IF removeFile THEN [dir EXCEPT ![uploads[i].path] = None] ELSE dir
       /\ data' = data
  ELSE UNCHANGED <<uploads, fileVars>>

\* The callback, evictPendingUpload, waits for mu with the LRU still locked.
evictPendingUpload ==
  /\ phase # "exited" /\ lock # None /\ lock.id \notin held
  /\ Cleanup(lock.id, TRUE)
  /\ lock' = None
  /\ UNCHANGED <<phase, registered, h, pending, expired, order, held>>

\* The validity time of an entry passes, unless a handler has just renewed it: also
\* after Get has returned it, and before it is added again or removed.
Expire(p) ==
  /\ phase # "exited" /\ Live(p)
  /\ MayStall \/ \A c \in Conn : h[c].path = p =>
                   h[c].pc \notin {"lock", "write", "finish", "ack"}
  /\ expired' = expired \cup {p}
  /\ UNCHANGED <<phase, registered, h, uploads, pending, order, lock, held, fileVars>>

Sweep(p) ==
  /\ phase # "exited" /\ p \in expired
  /\ RemoveEntry(p, Sweeper)
  /\ UNCHANGED <<phase, registered, h, uploads, held, fileVars>>

-----------------------------------------------------------------------------
Init ==
  /\ phase = "up" /\ registered = {}
  /\ h = [c \in Conn |-> [Idle EXCEPT !.pc = "none"]]
  /\ uploads = <<>> /\ held = {}
  /\ pending = [p \in {} |-> 0] /\ expired = {} /\ order = <<>> /\ lock = None
  /\ dir = [p \in Path |-> None] /\ data = [i \in Ids |-> <<>>]

\* SetupConnection and the start of the handler.
Connect(c) ==
  /\ phase = "up" /\ h[c].pc = "none"
  /\ registered' = registered \cup {c}
  /\ h' = [h EXCEPT ![c] = Idle]
  /\ UNCHANGED <<phase, uploads, tableVars, held, fileVars>>

-----------------------------------------------------------------------------
(* Message "upload".  A refused message changes nothing but the pc.        *)

Goto(c, pc) == h' = [h EXCEPT ![c].pc = pc]

Answer(c) == h' = [h EXCEPT ![c] = Idle]

UploadLen(c, p, n) ==
  /\ Runs(c) /\ h[c].pc = "read" /\ LockFree
  /\ Cardinality(DOMAIN pending) < Capacity
  /\ h' = [h EXCEPT ![c] = [Idle EXCEPT !.pc = "peek", !.path = p, !.size = n]]
  /\ UNCHANGED <<phase, registered, uploads, tableVars, held, fileVars>>

UploadPeek(c) ==
  /\ Runs(c) /\ h[c].pc = "peek" /\ LockFree
  /\ IF Live(h[c].path) THEN Answer(c) ELSE Goto(c, "stat")
  /\ UNCHANGED <<phase, registered, uploads, tableVars, held, fileVars>>

UploadStat(c) ==
  /\ Runs(c) /\ h[c].pc = "stat"
  /\ IF dir[h[c].path] # None THEN Answer(c) ELSE Goto(c, "create")
  /\ UNCHANGED <<phase, registered, uploads, tableVars, held, fileVars>>

\* os.Create truncates a file that is there.  An empty file is done at once.
UploadCreate(c) ==
  LET p == h[c].path
      i == Len(uploads) + 1
      inode == IF dir[p] = None THEN i ELSE dir[p]
  IN /\ Runs(c) /\ h[c].pc = "create" /\ dir[p] # Folder /\ i <= MaxUploads
     /\ uploads' = Append(uploads,
          [conn |-> c, path |-> p, FileSize |-> h[c].size, BytesReceived |-> 0,
           open |-> h[c].size > 0, inode |-> inode])
     /\ dir' = [dir EXCEPT ![p] = inode]
     /\ data' = [data EXCEPT ![inode] = <<>>]
     /\ IF h[c].size = 0
        THEN Answer(c)
        ELSE h' = [h EXCEPT ![c].pc = "add", ![c].id = i]
     /\ UNCHANGED <<phase, registered, tableVars, held>>

UploadCreateFails(c) ==
  /\ Runs(c) /\ h[c].pc = "create"
  /\ Answer(c)
  /\ UNCHANGED <<phase, registered, uploads, tableVars, held, fileVars>>

UploadAdd(c) ==
  /\ Runs(c) /\ h[c].pc = "add"
  /\ AddEntry(h[c].path, h[c].id, c)
  /\ Answer(c)
  /\ UNCHANGED <<phase, registered, uploads, held, fileVars>>

-----------------------------------------------------------------------------
(* Messages "cancelUpload" and "uploadBlock".                              *)

\* Both look the upload up and check its owner.
Get(c, p, pc, n) ==
  /\ Runs(c) /\ h[c].pc = "read" /\ LockFree
  /\ Live(p) /\ uploads[pending[p]].conn = c
  /\ h' = [h EXCEPT ![c] = [Idle EXCEPT !.pc = pc, !.path = p, !.id = pending[p], !.size = n]]
  /\ order' = Touched(p)
  /\ UNCHANGED <<phase, registered, uploads, pending, expired, lock, held, fileVars>>

CancelGet(c, p) == Get(c, p, "remove", 0)

BlockGet(c, p, n) == Get(c, p, "readd", n)

\* The upload is added again to renew its time.
BlockAdd(c) ==
  /\ Runs(c) /\ h[c].pc = "readd"
  /\ AddEntry(h[c].path, h[c].id, c)
  /\ Goto(c, "lock")
  /\ UNCHANGED <<phase, registered, uploads, held, fileVars>>

\* Mutant: mu is not released before the entry is removed.
MutBlockLock(c) ==
  LET u == uploads[h[c].id]
  IN /\ Runs(c) /\ h[c].pc = "lock" /\ h[c].id \notin held
     /\ \/ ~u.open /\ Answer(c) /\ held' = held
        \/ /\ u.open /\ u.BytesReceived + h[c].size > u.FileSize
           /\ Goto(c, "remove") /\ held' = held \cup {h[c].id}
        \/ /\ u.open /\ u.BytesReceived + h[c].size <= u.FileSize
           /\ Goto(c, "write") /\ held' = held \cup {h[c].id}
     /\ UNCHANGED <<phase, registered, uploads, tableVars, fileVars>>

\* Under mu: an upload that has been cleaned is refused, one that gets too much
\* is removed, and for any other mu stays held for the write.
BlockLock(c) ==
  LET u == uploads[h[c].id]
  IN /\ Runs(c) /\ h[c].pc = "lock" /\ h[c].id \notin held
     /\ \/ ~u.open /\ Answer(c) /\ held' = held
        \/ /\ u.open /\ u.BytesReceived + h[c].size > u.FileSize
           /\ Goto(c, "remove") /\ held' = held
        \/ /\ u.open /\ u.BytesReceived + h[c].size <= u.FileSize
           /\ Goto(c, "write") /\ held' = held \cup {h[c].id}
     /\ UNCHANGED <<phase, registered, uploads, tableVars, fileVars>>

\* The write goes to the offset of this upload's own file descriptor.
Written(blocks, offset, n, i) ==
  [k \in 1..(IF Len(blocks) > offset + n THEN Len(blocks) ELSE offset + n) |->
     IF k \in offset + 1 .. offset + n THEN i
     ELSE IF k \in DOMAIN blocks THEN blocks[k] ELSE 0]

\* Mutant: the last block is not counted.
MutBlockWrite(c) ==
  LET i == h[c].id
      u == uploads[i]
      received == u.BytesReceived + h[c].size
  IN /\ Runs(c) /\ h[c].pc = "write"
     /\ data' = [data EXCEPT ![u.inode] = Written(@, u.BytesReceived, h[c].size, i)]
     /\ uploads' = [uploads EXCEPT ![i].BytesReceived = received]
     /\ IF received + 1 >= u.FileSize THEN Goto(c, "finish") ELSE Answer(c)
     /\ held' = held \ {i}
     /\ UNCHANGED <<phase, registered, tableVars, dir>>

BlockWrite(c) ==
  LET i == h[c].id
      u == uploads[i]
      received == u.BytesReceived + h[c].size
  IN /\ Runs(c) /\ h[c].pc = "write"
     /\ data' = [data EXCEPT ![u.inode] = Written(@, u.BytesReceived, h[c].size, i)]
     /\ uploads' = [uploads EXCEPT ![i].BytesReceived = received]
     /\ IF received = u.FileSize THEN Goto(c, "finish") ELSE Answer(c)
     /\ held' = held \ {i}
     /\ UNCHANGED <<phase, registered, tableVars, dir>>

BlockWriteFails(c) ==
  /\ Runs(c) /\ h[c].pc = "write"
  /\ Goto(c, "remove") /\ held' = held \ {h[c].id}
  /\ UNCHANGED <<phase, registered, uploads, tableVars, fileVars>>

\* The upload is complete: its file is closed and kept.
BlockFinish(c) ==
  /\ Runs(c) /\ h[c].pc = "finish" /\ h[c].id \notin held
  /\ Cleanup(h[c].id, FALSE)
  /\ Goto(c, "ack")
  /\ UNCHANGED <<phase, registered, tableVars, held>>

\* The entry goes, and the client is answered.
RemoveAndAnswer(c) ==
  /\ Runs(c) /\ h[c].pc \in {"remove", "ack"}
  /\ RemoveEntry(h[c].path, c)
  /\ Answer(c)
  /\ UNCHANGED <<phase, registered, uploads, held, fileVars>>

-----------------------------------------------------------------------------
(* Messages "rename", "delete" and "createFolder".                         *)

BeingUploaded(p) ==
  \/ p \in DOMAIN pending
  \/ \E c \in Conn : h[c].pc \in {"add", "ack", "finish"} /\ h[c].path = p
  \/ MayMeddle = "no" /\ \E c \in Conn : h[c].pc = "create" /\ h[c].path = p
  \/ lock # None /\ uploads[lock.id].path = p

Touchable(p) == p \in FileOps /\ (MayMeddle = "yes" \/ ~BeingUploaded(p))

Rename(c, p, q) ==
  /\ Runs(c) /\ h[c].pc = "read" /\ Touchable(p) /\ Touchable(q)
  /\ dir[p] # None /\ p # q
  /\ dir[q] = None \/ (dir[p] = Folder <=> dir[q] = Folder)
  /\ dir' = [dir EXCEPT ![q] = dir[p], ![p] = None]
  /\ UNCHANGED <<phase, registered, h, uploads, tableVars, held, data>>

Delete(c, p) ==
  /\ Runs(c) /\ h[c].pc = "read" /\ Touchable(p)
  /\ dir[p] # None
  /\ dir' = [dir EXCEPT ![p] = None]
  /\ UNCHANGED <<phase, registered, h, uploads, tableVars, held, data>>

CreateFolder(c, p) ==
  /\ Runs(c) /\ h[c].pc = "read" /\ Touchable(p)
  /\ dir[p] = None
  /\ dir' = [dir EXCEPT ![p] = Folder]
  /\ UNCHANGED <<phase, registered, h, uploads, tableVars, held, data>>

-----------------------------------------------------------------------------
(* The end of a connection and of the process.                             *)

\* ReadMessage fails: the client left, or the shutdown closed the connection.
\* Keys returns what is live, oldest first.
ReadFails(c) ==
  /\ Runs(c) /\ h[c].pc = "read" /\ LockFree
  /\ h' = [h EXCEPT ![c].pc = "clear", ![c].keys = Only(order, DOMAIN pending \ expired)]
  /\ UNCHANGED <<phase, registered, uploads, tableVars, held, fileVars>>

\* The handler has dealt with its first key.
NextKey(c) == h' = [h EXCEPT ![c].pc = "clear", ![c].keys = Tail(@)]

ClearPeek(c) ==
  /\ Runs(c) /\ h[c].pc = "clear" /\ h[c].keys # <<>> /\ LockFree
  /\ LET p == Head(h[c].keys)
     IN IF Live(p) /\ uploads[pending[p]].conn = c
        THEN Goto(c, "clearRemove")
        ELSE NextKey(c)
  /\ UNCHANGED <<phase, registered, uploads, tableVars, held, fileVars>>

ClearRemove(c) ==
  /\ Runs(c) /\ h[c].pc = "clearRemove"
  /\ RemoveEntry(Head(h[c].keys), c)
  /\ NextKey(c)
  /\ UNCHANGED <<phase, registered, uploads, held, fileVars>>

\* The deferred closeConn, run last.
CloseConn(c) ==
  /\ Runs(c) /\ h[c].pc = "clear" /\ h[c].keys = <<>>
  /\ registered' = registered \ {c}
  /\ Goto(c, "closed")
  /\ UNCHANGED <<phase, uploads, tableVars, held, fileVars>>

\* SIGTERM.
ShutdownSignal ==
  /\ phase = "up"
  /\ phase' = "stopping"
  /\ UNCHANGED <<registered, h, uploads, tableVars, held, fileVars>>

\* The goroutine that waits for the shutdown calls closeConn as well.
CloseOnShutdown(c) ==
  /\ phase = "stopping" /\ c \in registered
  /\ registered' = registered \ {c}
  /\ UNCHANGED <<phase, h, uploads, tableVars, held, fileVars>>

\* webSocketConnectionManager.Wait returns and main ends the process.
Exit ==
  /\ phase = "stopping" /\ registered = {}
  /\ phase' = "exited"
  /\ UNCHANGED <<registered, h, uploads, tableVars, held, fileVars>>

-----------------------------------------------------------------------------
\* What a handler does once it has read a message, or has failed to.
Work(c) ==
  \/ UploadPeek(c) \/ UploadStat(c) \/ UploadCreate(c) \/ UploadCreateFails(c) \/ UploadAdd(c)
  \/ BlockAdd(c) \/ BlockLock(c) \/ BlockWrite(c) \/ BlockWriteFails(c) \/ BlockFinish(c)
  \/ RemoveAndAnswer(c)
  \/ ClearPeek(c) \/ ClearRemove(c) \/ CloseConn(c)

Message(c) ==
  \/ \E p \in Home[c], n \in Size : UploadLen(c, p, n)
  \/ \E p \in Path : CancelGet(c, p) \/ Delete(c, p) \/ CreateFolder(c, p)
  \/ \E p \in Path, n \in 1..MaxBlocks : BlockGet(c, p, n)
  \/ \E p, q \in Path : Rename(c, p, q)

Next ==
  \/ \E c \in Conn : Connect(c) \/ Message(c) \/ ReadFails(c) \/ Work(c) \/ CloseOnShutdown(c)
  \/ \E p \in Path : Expire(p) \/ Sweep(p)
  \/ evictPendingUpload
  \/ ShutdownSignal \/ Exit

Spec == Init /\ [][Next]_vars

\* A handler that is not waiting for a message goes on, and gets the lock of the
\* LRU although others take it in between; time passes; the sweeper runs.  Clients
\* need not send anything.
FairSpec ==
  /\ Spec
  /\ \A c \in Conn : SF_vars(Work(c))
  /\ \A p \in Path : WF_vars(Expire(p)) /\ WF_vars(Sweep(p))
  /\ WF_vars(evictPendingUpload)

-----------------------------------------------------------------------------
Handler == [pc : {"none", "read", "peek", "stat", "create", "add", "readd", "lock", "write",
                  "finish", "ack", "remove", "clear", "clearRemove", "closed"},
            path : Path \cup {None}, id : 0..MaxUploads, size : 0..MaxBlocks, keys : Seq(Path)]

HandlersTyped ==
  /\ phase \in {"up", "stopping", "exited"} /\ registered \subseteq Conn
  /\ h \in [Conn -> Handler] /\ \A c \in Conn : h[c].id <= Len(uploads)

UploadsTyped ==
  /\ uploads \in Seq(Upload) /\ Len(uploads) <= MaxUploads
  /\ held \subseteq DOMAIN uploads

\* The keys of the table are listed once each, and there is never one too many.
TableTyped ==
  /\ DOMAIN pending \subseteq Path /\ pending \in [DOMAIN pending -> DOMAIN uploads]
  /\ expired \subseteq DOMAIN pending
  /\ order \in Seq(Path) /\ Range(order) = DOMAIN pending /\ IsInjective(order)
  /\ Cardinality(DOMAIN pending) <= Capacity
  /\ lock = None \/ lock \in [by : Conn \cup {Sweeper}, id : DOMAIN uploads]

FilesTyped ==
  /\ dir \in [Path -> Ids \cup {None, Folder}]
  /\ data \in [Ids -> Seq(0..MaxUploads)] /\ \A i \in Ids : Len(data[i]) <= MaxBlocks

\* Everything is of its type, and no client makes a file longer than it declared.
TypeOK == HandlersTyped /\ UploadsTyped /\ TableTyped /\ FilesTyped

\* No file descriptor is lost: while one is open, the table still leads to it,
\* or the step that adds or closes it is under way.
NoDescriptorLost ==
  \A i \in DOMAIN uploads :
    uploads[i].open =>
      \/ \E p \in DOMAIN pending : pending[p] = i
      \/ lock # None /\ lock.id = i
      \/ \E c \in Conn : h[c].id = i /\ h[c].pc \in {"add", "finish"}

\* "Clear all pending uploads of this client": once the handler of a connection
\* has ended, its only open uploads are those that the sweeper, or an eviction
\* under way, deletes.
ClearedAtEnd ==
  \A i \in DOMAIN uploads :
    (uploads[i].open /\ h[uploads[i].conn].pc = "closed") =>
      \/ \E p \in expired : pending[p] = i
      \/ lock # None /\ lock.id = i

\* Every open descriptor is accounted for, by the table or by a step under way,
\* while its client is connected and after it left.
DescriptorsKept == NoDescriptorLost /\ ClearedAtEnd

\* The last block of an upload is answered with success only when the file at
\* the path holds all the blocks of this upload, in order, and nothing else.
SuccessMeansStored ==
  [][\A c \in Conn :
       (h[c].pc = "ack" /\ h'[c].pc = "read") =>
         LET u == uploads[h[c].id]
         IN /\ dir[u.path] = u.inode
            /\ data[u.inode] = [k \in 1..u.FileSize |-> h[c].id]]_vars

\* Every message is answered, or the connection ends: the lock of the LRU and
\* the mutexes of the uploads never wait for each other.
AlwaysAnswered ==
  \A c \in Conn :
    (h[c].pc \notin {"none", "read", "closed"})
      ~> (h[c].pc \in {"read", "closed"} \/ phase = "exited")

\* Every upload ends: complete, or with its descriptor closed.  An abandoned
\* one expires.
UploadsEnd ==
  \A i \in Ids : Open(i) ~> (~Open(i) \/ phase = "exited")

\* Nothing hangs: neither a client nor an upload.
NothingHangs == AlwaysAnswered /\ UploadsEnd

-----------------------------------------------------------------------------
(* The uploads implement FileStore.  An inode is the upload that created   *)
(* it; its file is whole when the upload is over and every block is of it. *)
fileAt ==
  [p \in Path |->
     IF dir[p] \in Ids
     THEN [by |-> dir[p],
           whole |-> /\ ~uploads[dir[p]].open
                     /\ data[dir[p]] = [k \in 1..uploads[dir[p]].FileSize |-> dir[p]]]
     ELSE dir[p]]

Store == INSTANCE FileStore
           WITH Upload <- Ids, Absent <- None, file <- fileAt, begun <- DOMAIN uploads

\* Whatever the clients do at the same time, every file is that of one upload,
\* whole or on its way to be whole or gone; no upload, no expiry and no late
\* clean-up spoils or deletes a file that is whole.
StoreRefined == Store!Spec
=============================================================================
