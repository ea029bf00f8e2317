# TLA+ models of docker-baseimage-gui

The repository builds a Docker base image that runs an X application and shows
it in a browser.  Most of the image is configuration of external programs; its
own logic is a handful of small servers, the page and its clients in the
browser, and the scripts that start them.  This directory holds TLA+ models of
that logic, the TLC configurations that check them, and proofs checked by TLAPS.

    tlc -workers 2 -config MCGui_page.cfg MCGui      # model-check
    tlapm GuiProofs.tla                              # check proofs

`PROJECT.json` lists the runs, the code behind every definition, the hazards of
the code and the property that covers each, and for every property a mutation of
the model (the definitions named `Mut...`) that makes it fail.

## 1. The system

```
 browser:  ui.js (page, connection, dialogs, audio socket)
           fileManager.js   terminal.js   notificationService.js   pcm-player.js, unmute.js
    |          |               |                |                       |
  nginx -------+-- WebSockets -+----------------+-----------------------+
    | auth_request             webservices (one process)                |
  webauth           Xvnc   filemanager   terminal   notification    audiorecorder
    ^                                       |            ^                ^
 webauth-user, SIGHUP                     shell     D-Bus Notify      PulseAudio
```

| Part | State | Operations | Hard behaviours |
|---|---|---|---|
| `webauth` (`src/src/webauth/webauth.go`, `webauth-user`) | token store, password table, login limiter, cookie keys; the htpasswd file | login, logout, `/auth`, hourly cleanup, SIGHUP reload, start, graceful stop | racing logins around a full store; lazy expiry; restart with cookies in browsers; a signal during a reload, a start or a file copy |
| File manager (`webservices/filemanager.go`) | expirable LRU of uploads, upload contexts with a mutex and a descriptor, LRU of download links, allowed and denied paths | list, rename, delete, mkdir, upload, block, cancel, download, disconnect | check then act across connections, expiry against writes, eviction callbacks under a lock, disconnect and shutdown clean-up |
| Connection manager, process (`webservices/utils.go`, `webservices.go`) | map of connections, wait group, `appCtx`, HTTP server | set up, tear down, wait, shutdown | the limit, double teardown, hijack against shutdown, order of clean-up and exit |
| Notifications (`webservices/notification.go`) | id counter, map of clients, a channel per client | D-Bus `Notify`, register, forward, ping, end | concurrent calls, slow and dead clients, wrap-around |
| Terminal (`webservices/terminal.go`) | shell process, pseudo-terminal, two goroutines, `done`, once-guards | start, copy both ways, resize, close | three parties that may each end first |
| Page (`rootfs/opt/noVNC/app/ui.js`, `error-handler.js`) | RFB object, password, reconnection callback, class of the page, dialog, version check, overlay | load, connect, ask, reconnect, probe, reload | reconnections that fail, are refused or wait for the user; state changes inhibited while reconnecting; upgrades and ended logins |
| File manager client (`fileManager.js`) | socket, reconnect timer, active upload with its reader, button timer, current directory | open, close, upload loop, cancel, navigate, act, download | answers to what was cancelled, loss of the connection in mid-transfer, late close events, readers that end after they were stopped |
| Notification, terminal and audio clients (`notificationService.js`, `terminal.js`, `ui.js`) | a socket, a reconnect timer, a permission, a dialog, a player | start, stop, open, close, toggle | close events of earlier sockets, transitions of dialogs, timers against toggles |
| Player and audio unlock (`pcm-player.js`, `unmute.js`) | buffered samples, start time, audio context, silent track | feed, flush, resume, suspend, visibility and focus | late effects of resume and suspend, bursts and gaps of the stream |
| Audio recorder (`audiorecorder-pulse.cpp`) | PulseAudio stream, set of clients | connect, read, write to all, timer, quit | slow and hung-up clients |
| Certificate monitor (`services.d/certsmonitor`) | two hash files | compare, reload nginx, kill Xvnc, save | a change between the hash and the reload |
| Service definitions, container initialisation, nginx and other configuration | rendered files | run once | ordering only |

Interactions: nginx asks `webauth` about every request; the handlers of
`webservices` share the connection manager and are stopped by one context; the
uploads of all connections share one table; a notification call reaches every
client under one mutex; the services of the page start and stop with its
connection to the desktop, and reconnect on their own in between.

What makes each part correct:

* **webauth**: a cookie opens the GUI exactly while its session is live; the
  store is bounded and refuses only when it must; the limiter limits; the users
  in memory end up those on disk.
* **file manager**: no descriptor and no partial file is lost; success means the
  file is stored; a file that is whole is not spoilt by an upload; every message
  is answered.
* **process**: the connection limit; the wait group agrees with the map; main
  does not exit before the handlers; it does exit.
* **notifications**: D-Bus calls never block on a client; ids are fresh; one
  order for all; a burst that fits is delivered; dead clients go.
* **terminal**: the client is told about an exit only when there was one, after
  all output; nothing is left behind; sessions end.
* **page**: one attempt at a connection at a time and never none; what it shows
  is the state of the connection; passwords are neither lost nor sent in vain;
  services are silent while the desktop is away and come back with it.
* **file manager client**: one socket; the dialog, its socket and its upload
  agree; files go where the user said; what is reported as sent is stored.
* **player**: the sound stays close to the desktop, nothing stale is played, and
  it follows the page into the background and back.

## 2. Modules

| Module | Models | State and actions in the code's terms |
|---|---|---|
| `SessionStore` | abstract promise of webauth | a session is unused, live, over; at most `Capacity` live |
| `WebAuth` | `webauth.go`, `webauth-user` | `gTokens`, `gPasswordDb`, limiter `bucket`, process `phase`; a login is `LoginBegin`, `LoginMatch`, `LoginIssue`, `LoginRespond`, the points between which other goroutines run; `EditFile`, `EditDone`, `SignalEdit` are `webauth-user`; `ReloadRead`, `ReloadSwap` the reload goroutine; `Load`, `Listen`, `Shutdown`, `Exit` the process |
| `FileStore` | abstract promise of the uploads | at each path nothing, a folder, or the file of one upload, whole or not; an upload begins where there is nothing, and ends whole or gone |
| `FileUploads` | uploads of `filemanager.go` with the LRU and the end of the process | `pending`, `order`, `expired`, `lock` are the LRU; `uploads` the contexts; `held` their mutexes; `dir` and `data` the files; each message is split where another goroutine can see a difference |
| `WebServices` | `utils.go`, `webservices.go`, frame of the three handlers | `connections`, `activeConnections`, `mu` of the manager; `phase` of main; `resource` is what a handler must give back |
| `NotificationHub` | `notification.go` | `call` is each D-Bus goroutine, `ch` the channels, `main` and `readCh` the two goroutines of a client, `deadline` the read deadline |
| `TerminalSession` | `terminal.go` | `main`, `reader`, `writer` are the three goroutines; `shell`, `ptmx`, `inq`, `outq` the terminal |
| `FileManagerClient` | `fileManager.js`, composed with the handlers of `filemanager.go` as a client sees them | `webSocket`, `timer`, `activeUpload`, `resetTimer` are the fields of the code; `sock` the WebSocket objects, also those the page dropped; `req` and `ans` the messages under way, in order; `Serve` and `ServerEnd` the handler of a connection |
| `Gui` | `ui.js`, `error-handler.js`; composes the next three | `rfb` is the RFB object, `reconnectCallback`, `probing`, `visual`, `dialog`, `check` what the code keeps in fields, timers and promises; one action per handler |
| `NotificationClient`, `TerminalClient`, `AudioClient` | `notificationService.js`, `terminal.js`, the audio of `ui.js` | each the state of a service as a record and its handlers as functions of it, so that the handlers of the page that call several of them stay one step |
| `AudioOutput` | `pcm-player.js`, `unmute.js` | `samplesCount`, `lead` (the start time, relative to the clock) of the player; `state`, `asked`, `told` of the audio context; `hidden`, `focused`, `channelTag` of the unlock |
| `WebAuthProofs`, `FileUploadsProofs`, `WebServicesProofs`, `TerminalProofs`, `NotificationHubProofs`, `GuiProofs`, `FileManagerClientProofs`, `AudioOutputProofs` | proofs | section 6 |

`MC...` modules only give values to constants.  Each `MCX_name.cfg` is one run.

JavaScript is single-threaded, so a handler of the browser is one action, and
what interleaves are handlers: events of sockets, timers, transitions of
dialogs, readers of files, promises.  A goroutine is split where another one can
see a difference: at locks, channels and calls of the system.

Data is abstracted to what the properties distinguish: credentials, tokens,
paths and clients are model values; a file is a sequence of blocks marked with
the upload that wrote them, or their number; terminal input and output are
counts; a sound is its length; time is ticks in `WebAuth` and `AudioOutput` and
"may expire now" elsewhere.  Error texts, logging and layout are left out.

In `Gui` and `FileManagerClient` a socket the page has dropped remains an object
that may still deliver a close event, as browsers do: `closing` counts those of a
service, and `sock[s] = "closing"` is one of the file manager.  Most of what is
hard in the clients comes from there.

## 3. Runs

Deadlock checking is off where clients may stop sending or a bound of the model
is used up; `audio_output` is checked for deadlock.

| Run | Properties | Bounds |
|---|---|---|
| `webauth_sessions` | `AuthExact`, `StoreBounded`, `RefusedOnlyWhenFull`, `AttemptsBounded`, refinement of `SessionStore` | 2 concurrent logins, 3 tokens for a store of 2 (full, and one too many), validity 2 of 3 ticks (before and after expiry), 2 starts |
| `webauth_reload` | `StaleIsReplaced`: the users in memory end up those on disk, an expired token goes | 2 editors, 2 edits, 2 starts, one session that expires |
| `uploads_orderly` | `SuccessMeansStored` | 2 connections on 2 paths, 2 uploads in all (one each, or a retry) of 0 or 2 blocks, messages of 1 and 2 blocks (exact, short, too much), renames, deletes and folders at both paths, also between the `Stat` and the `Create` of an upload |
| `uploads_answers` | `DescriptorsKept`; refinement of `FileStore`; `NothingHangs`: every message is answered, every upload ends | 2 clients and a table for 1 upload (each evicts the other), 2 uploads, of 0 or 1 block, messages of 1 and 2 blocks; entries expire at any time, also between `Get` and the renewal, and during the write of the last block |
| `webservices_life` | `LimitRespected`, `CountAgrees`, `HandlersCounted`, `ShutdownEnds` | 3 connections, one of each kind, limit 2 (one too many) |
| `notifications` | `FreshIds`, `DeliversInOrder`, `NotifyReturns`, `DeadForgotten` | 2 calls at a time, 3 messages for a client with a channel of 2 (one too many), the counter 2 steps before its wrap |
| `terminal_session` | `ClientTold`, `NothingLeft`, `SessionIsOver` | 1 block of input, 2 of output, sizes below, at and above both limits |
| `filemanager_client` | `DialogAgrees`, `OneBlock`, `UploadsLandWhereChosen`, `Reconnects`, `UploadEnds`, `ReportedIsStored` | 2 sockets in use or closing at once, a file of two blocks and an empty one, 2 directories, 1 loss, 1 failed read, 1 request waiting for the user |
| `gui_page` | `OneAttempt`, `DisplayAgrees`, `PasswordsKept`, `ServicesHeld`, `SilentOffline`, `PageRenewed`, `Reconnects`, `ServicesFlow` | a right and a wrong password, to type and in the URL, servers with and without one, seven sets of services and options (one with slow close events of the notifications), 1 socket of a service still closing when the next is made, 1 live one lost hold of; losses, reloads and upgrades are not bounded |
| `audio_output` | `InTime`, `NothingStale`, `TrackInForeground`, `SoundFollowsPage` | the buffer, margin and lag of the page in units of 5 ms; 5, 15 and 45 ms of sound at a time (less than a buffer, not a multiple of one, several); neither time nor events are bounded |
| `filemanager_late` | finding, below | as `filemanager_client`, with answers that may come late |
| `gui_dialog` | finding, below | as `gui_page` |

The bounds are the smallest at which each hazard occurs: two of everything that
races, one more than the capacity of the store, of the connections and of the
channels, one event that comes late.  Symmetry is used in `webauth_sessions`
only, whose properties are all safety.

## 4. Where the code and its comments disagree

Two runs check one property each and end in a counterexample.

* `filemanager_late`, `ReportedIsStored` (`fileManager.js:410`).  An answer is
  not matched with the upload it is for.  When the success of a block of a
  cancelled upload comes after the 800 ms that enable the button again, and the
  user has started another upload by then, it counts the first file of the new
  one as complete; if that is the only file, the upload is shown at 100 % and
  ended with nothing of it stored.  The comment of the stage (`fileManager.js:776`)
  says the previous block was successfully sent.  `filemanager_client` excludes
  such answers (`LateAnswers = FALSE`) and the property holds there.
* `gui_dialog`, `DialogIsAnswerable` (`ui.js:616`).  While reconnecting,
  `updateVisualState` returns before it closes dialogs.  When the connection
  ends with the credentials dialog of a reconnection open, the dialog stays, and
  a password typed there is sent to an RFB object that is gone: the uncaught
  error covers the page with the overlay.  The comment (`ui.js:688`) says a state
  change closes dialogs.

Other behaviours of the code found on the way.  The checked runs exclude them,
or a property names them as its exception:

* The last block of an upload takes longer to write than the validity time: the
  sweeper waits for the mutex of the upload, the handler releases it before it
  marks the upload complete, the sweeper deletes the file, and the client is
  told success (`filemanager.go:494-512`; `MayStall`).  `uploads_answers` has
  this course of events and shows that nothing else goes wrong in it.
* Two clients pass `Stat` for the same path; the `Create` of the second truncates
  the file of the first, and its `Add` replaces the entry of the first without a
  callback, so a descriptor stays open (`filemanager.go:392-423`; `Home`).  A file
  that is renamed to the path between the two is truncated as well
  (`MayMeddle = "early"`): the comment "Make sure the file doesn't exist" is only
  true of the time of `Stat`.
* The owner of an upload is checked when it is looked up and not when it is added
  again or removed: should its entry expire in between and another connection
  start an upload to the same path, a block puts the dead upload in the place of
  the new one, and a cancel, or a disconnection between its `Peek` and its
  `Remove`, removes that of the other connection (`filemanager.go:436-444`,
  `462-473`, `568-570`; `Home`).
* With fewer places than clients, two uploads pass the check of
  `MAX_PENDING_UPLOADS` together and one is evicted (`filemanager.go:384`;
  `Capacity`).
* A connection that `Upgrade` has hijacked and that is not yet counted is known
  neither to `Shutdown` nor to `Wait`: main may return while it is set up
  (`utils.go:78-89`; the variable `late`, exempted by `HandlersCounted`).
* At shutdown the connection of the file manager is counted as finished before
  its handler has cleared its uploads, so the process may exit with a partial
  file on disk (`filemanager.go:180-184`).
* Only a pong sets the read deadline of a notification client: one that never
  answers a first ping has none (`notification.go:144-147`), which is why
  `DeadForgotten` speaks of clients that answered one.  The terminal has no
  pings at all (`terminal.go:182`).
* `hide()` of a Bootstrap dialog does nothing while the dialog still appears: a
  terminal that was just clicked opens after the desktop was disconnected
  (`ui.js:2101`; `missed`, exempted by `SilentOffline`).
* A clean close event of an earlier terminal session closes the one that was
  opened since (`terminal.js:160`).
* With web authentication, or after a check that finds the page outdated, the page
  reloads by itself, and a wrong `?password=` in its URL is sent again each time,
  without end while the server refuses it (`ui.js:1135-1137`, `1212`; exempted by
  `PasswordsKept`).
* The close event of a notification socket that comes after a reconnection made
  another one drops that one without closing it.  A second one is made, so that
  notifications are shown twice, and the first stays open when the desktop is
  disconnected (`notificationService.js:100-119`; the option `slowClose`, exempted
  by `ServicesHeld` and `SilentOffline`).  A close event may be that late when the
  network is gone, as browsers wait for the other side to close first.
* A first touch while the desktop is disconnected enables the audio without a
  socket, and the next connection does not make one (`ui.js:1247`).
* An upload whose connection is lost while an answer is due stays active until
  the user cancels it or closes the dialog (`fileManager.js:259`; exempted by
  `UploadEnds`).

## 5. Assumptions and fairness

* `FileUploads`: each client uploads to a path of its own (`Home`); in
  `uploads_orderly` a block is written and answered less than the ten seconds of
  the validity after its entry was renewed (`MayStall = FALSE`), while an entry
  may expire just after `Get` returned it; rename, delete and mkdir keep away
  from a path from the creation of its file until the upload is over
  (`MayMeddle = "early"`), in `uploads_answers` from the moment the path was seen
  free (`"no"`): `Cleanup` removes by path, so such a step lets it remove another
  file, and no document says what should happen.
* `WebAuth`: the copy that `htpasswd` makes over its file is not atomic and may be
  read half-way, but two such copies do not overlap.
* `WebServices`: the write of the upgrade response does not block for ever.
* `TerminalSession`: when the session leader dies the system hangs the terminal
  up, and the reader gets the rest of the output, then `EIO`; closing the master
  side interrupts a read or a write of it (it is opened non-blocking).  A client
  that goes closes its connection.
* `NotificationHub`: writing to a client that is silent succeeds, or fails when
  its buffers are full; writing to one that closed fails.
* `Gui`: but for the option `slowClose`, the close events of the notification
  sockets arrive within the 5 s before a reconnection (the guard on `closing` in
  `reconnect`, which the code does not have: it stands for this delay).  Those of
  the terminal may come at any time on every option.  The control bar is touched
  only after the page was touched.
* `FileManagerClient`: a send on a socket that is not open throws and leaves the
  handler; the overlay this raises is not part of the model, which goes on.
* `AudioOutput`: `resume()` and `suspend()` take effect at any later time, one
  after the other, and the state is told by an event that comes later still.

Fairness.  Goroutines that can run do (weak fairness per goroutine step); one
that waits for a mutex gets it although others take it in between, which Go's
starvation mode guarantees (strong fairness on `NotifyLock`, `Unregister` and on
the handlers of `WebServices` and of `FileUploads`, where a client that sends
blocks of a dead upload could otherwise keep the lock of the table from another).  Tickers tick, time passes, the LRU's sweeper
runs, a killed process dies.  In the browser, timers fire and events that are due
come (weak fairness).  What is retried for ever succeeds in the end (strong
fairness in `Gui` on a connection that is accepted, a probe that is answered, a
socket that opens): a network that refuses every attempt leaves nothing to be
promised.  Nothing is assumed of users, clients, shells, D-Bus callers or
signals: they may do nothing for ever.

## 6. Proofs

Every theorem holds for all constants that satisfy the assumption of its module
(`WebAuthAssumption`, `GuiAssumption`, ...).  Each module proves its type
invariant as `TypeCorrect`, so the runs spend nothing on it.  Every safety
property that a passing run checks, invariant, action property or refinement, is
also a theorem:

| Module | Theorems |
|---|---|
| `WebAuthProofs` | `StoreNeverOutgrown`, `AttemptsNeverExceed`, `RefusalsJustified`, `AuthIsExact`, `ImplementsSessions` |
| `FileUploadsProofs` | `NothingLost`, `SuccessIsTrue`, `ImplementsStore`, `NeverDeadlocks` |
| `WebServicesProofs` | `KeepsLimit`, `CountsAgree`, `CountsHandlers` |
| `TerminalProofs` | `LeavesNothing`, `TellsClient` |
| `NotificationHubProofs` | `OrderedDelivery`, `IdsAreFresh` |
| `GuiProofs` | `AttemptsOnce`, `DisplaysTruth`, `KeepsPasswords`, `RenewsPage`, `HoldsServices`, `QuietOffline` |
| `FileManagerClientProofs` | `DialogConsistent`, `UploadsWhereChosen`, `OneBlockAtATime`, `ReportsAreTrue` |
| `AudioOutputProofs` | `DropsStale`, `TrackNeverBehind`, `PlayedInTime` |

Some theorems have a hypothesis, which is what the code needs and not a
convenience of the proof; without it the property fails, as section 4 tells (but
`SuccessMeansStored` also holds of files moved to a path that was seen free, which
`uploads_orderly` checks and `SuccessIsTrue` leaves out):

| Hypothesis | Says | Of |
|---|---|---|
| `Undisturbed` | clients upload to paths of their own and do not move or delete what is being uploaded, nor move anything to a path that was seen free | `NothingLost`, `ImplementsStore` |
| `Orderly` | ... and the table has room for an upload at every path, and no write outlasts the validity of its entry | `SuccessIsTrue` |
| `~LateAnswers` | no answer outlives the upload it is for | `OneBlockAtATime`, `ReportsAreTrue` |
| `MaxMessages < IdMod` | fewer notifications than ids (2^32 in the code) are sent in all | `IdsAreFresh` |

The arguments:

* `WebAuth`.  `StoreNeverOutgrown` needs `StoreInv`: the store is finite and
  within the limit, so that a store whose size *is not equal to* the limit has
  room for one more; the comparison with `==` relies on it.
  `AttemptsNeverExceed` rests on `LimiterInv`, which balances admissions, the
  bucket and the time since the start, and on `Refills`: no step adds more to the
  bucket than the time it takes.  `AuthIsExact` needs `IssuedInv` (what is
  in the store was issued in this incarnation and expires `Validity` after),
  `CookieInv` (a cookie was issued with its token, no earlier) and `AuthInv`
  (what was issued, is not past its time and was not logged out is still in the
  store), because the store, the cookie and the keys each know only part of it.
  `ImplementsSessions` maps every step to a login, an end of sessions, or a
  stutter of `SessionStore`.
* `FileUploads`.  `BasicInv`, whatever the clients do: the types, a table that
  leads from a path to an upload at that path, and what a handler remembers
  between its steps.  `KeptInv` adds who answers for an open upload (the table,
  the clean-up under way, or its handler), that there is one at a path, and that
  after its client has left it is expired or its key is still to come; it is
  inductive although entries expire or are evicted at any time, because no step
  takes an upload from one of these to none.  `SuccessIsTrue` needs `StoredInv`
  besides: a file holds the blocks of the upload that created it and no other,
  and an entry that a handler has renewed stays until the handler is done, which
  is false once the table is full or a write outlasts its entry; an entry that
  expires before the renewal costs the upload, and the block is refused.  `ImplementsStore`
  does without: `StoreInv` (an inode is the upload that created it, at one path,
  open or complete) is enough to map every step to one of `FileStore` or to a
  stutter, stalls and evictions included, so what can go wrong there is the
  answer and never the file.  `NeverDeadlocks` says of the two locks that are
  taken one inside the other what `NothingHangs` rests on: who holds the mutex of
  an upload (`WaitInv`) is about to write and needs not the lock of the table.
* `WebServices`.  `MuInv` (the lock is held exactly by the request being
  upgraded), `RegisteredInv` (which requests are in the map, by the step of their
  handler and the phase of main), `CountInv` (the map is finite, counted by the
  wait group, and has a free place while a request is being upgraded) and
  `ExitInv` (what is left once `Shutdown` and `Wait` have returned).  `KeepsLimit`
  is not inductive: it needs `MuInv`, to know that at most one request is being
  upgraded.
* `TerminalSession`.  `HandlerInv` (what the handler has done at each step),
  `ShellInv` (a shell that is dead and did not exit by itself was killed on
  request) and `ReaderInv` (until the reader ends, what was written equals what
  was forwarded, is queued or is in its hand).  `ShellInv` is the heart: it is why
  `ptyCloseRequested` has to be set before the kill.
* `NotificationHub`.  `LockInv`: only the call that holds `clientsMutex` has
  clients left to send to, and they stay registered.  `Delivers(c)`: what a client
  got since it registered is increasing, no longer than what was sent (`Fine`),
  short of the message being sent while that is `Pending` (`Due`), and `Complete`
  otherwise, as long as no more than a channel's worth was sent.  The count in
  `Due` is what shows that a channel is full only when the burst does not fit.
  The rest are facts about sequences, stated as lemmas.  `IdsAreFresh` rests on
  `IdsInv`: each call that took a number took its own, counted without the wrap,
  and there were no more of them than messages started and a step of the wrap, so
  that two numbers that are equal after the wrap would be `IdMod` apart.
* `Gui`.  `ConnectionInv` joins `OneAttempt`, `DisplayAgrees`, `PasswordInv` and
  `VersionInv` with what holds before the page is loaded: none of them is
  inductive alone, as each handler keeps one of them by a guard on the state the
  others are about (a dialog without an RFB object needs a reconnection under
  way; a reconnection needs the callback, the probe or an RFB object).  Each
  service has an invariant over its record and `connected`
  (`NotificationInv`, `TerminalInv`, `AudioInv`); the handlers are functions, so
  their lemmas speak of records and not of steps.  `Prompt`, which says where
  close events are still to come, is the part of `NotificationInv` that slow ones
  break.
* `FileManagerClient`.  `DialogAgrees` is inductive with the types: closing a
  socket never drops the one in use, and each of the five parts is what keeps
  another one in some handler.  `OnlyChosen` adds to `UploadsLandWhereChosen` that
  the files of the active upload and the uploads under way were chosen.
  `OneBlockAtATime` and `ReportsAreTrue` share `UploadInv`, which relates three
  parties: the stage of the upload, the requests and answers of its connection
  (at most one is under way, and the stage says which), and what the server has
  stored of the current file; on a connection other than the one the upload was
  started on it says that nothing of the upload is left (`Foreign`), since
  closing, losing and replacing a connection leave the upload as it was.
* `AudioOutput`.  `NothingStale` is inductive with the types; `TrackInv` adds that
  `allowPlayback` is what visibility and focus say.  `PlayedInTime` needs how the
  start times of the buffers of one chunk follow each other (`FeedTimes`).

Two definitions compute by recursion over data, as recursive functions: the list
of the table without some keys (`Only` in `FileUploads`), and the start time
after the buffers of a chunk (`After` in `AudioOutput`).  The induction theorems
of the library cannot be used for them; what they return is proved by the least
counterexample instead (`Least`, from the well-foundedness of `<` on the
naturals).  No module uses a recursive operator.

Model-checked only are the liveness properties, as liveness under fairness and
`ENABLED` are beyond the prover: `StaleIsReplaced`, `NothingHangs`,
`ShutdownEnds`, `NotifyReturns`, `DeadForgotten`, `SessionIsOver`, `Reconnects`
(of the page and of the file manager), `UploadEnds`, `ServicesFlow` and
`SoundFollowsPage`.

## 7. Properties worth a second look

* `RefusedOnlyWhenFull`: `SaveToken` cleans up before it refuses, with a strict
  comparison of the expiry, so it may still refuse for tokens that expire at
  this very instant; the property says exactly that.
* `AuthExact` relates a cookie in a browser to the history of the service, across
  restarts, and is an equivalence.
* `CountAgrees` holds although the file manager tears a connection down from two
  goroutines, because `TeardownConnection` looks at the map under its lock.  The
  file manager also guards its own call with `closeConnOnce`
  (`filemanager.go:168-173`); the model leaves this out and allows both calls, so
  what the run and the theorem show is that the map alone is enough.
* `DeliversInOrder` contains the promise a bounded channel with a non-blocking
  send can keep: `BurstKept`.
* `SessionIsOver`: a terminal session whose client left ends, unless the
  goroutine that would notice waits for room in the terminal.
* `OneAttempt` says at once that there are never two reconnections and that
  there is always one: the second half fails first when a guard is wrong.
* `DialogAgrees` holds because a close event, whichever socket it is of, closes
  the socket in use and sets the timer anew (`fileManager.js:271-279`).  To act on
  the socket of the event only would look harmless and leak one.

## 8. Not modelled

* File manager: listing, the table of download links and the path checks
  (`hasSubpath`, `isPathAllowed`, `isPathListable`).  Each serves one request and
  keeps no state the uploads read; links and paths are abstracted.
* Audio recorder: C++ around the callbacks and threads of PulseAudio, which the
  repository does not contain.  Its client side is modelled.
* Certificate monitor: one sequential pass per run of a supervisor that is not in
  the repository.  A certificate that changes between the hash and the reload is
  picked up by the reload and, having another hash, reloaded once more at the
  next pass, but for changes that keep size and time.
* Page: settings, control bar, clipboard, keyboard, scaling and status messages
  (layout and preferences); the exception of the RFB constructor; the first wrong
  password typed during a reconnection shows no message (status messages are not
  modelled).  What is typed in and displayed by the terminal; the rendering of
  the file list; the conversion of samples and the volume; `destroy` of the
  player, which the page never calls.
* `notify-send`, `xdpyprobe`, `hsetroot` (one request and exit), initialisation
  scripts (sequential, run once), configuration of nginx, Openbox, PulseAudio and
  fontconfig, service definitions, build files, patches and vendored code.

## 9. What is left

1. `Downloads`: two requests for one link, expiry and the limit of the table;
   `PathChecks` against a reference definition over bounded trees with links.
2. The composition of `FileStore` with `FileManagerClient`, in place of the
   server's side there.
3. An abstract broadcast that `NotificationHub` implements: `Delivers` is most of
   the mapping.
4. Proofs of what the liveness properties rest on, as `NeverDeadlocks` is for the
   uploads: that a terminal session or a notification call never waits for
   nobody.
5. `AudioRecorder` and `CertsMonitor`.
