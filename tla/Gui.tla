-------------------------------- MODULE Gui --------------------------------
(***************************************************************************)
(* The web page of the desktop (app/ui.js): how it loads, connects, asks   *)
(* for the password, reconnects, reloads, and what it makes of its dialog  *)
(* and its services meanwhile.  The services (notifications, terminal,     *)
(* audio) are records; their handlers are the functions of                 *)
(* NotificationClient, TerminalClient and AudioClient.                     *)
(*                                                                         *)
(* The page is single-threaded: a handler is one step, and handlers run in *)
(* any order the browser may call them.  The VNC client (noVNC's RFB),     *)
(* Bootstrap and WebSockets are external: rfb is the state of the RFB      *)
(* object the page holds.                                                  *)
(***************************************************************************)
EXTENDS Naturals

CONSTANTS
  Password,   \* what users may type
  Secrets,    \* the password of the VNC server: some of Password, or None for none
  None,
  Options,    \* sets of what the container, the URL and the network may bring, see IsOption
  MaxLate     \* bound of the model: sockets of a service that still close when one is made,
              \* and live ones the notifications lost hold of

\* "slowClose": the close event of a notification socket may take longer than
\* the delay of a reconnection.
IsOption == {"notification", "terminal", "audio", "webAuth", "reconnect", "slowClose"}

ASSUME GuiAssumption ==
  /\ None \notin Password /\ Secrets \subseteq Password \cup {None}
  /\ Options \subseteq SUBSET IsOption /\ MaxLate \in Nat

N == INSTANCE NotificationClient
T == INSTANCE TerminalClient
A == INSTANCE AudioClient

VARIABLES
  options, secret,  \* chosen once: webData and the URL, the VNC server's password
  url,              \* the password in the URL, or None; a reload keeps it
  page,             \* "loading" or "loaded"
  overlay,          \* the message of handleError covers the page
  rfb,              \* UI.rfb: "none", "connecting", "waiting", "rejected", "connected"
  offered,          \* the password the RFB object has, or None
  ongoingReconnect, reconnectCallback, reconnectPassword,
  probing,          \* the connectivity test of a reconnection is under way
  retried,          \* reconnectAttempts > 0
  visual,           \* the class updateVisualState leaves on the document
  dialog,           \* the credentials dialog is open
  outdated,         \* the container was upgraded since the page was loaded
  check,            \* checkWebData: "idle", "running", "failed"
  refused,          \* history: the passwords refused since they were given, in the URL of
                    \* a page that is loaded or by the user
  notification, terminal, audio

setting    == <<options, secret, url>>
connection == <<rfb, offered, ongoingReconnect, reconnectCallback, reconnectPassword, probing,
                retried, visual, dialog, refused>>
services   == <<notification, terminal, audio>>
version    == <<outdated, check>>
vars == <<setting, page, overlay, connection, version, services>>

\* UI.connected
connected == rfb = "connected"

Has(option) == option \in options

Loaded == page = "loaded"

-----------------------------------------------------------------------------
(* The connection.                                                         *)

\* updateVisualState(state), where it closes the dialog: while reconnecting,
\* most states are inhibited.
\* Mutant: none is.
MutInhibited(state) == FALSE

Inhibited(state) ==
  ongoingReconnect' /\ (state # "connected") /\ (state = "reconnecting" => visual = "reconnecting")

updateVisualState(state) ==
  /\ visual' = IF Inhibited(state) THEN visual ELSE state
  /\ dialog' = (Inhibited(state) /\ dialog)

\* connect: nothing when there is an RFB object already.
connect(password) ==
  IF rfb # "none" THEN UNCHANGED <<rfb, offered, visual, dialog>>
  ELSE /\ rfb' = "connecting" /\ offered' = password
       /\ updateVisualState("connecting")

\* window.location.reload(): everything is made anew, with the same URL.
Reload ==
  /\ page' = "loading" /\ overlay' = FALSE /\ rfb' = "none" /\ offered' = None
  /\ ongoingReconnect' = FALSE /\ reconnectCallback' = FALSE /\ reconnectPassword' = None
  /\ probing' = FALSE /\ retried' = FALSE /\ visual' = "init" /\ dialog' = FALSE
  /\ outdated' = FALSE /\ check' = "idle"
  /\ notification' = N!Initial(notification.permission)
  /\ terminal' = T!Initial /\ audio' = A!Initial(audio.audible)
  /\ UNCHANGED <<setting, refused>>

\* start: the page is ready and connects, with the password of the URL, be it
\* one that was refused before.
start ==
  /\ page = "loading" /\ ~overlay /\ page' = "loaded"
  /\ reconnectPassword' = url /\ refused' = refused \ {url}
  /\ ongoingReconnect' = FALSE /\ connect(url)
  /\ UNCHANGED <<setting, overlay, reconnectCallback, probing, retried, version, services>>

\* An error nobody caught covers the page with a message, till it is loaded again.
handleError == overlay' = TRUE

\* webdata.json could not be loaded.
StartFails ==
  /\ page = "loading" /\ ~overlay /\ handleError
  /\ UNCHANGED <<setting, page, connection, version, services>>

\* The VNC server wants a password, and there is none.
credentials ==
  /\ rfb = "connecting" /\ secret # None /\ offered = None
  /\ rfb' = "waiting" /\ dialog' = TRUE
  /\ UNCHANGED <<setting, page, overlay, offered, ongoingReconnect, reconnectCallback,
                 reconnectPassword, probing, retried, visual, refused, version, services>>

\* setCredentials, with an RFB object to give the password to; without one the
\* handler throws.
setCredentials(password) ==
  /\ dialog /\ ~overlay /\ rfb # "none"
  /\ rfb' = (IF rfb = "waiting" THEN "connecting" ELSE rfb)
  /\ offered' = password /\ reconnectPassword' = password /\ dialog' = FALSE
  /\ refused' = refused \ {password}
  /\ UNCHANGED <<setting, page, overlay, ongoingReconnect, reconnectCallback, probing, retried,
                 visual, version, services>>

setCredentialsThrows ==
  /\ dialog /\ ~overlay /\ rfb = "none" /\ handleError
  /\ UNCHANGED <<setting, page, connection, version, services>>

\* Mutant: the password is tried again.
MutPasswordAfterFailure == reconnectPassword

\* The password securityFailed leaves for the next attempt.
PasswordAfterFailure == None

\* securityFailed: the server refuses; it closes the connection next.
securityFailed ==
  /\ rfb = "connecting" /\ secret # None
  /\ rfb' = "rejected" /\ reconnectPassword' = PasswordAfterFailure
  /\ refused' = refused \cup ({offered} \ {None})
  /\ UNCHANGED <<setting, page, overlay, offered, ongoingReconnect, reconnectCallback, probing,
                 retried, visual, dialog, version, services>>

\* Mutant: web data is not looked at.
MutCheckDue == FALSE

\* connectFinished checks the web data again after a reconnection.
CheckDue == retried

\* connectFinished
connectFinished ==
  /\ rfb = "connecting" /\ secret \in {None, offered}
  /\ rfb' = "connected" /\ ongoingReconnect' = FALSE
  /\ updateVisualState("connected")
  /\ check' = IF CheckDue THEN "running" ELSE check
  /\ audio' = IF Has("audio") THEN A!Arm(audio) ELSE audio
  /\ notification' = IF Has("notification") THEN N!start(notification) ELSE notification
  /\ UNCHANGED <<setting, page, overlay, offered, reconnectCallback, reconnectPassword, probing,
                 retried, refused, outdated, terminal>>

\* Mutant: only a desktop that was connected is connected again.
MutRetries == connected

\* Whether disconnectFinished starts a reconnection.
Retries == Has("reconnect")

\* disconnectFinished: the connection failed, was refused or was lost.
disconnectFinished ==
  /\ rfb # "none" /\ rfb' = "none" /\ offered' = None
  /\ ongoingReconnect' = Retries /\ reconnectCallback' = Retries
  /\ updateVisualState(IF Retries THEN "reconnecting" ELSE "disconnected")
  /\ terminal' = IF Has("terminal") THEN T!closeDialog(terminal) ELSE terminal
  /\ audio' = IF Has("audio") THEN A!Stop(audio) ELSE audio
  /\ notification' = IF Has("notification") THEN N!stop(notification) ELSE notification
  /\ UNCHANGED <<setting, page, overlay, reconnectPassword, probing, retried, refused, version>>

\* With web authentication, reconnect tests the connectivity first.
Probes == Has("webAuth")

\* reconnect, by the timer of 5 s; unless they are slow, the close events of
\* the last connection have come by then.
reconnect ==
  /\ reconnectCallback /\ notification.closing <= (IF Has("slowClose") THEN MaxLate ELSE 0)
  /\ reconnectCallback' = FALSE /\ retried' = TRUE
  /\ IF Probes THEN probing' = TRUE /\ UNCHANGED <<rfb, offered, visual, dialog, ongoingReconnect>>
     ELSE probing' = probing /\ ongoingReconnect' = ongoingReconnect /\ connect(reconnectPassword)
  /\ UNCHANGED <<setting, page, overlay, reconnectPassword, refused, version, services>>

\* The test of the connectivity: any answer reloads the page.
ProbeAnswered == probing /\ Reload

ProbeFails ==
  /\ probing /\ probing' = FALSE /\ reconnectCallback' = TRUE
  /\ UNCHANGED <<setting, page, overlay, rfb, offered, ongoingReconnect, reconnectPassword, retried,
                 visual, dialog, refused, version, services>>

\* checkWebData.
CheckAnswered ==
  /\ check = "running"
  /\ IF outdated THEN Reload
     ELSE check' = "idle" /\ UNCHANGED <<setting, page, overlay, connection, outdated, services>>

CheckFails ==
  /\ check = "running" /\ check' = "failed"
  /\ UNCHANGED <<setting, page, overlay, connection, outdated, services>>

\* The container is upgraded, which ends every connection to it.
Upgrade ==
  /\ page = "loaded" /\ rfb = "none" /\ outdated' = TRUE
  /\ UNCHANGED <<setting, page, overlay, connection, check, services>>

\* The user loads the page again.
UserReload == (page = "loaded" \/ overlay) /\ Reload

-----------------------------------------------------------------------------
(* The services, each with the functions of its module.                    *)

PageUnchanged == UNCHANGED <<setting, page, overlay, connection, version>>

NotificationStep(n) ==
  Has("notification") /\ page = "loaded" /\ notification' = n
  /\ PageUnchanged /\ UNCHANGED <<terminal, audio>>

NotificationOpens ==
  /\ notification.webSocket = "connecting"
  /\ NotificationStep([notification EXCEPT !.webSocket = "open"])

\* A message, also of a socket the client lost hold of.
NotificationMessage ==
  /\ notification.webSocket = "open" \/ notification.stray > 0
  /\ NotificationStep(N!handleWebSocketMessage(notification))

NotificationLost == N!Live(notification) /\ NotificationStep(N!Lost(notification))

\* No more than MaxLate sockets in use are dropped by such events.
NotificationClosed ==
  /\ notification.closing > 0 /\ (N!Live(notification) => notification.stray < MaxLate)
  /\ NotificationStep(N!Closed(notification))

NotificationStrayLost ==
  notification.stray > 0 /\ NotificationStep(N!StrayLost(notification))

NotificationTimer ==
  /\ notification.timer
  /\ NotificationStep(N!connectWebSocket([notification EXCEPT !.timer = FALSE]))

NotificationAsked ==
  notification.prompt = "armed" /\ NotificationStep(N!onFirstInteraction(notification))

NotificationAnswered(permission) ==
  /\ notification.prompt = "shown"
  /\ NotificationStep(N!PermissionAnswered(notification, permission))

\* The user removes the permission in the settings of the browser.
PermissionRemoved ==
  /\ notification.permission = "granted"
  /\ NotificationStep([notification EXCEPT !.permission = "denied"])

TerminalStep(t) ==
  Has("terminal") /\ terminal' = t /\ PageUnchanged /\ UNCHANGED <<notification, audio>>

\* The button of the control bar, which is there while connected.
TerminalClicked ==
  connected /\ ~overlay /\ terminal.modal = "hidden" /\ TerminalStep(T!ShowDialog(terminal))

TerminalShown ==
  /\ terminal.modal = "showing" /\ terminal.closing <= MaxLate
  /\ TerminalStep(T!Shown(terminal))

TerminalDismissed ==
  ~overlay /\ terminal.modal = "shown" /\ TerminalStep(T!Dismissed(terminal))

TerminalHidden == terminal.modal = "hiding" /\ TerminalStep(T!Hidden(terminal))

TerminalOpens == terminal.webSocket = "connecting" /\ TerminalStep(T!onopen(terminal))

\* Only a connection that was there can end in good order.
TerminalLost(clean) ==
  /\ T!Live(terminal) /\ (clean => terminal.webSocket = "open")
  /\ TerminalStep(T!Lost(terminal, clean))

TerminalClosed(clean) == terminal.closing > 0 /\ TerminalStep(T!Closed(terminal, clean))

TerminalTimer ==
  /\ terminal.timer /\ terminal.closing <= MaxLate
  /\ TerminalStep(T!connectWebSocket([terminal EXCEPT !.timer = FALSE]))

TerminalTerminated == terminal.webSocket = "open" /\ TerminalStep(T!Terminate(terminal))

AudioStep(a) ==
  Has("audio") /\ audio' = a /\ PageUnchanged /\ UNCHANGED <<notification, terminal>>

\* Touching the page, anywhere and at any time.
AudioInteraction == audio.armed /\ AudioStep(A!FirstInteraction(audio, connected))

\* The control bar is there while connected, and touched only after the page was.
AudioToggled ==
  connected /\ ~overlay /\ audio.interacted /\ AudioStep(A!toggleAudio(audio, connected))

VolumeMoved(audible) ==
  /\ connected /\ ~overlay /\ audio.interacted
  /\ AudioStep(A!updateAudioVolume(audio, audible, connected))

AudioOpens ==
  audio.webSocket = "connecting" /\ AudioStep([audio EXCEPT !.webSocket = "open"])

AudioClosed == audio.webSocket # "none" /\ AudioStep(A!onclose(audio))

AudioTimer == audio.timer /\ AudioStep(A!connectWebSocket(audio))

-----------------------------------------------------------------------------
Init ==
  /\ options \in Options /\ secret \in Secrets /\ url \in Password \cup {None}
  /\ page = "loading" /\ overlay = FALSE /\ rfb = "none" /\ offered = None
  /\ ongoingReconnect = FALSE /\ reconnectCallback = FALSE /\ reconnectPassword = None
  /\ probing = FALSE /\ retried = FALSE /\ visual = "init" /\ dialog = FALSE
  /\ outdated = FALSE /\ check = "idle" /\ refused = {}
  /\ notification \in {N!Initial(p) : p \in IF Has("notification")
                                            THEN {"granted", "default", "denied"} ELSE {"default"}}
  /\ terminal = T!Initial
  /\ audio \in {A!Initial(audible) : audible \in IF Has("audio") THEN BOOLEAN ELSE {FALSE}}

Connection ==
  \/ start \/ StartFails \/ UserReload
  \/ credentials \/ setCredentialsThrows \/ \E p \in Password : setCredentials(p)
  \/ securityFailed \/ connectFinished \/ disconnectFinished
  \/ reconnect \/ ProbeAnswered \/ ProbeFails
  \/ CheckAnswered \/ CheckFails \/ Upgrade

Notification ==
  \/ NotificationOpens \/ NotificationMessage \/ NotificationLost \/ NotificationClosed
  \/ NotificationStrayLost \/ NotificationTimer \/ NotificationAsked \/ PermissionRemoved
  \/ \E p \in {"granted", "denied"} : NotificationAnswered(p)

WebTerminal ==
  \/ TerminalClicked \/ TerminalShown \/ TerminalDismissed \/ TerminalHidden
  \/ TerminalOpens \/ TerminalTimer \/ TerminalTerminated
  \/ \E clean \in BOOLEAN : TerminalLost(clean) \/ TerminalClosed(clean)

Audio ==
  \/ AudioInteraction \/ AudioToggled \/ \E audible \in BOOLEAN : VolumeMoved(audible)
  \/ AudioOpens \/ AudioClosed \/ AudioTimer

Next == Connection \/ Notification \/ WebTerminal \/ Audio

\* The browser runs its timers and its events.  The network and the server do
\* not fail for ever: what is tried again and again succeeds in the end.
Fairness ==
  /\ WF_vars(reconnect) /\ WF_vars(rfb = "rejected" /\ disconnectFinished)
  /\ SF_vars(credentials) /\ SF_vars(connectFinished) /\ SF_vars(ProbeAnswered)
  /\ SF_vars(offered \notin {None, secret} /\ securityFailed)
  /\ WF_vars(NotificationTimer) /\ WF_vars(NotificationClosed) /\ SF_vars(NotificationOpens)
  /\ WF_vars(TerminalTimer) /\ WF_vars(\E clean \in BOOLEAN : TerminalClosed(clean))
  /\ SF_vars(TerminalOpens)
  /\ WF_vars(AudioTimer) /\ WF_vars(audio.webSocket = "closing" /\ AudioClosed)
  /\ SF_vars(AudioOpens)

Spec == Init /\ [][Next]_vars

FairSpec == Spec /\ Fairness

-----------------------------------------------------------------------------
(* Properties.                                                             *)

TypeOK ==
  /\ options \in Options /\ secret \in Secrets
  /\ {url, offered, reconnectPassword} \subseteq Password \cup {None} /\ refused \subseteq Password
  /\ page \in {"loading", "loaded"}
  /\ rfb \in {"none", "connecting", "waiting", "rejected", "connected"}
  /\ {overlay, ongoingReconnect, reconnectCallback, probing, retried, dialog, outdated} \subseteq BOOLEAN
  /\ visual \in {"init", "connecting", "connected", "reconnecting", "disconnected"}
  /\ check \in {"idle", "running", "failed"}
  /\ N!IsState(notification) /\ T!IsState(terminal) /\ A!IsState(audio)

\* Of these the page never has two: a connection, or an attempt at one; the
\* wait for the next attempt; the test of the network.  Once it is loaded it
\* has one of them, and is never stuck (connect, reconnect, disconnectFinished).
OneAttempt ==
  /\ rfb # "none" => ~reconnectCallback /\ ~probing
  /\ ~(reconnectCallback /\ probing)
  /\ page = "loaded" /\ Has("reconnect") => rfb # "none" \/ reconnectCallback \/ probing

\* What the user sees is the state of the connection: the desktop when it is
\* connected, "Reconnecting..." from the first loss until it is connected again.
VisualAgrees ==
  page = "loaded" => /\ visual = "connected" <=> connected
                     /\ ongoingReconnect <=> visual = "reconnecting"

\* The credentials dialog never covers a desktop that is connected, and but
\* for reconnections it is there only while an RFB object waits for it.
DialogJustified == dialog => ~connected /\ (rfb = "waiting" \/ ongoingReconnect)

\* Neither the state of the page nor its dialog ever contradicts the
\* connection, although most state changes are inhibited while reconnecting
\* (updateVisualState).
DisplayAgrees == VisualAgrees /\ DialogJustified

\* A page that connects by itself sends a password the server refused only when
\* it was loaded again and the password is in its URL; a reconnection never
\* does, nor does it do without the password that was accepted.  A page behind
\* the login page that has a wrong password in its URL does send it at every
\* reload (start, securityFailed, setCredentials, reconnect).
PasswordsKept ==
  /\ [](connected /\ secret # None => reconnectPassword = secret)
  /\ [][rfb = "none" /\ rfb' = "connecting" /\ offered' \in refused
         => page = "loading" /\ offered' = url]_vars

\* Terminal and audio never have two live sockets, or one the page lost hold
\* of, however late a close event comes.  The notifications keep hold of theirs
\* as long as close events come within the delay of a reconnection; a slower
\* one makes them drop the socket in use and make a second (the onclose
\* handlers).
OneSocketEach ==
  /\ N!NoSecond(notification) /\ (Has("slowClose") \/ N!OneSocket(notification))
  /\ T!OneSocket(terminal) /\ A!OneSocket(audio)

\* The services keep hold of their sockets, as above; the terminal on display
\* has a connection or is about to get one, takes input only while it can send
\* it, and leaves nothing once it is closed; a player that runs has a socket or
\* is about to get one.
ServicesHeld == OneSocketEach /\ T!Attached(terminal) /\ A!Fed(audio)

\* While the desktop is disconnected its services are silent: nothing is
\* fetched, nothing played, no reconnection under way.  The exceptions are a
\* terminal whose dialog could not be hidden, as it was still appearing, and a
\* notification socket that a slow close event made the page lose hold of:
\* stop() does not close that one (disconnectFinished).
SilentOffline ==
  ~connected => /\ N!Quiet(notification) /\ (Has("slowClose") \/ N!OneSocket(notification))
                /\ A!Quiet(audio)
                /\ T!Quiet(terminal) \/ terminal.missed

\* A page of an earlier version of the container does not stay: when it has
\* connected, the version is being checked, unless that failed.
UpgradeNoticed == connected /\ outdated => check # "idle"

\* With web authentication a page never connects twice: it is loaded again,
\* so that the user gets to the login page.
OneConnectionPerLogin == Has("webAuth") /\ rfb # "none" => ~retried

\* A page that is out of date, or whose login may be over, does not go on as
\* if nothing had happened (connectFinished, reconnect).
PageRenewed == UpgradeNoticed /\ OneConnectionPerLogin

\* A page that was loaded gets its desktop, asks the user, or is loaded again,
\* whatever is lost or refused on the way (reconnect, disconnectFinished).
Reconnects ==
  (page = "loaded" /\ Has("reconnect")) ~> (connected \/ rfb = "waiting" \/ page = "loading")

\* While the desktop is connected and notifications are granted, they get a
\* connection in the end.
NotificationsFlow ==
  (connected /\ notification.granted /\ Has("notification"))
    ~> (notification.webSocket = "open" \/ ~notification.granted \/ ~connected)

\* A terminal on display takes input in the end.
TerminalReady == terminal.terminal ~> (terminal.stdin \/ ~terminal.terminal)

\* A player that is started gets its stream in the end.
AudioFlows == audio.started ~> (audio.webSocket = "open" \/ ~audio.started)

\* Each service that is wanted gets its connection in the end, however often it
\* is lost and whatever order its events come in (the onclose handlers).
ServicesFlow == NotificationsFlow /\ TerminalReady /\ AudioFlows

\* The credentials dialog is there only while it may be answered: "State
\* change closes dialogs as they may not be relevant anymore".
DialogIsAnswerable == dialog => rfb # "none"
=============================================================================
