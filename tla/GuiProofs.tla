----------------------------- MODULE GuiProofs -----------------------------
(***************************************************************************)
(* Proofs about Gui, for any passwords, options and bound.  The inductive  *)
(* invariant has a part for the connection, which does not need the        *)
(* services, and one for each service, which needs the connection.         *)
(***************************************************************************)
EXTENDS Gui, TLAPS

-----------------------------------------------------------------------------
(* Types.  A sum in a record is first proved to be a number.               *)

LEMMA NotificationTypes ==
  ASSUME NEW n, N!IsState(n)
  PROVE  /\ N!IsState(N!connectWebSocket(n)) /\ N!IsState(N!disconnectWebSocket(n))
         /\ N!IsState(N!start(n)) /\ N!IsState(N!stop(n)) /\ N!IsState(N!onFirstInteraction(n))
         /\ \A p \in {"granted", "denied"} : N!IsState(N!PermissionAnswered(n, p))
         /\ N!IsState(N!Lost(n)) /\ (n.closing > 0 => N!IsState(N!Closed(n)))
         /\ (n.stray > 0 => N!IsState(N!StrayLost(n)))
         /\ N!IsState(N!handleWebSocketMessage(n))
         /\ (n.timer => N!IsState(N!connectWebSocket([n EXCEPT !.timer = FALSE])))
<1>1. ASSUME NEW m, N!IsState(m) PROVE N!IsState(N!connectWebSocket(m))
  BY <1>1 DEF N!IsState, N!connectWebSocket
<1>2. ASSUME NEW m, N!IsState(m) PROVE N!IsState(N!disconnectWebSocket(m))
  <2> DEFINE c == m.closing + 1
  <2>1. c \in Nat BY <1>2 DEF N!IsState
  <2> HIDE DEF c
  <2>2. N!IsState([m EXCEPT !.webSocket = "none", !.closing = c]) BY <1>2, <2>1 DEF N!IsState
  <2> QED BY <1>2, <2>2 DEF N!disconnectWebSocket, c
<1>3. ASSUME NEW m, N!IsState(m) PROVE N!IsState(N!onclose(m))
  <2> DEFINE s == m.stray + IF N!Live(m) THEN 1 ELSE 0
             w == m.timer \/ (m.granted /\ m.started)
  <2>1. s \in Nat /\ w \in BOOLEAN BY <1>3 DEF N!IsState
  <2> HIDE DEF s, w
  <2>2. N!IsState([m EXCEPT !.webSocket = "none", !.timer = w, !.stray = s])
    BY <1>3, <2>1 DEF N!IsState
  <2> QED BY <2>2 DEF N!onclose, s, w
<1>4. ASSUME NEW m, N!IsState(m), NEW b \in BOOLEAN
      PROVE  /\ N!IsState([m EXCEPT !.timer = b]) /\ N!IsState([m EXCEPT !.started = b])
             /\ N!IsState([m EXCEPT !.granted = b])
  BY <1>4 DEF N!IsState
<1>5. N!IsState(N!start(n))
  <2>1. N!IsState([n EXCEPT !.started = TRUE]) BY <1>4
  <2> QED BY <2>1, <1>1 DEF N!start
<1>6. N!IsState(N!stop(n))
  <2>1. N!IsState(N!disconnectWebSocket([n EXCEPT !.timer = FALSE])) BY <1>2, <1>4
  <2> QED BY <2>1, <1>4 DEF N!stop
<1>7. N!IsState(N!onFirstInteraction(n)) BY DEF N!IsState, N!onFirstInteraction
<1>8. ASSUME NEW p \in {"granted", "denied"} PROVE N!IsState(N!PermissionAnswered(n, p))
  <2> DEFINE g == p = "granted"
             m == [n EXCEPT !.prompt = "done", !.permission = p, !.granted = g]
  <2>1. N!IsState(m)
    <3>1. g \in BOOLEAN OBVIOUS
    <3> HIDE DEF g
    <3> QED BY <3>1 DEF N!IsState
  <2> QED BY <2>1, <1>1 DEF N!PermissionAnswered
<1>9. N!IsState(N!Lost(n))
  <2>1. N!IsState([n EXCEPT !.webSocket = "none"]) BY DEF N!IsState
  <2> QED BY <2>1, <1>3 DEF N!Lost
<1>10. ASSUME n.closing > 0 PROVE N!IsState(N!Closed(n))
  <2> DEFINE c == n.closing - 1
  <2>1. c \in Nat BY <1>10 DEF N!IsState
  <2> HIDE DEF c
  <2>2. N!IsState([n EXCEPT !.closing = c]) BY <2>1 DEF N!IsState
  <2> QED BY <2>2, <1>3 DEF N!Closed, c
<1>11. N!IsState(N!handleWebSocketMessage(n)) BY <1>2, <1>4 DEF N!handleWebSocketMessage
<1>12. N!IsState(N!connectWebSocket([n EXCEPT !.timer = FALSE])) BY <1>1, <1>4
<1>13. ASSUME n.stray > 0 PROVE N!IsState(N!StrayLost(n))
  <2> DEFINE c == n.stray - 1
  <2>1. c \in Nat BY <1>13 DEF N!IsState
  <2> HIDE DEF c
  <2>2. N!IsState([n EXCEPT !.stray = c]) BY <2>1 DEF N!IsState
  <2> QED BY <2>2, <1>3 DEF N!StrayLost, c
<1> QED BY <1>1, <1>2, <1>5, <1>6, <1>7, <1>8, <1>9, <1>10, <1>11, <1>12, <1>13

LEMMA TerminalTypes ==
  ASSUME NEW t, T!IsState(t)
  PROVE  /\ T!IsState(T!closeDialog(t)) /\ T!IsState(T!ShowDialog(t)) /\ T!IsState(T!Shown(t))
         /\ T!IsState(T!Dismissed(t)) /\ T!IsState(T!Hidden(t)) /\ T!IsState(T!onopen(t))
         /\ \A clean \in BOOLEAN :
              T!IsState(T!Lost(t, clean)) /\ (t.closing > 0 => T!IsState(T!Closed(t, clean)))
         /\ T!IsState(T!Terminate(t)) /\ T!IsState(T!connectWebSocket([t EXCEPT !.timer = FALSE]))
<1>1. ASSUME NEW u, T!IsState(u) PROVE T!IsState(T!hide(u))
  BY <1>1 DEF T!IsState, T!hide
<1>2. ASSUME NEW u, T!IsState(u) PROVE T!IsState(T!connectWebSocket(u))
  BY <1>2 DEF T!IsState, T!connectWebSocket
<1>3. ASSUME NEW u, T!IsState(u) PROVE T!IsState(T!disconnectWebSocket(u))
  <2> DEFINE c == u.closing + IF T!Live(u) THEN 1 ELSE 0
  <2>1. c \in Nat BY <1>3 DEF T!IsState
  <2> HIDE DEF c
  <2>2. T!IsState([u EXCEPT !.webSocket = "none", !.timer = FALSE, !.closing = c])
    BY <1>3, <2>1 DEF T!IsState
  <2> QED BY <2>2 DEF T!disconnectWebSocket, c
<1>4. ASSUME NEW u, T!IsState(u) PROVE T!IsState(T!closeTerminal(u))
  <2>1. T!IsState([u EXCEPT !.terminal = FALSE, !.stdin = FALSE]) BY <1>4 DEF T!IsState
  <2> QED BY <1>4, <2>1, <1>1, <1>3 DEF T!closeTerminal
<1>5. ASSUME NEW u, T!IsState(u) PROVE T!IsState(T!closeDialog(u))
  BY <1>5, <1>1, <1>4 DEF T!closeDialog
<1>6. T!IsState(T!ShowDialog(t)) BY DEF T!IsState, T!ShowDialog
<1>7. T!IsState(T!Shown(t)) BY DEF T!IsState, T!Shown, T!openTerminal, T!connectWebSocket
<1>8. T!IsState(T!Hidden(t))
  <2>1. T!IsState([t EXCEPT !.modal = "hidden", !.missed = FALSE]) BY DEF T!IsState
  <2> QED BY <2>1, <1>5 DEF T!Hidden
<1>9. T!IsState(T!onopen(t)) BY DEF T!IsState, T!onopen
<1>10. ASSUME NEW u, T!IsState(u), NEW clean \in BOOLEAN PROVE T!IsState(T!onclose(u, clean))
  <2>1. T!IsState(T!disconnectWebSocket([u EXCEPT !.stdin = FALSE]))
    <3>1. T!IsState([u EXCEPT !.stdin = FALSE]) BY <1>10 DEF T!IsState
    <3> QED BY <3>1, <1>3
  <2>2. ASSUME NEW v, T!IsState(v) PROVE T!IsState([v EXCEPT !.timer = TRUE])
    BY <2>2 DEF T!IsState
  <2> QED BY <2>1, <2>2, <1>4 DEF T!onclose, T!AfterClose
<1>11. ASSUME NEW clean \in BOOLEAN
       PROVE T!IsState(T!Lost(t, clean)) /\ (t.closing > 0 => T!IsState(T!Closed(t, clean)))
  <2>1. T!IsState([t EXCEPT !.webSocket = "none"]) BY DEF T!IsState
  <2>2. ASSUME t.closing > 0 PROVE T!IsState([t EXCEPT !.closing = @ - 1])
    <3> DEFINE c == t.closing - 1
    <3>1. c \in Nat BY <2>2 DEF T!IsState
    <3> HIDE DEF c
    <3>2. T!IsState([t EXCEPT !.closing = c]) BY <3>1 DEF T!IsState
    <3> QED BY <3>2 DEF c
  <2> QED BY <2>1, <2>2, <1>10 DEF T!Lost, T!Closed
<1>12. T!IsState(T!connectWebSocket([t EXCEPT !.timer = FALSE])) BY DEF T!IsState, T!connectWebSocket
<1> QED BY <1>1, <1>4, <1>5, <1>6, <1>7, <1>8, <1>9, <1>11, <1>12 DEF T!Dismissed, T!Terminate

LEMMA AudioTypes ==
  ASSUME NEW a, A!IsState(a), NEW online \in BOOLEAN
  PROVE  /\ A!IsState(A!Arm(a)) /\ A!IsState(A!Stop(a)) /\ A!IsState(A!onclose(a))
         /\ A!IsState(A!connectWebSocket(a)) /\ A!IsState(A!toggleAudio(a, online))
         /\ A!IsState(A!FirstInteraction(a, online))
         /\ \A audible \in BOOLEAN : A!IsState(A!updateAudioVolume(a, audible, online))
<1>1. ASSUME NEW b, A!IsState(b) PROVE A!IsState(A!connectWebSocket(b))
  <2> DEFINE s == b.stray + IF A!Live(b) THEN 1 ELSE 0
  <2>1. s \in Nat BY <1>1 DEF A!IsState
  <2>2. A!IsState([b EXCEPT !.timer = FALSE]) BY <1>1 DEF A!IsState
  <2> HIDE DEF s
  <2>3. A!IsState([[b EXCEPT !.timer = FALSE] EXCEPT !.webSocket = "connecting", !.stray = s])
    BY <2>1, <2>2 DEF A!IsState
  <2>4. [b EXCEPT !.timer = FALSE].stray = b.stray BY <1>1 DEF A!IsState
  <2> QED BY <2>2, <2>3, <2>4 DEF A!connectWebSocket, s
<1>2. ASSUME NEW b, A!IsState(b), NEW on \in BOOLEAN PROVE A!IsState(A!updateAudio(b, on))
  <2>1. A!IsState([b EXCEPT !.started = TRUE]) BY <1>2 DEF A!IsState
  <2>2. A!IsState(A!TurnOff(b)) BY <1>2 DEF A!IsState, A!TurnOff
  <2> QED BY <2>1, <2>2, <1>1 DEF A!updateAudio, A!TurnOn
<1>3. A!IsState(A!Arm(a)) BY DEF A!IsState, A!Arm
<1>4. A!IsState(A!onclose(a)) BY DEF A!IsState, A!onclose
<1>5. A!IsState(A!Stop(a))
  <2>1. A!IsState([a EXCEPT !.enabled = FALSE]) BY DEF A!IsState
  <2> QED BY <2>1, <1>2 DEF A!Stop
<1>6. A!IsState(A!toggleAudio(a, online))
  <2>1. A!IsState([a EXCEPT !.enabled = ~a.enabled, !.audible = ~a.enabled]) BY DEF A!IsState
  <2> QED BY <2>1, <1>2 DEF A!toggleAudio
<1>7. ASSUME NEW b, A!IsState(b), NEW audible \in BOOLEAN
      PROVE A!IsState(A!updateAudioVolume(b, audible, online))
  <2>1. A!IsState([b EXCEPT !.enabled = audible, !.audible = audible]) BY <1>7 DEF A!IsState
  <2> QED BY <2>1, <1>2 DEF A!updateAudioVolume
<1>8. A!IsState(A!FirstInteraction(a, online))
  <2>1. A!IsState([a EXCEPT !.interacted = TRUE, !.armed = FALSE]) /\ a.audible \in BOOLEAN
    BY DEF A!IsState
  <2> QED BY <2>1, <1>7 DEF A!FirstInteraction
<1> QED BY <1>1, <1>3, <1>4, <1>5, <1>6, <1>7, <1>8

-----------------------------------------------------------------------------
LEMMA InitTypeOK == Init => TypeOK
<1> SUFFICES ASSUME Init PROVE TypeOK OBVIOUS
<1>1. N!IsState(notification)
  <2>1. PICK p \in {"granted", "default", "denied"} : notification = N!Initial(p) BY DEF Init
  <2>2. (p = "granted") \in BOOLEAN /\ (IF p = "default" THEN "armed" ELSE "done") \in {"armed", "done"}
    OBVIOUS
  <2> QED BY <2>1, <2>2, Zenon DEF N!IsState, N!Initial
<1>2. T!IsState(terminal) BY DEF Init, T!IsState, T!Initial
<1>3. A!IsState(audio)
  <2>1. PICK b \in BOOLEAN : audio = A!Initial(b) BY DEF Init
  <2> QED BY <2>1 DEF A!IsState, A!Initial
<1> QED BY <1>1, <1>2, <1>3 DEF Init, TypeOK

LEMMA ReloadTypeOK == TypeOK /\ Reload => TypeOK'
<1> SUFFICES ASSUME TypeOK, Reload PROVE TypeOK' OBVIOUS
<1>1. N!IsState(notification')
  BY DEF TypeOK, Reload, N!IsState, N!Initial
<1>2. T!IsState(terminal') BY DEF Reload, T!IsState, T!Initial
<1>3. A!IsState(audio') BY DEF TypeOK, Reload, A!IsState, A!Initial
<1> QED BY <1>1, <1>2, <1>3 DEF Reload, TypeOK, setting

LEMMA StepTypeOK == TypeOK /\ [Next]_vars => TypeOK'
<1> SUFFICES ASSUME TypeOK, [Next]_vars PROVE TypeOK' OBVIOUS
<1> USE DEF setting, connection, services, version
<1>a. connected \in BOOLEAN BY DEF connected
<1>1. CASE start
  BY <1>1 DEF TypeOK, start, connect, updateVisualState, Inhibited
<1>2. CASE StartFails BY <1>2 DEF TypeOK, StartFails, handleError
<1>3. CASE UserReload BY <1>3, ReloadTypeOK DEF UserReload
<1>4. CASE credentials BY <1>4 DEF TypeOK, credentials
<1>5. CASE setCredentialsThrows BY <1>5 DEF TypeOK, setCredentialsThrows, handleError
<1>6. ASSUME NEW p \in Password, setCredentials(p) PROVE TypeOK'
  BY <1>6 DEF TypeOK, setCredentials
<1>7. CASE securityFailed BY <1>7 DEF TypeOK, securityFailed, PasswordAfterFailure
<1>8. CASE connectFinished
  <2>1. N!IsState(notification') BY <1>8, NotificationTypes DEF TypeOK, connectFinished
  <2>2. A!IsState(audio') BY <1>8, AudioTypes DEF TypeOK, connectFinished
  <2> QED BY <1>8, <2>1, <2>2 DEF TypeOK, connectFinished, updateVisualState, Inhibited
<1>9. CASE disconnectFinished
  <2>1. N!IsState(notification') BY <1>9, NotificationTypes DEF TypeOK, disconnectFinished
  <2>2. A!IsState(audio') BY <1>9, AudioTypes DEF TypeOK, disconnectFinished
  <2>3. T!IsState(terminal') BY <1>9, TerminalTypes DEF TypeOK, disconnectFinished
  <2> QED BY <1>9, <2>1, <2>2, <2>3
          DEF TypeOK, disconnectFinished, updateVisualState, Inhibited, Retries, Has
<1>10. CASE reconnect BY <1>10 DEF TypeOK, reconnect, connect, updateVisualState, Inhibited
<1>11. CASE ProbeAnswered BY <1>11, ReloadTypeOK DEF ProbeAnswered
<1>12. CASE ProbeFails BY <1>12 DEF TypeOK, ProbeFails
<1>13. CASE CheckAnswered BY <1>13, ReloadTypeOK DEF TypeOK, CheckAnswered
<1>14. CASE CheckFails BY <1>14 DEF TypeOK, CheckFails
<1>15. CASE Upgrade BY <1>15 DEF TypeOK, Upgrade
<1>16. ASSUME NEW n, N!IsState(n), NotificationStep(n) PROVE TypeOK'
  BY <1>16 DEF TypeOK, NotificationStep, PageUnchanged
<1>17. ASSUME NEW t, T!IsState(t), TerminalStep(t) PROVE TypeOK'
  BY <1>17 DEF TypeOK, TerminalStep, PageUnchanged
<1>18. ASSUME NEW a, A!IsState(a), AudioStep(a) PROVE TypeOK'
  BY <1>18 DEF TypeOK, AudioStep, PageUnchanged
<1>19. CASE Notification
  <2> USE NotificationTypes
  <2>0. N!IsState(notification) BY DEF TypeOK
  <2>1. CASE NotificationOpens
    <3>1. N!IsState([notification EXCEPT !.webSocket = "open"]) BY <2>0 DEF N!IsState
    <3> QED BY <2>1, <3>1, <1>16 DEF NotificationOpens
  <2>2. CASE NotificationMessage BY <2>0, <2>2, <1>16 DEF NotificationMessage
  <2>3. CASE NotificationLost BY <2>0, <2>3, <1>16 DEF NotificationLost
  <2>4. CASE NotificationClosed BY <2>0, <2>4, <1>16 DEF NotificationClosed
  <2>5. CASE NotificationTimer BY <2>0, <2>5, <1>16 DEF NotificationTimer
  <2>6. CASE NotificationAsked BY <2>0, <2>6, <1>16 DEF NotificationAsked
  <2>7. CASE PermissionRemoved
    <3>1. N!IsState([notification EXCEPT !.permission = "denied"]) BY <2>0 DEF N!IsState
    <3> QED BY <2>7, <3>1, <1>16 DEF PermissionRemoved
  <2>8. ASSUME NEW p \in {"granted", "denied"}, NotificationAnswered(p) PROVE TypeOK'
    BY <2>0, <2>8, <1>16 DEF NotificationAnswered
  <2>9. CASE NotificationStrayLost BY <2>0, <2>9, <1>16 DEF NotificationStrayLost
  <2> QED BY <1>19, <2>1, <2>2, <2>3, <2>4, <2>5, <2>6, <2>7, <2>8, <2>9 DEF Notification
<1>20. CASE WebTerminal
  <2> USE TerminalTypes
  <2>0. T!IsState(terminal) BY DEF TypeOK
  <2>1. CASE TerminalClicked BY <2>0, <2>1, <1>17 DEF TerminalClicked
  <2>2. CASE TerminalShown BY <2>0, <2>2, <1>17 DEF TerminalShown
  <2>3. CASE TerminalDismissed BY <2>0, <2>3, <1>17 DEF TerminalDismissed
  <2>4. CASE TerminalHidden BY <2>0, <2>4, <1>17 DEF TerminalHidden
  <2>5. CASE TerminalOpens BY <2>0, <2>5, <1>17 DEF TerminalOpens
  <2>6. CASE TerminalTimer BY <2>0, <2>6, <1>17 DEF TerminalTimer
  <2>7. CASE TerminalTerminated BY <2>0, <2>7, <1>17 DEF TerminalTerminated
  <2>8. ASSUME NEW clean \in BOOLEAN, TerminalLost(clean) PROVE TypeOK'
    BY <2>0, <2>8, <1>17 DEF TerminalLost
  <2>9. ASSUME NEW clean \in BOOLEAN, TerminalClosed(clean) PROVE TypeOK'
    BY <2>0, <2>9, <1>17 DEF TerminalClosed
  <2> QED BY <1>20, <2>1, <2>2, <2>3, <2>4, <2>5, <2>6, <2>7, <2>8, <2>9 DEF WebTerminal
<1>21. CASE Audio
  <2> USE AudioTypes
  <2>0. A!IsState(audio) BY DEF TypeOK
  <2>1. CASE AudioInteraction BY <2>0, <2>1, <1>18, <1>a DEF AudioInteraction
  <2>2. CASE AudioToggled BY <2>0, <2>2, <1>18, <1>a DEF AudioToggled
  <2>3. ASSUME NEW audible \in BOOLEAN, VolumeMoved(audible) PROVE TypeOK'
    BY <2>0, <2>3, <1>18, <1>a DEF VolumeMoved
  <2>4. CASE AudioOpens
    <3>1. A!IsState([audio EXCEPT !.webSocket = "open"]) BY <2>0 DEF A!IsState
    <3> QED BY <2>4, <3>1, <1>18 DEF AudioOpens
  <2>5. CASE AudioClosed BY <2>0, <2>5, <1>18 DEF AudioClosed
  <2>6. CASE AudioTimer BY <2>0, <2>6, <1>18 DEF AudioTimer
  <2> QED BY <1>21, <2>1, <2>2, <2>3, <2>4, <2>5, <2>6 DEF Audio
<1>22. CASE UNCHANGED vars BY <1>22 DEF TypeOK, vars
<1> QED BY <1>1, <1>2, <1>3, <1>4, <1>5, <1>6, <1>7, <1>8, <1>9, <1>10, <1>11, <1>12, <1>13,
           <1>14, <1>15, <1>19, <1>20, <1>21, <1>22 DEF Next, Connection

\* Every variable keeps its type; so do the records of the services, whatever
\* handler runs on them.
THEOREM TypeCorrect == Spec => []TypeOK
<1> QED BY InitTypeOK, StepTypeOK, PTL DEF Spec

-----------------------------------------------------------------------------
(* The connection.                                                         *)

\* A page that is loading has nothing yet, and has not read its URL.
LoadingInv ==
  page = "loading" =>
    /\ rfb = "none" /\ ~reconnectCallback /\ ~probing /\ ~retried /\ ~outdated /\ ~dialog
    /\ reconnectPassword = None /\ notification.closing = 0

\* The password the server is given is the one kept, which was not refused since
\* it was given.
PasswordInv ==
  /\ rfb \in {"connecting", "connected"} => offered = reconnectPassword
  /\ reconnectPassword \notin refused
  /\ connected /\ secret # None => offered = secret

\* A page that is out of date connects again only as a reconnection.
VersionInv == PageRenewed /\ (outdated /\ rfb # "none" => retried)

ConnectionInv == LoadingInv /\ OneAttempt /\ DisplayAgrees /\ PasswordInv /\ VersionInv

LEMMA InitConnectionInv == Init => ConnectionInv
<1> SUFFICES ASSUME Init PROVE ConnectionInv OBVIOUS
<1>1. notification.closing = 0
  <2>1. PICK p \in {"granted", "default", "denied"} : notification = N!Initial(p) BY DEF Init
  <2> QED BY <2>1 DEF N!Initial
<1> QED BY <1>1 DEF Init, ConnectionInv, LoadingInv, OneAttempt, DisplayAgrees, VisualAgrees,
        DialogJustified, PasswordInv, VersionInv, PageRenewed, UpgradeNoticed,
        OneConnectionPerLogin, connected

LEMMA ReloadConnectionInv == TypeOK /\ Reload => ConnectionInv'
<1> SUFFICES ASSUME TypeOK, Reload PROVE ConnectionInv' OBVIOUS
<1>1. notification'.closing = 0 BY DEF Reload, N!Initial
<1>2. None \notin refused' BY GuiAssumption DEF TypeOK, Reload
<1> QED BY <1>1, <1>2 DEF Reload, ConnectionInv, LoadingInv, OneAttempt, DisplayAgrees, VisualAgrees,
        DialogJustified, PasswordInv, VersionInv, PageRenewed, UpgradeNoticed,
        OneConnectionPerLogin, connected

\* The steps of the services leave the connection as it is.
LEMMA ServicesKeepConnectionInv ==
  ASSUME ConnectionInv, PageUnchanged, notification' = notification \/ page = "loaded"
  PROVE  ConnectionInv'
<1> USE DEF setting, connection, version, PageUnchanged
<1>1. LoadingInv' BY DEF ConnectionInv, LoadingInv
<1>2. OneAttempt' BY DEF ConnectionInv, OneAttempt, Has
<1>3. DisplayAgrees' BY DEF ConnectionInv, DisplayAgrees, VisualAgrees, DialogJustified, connected
<1>4. PasswordInv' BY DEF ConnectionInv, PasswordInv, connected
<1>5. VersionInv'
  BY DEF ConnectionInv, VersionInv, PageRenewed, UpgradeNoticed, OneConnectionPerLogin, connected, Has
<1> QED BY <1>1, <1>2, <1>3, <1>4, <1>5 DEF ConnectionInv

LEMMA StepConnectionInv == TypeOK /\ ConnectionInv /\ [Next]_vars => ConnectionInv'
<1> SUFFICES ASSUME TypeOK, ConnectionInv, [Next]_vars PROVE ConnectionInv' OBVIOUS
<1> USE DEF setting, connection, services, version, connected
<1>1. CASE start
  <2>1. LoadingInv' BY <1>1 DEF LoadingInv, start
  <2>2. OneAttempt' BY <1>1 DEF ConnectionInv, LoadingInv, OneAttempt, start, connect, Has
  <2>3. DisplayAgrees'
    BY <1>1 DEF ConnectionInv, LoadingInv, DisplayAgrees, VisualAgrees, DialogJustified,
                start, connect, updateVisualState, Inhibited
  <2>4. PasswordInv' BY <1>1 DEF ConnectionInv, LoadingInv, PasswordInv, start, connect
  <2>5. VersionInv'
    BY <1>1 DEF ConnectionInv, LoadingInv, VersionInv, PageRenewed, UpgradeNoticed,
                OneConnectionPerLogin, start, connect
  <2> QED BY <2>1, <2>2, <2>3, <2>4, <2>5 DEF ConnectionInv
<1> USE DEF ConnectionInv, LoadingInv, OneAttempt, DisplayAgrees, VisualAgrees,
            DialogJustified, PasswordInv, VersionInv, PageRenewed, UpgradeNoticed,
            OneConnectionPerLogin, Has
<1>2. CASE StartFails BY <1>2 DEF StartFails, handleError
<1>3. CASE UserReload BY <1>3, ReloadConnectionInv DEF UserReload
<1>4. CASE credentials BY <1>4 DEF credentials, TypeOK
<1>5. CASE setCredentialsThrows BY <1>5 DEF setCredentialsThrows, handleError
<1>6. ASSUME NEW p \in Password, setCredentials(p) PROVE ConnectionInv'
  BY <1>6, GuiAssumption DEF setCredentials, TypeOK
<1>7. CASE securityFailed
  BY <1>7, GuiAssumption DEF securityFailed, PasswordAfterFailure, TypeOK
<1>8. CASE connectFinished
  BY <1>8 DEF connectFinished, updateVisualState, Inhibited, CheckDue, TypeOK
<1>9. CASE disconnectFinished
  BY <1>9 DEF disconnectFinished, updateVisualState, Inhibited, Retries, TypeOK
<1>10. CASE reconnect
  BY <1>10 DEF reconnect, connect, updateVisualState, Inhibited, Probes, TypeOK
<1>11. CASE ProbeAnswered BY <1>11, ReloadConnectionInv DEF ProbeAnswered
<1>12. CASE ProbeFails BY <1>12 DEF ProbeFails, TypeOK
<1>13. CASE CheckAnswered BY <1>13, ReloadConnectionInv DEF CheckAnswered
<1>14. CASE CheckFails BY <1>14 DEF CheckFails
<1>15. CASE Upgrade BY <1>15 DEF Upgrade
<1>16. CASE Notification
  <2>1. PageUnchanged /\ page = "loaded"
    BY <1>16 DEF Notification, NotificationStep, NotificationOpens, NotificationMessage,
         NotificationLost, NotificationClosed, NotificationStrayLost, NotificationTimer, NotificationAsked,
         PermissionRemoved, NotificationAnswered
  <2> QED BY <2>1, ServicesKeepConnectionInv
<1>17. CASE WebTerminal
  <2>1. PageUnchanged /\ notification' = notification
    BY <1>17 DEF WebTerminal, TerminalStep, TerminalClicked, TerminalShown, TerminalDismissed,
         TerminalHidden, TerminalOpens, TerminalTimer, TerminalTerminated, TerminalLost,
         TerminalClosed
  <2> QED BY <2>1, ServicesKeepConnectionInv
<1>18. CASE Audio
  <2>1. PageUnchanged /\ notification' = notification
    BY <1>18 DEF Audio, AudioStep, AudioInteraction, AudioToggled, VolumeMoved, AudioOpens,
         AudioClosed, AudioTimer
  <2> QED BY <2>1, ServicesKeepConnectionInv
<1>19. CASE UNCHANGED vars BY <1>19, ServicesKeepConnectionInv DEF vars, PageUnchanged
<1> QED BY <1>1, <1>2, <1>3, <1>4, <1>5, <1>6, <1>7, <1>8, <1>9, <1>10, <1>11, <1>12, <1>13,
           <1>14, <1>15, <1>16, <1>17, <1>18, <1>19 DEF Next, Connection

-----------------------------------------------------------------------------
(* The services.                                                           *)

\* When close events come within the delay of a reconnection: a socket whose
\* close event is yet to come is the only one there is, and nothing makes
\* another before that event.
Prompt(n) ==
  /\ N!OneSocket(n)
  /\ n.closing > 0 =>
       /\ n.webSocket = "none" /\ ~n.timer
       /\ ~(n.granted /\ n.started)
       /\ n.granted => rfb = "none"

\* The notification client.
NotificationInv ==
  /\ N!NoSecond(notification) /\ (Has("slowClose") \/ Prompt(notification))
  /\ notification.webSocket # "none" \/ notification.timer => notification.started
  /\ notification.started => connected
  /\ notification.prompt # "done" =>
       /\ notification.webSocket = "none" /\ ~notification.timer
       /\ notification.closing = 0 /\ ~notification.granted
  /\ ~Has("notification") => ~notification.started

\* What becomes of the fields the properties look at.
LEMMA NotificationFields ==
  ASSUME NEW n, N!IsState(n)
  PROVE  /\ N!disconnectWebSocket(n).webSocket = "none"
         /\ N!disconnectWebSocket(n).closing = n.closing + IF n.webSocket = "none" THEN 0 ELSE 1
         /\ \A f \in {"stray", "timer", "started", "granted", "prompt"} :
              N!disconnectWebSocket(n)[f] = n[f]
         /\ N!onclose(n).webSocket = "none"
         /\ N!onclose(n).timer = (n.timer \/ (n.granted /\ n.started))
         /\ N!onclose(n).stray = n.stray + IF N!Live(n) THEN 1 ELSE 0
         /\ \A f \in {"closing", "started", "granted", "prompt"} : N!onclose(n)[f] = n[f]
<1>1. n.closing \in Nat /\ n.closing + 0 = n.closing BY DEF N!IsState
<1>2. n = [n EXCEPT !.timer = n.timer] BY DEF N!IsState
<1>3. DOMAIN n = {"permission", "granted", "prompt", "started", "webSocket", "timer", "closing", "stray"}
  BY DEF N!IsState
<1> DEFINE c == n.closing + 1
           s == n.stray + IF N!Live(n) THEN 1 ELSE 0
           w == n.timer \/ (n.granted /\ n.started)
<1>4. N!disconnectWebSocket(n) = IF n.webSocket = "none" THEN n ELSE [n EXCEPT !.webSocket = "none", !.closing = c]
  BY DEF N!disconnectWebSocket
<1>5. N!onclose(n) = [n EXCEPT !.webSocket = "none", !.timer = w, !.stray = s] BY DEF N!onclose
<1>6. (IF n.webSocket = "none" THEN n.closing ELSE c) = n.closing + IF n.webSocket = "none" THEN 0 ELSE 1
  BY <1>1
<1> HIDE DEF c, s, w
<1>7. /\ N!disconnectWebSocket(n).webSocket = "none"
      /\ N!disconnectWebSocket(n).closing = IF n.webSocket = "none" THEN n.closing ELSE c
      /\ \A f \in {"stray", "timer", "started", "granted", "prompt"} :
              N!disconnectWebSocket(n)[f] = n[f]
  BY <1>3, <1>4
<1>8. /\ N!onclose(n).webSocket = "none" /\ N!onclose(n).timer = w /\ N!onclose(n).stray = s
      /\ \A f \in {"closing", "started", "granted", "prompt"} : N!onclose(n)[f] = n[f]
  BY <1>3, <1>5
<1> QED BY <1>6, <1>7, <1>8 DEF s, w

LEMMA StepNotificationInv ==
  TypeOK /\ ConnectionInv /\ NotificationInv /\ [Next]_vars => NotificationInv'
<1> SUFFICES ASSUME TypeOK, ConnectionInv, NotificationInv, [Next]_vars PROVE NotificationInv' OBVIOUS
<1> USE DEF setting, connection, services, version, connected, Has, NotificationInv, Prompt,
       N!OneSocket, N!NoSecond
<1>0. N!IsState(notification) BY DEF TypeOK
<1>1. ASSUME Reload PROVE NotificationInv'
  BY <1>1, <1>0 DEF Reload, N!Initial, N!IsState
<1>2. ASSUME UNCHANGED <<options, notification>>, connected => rfb' = "connected",
             rfb = "none" => rfb' = "none" \/ notification.closing = 0 \/ Has("slowClose")
      PROVE  NotificationInv'
  BY <1>2
<1>3. CASE start
  BY <1>3, <1>2 DEF start, ConnectionInv, LoadingInv
<1>4. CASE connectFinished
  <2>1. ~notification.started BY <1>4 DEF connectFinished
  <2>2. CASE Has("notification") /\ notification.granted
    BY <2>1, <2>2, <1>4, <1>0 DEF connectFinished, N!start, N!connectWebSocket, N!IsState
  <2>3. CASE Has("notification") /\ ~notification.granted
    BY <2>1, <2>3, <1>4, <1>0 DEF connectFinished, N!start, N!IsState
  <2>4. CASE ~Has("notification") BY <2>1, <2>4, <1>4, <1>0 DEF connectFinished
  <2> QED BY <2>2, <2>3, <2>4
<1>5. CASE disconnectFinished
  <2>1. CASE ~Has("notification") BY <2>1, <1>5 DEF disconnectFinished
  <2>2. CASE Has("notification")
    <3>1. notification' = N!stop(notification) /\ rfb' = "none" /\ UNCHANGED options
      BY <2>2, <1>5 DEF disconnectFinished
    <3> QED BY <3>1, <1>0 DEF N!stop, N!disconnectWebSocket, N!IsState
  <2> QED BY <2>1, <2>2
<1>6. CASE reconnect
  <2>1. notification.closing \in Nat /\ (~Has("slowClose") => notification.closing <= 0)
    BY <1>6, <1>0 DEF reconnect, N!IsState
  <2>2. notification.closing = 0 \/ Has("slowClose") BY <2>1
  <2> QED BY <1>6, <2>2, <1>2 DEF reconnect, ConnectionInv, OneAttempt
<1>7. ASSUME CheckAnswered \/ ProbeAnswered \/ UserReload PROVE NotificationInv'
  BY <1>7, <1>1, <1>2 DEF CheckAnswered, ProbeAnswered, UserReload
<1>8. CASE \/ StartFails \/ credentials \/ setCredentialsThrows \/ securityFailed
           \/ ProbeFails \/ CheckFails \/ Upgrade \/ UNCHANGED vars
  BY <1>8, <1>2 DEF StartFails, credentials, setCredentialsThrows, securityFailed,
       ProbeFails, CheckFails, Upgrade, vars
<1>9. ASSUME NEW p \in Password, setCredentials(p) PROVE NotificationInv'
  BY <1>9, <1>2, <1>0 DEF setCredentials, ConnectionInv, DisplayAgrees, DialogJustified
<1>10. CASE WebTerminal \/ Audio
  <2>1. PageUnchanged /\ notification' = notification
    BY <1>10 DEF WebTerminal, TerminalStep, TerminalClicked, TerminalShown, TerminalDismissed,
         TerminalHidden, TerminalOpens, TerminalTimer, TerminalTerminated, TerminalLost,
         TerminalClosed, Audio, AudioStep, AudioInteraction, AudioToggled, VolumeMoved, AudioOpens,
         AudioClosed, AudioTimer
  <2> QED BY <2>1, <1>2 DEF PageUnchanged
<1>11. CASE Notification
  <2>0. ASSUME NEW n, NotificationStep(n)
        PROVE  notification' = n /\ rfb' = rfb /\ options' = options
    BY <2>0 DEF NotificationStep, PageUnchanged
  <2>1. CASE NotificationOpens BY <2>1, <2>0, <1>0 DEF NotificationOpens, N!IsState
  <2> DEFINE n == notification
  <2>2. CASE NotificationMessage
    <3> DEFINE m == [n EXCEPT !.granted = FALSE]
    <3>1. notification' = IF n.permission = "granted" THEN n ELSE N!disconnectWebSocket(m)
      BY <2>2, <2>0 DEF NotificationMessage, N!handleWebSocketMessage
    <3>2. CASE n.permission = "granted" BY <2>2, <2>0, <3>1, <3>2, <1>2 DEF NotificationMessage
    <3>3. CASE n.permission # "granted"
      <4>1. /\ N!IsState(m) /\ m.webSocket = n.webSocket /\ m.stray = n.stray /\ m.timer = n.timer
            /\ m.started = n.started /\ m.granted = FALSE /\ m.prompt = n.prompt
            /\ m.closing = n.closing /\ n.closing \in Nat
        BY <1>0 DEF N!IsState
      <4> HIDE DEF m
      <4>2. /\ notification'.webSocket = "none" /\ notification'.granted = FALSE
            /\ notification'.stray = n.stray /\ notification'.timer = n.timer
            /\ notification'.started = n.started /\ notification'.prompt = n.prompt
            /\ notification'.closing = n.closing + IF n.webSocket = "none" THEN 0 ELSE 1
        BY <3>1, <3>3, <4>1, NotificationFields
      <4>3. n.prompt # "done" => notification'.closing = 0 BY <4>1, <4>2
      <4>4. /\ rfb' = rfb /\ options' = options
            /\ ~Has("slowClose") => n.webSocket = "open"
        BY <2>2, <2>0 DEF NotificationMessage
      <4> QED BY <4>2, <4>3, <4>4
    <3> QED BY <3>2, <3>3
  <2>3. CASE NotificationLost
    <3> DEFINE m == [n EXCEPT !.webSocket = "none"]
    <3>1. /\ N!IsState(m) /\ m.webSocket = "none" /\ m.stray = n.stray /\ m.timer = n.timer
          /\ m.started = n.started /\ m.granted = n.granted /\ m.prompt = n.prompt
          /\ m.closing = n.closing /\ ~N!Live(m) /\ m.stray \in Nat
      BY <1>0 DEF N!IsState, N!Live
    <3>2. notification' = N!onclose(m) /\ rfb' = rfb /\ options' = options
      BY <2>3, <2>0 DEF NotificationLost, N!Lost
    <3> HIDE DEF m
    <3>3. /\ notification'.webSocket = "none" /\ notification'.granted = n.granted
          /\ notification'.stray = n.stray /\ notification'.timer = (n.timer \/ (n.granted /\ n.started))
          /\ notification'.started = n.started /\ notification'.prompt = n.prompt
          /\ notification'.closing = n.closing
      BY <3>1, <3>2, NotificationFields
    <3>4. n.webSocket # "none" BY <2>3 DEF NotificationLost, N!Live
    <3> QED BY <3>2, <3>3, <3>4
  <2>4. CASE NotificationClosed
    <3> DEFINE c == n.closing - 1
               m == [n EXCEPT !.closing = c]
    <3>1. n.closing > 0 /\ c \in Nat /\ (c > 0 => n.closing > 0)
      BY <2>4, <1>0 DEF NotificationClosed, N!IsState
    <3>2. notification' = N!onclose(m) /\ rfb' = rfb /\ options' = options
      BY <2>4, <2>0 DEF NotificationClosed, N!Closed
    <3> HIDE DEF c
    <3>3. /\ N!IsState(m) /\ m.webSocket = n.webSocket /\ m.stray = n.stray /\ m.timer = n.timer
          /\ m.started = n.started /\ m.granted = n.granted /\ m.prompt = n.prompt
          /\ m.closing = c /\ m.stray \in Nat
      BY <1>0, <3>1 DEF N!IsState
    <3> HIDE DEF m
    <3>4. ~N!Live(m) => notification'.stray = n.stray
      <4>1. notification'.stray = m.stray + IF N!Live(m) THEN 1 ELSE 0
        BY <3>2, <3>3, NotificationFields
      <4> QED BY <4>1, <3>3
    <3>5. /\ notification'.webSocket = "none" /\ notification'.granted = n.granted
          /\ notification'.timer = (n.timer \/ (n.granted /\ n.started))
          /\ notification'.started = n.started /\ notification'.prompt = n.prompt
          /\ notification'.closing = c
      BY <3>2, <3>3, NotificationFields
    <3>6. CASE Has("slowClose")
      <4>1. n.prompt = "done" BY <3>1
      <4> QED BY <4>1, <3>2, <3>5, <3>6
    <3>7. CASE ~Has("slowClose")
      <4>1. n.webSocket = "none" /\ n.closing # 0 /\ ~n.timer /\ ~(n.granted /\ n.started)
            /\ (n.granted => rfb = "none") /\ n.prompt = "done"
        BY <3>1, <3>7
      <4>2. ~N!Live(m) /\ ~notification'.timer BY <3>3, <3>5, <4>1 DEF N!Live
      <4> QED BY <3>2, <3>4, <3>5, <4>1, <4>2
    <3> QED BY <3>6, <3>7
  <2>5. CASE NotificationTimer
    <3>1. /\ n.webSocket = "none" /\ n.started /\ n.timer /\ n.closing \in Nat
          /\ ~Has("slowClose") => n.closing = 0
      BY <2>5, <1>0 DEF NotificationTimer, N!IsState
    <3>2. notification' = N!connectWebSocket([n EXCEPT !.timer = FALSE]) /\ rfb' = rfb /\ options' = options
      BY <2>5, <2>0 DEF NotificationTimer
    <3>3. /\ notification'.webSocket = "connecting" /\ notification'.timer = FALSE
          /\ notification'.stray = n.stray /\ notification'.started = n.started
          /\ notification'.closing = n.closing /\ notification'.prompt = n.prompt
      BY <3>1, <3>2, <1>0 DEF N!connectWebSocket, N!IsState
    <3> QED BY <3>1, <3>2, <3>3
  <2>6. CASE NotificationAsked
    BY <2>6, <2>0, <1>0 DEF NotificationAsked, N!onFirstInteraction, N!IsState
  <2>7. CASE PermissionRemoved
    BY <2>7, <2>0, <1>0 DEF PermissionRemoved, N!IsState
  <2>8. ASSUME NEW p \in {"granted", "denied"}, NotificationAnswered(p) PROVE NotificationInv'
    <3> DEFINE g == p = "granted"
               m == [n EXCEPT !.prompt = "done", !.permission = p, !.granted = g]
    <3>1. notification' = (IF m.granted /\ m.started THEN N!connectWebSocket(m) ELSE m)
      BY <2>8, <2>0 DEF NotificationAnswered, N!PermissionAnswered
    <3>2. n.webSocket = "none" /\ n.closing = 0 /\ ~n.granted /\ rfb' = rfb /\ options' = options
      BY <2>8, <2>0 DEF NotificationAnswered
    <3> HIDE DEF g
    <3>3. /\ m.webSocket = "none" /\ m.stray = n.stray /\ m.timer = n.timer
          /\ m.started = n.started /\ m.closing = 0 /\ m.prompt = "done"
          /\ m = [m EXCEPT !.timer = n.timer]
      BY <3>2, <1>0 DEF N!IsState
    <3>4. CASE m.granted /\ m.started
      <4>1. notification' = [m EXCEPT !.webSocket = "connecting", !.timer = FALSE]
        BY <3>1, <3>3, <3>4 DEF N!connectWebSocket
      <4>2. /\ notification'.webSocket = "connecting" /\ notification'.timer = FALSE
            /\ notification'.stray = n.stray /\ notification'.started = n.started
            /\ notification'.closing = 0 /\ notification'.prompt = "done"
        BY <4>1, <3>2, <1>0 DEF N!IsState
      <4> QED BY <4>2, <3>2, <3>4, <3>3
    <3>5. CASE ~(m.granted /\ m.started) BY <3>1, <3>2, <3>3, <3>5
    <3> QED BY <3>4, <3>5
  <2>9. CASE NotificationStrayLost
    <3> DEFINE c == n.stray - 1
               m == [n EXCEPT !.stray = c]
    <3>1. n.stray > 0 /\ c \in Nat BY <2>9, <1>0 DEF NotificationStrayLost, N!IsState
    <3>2. notification' = N!onclose(m) /\ rfb' = rfb /\ options' = options
      BY <2>9, <2>0 DEF NotificationStrayLost, N!StrayLost
    <3> HIDE DEF c
    <3>3. /\ N!IsState(m) /\ m.timer = n.timer /\ m.started = n.started
          /\ m.granted = n.granted /\ m.prompt = n.prompt /\ m.closing = n.closing
      BY <1>0, <3>1 DEF N!IsState
    <3> HIDE DEF m
    <3>4. /\ notification'.webSocket = "none" /\ notification'.granted = n.granted
          /\ notification'.timer = (n.timer \/ (n.granted /\ n.started))
          /\ notification'.started = n.started /\ notification'.prompt = n.prompt
          /\ notification'.closing = n.closing
      BY <3>2, <3>3, NotificationFields
    <3>5. Has("slowClose") BY <3>1
    <3> QED BY <3>2, <3>4, <3>5
  <2> QED BY <1>11, <2>1, <2>2, <2>3, <2>4, <2>5, <2>6, <2>7, <2>8, <2>9 DEF Notification
<1> QED BY <1>3, <1>4, <1>5, <1>6, <1>7, <1>8, <1>9, <1>10, <1>11 DEF Next, Connection

\* The terminal has hold of its sockets.
Held(t) == T!OneSocket(t) /\ T!Attached(t)

\* Its dialog, should it still be appearing, missed that it is to disappear.
Missed(t) == t.modal = "showing" => t.missed

TerminalInv ==
  /\ Held(terminal)
  /\ ~connected => (T!Quiet(terminal) \/ terminal.missed) /\ Missed(terminal)
  /\ ~Has("terminal") => T!Quiet(terminal) /\ Missed(terminal)

\* hide() is about the dialog only.
LEMMA HideFields ==
  ASSUME NEW t, T!IsState(t)
  PROVE  /\ T!IsState(T!hide(t))
         /\ \A f \in {"terminal", "stdin", "webSocket", "timer", "stray"} : T!hide(t)[f] = t[f]
         /\ (t.missed => T!hide(t).missed) /\ Missed(T!hide(t))
<1>1. CASE t.modal = "shown" BY <1>1 DEF T!IsState, T!hide, Missed
<1>2. CASE t.modal = "showing" BY <1>2 DEF T!IsState, T!hide, Missed
<1>3. CASE t.modal \notin {"shown", "showing"} BY <1>3 DEF T!IsState, T!hide, Missed
<1> QED BY <1>1, <1>2, <1>3

\* disconnectWebSocket leaves no socket in use and no timer.
LEMMA DisconnectFields ==
  ASSUME NEW t, T!IsState(t)
  PROVE  LET d == T!disconnectWebSocket(t)
         IN  /\ T!IsState(d) /\ d.webSocket = "none" /\ d.timer = FALSE
             /\ \A f \in {"terminal", "stdin", "stray", "modal", "missed"} : d[f] = t[f]
<1> DEFINE c == t.closing + IF T!Live(t) THEN 1 ELSE 0
<1>1. c \in Nat BY DEF T!IsState
<1>2. T!disconnectWebSocket(t) = [t EXCEPT !.webSocket = "none", !.timer = FALSE, !.closing = c]
  BY DEF T!disconnectWebSocket
<1> HIDE DEF c
<1> QED BY <1>1, <1>2 DEF T!IsState

LEMMA CloseTerminal ==
  ASSUME NEW t, T!IsState(t), t.stray = 0, t.terminal \/ T!Quiet(t)
  PROVE  LET u == T!closeTerminal(t)
         IN  /\ T!IsState(u) /\ Held(u) /\ T!Quiet(u) /\ ~u.terminal
             /\ (t.missed => u.missed) /\ (Missed(t) => Missed(u))
<1>1. CASE ~t.terminal
  BY <1>1 DEF T!closeTerminal, Held, T!OneSocket, T!Attached, T!Quiet
<1>2. CASE t.terminal
  <2> DEFINE v == [t EXCEPT !.terminal = FALSE, !.stdin = FALSE]
             d == T!disconnectWebSocket(v)
  <2>1. /\ T!IsState(v) /\ v.terminal = FALSE /\ v.stray = 0 /\ v.missed = t.missed
    BY DEF T!IsState
  <2> HIDE DEF v
  <2>2. /\ T!IsState(d) /\ d.webSocket = "none" /\ d.timer = FALSE /\ d.terminal = FALSE
        /\ d.stray = 0 /\ d.missed = t.missed
    BY <2>1, DisconnectFields
  <2>3. T!closeTerminal(t) = T!hide(d) BY <1>2 DEF T!closeTerminal, v
  <2> HIDE DEF d
  <2> QED BY <2>2, <2>3, HideFields DEF Held, T!OneSocket, T!Attached, T!Quiet
<1> QED BY <1>1, <1>2

LEMMA CloseDialog ==
  ASSUME NEW t, T!IsState(t), t.stray = 0, t.terminal \/ T!Quiet(t)
  PROVE  LET u == T!closeDialog(t)
         IN  Held(u) /\ T!Quiet(u) /\ Missed(u) /\ (t.missed => u.missed)
BY CloseTerminal, HideFields DEF T!closeDialog, Held, T!OneSocket, T!Attached, T!Quiet

\* A close event leaves a terminal on display with a reconnection, or closed.
LEMMA OnClose ==
  ASSUME NEW t, T!IsState(t), t.stray = 0, t.terminal \/ T!Quiet(t), NEW clean \in BOOLEAN
  PROVE  LET u == T!onclose(t, clean)
         IN  /\ Held(u) /\ (t.missed => u.missed) /\ (Missed(t) => Missed(u))
             /\ (t.terminal \/ T!Quiet(u))
<1> DEFINE v == [t EXCEPT !.stdin = FALSE]
           d == T!disconnectWebSocket(v)
<1>1. /\ T!IsState(v) /\ v.stdin = FALSE
      /\ \A f \in {"terminal", "stray", "modal", "missed"} : v[f] = t[f]
  BY DEF T!IsState
<1>2. T!onclose(t, clean) = T!AfterClose(d, clean) BY DEF T!onclose
<1> HIDE DEF v
<1>3. /\ T!IsState(d) /\ d.webSocket = "none" /\ d.timer = FALSE /\ d.stdin = FALSE
      /\ d.stray = 0 /\ d.terminal = t.terminal /\ d.modal = t.modal /\ d.missed = t.missed
      /\ T!Quiet(d)
  BY <1>1, DisconnectFields DEF T!Quiet
<1> HIDE DEF d
<1>4. CASE ~t.terminal
  BY <1>2, <1>3, <1>4 DEF T!AfterClose, Held, T!OneSocket, T!Attached, T!Quiet, Missed
<1>5. CASE t.terminal /\ clean
  <2>1. T!onclose(t, clean) = T!closeTerminal(d) BY <1>2, <1>3, <1>5 DEF T!AfterClose
  <2> QED BY <2>1, <1>3, <1>5, CloseTerminal DEF Missed
<1>6. CASE t.terminal /\ ~clean
  <2>1. T!onclose(t, clean) = [d EXCEPT !.timer = TRUE] BY <1>2, <1>3, <1>6 DEF T!AfterClose
  <2> QED BY <2>1, <1>3, <1>6 DEF Held, T!OneSocket, T!Attached, Missed, T!IsState
<1> QED BY <1>4, <1>5, <1>6

LEMMA StepTerminalInv == TypeOK /\ ConnectionInv /\ TerminalInv /\ [Next]_vars => TerminalInv'
<1> SUFFICES ASSUME TypeOK, ConnectionInv, TerminalInv, [Next]_vars PROVE TerminalInv' OBVIOUS
<1> USE DEF setting, connection, services, version, connected, Has, TerminalInv
<1> DEFINE t == terminal
<1>0. T!IsState(t) /\ t.stray = 0 /\ (t.terminal \/ T!Quiet(t))
  BY DEF TypeOK, Held, T!OneSocket, T!Attached
<1>1. ASSUME Reload PROVE TerminalInv'
  BY <1>1 DEF Reload, T!Initial, Held, T!OneSocket, T!Attached, T!Quiet, Missed
<1>2. ASSUME UNCHANGED <<options, terminal>>, connected => rfb' = "connected" PROVE TerminalInv'
  BY <1>2
<1>3. CASE disconnectFinished
  <2>1. CASE ~Has("terminal") BY <2>1, <1>3 DEF disconnectFinished
  <2>2. CASE Has("terminal")
    <3>1. terminal' = T!closeDialog(t) /\ rfb' = "none" /\ UNCHANGED options
      BY <2>2, <1>3 DEF disconnectFinished
    <3> QED BY <3>1, <2>2, <1>0, CloseDialog
  <2> QED BY <2>1, <2>2
<1>4. ASSUME CheckAnswered \/ ProbeAnswered \/ UserReload PROVE TerminalInv'
  BY <1>4, <1>1, <1>2 DEF CheckAnswered, ProbeAnswered, UserReload
<1>5. CASE \/ StartFails \/ credentials \/ setCredentialsThrows \/ securityFailed \/ connectFinished
           \/ reconnect \/ ProbeFails \/ CheckFails \/ Upgrade \/ UNCHANGED vars
  BY <1>5, <1>2 DEF StartFails, credentials, setCredentialsThrows, securityFailed, connectFinished,
       reconnect, ConnectionInv, OneAttempt, ProbeFails, CheckFails, Upgrade, vars
<1>6. ASSUME NEW p \in Password \cup {None}, start \/ setCredentials(p) PROVE TerminalInv'
  BY <1>6, <1>2 DEF setCredentials, start, ConnectionInv, DisplayAgrees, DialogJustified, LoadingInv
<1>7. CASE Notification \/ Audio
  <2>1. PageUnchanged /\ terminal' = terminal
    BY <1>7 DEF Notification, NotificationStep, NotificationOpens, NotificationMessage,
         NotificationLost, NotificationClosed, NotificationStrayLost, NotificationTimer, NotificationAsked,
         PermissionRemoved, NotificationAnswered, Audio, AudioStep, AudioInteraction, AudioToggled,
         VolumeMoved, AudioOpens, AudioClosed, AudioTimer
  <2> QED BY <2>1, <1>2 DEF PageUnchanged
<1>8. CASE WebTerminal
  <2>0. ASSUME NEW u, TerminalStep(u)
        PROVE  terminal' = u /\ rfb' = rfb /\ options' = options /\ Has("terminal")
    BY <2>0 DEF TerminalStep, PageUnchanged
  <2>a. ASSUME NEW u, TerminalStep(u), Held(u), T!Quiet(t) => T!Quiet(u) \/ u.missed,
               t.missed => u.missed, Missed(t) => Missed(u)
        PROVE  TerminalInv'
    BY <2>a, <2>0
  <2>1. CASE TerminalClicked
    <3>1. rfb = "connected" /\ TerminalStep(T!ShowDialog(t)) BY <2>1 DEF TerminalClicked
    <3>2. Held(T!ShowDialog(t))
      BY <1>0 DEF T!ShowDialog, Held, T!OneSocket, T!Attached, T!Quiet, T!IsState
    <3> QED BY <3>1, <3>2, <2>0
  <2>2. CASE TerminalShown
    <3>1. t.modal = "showing" /\ TerminalStep(T!Shown(t)) BY <2>2 DEF TerminalShown
    <3>2. Held(T!Shown(t)) /\ T!Shown(t).missed = t.missed /\ T!Shown(t).modal = "shown"
      <4>1. CASE t.terminal
        BY <4>1, <1>0 DEF T!Shown, T!openTerminal, Held, T!OneSocket, T!Attached, T!IsState
      <4>2. CASE ~t.terminal
        BY <4>2, <1>0 DEF T!Shown, T!openTerminal, T!connectWebSocket, Held, T!OneSocket,
             T!Attached, T!Quiet, T!IsState
      <4> QED BY <4>1, <4>2
    <3> QED BY <3>1, <3>2, <2>0 DEF Missed
  <2>3. CASE TerminalDismissed
    <3>1. TerminalStep(T!hide(t)) BY <2>3 DEF TerminalDismissed, T!Dismissed
    <3>2. Held(T!hide(t)) /\ (T!Quiet(t) => T!Quiet(T!hide(t)))
      BY <1>0, HideFields DEF Held, T!OneSocket, T!Attached, T!Quiet
    <3> QED BY <3>1, <3>2, <2>a, <1>0, HideFields
  <2>4. CASE TerminalHidden
    <3> DEFINE v == [t EXCEPT !.modal = "hidden", !.missed = FALSE]
    <3>1. TerminalStep(T!closeDialog(v)) BY <2>4 DEF TerminalHidden, T!Hidden
    <3>2. T!IsState(v) /\ v.stray = 0 /\ (v.terminal \/ T!Quiet(v)) BY <1>0 DEF T!IsState, T!Quiet
    <3> HIDE DEF v
    <3>3. Held(T!closeDialog(v)) /\ T!Quiet(T!closeDialog(v)) /\ Missed(T!closeDialog(v))
      BY <3>2, CloseDialog
    <3> QED BY <3>1, <3>3, <2>0
  <2>5. CASE TerminalOpens
    <3>1. t.webSocket = "connecting" /\ TerminalStep(T!onopen(t)) BY <2>5 DEF TerminalOpens
    <3>2. /\ Held(T!onopen(t)) /\ ~T!Quiet(t) /\ (t.missed => T!onopen(t).missed)
          /\ (Missed(t) => Missed(T!onopen(t)))
      BY <3>1, <1>0 DEF T!onopen, Held, T!OneSocket, T!Attached, T!Quiet, T!IsState, Missed
    <3> QED BY <3>1, <3>2, <2>a
  <2>6. CASE TerminalTimer
    <3> DEFINE u == T!connectWebSocket([t EXCEPT !.timer = FALSE])
    <3>1. t.timer /\ TerminalStep(u) BY <2>6 DEF TerminalTimer
    <3>2. t.terminal /\ t.webSocket = "none" /\ ~T!Quiet(t)
      BY <3>1 DEF Held, T!OneSocket, T!Attached, T!Quiet
    <3>3. Held(u) /\ (t.missed => u.missed) /\ (Missed(t) => Missed(u))
      BY <3>2, <1>0 DEF T!connectWebSocket, Held, T!OneSocket, T!Attached, T!IsState, Missed
    <3> QED BY <3>1, <3>2, <3>3, <2>a
  <2>7. CASE TerminalTerminated
    <3>1. TerminalStep(T!closeTerminal(t)) BY <2>7 DEF TerminalTerminated, T!Terminate
    <3> QED BY <3>1, <2>a, <1>0, CloseTerminal
  <2>8. ASSUME NEW clean \in BOOLEAN, TerminalLost(clean) PROVE TerminalInv'
    <3> DEFINE v == [t EXCEPT !.webSocket = "none"]
    <3>1. T!Live(t) /\ TerminalStep(T!onclose(v, clean)) BY <2>8 DEF TerminalLost, T!Lost
    <3>2. t.terminal /\ ~T!Quiet(t) BY <3>1 DEF T!Live, Held, T!Attached, T!Quiet
    <3>3. /\ T!IsState(v) /\ v.stray = 0 /\ v.terminal /\ v.missed = t.missed
          /\ (Missed(t) => Missed(v))
      BY <3>2, <1>0 DEF T!IsState, Missed
    <3> QED BY <3>1, <3>2, <3>3, <2>a, OnClose
  <2>9. ASSUME NEW clean \in BOOLEAN, TerminalClosed(clean) PROVE TerminalInv'
    <3> DEFINE c == t.closing - 1
               v == [t EXCEPT !.closing = c]
    <3>1. c \in Nat /\ TerminalStep(T!onclose(v, clean))
      BY <2>9, <1>0 DEF TerminalClosed, T!Closed, T!IsState
    <3> HIDE DEF c
    <3>3. /\ T!IsState(v) /\ v.stray = 0 /\ (v.terminal \/ T!Quiet(v)) /\ v.missed = t.missed
          /\ v.terminal = t.terminal /\ (Missed(t) => Missed(v))
      BY <3>1, <1>0 DEF T!IsState, T!Quiet, Missed
    <3>4. T!Quiet(t) => ~t.terminal BY DEF Held, T!Attached, T!Quiet
    <3> QED BY <3>1, <3>3, <3>4, <2>a, OnClose
  <2> QED BY <1>8, <2>1, <2>2, <2>3, <2>4, <2>5, <2>6, <2>7, <2>8, <2>9 DEF WebTerminal
<1> QED BY <1>3, <1>4, <1>5, <1>6, <1>7, <1>8 DEF Next, Connection

\* The audio client has hold of its socket, and what goes on was enabled.
Sounds(a) == A!OneSocket(a) /\ A!Fed(a) /\ (a.started \/ a.timer => a.enabled)

\* It is silent, and its socket, if it is still closing, is not made again.
Muted(a) == ~A!Live(a) /\ ~a.timer /\ ~a.started /\ (a.enabled => a.webSocket = "none")

\* There is a socket only since the user touched the page, which happens once.
AudioInv ==
  /\ Sounds(audio)
  /\ ~connected => Muted(audio)
  /\ ~audio.interacted => ~audio.enabled /\ audio.webSocket = "none"
  /\ audio.armed => ~audio.interacted
  /\ ~Has("audio") => ~audio.interacted

LEMMA ConnectAudio ==
  ASSUME NEW a, A!IsState(a), a.webSocket = "none", a.stray = 0
  PROVE  LET b == A!connectWebSocket(a)
         IN  /\ b.timer = FALSE /\ b.webSocket = (IF a.enabled THEN "connecting" ELSE "none")
             /\ b.stray = 0
             /\ \A f \in {"enabled", "armed", "interacted", "started"} : b[f] = a[f]
<1> DEFINE c == [a EXCEPT !.timer = FALSE]
           s == c.stray + IF A!Live(a) THEN 1 ELSE 0
<1>1. /\ A!IsState(c) /\ c.timer = FALSE /\ c.webSocket = "none" /\ c.stray = 0
      /\ \A f \in {"enabled", "armed", "interacted", "started"} : c[f] = a[f]
  BY DEF A!IsState
<1>2. ~A!Live(a) BY DEF A!Live
<1>3. s = 0 BY <1>1, <1>2
<1>4. A!connectWebSocket(a) = IF ~c.enabled THEN c ELSE [c EXCEPT !.webSocket = "connecting", !.stray = s]
  BY DEF A!connectWebSocket
<1> HIDE DEF c, s
<1> QED BY <1>1, <1>3, <1>4 DEF A!IsState

\* updateAudio: what it leaves, whatever the button and the slider were changed to.
LEMMA UpdateAudio ==
  ASSUME NEW a, A!IsState(a), A!OneSocket(a), NEW online \in BOOLEAN
  PROVE  LET b == A!updateAudio(a, online)
         IN  /\ Sounds(b)
             /\ \A f \in {"enabled", "armed", "interacted"} : b[f] = a[f]
             /\ ~online => ~A!Live(b) /\ ~b.timer /\ ~b.started
             /\ ~online /\ a.webSocket = "none" => b.webSocket = "none"
<1>1. CASE ~(a.enabled /\ online)
  <2>1. A!updateAudio(a, online) = A!TurnOff(a) BY <1>1 DEF A!updateAudio
  <2>2. LET b == A!TurnOff(a)
        IN  /\ b.timer = FALSE /\ b.started = FALSE /\ b.stray = a.stray
            /\ b.webSocket = IF a.webSocket = "none" THEN "none" ELSE "closing"
            /\ \A f \in {"enabled", "armed", "interacted"} : b[f] = a[f]
    BY DEF A!TurnOff, A!IsState
  <2> QED BY <2>1, <2>2 DEF Sounds, A!OneSocket, A!Fed, A!Live
<1>2. CASE a.enabled /\ online
  <2> DEFINE c == [a EXCEPT !.started = TRUE]
  <2>1. /\ A!IsState(c) /\ c.started = TRUE
        /\ \A f \in {"enabled", "armed", "interacted", "webSocket", "stray", "timer"} : c[f] = a[f]
    BY DEF A!IsState
  <2>2. A!updateAudio(a, online) = IF c.webSocket = "none" THEN A!connectWebSocket(c) ELSE c
    BY <1>2 DEF A!updateAudio, A!TurnOn
  <2> HIDE DEF c
  <2>3. CASE c.webSocket = "none"
    <3>1. c.stray = 0 /\ c.enabled BY <1>2, <2>1 DEF A!OneSocket
    <3>2. A!updateAudio(a, online) = A!connectWebSocket(c) BY <2>2, <2>3
    <3> DEFINE b == A!updateAudio(a, online)
    <3>3. /\ b.timer = FALSE /\ b.webSocket = "connecting" /\ b.stray = 0
          /\ \A f \in {"enabled", "armed", "interacted"} : b[f] = a[f]
      <4> DEFINE d == A!connectWebSocket(c)
      <4>1. /\ d.timer = FALSE /\ d.webSocket = "connecting" /\ d.stray = 0
            /\ \A f \in {"enabled", "armed", "interacted"} : d[f] = c[f]
        <5>1. /\ d.timer = FALSE /\ d.webSocket = (IF c.enabled THEN "connecting" ELSE "none")
              /\ d.stray = 0
              /\ \A f \in {"enabled", "armed", "interacted", "started"} : d[f] = c[f]
          BY <2>1, <2>3, <3>1, ConnectAudio
        <5> HIDE DEF d
        <5> QED BY <3>1, <5>1
      <4> HIDE DEF d
      <4>2. b = d BY <3>2 DEF d
      <4> QED BY <2>1, <4>1, <4>2
    <3> HIDE DEF b
    <3>4. Sounds(b) BY <1>2, <3>3 DEF Sounds, A!OneSocket, A!Fed
    <3> QED BY <1>2, <3>3, <3>4 DEF b
  <2>4. CASE c.webSocket # "none"
    <3> DEFINE b == A!updateAudio(a, online)
    <3>1. /\ b.timer = a.timer /\ b.webSocket = a.webSocket /\ b.stray = a.stray
          /\ \A f \in {"enabled", "armed", "interacted"} : b[f] = a[f]
      BY <2>1, <2>2, <2>4
    <3>2. a.webSocket # "none" /\ a.stray = 0 /\ ~a.timer BY <2>1, <2>4 DEF A!OneSocket
    <3> HIDE DEF b
    <3>3. Sounds(b) BY <1>2, <3>1, <3>2 DEF Sounds, A!OneSocket, A!Fed
    <3> QED BY <1>2, <3>1, <3>3 DEF b
  <2> QED BY <2>3, <2>4
<1> QED BY <1>1, <1>2

LEMMA StepAudioInv == TypeOK /\ ConnectionInv /\ AudioInv /\ [Next]_vars => AudioInv'
<1> SUFFICES ASSUME TypeOK, ConnectionInv, AudioInv, [Next]_vars PROVE AudioInv' OBVIOUS
<1> USE DEF setting, connection, services, version, connected, Has, AudioInv
<1> DEFINE a == audio
<1>0. A!IsState(a) /\ A!OneSocket(a) BY DEF TypeOK, Sounds
<1>1. ASSUME Reload PROVE AudioInv'
  BY <1>1 DEF Reload, A!Initial, Sounds, Muted, A!OneSocket, A!Fed, A!Live
<1>2. ASSUME UNCHANGED <<options, audio>>, connected => rfb' = "connected" PROVE AudioInv'
  BY <1>2
<1>3. CASE connectFinished
  <2>1. CASE ~Has("audio") BY <2>1, <1>3, <1>2 DEF connectFinished
  <2>2. CASE Has("audio")
    <3>1. audio' = A!Arm(a) /\ rfb' = "connected" /\ UNCHANGED options
      BY <2>2, <1>3 DEF connectFinished
    <3> QED BY <3>1, <2>2, <1>0 DEF A!Arm, Sounds, A!OneSocket, A!Fed, A!IsState
  <2> QED BY <2>1, <2>2
<1>4. CASE disconnectFinished
  <2>1. CASE ~Has("audio")
    <3>1. Muted(a) BY <2>1, <1>0 DEF Sounds, Muted, A!Fed, A!OneSocket, A!Live
    <3> QED BY <3>1, <2>1, <1>4 DEF disconnectFinished
  <2>2. CASE Has("audio")
    <3> DEFINE b == [a EXCEPT !.enabled = FALSE]
    <3>1. audio' = A!updateAudio(b, FALSE) /\ rfb' = "none" /\ UNCHANGED options
      BY <2>2, <1>4 DEF disconnectFinished, A!Stop
    <3>2. /\ A!IsState(b) /\ A!OneSocket(b) /\ b.enabled = FALSE
          /\ \A f \in {"armed", "interacted", "webSocket"} : b[f] = a[f]
      BY <1>0 DEF A!IsState, A!OneSocket
    <3> HIDE DEF b
    <3> QED BY <2>2, <3>1, <3>2, UpdateAudio DEF Muted
  <2> QED BY <2>1, <2>2
<1>5. ASSUME CheckAnswered \/ ProbeAnswered \/ UserReload PROVE AudioInv'
  BY <1>5, <1>1, <1>2 DEF CheckAnswered, ProbeAnswered, UserReload
<1>6. CASE \/ StartFails \/ credentials \/ setCredentialsThrows \/ securityFailed
           \/ reconnect \/ ProbeFails \/ CheckFails \/ Upgrade \/ UNCHANGED vars
  BY <1>6, <1>2 DEF StartFails, credentials, setCredentialsThrows, securityFailed,
       reconnect, ConnectionInv, OneAttempt, ProbeFails, CheckFails, Upgrade, vars
<1>7. ASSUME NEW p \in Password \cup {None}, start \/ setCredentials(p) PROVE AudioInv'
  BY <1>7, <1>2 DEF setCredentials, start, ConnectionInv, DisplayAgrees, DialogJustified, LoadingInv
<1>8. CASE Notification \/ WebTerminal
  <2>1. PageUnchanged /\ audio' = audio
    BY <1>8 DEF Notification, NotificationStep, NotificationOpens, NotificationMessage,
         NotificationLost, NotificationClosed, NotificationStrayLost, NotificationTimer, NotificationAsked,
         PermissionRemoved, NotificationAnswered, WebTerminal, TerminalStep, TerminalClicked,
         TerminalShown, TerminalDismissed, TerminalHidden, TerminalOpens, TerminalTimer,
         TerminalTerminated, TerminalLost, TerminalClosed
  <2> QED BY <2>1, <1>2 DEF PageUnchanged
<1>9. CASE Audio
  <2>0. ASSUME NEW b, AudioStep(b)
        PROVE  audio' = b /\ rfb' = rfb /\ options' = options /\ Has("audio")
    BY <2>0 DEF AudioStep, PageUnchanged
  <2>1. CASE AudioInteraction
    <3> DEFINE b == [a EXCEPT !.interacted = TRUE, !.armed = FALSE]
               c == [b EXCEPT !.enabled = b.audible, !.audible = b.audible]
    <3>1. AudioStep(A!updateAudioVolume(b, a.audible, connected)) /\ a.armed
      BY <2>1 DEF AudioInteraction, A!FirstInteraction
    <3>2. /\ A!IsState(c) /\ A!OneSocket(c) /\ c.webSocket = "none"
          /\ c.interacted = TRUE /\ c.armed = FALSE /\ b.audible = a.audible
      BY <3>1, <1>0 DEF A!IsState, A!OneSocket
    <3>3. AudioStep(A!updateAudio(c, connected)) /\ connected \in BOOLEAN
      BY <3>1, <3>2 DEF A!updateAudioVolume
    <3> HIDE DEF c
    <3> DEFINE d == A!updateAudio(c, connected)
    <3>4. /\ Sounds(d) /\ d.interacted = TRUE /\ d.armed = FALSE /\ (~connected => Muted(d))
      BY <3>2, <3>3, UpdateAudio DEF Muted
    <3>5. audio' = d /\ rfb' = rfb /\ options' = options /\ Has("audio") BY <3>3, <2>0
    <3> HIDE DEF d
    <3> QED BY <3>4, <3>5
  <2>2. ASSUME NEW on \in BOOLEAN, NEW audible \in BOOLEAN, connected, a.interacted,
               AudioStep(A!updateAudio([a EXCEPT !.enabled = on, !.audible = audible], connected))
        PROVE  AudioInv'
    <3> DEFINE c == [a EXCEPT !.enabled = on, !.audible = audible]
    <3>1. /\ A!IsState(c) /\ A!OneSocket(c) /\ c.interacted = a.interacted /\ c.armed = a.armed
      BY <1>0 DEF A!IsState, A!OneSocket
    <3> HIDE DEF c
    <3>2. AudioStep(A!updateAudio(c, connected)) /\ connected = TRUE BY <2>2 DEF c
    <3> DEFINE d == A!updateAudio(c, connected)
    <3>3. Sounds(d) /\ d.interacted = a.interacted /\ d.armed = a.armed
      BY <3>1, <3>2, UpdateAudio
    <3>4. audio' = d /\ rfb' = rfb /\ options' = options /\ Has("audio") BY <3>2, <2>0
    <3> HIDE DEF d
    <3> QED BY <2>2, <3>3, <3>4
  <2>3. CASE AudioToggled
    <3>1. (~a.enabled) \in BOOLEAN OBVIOUS
    <3> QED BY <2>3, <2>2, <3>1 DEF AudioToggled, A!toggleAudio
  <2>4. ASSUME NEW audible \in BOOLEAN, VolumeMoved(audible) PROVE AudioInv'
    BY <2>4, <2>2 DEF VolumeMoved, A!updateAudioVolume
  <2>5. CASE AudioOpens
    BY <2>5, <2>0, <1>0 DEF AudioOpens, A!IsState, Sounds, Muted, A!OneSocket, A!Fed, A!Live
  <2>6. CASE AudioClosed
    <3>1. a.webSocket # "none" /\ audio' = A!onclose(a) /\ rfb' = rfb /\ options' = options /\ Has("audio")
      BY <2>6, <2>0 DEF AudioClosed
    <3>2. /\ A!onclose(a).webSocket = "none" /\ A!onclose(a).timer = (a.timer \/ a.enabled)
          /\ \A f \in {"enabled", "armed", "interacted", "started", "stray"} : A!onclose(a)[f] = a[f]
      BY <1>0 DEF A!onclose, A!IsState
    <3>3. audio'.timer => a.enabled BY <3>1, <3>2 DEF Sounds
    <3>4. a.enabled => audio'.timer BY <3>1, <3>2
    <3>5. Sounds(audio') BY <3>1, <3>2, <3>3, <3>4 DEF Sounds, A!OneSocket, A!Fed
    <3>6. ~connected => Muted(audio') BY <3>1, <3>2, <3>3 DEF Muted, A!Live
    <3> QED BY <3>1, <3>2, <3>5, <3>6
  <2>7. CASE AudioTimer
    <3>1. a.timer /\ audio' = A!connectWebSocket(a) /\ rfb' = rfb /\ options' = options
      BY <2>7, <2>0 DEF AudioTimer
    <3>2. a.webSocket = "none" /\ a.enabled /\ connected /\ a.stray = 0
      BY <3>1 DEF Sounds, Muted, A!OneSocket
    <3> QED BY <3>1, <3>2, <1>0, ConnectAudio DEF Sounds, Muted, A!OneSocket, A!Fed
  <2> QED BY <1>9, <2>1, <2>3, <2>4, <2>5, <2>6, <2>7 DEF Audio
<1> QED BY <1>3, <1>4, <1>5, <1>6, <1>7, <1>8, <1>9 DEF Next, Connection

-----------------------------------------------------------------------------
(* The theorems.                                                           *)

IInv == TypeOK /\ ConnectionInv /\ NotificationInv /\ TerminalInv /\ AudioInv

LEMMA InitServices == Init => NotificationInv /\ TerminalInv /\ AudioInv
<1> SUFFICES ASSUME Init PROVE NotificationInv /\ TerminalInv /\ AudioInv OBVIOUS
<1>1. NotificationInv
  <2>1. PICK p \in {"granted", "default", "denied"} : notification = N!Initial(p) BY DEF Init
  <2>2. CASE p = "default"
    BY <2>1, <2>2 DEF Init, connected, NotificationInv, Prompt, N!Initial, N!OneSocket, N!NoSecond
  <2>3. CASE p # "default"
    BY <2>1, <2>3 DEF Init, connected, NotificationInv, Prompt, N!Initial, N!OneSocket, N!NoSecond
  <2> QED BY <2>2, <2>3
<1>2. TerminalInv
  BY DEF Init, connected, TerminalInv, Held, Missed, T!Initial, T!OneSocket, T!Attached, T!Quiet
<1>3. AudioInv
  <2>1. PICK b \in BOOLEAN : audio = A!Initial(b) BY DEF Init
  <2> QED BY <2>1 DEF Init, connected, AudioInv, Sounds, Muted, A!Initial, A!OneSocket, A!Fed, A!Live
<1> QED BY <1>1, <1>2, <1>3

LEMMA Invariant == Spec => []IInv
<1>1. Init => IInv BY InitTypeOK, InitConnectionInv, InitServices DEF IInv
<1>2. IInv /\ [Next]_vars => IInv'
  BY StepTypeOK, StepConnectionInv, StepNotificationInv, StepTerminalInv, StepAudioInv DEF IInv
<1> QED BY <1>1, <1>2, PTL DEF Spec

\* The page never has two attempts at a connection under way and is never
\* stuck without one.
THEOREM AttemptsOnce == Spec => []OneAttempt
<1>1. IInv => OneAttempt BY DEF IInv, ConnectionInv
<1> QED BY <1>1, Invariant, PTL

\* What the page and its dialog show agrees with the connection.
THEOREM DisplaysTruth == Spec => []DisplayAgrees
<1>1. IInv => DisplayAgrees BY DEF IInv, ConnectionInv
<1> QED BY <1>1, Invariant, PTL

\* A page that connects by itself sends a refused password only when it is loaded
\* again with that password in its URL; the accepted one is kept.
THEOREM KeepsPasswords == Spec => PasswordsKept
<1> DEFINE Kept == connected /\ secret # None => reconnectPassword = secret
           Sent == rfb = "none" /\ rfb' = "connecting" /\ offered' \in refused
                   => page = "loading" /\ offered' = url
<1>1. IInv => Kept BY DEF IInv, ConnectionInv, PasswordInv, connected
<1>2. IInv /\ [Next]_vars => [Sent]_vars
  <2> SUFFICES ASSUME IInv, [Next]_vars, rfb = "none", rfb' = "connecting", offered' \in refused
               PROVE  page = "loading" /\ offered' = url
    OBVIOUS
  <2>1. CASE start BY <2>1 DEF start, connect
  <2>2. CASE reconnect
    <3>1. offered' = reconnectPassword BY <2>2 DEF reconnect, connect, connection
    <3> QED BY <3>1 DEF IInv, ConnectionInv, PasswordInv
  <2>3. ~(Notification \/ WebTerminal \/ Audio \/ UNCHANGED vars)
    <3>1. Notification \/ WebTerminal \/ Audio => PageUnchanged
      BY DEF Notification, NotificationStep, NotificationOpens, NotificationMessage,
         NotificationLost, NotificationClosed, NotificationStrayLost, NotificationTimer,
         NotificationAsked, PermissionRemoved, NotificationAnswered, WebTerminal, TerminalStep,
         TerminalClicked, TerminalShown, TerminalDismissed, TerminalHidden, TerminalOpens,
         TerminalTimer, TerminalTerminated, TerminalLost, TerminalClosed, Audio, AudioStep,
         AudioInteraction, AudioToggled, VolumeMoved, AudioOpens, AudioClosed, AudioTimer
    <3> QED BY <3>1 DEF PageUnchanged, connection, vars
  <2>4. ~(Connection /\ ~start /\ ~reconnect)
    BY DEF Connection, StartFails, UserReload, Reload, credentials, setCredentialsThrows,
           setCredentials, securityFailed, connectFinished, disconnectFinished, ProbeAnswered,
           ProbeFails, CheckAnswered, CheckFails, Upgrade, connection
  <2> QED BY <2>1, <2>2, <2>3, <2>4 DEF Next
<1> HIDE DEF Sent, Kept
<1>3. Spec => []Kept /\ [][Sent]_vars BY <1>1, <1>2, Invariant, PTL DEF Spec
<1> QED BY <1>3 DEF PasswordsKept, Sent, Kept

\* A page that is out of date or whose login may be over does not go on.
THEOREM RenewsPage == Spec => []PageRenewed
<1>1. IInv => PageRenewed BY DEF IInv, ConnectionInv, VersionInv
<1> QED BY <1>1, Invariant, PTL

\* Terminal and audio never lose hold of a socket or are left without one they
\* need, however late a close event comes; nor do the notifications, unless it
\* comes later than the delay of a reconnection.
THEOREM HoldsServices == Spec => []ServicesHeld
<1>1. IInv => ServicesHeld
  BY DEF IInv, ServicesHeld, OneSocketEach, NotificationInv, Prompt, TerminalInv, Held,
         AudioInv, Sounds
<1> QED BY <1>1, Invariant, PTL

\* While the desktop is disconnected its services are silent, but for a terminal
\* whose dialog could not be hidden and a socket dropped by a slow close event.
THEOREM QuietOffline == Spec => []SilentOffline
<1>1. ASSUME IInv PROVE SilentOffline
  <2>1. /\ ~connected => N!Quiet(notification)
        /\ Has("slowClose") \/ N!OneSocket(notification)
    BY <1>1 DEF IInv, NotificationInv, Prompt, N!Quiet
  <2>2. ~connected => A!Quiet(audio)
    BY <1>1 DEF IInv, AudioInv, Sounds, Muted, A!OneSocket, A!Quiet
  <2>3. ~connected => T!Quiet(terminal) \/ terminal.missed BY <1>1 DEF IInv, TerminalInv
  <2> QED BY <2>1, <2>2, <2>3 DEF SilentOffline
<1>2. IInv => SilentOffline BY <1>1
<1> QED BY <1>2, Invariant, PTL
=============================================================================
