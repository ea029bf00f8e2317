--------------------------- MODULE TerminalClient ---------------------------
(***************************************************************************)
(* The web terminal of the page (app/terminal.js) and its dialog: the      *)
(* modal of Bootstrap that index.html opens and that app/ui.js keeps in    *)
(* step.  A record and functions on it, as in NotificationClient.          *)
(*                                                                         *)
(* The dialog fades in and out: it tells "shown" and "hidden" when it is   *)
(* done, and takes no show or hide before that ("missed": a hide it did    *)
(* not take).                                                              *)
(***************************************************************************)
EXTENDS Naturals

Initial ==
  [terminal |-> FALSE, stdin |-> FALSE, webSocket |-> "none", timer |-> FALSE,
   closing |-> 0, stray |-> 0, modal |-> "hidden", missed |-> FALSE]

Live(t) == t.webSocket \in {"connecting", "open"}

\* bootstrap.Modal.hide()
hide(t) ==
  CASE t.modal = "shown"   -> [t EXCEPT !.modal = "hiding"]
    [] t.modal = "showing" -> [t EXCEPT !.missed = TRUE]
    [] OTHER               -> t

\* connectWebSocket, also the reconnect timer.
connectWebSocket(t) ==
  IF t.webSocket # "none" THEN t
  ELSE [t EXCEPT !.webSocket = "connecting", !.timer = FALSE]

\* disconnectWebSocket
disconnectWebSocket(t) ==
  [t EXCEPT !.webSocket = "none", !.timer = FALSE, !.closing = @ + IF Live(t) THEN 1 ELSE 0]

\* openTerminal: without input until there is a connection.
openTerminal(t) ==
  IF t.terminal THEN t ELSE connectWebSocket([t EXCEPT !.terminal = TRUE, !.stdin = FALSE])

\* closeTerminal; its callback hides the dialog (UI.closeTerminal).
closeTerminal(t) ==
  IF ~t.terminal THEN t
  ELSE hide(disconnectWebSocket([t EXCEPT !.terminal = FALSE, !.stdin = FALSE]))

\* UI.closeTerminal.
closeDialog(t) == hide(closeTerminal(t))

\* The dialog was asked for, has appeared, was dismissed, has disappeared.
ShowDialog(t) == [t EXCEPT !.modal = "showing"]

Shown(t) == openTerminal([t EXCEPT !.modal = "shown"])

Dismissed(t) == hide(t)

Hidden(t) == closeDialog([t EXCEPT !.modal = "hidden", !.missed = FALSE])

\* onopen: the size is sent, then input is enabled.
onopen(t) == [t EXCEPT !.webSocket = "open", !.stdin = TRUE]

\* The end of onclose, once the connection is destroyed.
AfterClose(t, clean) ==
  CASE ~t.terminal         -> t
    [] t.terminal /\ clean -> closeTerminal(t)
    [] OTHER               -> [t EXCEPT !.timer = TRUE]

\* onclose: disables input and destroys the connection in use, whichever
\* socket the event is of.
onclose(t, clean) == AfterClose(disconnectWebSocket([t EXCEPT !.stdin = FALSE]), clean)

\* The connection in use ended.
Lost(t, clean) == onclose([t EXCEPT !.webSocket = "none"], clean)

\* The close event of a socket that was closed before.
Closed(t, clean) == onclose([t EXCEPT !.closing = @ - 1], clean)

\* The server says that the shell exited.
Terminate(t) == closeTerminal(t)

-----------------------------------------------------------------------------
IsState(t) ==
  t \in [terminal : BOOLEAN, stdin : BOOLEAN, webSocket : {"none", "connecting", "open"},
         timer : BOOLEAN, closing : Nat, stray : Nat,
         modal : {"hidden", "showing", "shown", "hiding"}, missed : BOOLEAN]

\* No connection, and none to come.
Quiet(t) == t.webSocket = "none" /\ ~t.timer /\ t.stray = 0

\* Every live socket is the one referred to, and no timer makes another.
OneSocket(t) == t.stray = 0 /\ (t.timer => t.webSocket = "none")

\* A terminal that is closed is quiet; one that is open has a connection or
\* is about to make one; it takes input only while it can send it.
Attached(t) ==
  IF t.terminal THEN (t.webSocket # "none" \/ t.timer) /\ (t.stdin => t.webSocket = "open")
  ELSE Quiet(t)
=============================================================================
