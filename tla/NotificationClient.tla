------------------------- MODULE NotificationClient -------------------------
(***************************************************************************)
(* The client of the desktop notifications (app/notificationService.js).   *)
(* Its state is one record, and each handler is a function on it: the page *)
(* (module Gui) calls them.  webSocket is the socket the client refers to; *)
(* "closing" counts the sockets it closed whose close event is yet to      *)
(* come, and "stray" the live ones it does not refer to any more.          *)
(***************************************************************************)
EXTENDS Naturals

Initial(permission) ==
  [permission |-> permission, granted |-> permission = "granted",
   prompt |-> IF permission = "default" THEN "armed" ELSE "done",
   started |-> FALSE, webSocket |-> "none", timer |-> FALSE, closing |-> 0, stray |-> 0]

Live(n) == n.webSocket \in {"connecting", "open"}

\* connectWebSocket, also the reconnect timer.
connectWebSocket(n) ==
  IF n.webSocket # "none" THEN n
  ELSE [n EXCEPT !.webSocket = "connecting", !.timer = FALSE]

\* disconnectWebSocket
disconnectWebSocket(n) ==
  IF n.webSocket = "none" THEN n ELSE [n EXCEPT !.webSocket = "none", !.closing = @ + 1]

\* Asked at the first interaction, as browsers only allow it from a gesture.
onFirstInteraction(n) == [n EXCEPT !.prompt = "shown"]

\* The user answers; start() may have been called in the meantime.
PermissionAnswered(n, permission) ==
  LET m == [n EXCEPT !.prompt = "done", !.permission = permission,
                     !.granted = permission = "granted"]
  IN IF m.granted /\ m.started THEN connectWebSocket(m) ELSE m

start(n) ==
  LET m == [n EXCEPT !.started = TRUE]
  IN IF m.granted THEN connectWebSocket(m) ELSE m

\* Mutant: a timer under way is forgotten.
Mutstop(n) == [disconnectWebSocket(n) EXCEPT !.started = FALSE]

stop(n) == [disconnectWebSocket([n EXCEPT !.timer = FALSE]) EXCEPT !.started = FALSE]

\* What a close event does, whichever socket it is of: the reference is
\* dropped without a close.
onclose(n) == [n EXCEPT !.webSocket = "none", !.timer = @ \/ (n.granted /\ n.started),
                        !.stray = @ + IF Live(n) THEN 1 ELSE 0]

\* The connection in use is lost, or could not be made.
Lost(n) == onclose([n EXCEPT !.webSocket = "none"])

\* The close event of a socket that was closed before.
Closed(n) == onclose([n EXCEPT !.closing = @ - 1])

\* A live socket the client does not refer to is lost.
StrayLost(n) == onclose([n EXCEPT !.stray = @ - 1])

\* A notification: the permission may have been removed since.
handleWebSocketMessage(n) ==
  IF n.permission = "granted" THEN n ELSE disconnectWebSocket([n EXCEPT !.granted = FALSE])

-----------------------------------------------------------------------------
IsState(n) ==
  n \in [permission : {"granted", "default", "denied"}, granted : BOOLEAN,
         prompt : {"armed", "shown", "done"}, started : BOOLEAN,
         webSocket : {"none", "connecting", "open"}, timer : BOOLEAN, closing : Nat, stray : Nat]

\* No socket is in use, nor is one going to be until it is started again.
Quiet(n) == n.webSocket = "none" /\ ~n.timer

\* Every live socket is the one referred to.
OneSocket(n) == n.stray = 0

\* The timer never makes a socket beside the one referred to.
NoSecond(n) == n.timer => n.webSocket = "none"
=============================================================================
