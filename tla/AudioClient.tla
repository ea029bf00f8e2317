---------------------------- MODULE AudioClient ----------------------------
(***************************************************************************)
(* The audio of the page (UI.audioContext of app/ui.js): the mute button,  *)
(* the volume slider, the WebSocket that feeds the player, and whether the *)
(* player is started.  A record and functions on it, as in                 *)
(* NotificationClient.  Unlike the other clients, this one refers to its   *)
(* socket until its close event ("closing").                               *)
(***************************************************************************)
EXTENDS Naturals

\* audible: the slider is not at 0, as the settings of the last visit say.
Initial(audible) ==
  [enabled |-> FALSE, audible |-> audible, armed |-> FALSE, interacted |-> FALSE,
   webSocket |-> "none", timer |-> FALSE, started |-> FALSE, stray |-> 0]

Live(a) == a.webSocket \in {"connecting", "open"}

\* Mutant: the reconnect timer is not cleared.
MutconnectWebSocket(a) ==
  IF ~a.enabled THEN a
  ELSE [a EXCEPT !.webSocket = "connecting", !.stray = @ + IF Live(a) THEN 1 ELSE 0]

\* connectWebSocket, also the reconnect timer.
connectWebSocket(a) ==
  LET b == [a EXCEPT !.timer = FALSE]
  IN IF ~b.enabled THEN b
     ELSE [b EXCEPT !.webSocket = "connecting", !.stray = @ + IF Live(a) THEN 1 ELSE 0]

\* The two halves of updateAudio.
TurnOn(a) ==
  LET b == [a EXCEPT !.started = TRUE]
  IN IF b.webSocket = "none" THEN connectWebSocket(b) ELSE b

TurnOff(a) ==
  [a EXCEPT !.timer = FALSE, !.started = FALSE,
            !.webSocket = IF @ = "none" THEN "none" ELSE "closing"]

\* updateAudio
updateAudio(a, connected) == IF a.enabled /\ connected THEN TurnOn(a) ELSE TurnOff(a)

\* toggleAudio: the slider follows the button.
toggleAudio(a, connected) ==
  updateAudio([a EXCEPT !.enabled = ~a.enabled, !.audible = ~a.enabled], connected)

\* updateAudioVolume: the slider was moved, or at the first interaction.
updateAudioVolume(a, audible, connected) ==
  updateAudio([a EXCEPT !.enabled = audible, !.audible = audible], connected)

\* The listener connectFinished installs.
FirstInteraction(a, connected) ==
  updateAudioVolume([a EXCEPT !.interacted = TRUE, !.armed = FALSE], a.audible, connected)

\* connectFinished: the first interaction to come enables the audio.
Arm(a) == [a EXCEPT !.armed = ~a.interacted]

\* disconnectFinished: audio is stopped.
Stop(a) == updateAudio([a EXCEPT !.enabled = FALSE], FALSE)

\* onclose.
\* Mutant: no attempt to connect again.
Mutonclose(a) == [a EXCEPT !.webSocket = "none"]

onclose(a) == [a EXCEPT !.webSocket = "none", !.timer = @ \/ a.enabled]

-----------------------------------------------------------------------------
IsState(a) ==
  a \in [enabled : BOOLEAN, audible : BOOLEAN, armed : BOOLEAN, interacted : BOOLEAN,
         webSocket : {"none", "connecting", "open", "closing"}, timer : BOOLEAN,
         started : BOOLEAN, stray : Nat]

\* No sound is fetched or played, now or later.
Quiet(a) == ~Live(a) /\ ~a.timer /\ ~a.started /\ a.stray = 0

\* Every live socket is the one referred to, and no timer makes another.
OneSocket(a) == a.stray = 0 /\ (a.timer => a.webSocket = "none")

\* A player that is started is fed, or will be.
Fed(a) == a.started => a.webSocket # "none" \/ a.timer
=============================================================================
