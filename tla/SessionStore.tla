---------------------------- MODULE SessionStore ----------------------------
(***************************************************************************)
(* What the web authentication service promises about login sessions,      *)
(* without saying how: a session is opened once, by a successful login; it *)
(* ends by logout, by expiry or by a restart of the service; a session     *)
(* that is over never comes back; and at most Capacity sessions are live.  *)
(***************************************************************************)
EXTENDS Naturals, FiniteSets

CONSTANTS Session,   \* identities a session can take (the random tokens)
          Capacity   \* how many sessions may be live together

VARIABLE session     \* session[s]: where s is in its life

Life == {"unused", "live", "over"}

Live == {s \in Session : session[s] = "live"}

TypeOK == session \in [Session -> Life]

Init == session = [s \in Session |-> "unused"]

\* A login: a session nobody used before becomes live, if there is room.
Open(s) ==
  /\ session[s] = "unused"
  /\ Cardinality(Live) < Capacity
  /\ session' = [session EXCEPT ![s] = "live"]

\* A logout, an expiry or a restart: some live sessions are over.
Close(S) ==
  /\ S # {}
  /\ S \subseteq Live
  /\ session' = [s \in Session |-> IF s \in S THEN "over" ELSE session[s]]

Next ==
  \/ \E s \in Session : Open(s)
  \/ \E S \in SUBSET Session : Close(S)

Spec == Init /\ [][Next]_session
=============================================================================
