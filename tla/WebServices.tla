---------------------------- MODULE WebServices ----------------------------
(***************************************************************************)
(* The life of the web services process: the WebSocket connection manager  *)
(* (src/webservices/utils.go), the HTTP server and its shutdown            *)
(* (webservices.go), and the way in which the three kinds of handlers      *)
(* (filemanager.go, notification.go, terminal.go) take and give back their *)
(* resources and their registration.                                       *)
(***************************************************************************)
EXTENDS Integers, FiniteSets

CONSTANTS
  Conn,     \* incoming WebSocket requests
  Kind,     \* Kind[c]: "file", "notification" or "terminal"
  Max,      \* maxActiveWebSocketConnections
  None      \* nobody

ASSUME WebServicesAssumption ==
  /\ Kind \in [Conn -> {"file", "notification", "terminal"}]
  /\ Max \in Nat \ {0} /\ None \notin Conn

VARIABLES
  phase,             \* main: "up", "shutdown", "wait", "return" or "exited"
  pc,                \* the goroutine that serves each request
  mu,                \* the request that holds m.mu during its upgrade, or None
  connections,       \* m.connections
  activeConnections, \* the counter of m.activeConnections
  resource,          \* requests whose uploads, client entry or shell exists
  peerOpen,          \* requests whose client has not left
  late               \* history: requests being upgraded when Wait returned

vars == <<phase, pc, mu, connections, activeConnections, resource, peerOpen, late>>

Init ==
  /\ phase = "up" /\ pc = [c \in Conn |-> "none"] /\ mu = None
  /\ connections = {} /\ activeConnections = 0
  /\ resource = {} /\ peerOpen = Conn /\ late = {}

Goto(c, l) == pc' = [pc EXCEPT ![c] = l]

\* What the HTTP server still counts as active: requests not yet hijacked.
Tracked == {c \in Conn : pc[c] \in {"request", "upgrade"}}

-----------------------------------------------------------------------------
(* SetupConnection                                                         *)

Request(c) ==
  /\ phase = "up" /\ pc[c] = "none"
  /\ Goto(c, "request")
  /\ UNCHANGED <<phase, mu, connections, activeConnections, resource, peerOpen, late>>

\* Mutant: the lock is taken only after the check and the upgrade.
MutCheckLimit(c) ==
  /\ phase # "exited" /\ pc[c] = "request"
  /\ IF Cardinality(connections) >= Max THEN Goto(c, "closed") ELSE Goto(c, "upgrade")
  /\ UNCHANGED <<phase, mu, connections, activeConnections, resource, peerOpen, late>>

\* m.mu is taken, and kept unless the limit is reached (503).
CheckLimit(c) ==
  /\ phase # "exited" /\ pc[c] = "request" /\ mu = None
  /\ IF Cardinality(connections) >= Max
     THEN Goto(c, "closed") /\ mu' = mu
     ELSE Goto(c, "upgrade") /\ mu' = c
  /\ UNCHANGED <<phase, connections, activeConnections, resource, peerOpen, late>>

\* Upgrade fails.  The client may have left.
UpgradeFails(c) ==
  /\ phase # "exited" /\ pc[c] \in {"upgrade", "hijacked"}
  /\ mu' = None /\ Goto(c, "closed")
  /\ UNCHANGED <<phase, connections, activeConnections, resource, peerOpen, late>>

\* Upgrade hijacks the connection from the HTTP server ...
Hijack(c) ==
  /\ phase # "exited" /\ pc[c] = "upgrade"
  /\ Goto(c, "hijacked")
  /\ UNCHANGED <<phase, mu, connections, activeConnections, resource, peerOpen, late>>

\* ... and only then is it registered.
Register(c) ==
  /\ phase # "exited" /\ pc[c] = "hijacked"
  /\ connections' = connections \cup {c} /\ activeConnections' = activeConnections + 1
  /\ mu' = None /\ Goto(c, "registered")
  /\ UNCHANGED <<phase, resource, peerOpen, late>>

-----------------------------------------------------------------------------
(* TeardownConnection                                                      *)

\* Mutant: whether the connection is still registered is not looked at.
MutTeardown(c) ==
  /\ mu = None
  /\ connections' = connections \ {c}
  /\ activeConnections' = activeConnections - 1
  /\ mu' = mu

Teardown(c) ==
  /\ mu = None
  /\ connections' = connections \ {c}
  /\ activeConnections' = IF c \in connections THEN activeConnections - 1
                                               ELSE activeConnections
  /\ mu' = mu

-----------------------------------------------------------------------------
(* The handlers                                                            *)

\* Uploads are accepted, the client entry is made, the shell is started.
Acquire(c) ==
  /\ phase # "exited" /\ pc[c] = "registered"
  /\ resource' = resource \cup {c} /\ Goto(c, "run")
  /\ UNCHANGED <<phase, mu, connections, activeConnections, peerOpen, late>>

\* The shell cannot be started.
AcquireFails(c) ==
  /\ phase # "exited" /\ pc[c] = "registered" /\ Kind[c] = "terminal"
  /\ Goto(c, "teardown")
  /\ UNCHANGED <<phase, mu, connections, activeConnections, resource, peerOpen, late>>

PeerLeaves(c) ==
  /\ phase # "exited" /\ c \in peerOpen
  /\ peerOpen' = peerOpen \ {c}
  /\ UNCHANGED <<phase, pc, mu, connections, activeConnections, resource, late>>

\* Mutant: only the end of the connection ends a handler.
MutStops(c) == c \notin peerOpen \/ c \notin connections

\* A handler ends when its connection does.  The notification and terminal
\* handlers also watch appCtx; the file manager's only reads from the client.
Stops(c) ==
  \/ c \notin peerOpen \/ c \notin connections
  \/ phase # "up" /\ Kind[c] # "file"

\* Mutant: the connection is torn down first.
MutStop(c) ==
  /\ phase # "exited" /\ pc[c] = "run" /\ Stops(c)
  /\ Teardown(c) /\ Goto(c, "release")
  /\ UNCHANGED <<phase, resource, peerOpen, late>>

Stop(c) ==
  /\ phase # "exited" /\ pc[c] = "run" /\ Stops(c)
  /\ Goto(c, "release")
  /\ UNCHANGED <<phase, mu, connections, activeConnections, resource, peerOpen, late>>

\* Uploads cleared, client entry deleted, shell killed and reaped ...
Release(c) ==
  /\ phase # "exited" /\ pc[c] = "release"
  /\ resource' = resource \ {c} /\ Goto(c, "teardown")
  /\ UNCHANGED <<phase, mu, connections, activeConnections, peerOpen, late>>

\* ... and then the connection is closed.
Close(c) ==
  /\ phase # "exited" /\ pc[c] = "teardown"
  /\ Teardown(c) /\ Goto(c, "closed")
  /\ UNCHANGED <<phase, resource, peerOpen, late>>

\* The file manager's goroutine that waits for appCtx tears the connection down
\* to wake its handler up.
CloseOnShutdown(c) ==
  /\ phase \notin {"up", "exited"} /\ Kind[c] = "file" /\ c \in connections
  /\ pc[c] \in {"registered", "run", "release", "teardown"}
  /\ Teardown(c)
  /\ UNCHANGED <<phase, pc, resource, peerOpen, late>>

-----------------------------------------------------------------------------
(* main                                                                    *)

ShutdownSignal ==
  /\ phase = "up"
  /\ phase' = "shutdown"
  /\ UNCHANGED <<pc, mu, connections, activeConnections, resource, peerOpen, late>>

\* server.Shutdown returns once no request is tracked.
ShutdownReturns ==
  /\ phase = "shutdown" /\ Tracked = {}
  /\ phase' = "wait"
  /\ UNCHANGED <<pc, mu, connections, activeConnections, resource, peerOpen, late>>

\* Its 10 seconds pass with a request still tracked: log.Fatal.
ShutdownFails ==
  /\ phase = "shutdown" /\ Tracked # {}
  /\ phase' = "exited" /\ late' = Conn
  /\ UNCHANGED <<pc, mu, connections, activeConnections, resource, peerOpen>>

WaitReturns ==
  /\ phase = "wait" /\ activeConnections = 0
  /\ phase' = "return"
  /\ late' = {c \in Conn : pc[c] = "hijacked"}
  /\ UNCHANGED <<pc, mu, connections, activeConnections, resource, peerOpen>>

Exit ==
  /\ phase = "return"
  /\ phase' = "exited"
  /\ UNCHANGED <<pc, mu, connections, activeConnections, resource, peerOpen, late>>

-----------------------------------------------------------------------------
Handler(c) ==
  \/ CheckLimit(c) \/ UpgradeFails(c) \/ Hijack(c) \/ Register(c)
  \/ Acquire(c) \/ AcquireFails(c) \/ Stop(c) \/ Release(c) \/ Close(c)

Main == ShutdownReturns \/ ShutdownFails \/ WaitReturns \/ Exit

Next ==
  \/ \E c \in Conn : Request(c) \/ Handler(c) \/ PeerLeaves(c) \/ CloseOnShutdown(c)
  \/ ShutdownSignal \/ Main

Spec == Init /\ [][Next]_vars

\* Goroutines that can run do, and main goes on.  Clients may stay for ever.
FairSpec ==
  /\ Spec
  /\ \A c \in Conn : SF_vars(Handler(c)) /\ SF_vars(CloseOnShutdown(c))
  /\ WF_vars(Main)

-----------------------------------------------------------------------------
TypeOK ==
  /\ phase \in {"up", "shutdown", "wait", "return", "exited"}
  /\ pc \in [Conn -> {"none", "request", "upgrade", "hijacked", "registered", "run",
                      "release", "teardown", "closed"}]
  /\ mu \in Conn \cup {None}
  /\ connections \subseteq Conn /\ activeConnections \in Nat
  /\ resource \subseteq Conn /\ peerOpen \subseteq Conn /\ late \subseteq Conn

\* The limit counts every connection that clients have, the one being upgraded
\* included: SetupConnection checks it and registers under one lock.
LimitRespected ==
  Cardinality(connections \cup {c \in Conn : pc[c] \in {"upgrade", "hijacked"}}) <= Max

\* The wait group and the map never disagree: Wait returns exactly when the map
\* is empty, and no second Done drives the counter below zero, although the
\* file manager tears a connection down from two goroutines.
CountAgrees == activeConnections = Cardinality(connections)

\* No handler is left out: one that has what it must give back stays registered,
\* but for the file manager's once the shutdown has begun.
HeldIsRegistered ==
  \A c \in resource : c \in connections \/ (Kind[c] = "file" /\ phase # "up")

\* When main has waited for the connections, every shell is dead and every client
\* entry gone, unless the connection was being upgraded when Wait returned.
ExitAfterHandlers ==
  phase = "exited" => \A c \in resource : Kind[c] = "file" \/ c \in late

\* Nobody who holds something is forgotten, neither while the process runs nor
\* when it exits.
HandlersCounted == HeldIsRegistered /\ ExitAfterHandlers

\* A termination signal ends the process, whatever the clients do.
ShutdownEnds == (phase = "shutdown") ~> (phase = "exited")
=============================================================================
