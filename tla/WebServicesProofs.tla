-------------------------- MODULE WebServicesProofs -------------------------
(***************************************************************************)
(* Proofs about WebServices, for every set of requests, of whatever kinds, *)
(* and every limit.                                                        *)
(***************************************************************************)
EXTENDS WebServices, FiniteSetTheorems, TLAPS

Working == {"registered", "run", "release", "teardown"}

\* m.mu is held exactly during an upgrade.
MuInv == \A c \in Conn : mu = c <=> pc[c] \in {"upgrade", "hijacked"}

\* The map holds requests whose handler is at work, and all of those but the
\* file manager's that the shutdown has closed.
RegisteredInv ==
  /\ \A c \in connections : pc[c] \in Working
  /\ \A c \in Conn : pc[c] \in Working => c \in connections \/ (Kind[c] = "file" /\ phase # "up")
  /\ \A c \in resource : pc[c] \in {"run", "release"}

\* Counting: there is room for the connection that is being upgraded.
CountInv ==
  /\ IsFiniteSet(connections)
  /\ activeConnections = Cardinality(connections)
  /\ Cardinality(connections) <= Max
  /\ mu # None => Cardinality(connections) < Max

\* No request is left for Shutdown to track once it has returned, and after Wait
\* only what was being upgraded is at work.
ExitInv ==
  /\ phase \in {"wait", "return"} => \A c \in Conn : pc[c] \notin {"request", "upgrade"}
  /\ phase \in {"return", "exited"} =>
       \A c \in Conn : Kind[c] # "file" /\ pc[c] \notin {"none", "closed"} => c \in late

IInv == TypeOK /\ MuInv /\ RegisteredInv /\ CountInv /\ ExitInv

LEMMA InitInv == Init => IInv
<1> SUFFICES ASSUME Init PROVE IInv
  OBVIOUS
<1>1. IsFiniteSet(connections) /\ Cardinality(connections) = 0
  BY FS_EmptySet DEF Init
<1> QED
  BY <1>1, WebServicesAssumption DEF Init, IInv, TypeOK, MuInv, RegisteredInv, CountInv,
     ExitInv, Working

LEMMA MuStep == TypeOK /\ MuInv /\ [Next]_vars => MuInv'
<1> SUFFICES ASSUME TypeOK /\ MuInv, [Next]_vars PROVE MuInv'
  OBVIOUS
<1> USE WebServicesAssumption DEF TypeOK, MuInv
<1>1. ASSUME NEW c \in Conn, Request(c) PROVE MuInv'
  BY <1>1 DEF Request, Goto
<1>2. ASSUME NEW c \in Conn, CheckLimit(c) PROVE MuInv'
  BY <1>2 DEF CheckLimit, Goto
<1>3. ASSUME NEW c \in Conn, UpgradeFails(c) PROVE MuInv'
  BY <1>3 DEF UpgradeFails, Goto
<1>4. ASSUME NEW c \in Conn, Hijack(c) PROVE MuInv'
  BY <1>4 DEF Hijack, Goto
<1>5. ASSUME NEW c \in Conn, Register(c) PROVE MuInv'
  BY <1>5 DEF Register, Goto
<1>6. ASSUME NEW c \in Conn, Acquire(c) PROVE MuInv'
  BY <1>6 DEF Acquire, Goto
<1>7. ASSUME NEW c \in Conn, AcquireFails(c) PROVE MuInv'
  BY <1>7 DEF AcquireFails, Goto
<1>8. ASSUME NEW c \in Conn, PeerLeaves(c) PROVE MuInv'
  BY <1>8 DEF PeerLeaves
<1>9. ASSUME NEW c \in Conn, Stop(c) PROVE MuInv'
  BY <1>9 DEF Stop, Goto, Stops
<1>10. ASSUME NEW c \in Conn, Release(c) PROVE MuInv'
  BY <1>10 DEF Release, Goto
<1>11. ASSUME NEW c \in Conn, Close(c) PROVE MuInv'
  BY <1>11 DEF Close, Goto, Teardown
<1>12. ASSUME NEW c \in Conn, CloseOnShutdown(c) PROVE MuInv'
  BY <1>12 DEF CloseOnShutdown, Teardown
<1>13. CASE ShutdownSignal
  BY <1>13 DEF ShutdownSignal
<1>14. CASE ShutdownReturns
  BY <1>14 DEF ShutdownReturns, Tracked
<1>15. CASE ShutdownFails
  BY <1>15 DEF ShutdownFails
<1>16. CASE WaitReturns
  BY <1>16 DEF WaitReturns
<1>17. CASE Exit
  BY <1>17 DEF Exit
<1>18. CASE UNCHANGED vars
  BY <1>18 DEF vars
<1> QED
  BY <1>1, <1>2, <1>3, <1>4, <1>5, <1>6, <1>7, <1>8, <1>9, <1>10, <1>11, <1>12, <1>13, <1>14, <1>15, <1>16, <1>17, <1>18 DEF Next, Handler, Main

LEMMA RegisteredStep == TypeOK /\ RegisteredInv /\ [Next]_vars => RegisteredInv'
<1> SUFFICES ASSUME TypeOK /\ RegisteredInv, [Next]_vars PROVE RegisteredInv'
  OBVIOUS
<1> USE DEF TypeOK, RegisteredInv, Working
<1>1. ASSUME NEW c \in Conn, Request(c) PROVE RegisteredInv'
  BY <1>1 DEF Request, Goto
<1>2. ASSUME NEW c \in Conn, CheckLimit(c) PROVE RegisteredInv'
  BY <1>2 DEF CheckLimit, Goto
<1>3. ASSUME NEW c \in Conn, UpgradeFails(c) PROVE RegisteredInv'
  BY <1>3 DEF UpgradeFails, Goto
<1>4. ASSUME NEW c \in Conn, Hijack(c) PROVE RegisteredInv'
  BY <1>4 DEF Hijack, Goto
<1>5. ASSUME NEW c \in Conn, Register(c) PROVE RegisteredInv'
  BY <1>5 DEF Register, Goto
<1>6. ASSUME NEW c \in Conn, Acquire(c) PROVE RegisteredInv'
  BY <1>6 DEF Acquire, Goto
<1>7. ASSUME NEW c \in Conn, AcquireFails(c) PROVE RegisteredInv'
  BY <1>7 DEF AcquireFails, Goto
<1>8. ASSUME NEW c \in Conn, PeerLeaves(c) PROVE RegisteredInv'
  BY <1>8 DEF PeerLeaves
<1>9. ASSUME NEW c \in Conn, Stop(c) PROVE RegisteredInv'
  BY <1>9 DEF Stop, Goto, Stops
<1>10. ASSUME NEW c \in Conn, Release(c) PROVE RegisteredInv'
  BY <1>10 DEF Release, Goto
<1>11. ASSUME NEW c \in Conn, Close(c) PROVE RegisteredInv'
  BY <1>11 DEF Close, Goto, Teardown
<1>12. ASSUME NEW c \in Conn, CloseOnShutdown(c) PROVE RegisteredInv'
  BY <1>12 DEF CloseOnShutdown, Teardown
<1>13. CASE ShutdownSignal
  BY <1>13 DEF ShutdownSignal
<1>14. CASE ShutdownReturns
  BY <1>14 DEF ShutdownReturns, Tracked
<1>15. CASE ShutdownFails
  BY <1>15 DEF ShutdownFails
<1>16. CASE WaitReturns
  BY <1>16 DEF WaitReturns
<1>17. CASE Exit
  BY <1>17 DEF Exit
<1>18. CASE UNCHANGED vars
  BY <1>18 DEF vars
<1> QED
  BY <1>1, <1>2, <1>3, <1>4, <1>5, <1>6, <1>7, <1>8, <1>9, <1>10, <1>11, <1>12, <1>13, <1>14, <1>15, <1>16, <1>17, <1>18 DEF Next, Handler, Main

LEMMA ExitStep == TypeOK /\ RegisteredInv /\ CountInv /\ ExitInv /\ [Next]_vars => ExitInv'
<1> SUFFICES ASSUME TypeOK /\ RegisteredInv /\ CountInv /\ ExitInv, [Next]_vars PROVE ExitInv'
  OBVIOUS
<1> USE DEF TypeOK, ExitInv
<1>1. ASSUME NEW c \in Conn, Request(c) PROVE ExitInv'
  BY <1>1 DEF Request, Goto
<1>2. ASSUME NEW c \in Conn, CheckLimit(c) PROVE ExitInv'
  BY <1>2 DEF CheckLimit, Goto
<1>3. ASSUME NEW c \in Conn, UpgradeFails(c) PROVE ExitInv'
  BY <1>3 DEF UpgradeFails, Goto
<1>4. ASSUME NEW c \in Conn, Hijack(c) PROVE ExitInv'
  BY <1>4 DEF Hijack, Goto
<1>5. ASSUME NEW c \in Conn, Register(c) PROVE ExitInv'
  BY <1>5 DEF Register, Goto
<1>6. ASSUME NEW c \in Conn, Acquire(c) PROVE ExitInv'
  BY <1>6 DEF Acquire, Goto
<1>7. ASSUME NEW c \in Conn, AcquireFails(c) PROVE ExitInv'
  BY <1>7 DEF AcquireFails, Goto
<1>8. ASSUME NEW c \in Conn, PeerLeaves(c) PROVE ExitInv'
  BY <1>8 DEF PeerLeaves
<1>9. ASSUME NEW c \in Conn, Stop(c) PROVE ExitInv'
  BY <1>9 DEF Stop, Goto, Stops
<1>10. ASSUME NEW c \in Conn, Release(c) PROVE ExitInv'
  BY <1>10 DEF Release, Goto
<1>11. ASSUME NEW c \in Conn, Close(c) PROVE ExitInv'
  BY <1>11 DEF Close, Goto, Teardown
<1>12. ASSUME NEW c \in Conn, CloseOnShutdown(c) PROVE ExitInv'
  BY <1>12 DEF CloseOnShutdown, Teardown
<1>13. CASE ShutdownSignal
  BY <1>13 DEF ShutdownSignal
<1>14. CASE ShutdownReturns
  BY <1>14 DEF ShutdownReturns, Tracked
<1>15. CASE ShutdownFails
  BY <1>15 DEF ShutdownFails
<1>16. CASE WaitReturns
  <2>1. connections = {}
    BY <1>16, FS_EmptySet DEF WaitReturns, CountInv
  <2> QED
    BY <1>16, <2>1 DEF WaitReturns, RegisteredInv, Working
<1>17. CASE Exit
  BY <1>17 DEF Exit
<1>18. CASE UNCHANGED vars
  BY <1>18 DEF vars
<1> QED
  BY <1>1, <1>2, <1>3, <1>4, <1>5, <1>6, <1>7, <1>8, <1>9, <1>10, <1>11, <1>12, <1>13, <1>14, <1>15, <1>16, <1>17, <1>18 DEF Next, Handler, Main

LEMMA CardinalityNat == CountInv => Cardinality(connections) \in Nat
  BY FS_CardinalityType DEF CountInv

LEMMA CountStep == TypeOK /\ MuInv /\ RegisteredInv /\ CountInv /\ [Next]_vars => CountInv'
<1> SUFFICES ASSUME TypeOK /\ MuInv /\ RegisteredInv /\ CountInv, [Next]_vars PROVE CountInv'
  OBVIOUS
<1> USE CardinalityNat, WebServicesAssumption DEF TypeOK, CountInv
<1>1. ASSUME NEW c \in Conn, Request(c) PROVE CountInv'
  BY <1>1 DEF Request, Goto
<1>2. ASSUME NEW c \in Conn, CheckLimit(c) PROVE CountInv'
  BY <1>2 DEF CheckLimit, Goto
<1>3. ASSUME NEW c \in Conn, UpgradeFails(c) PROVE CountInv'
  BY <1>3 DEF UpgradeFails, Goto
<1>4. ASSUME NEW c \in Conn, Hijack(c) PROVE CountInv'
  BY <1>4 DEF Hijack, Goto
<1>5. ASSUME NEW c \in Conn, Register(c) PROVE CountInv'
  <2>1. connections' = connections \cup {c} /\ c \notin connections /\ c \in Conn /\ mu = c
    BY <1>5 DEF Register, RegisteredInv, MuInv, Working
  <2>2. IsFiniteSet(connections') /\ Cardinality(connections') = Cardinality(connections) + 1
    BY <2>1, FS_AddElement
  <2> QED
    BY <1>5, <2>1, <2>2 DEF Register
<1>6. ASSUME NEW c \in Conn, Acquire(c) PROVE CountInv'
  BY <1>6 DEF Acquire, Goto
<1>7. ASSUME NEW c \in Conn, AcquireFails(c) PROVE CountInv'
  BY <1>7 DEF AcquireFails, Goto
<1>8. ASSUME NEW c \in Conn, PeerLeaves(c) PROVE CountInv'
  BY <1>8 DEF PeerLeaves
<1>9. ASSUME NEW c \in Conn, Stop(c) PROVE CountInv'
  BY <1>9 DEF Stop, Goto, Stops
<1>10. ASSUME NEW c \in Conn, Release(c) PROVE CountInv'
  BY <1>10 DEF Release, Goto
<1>11. ASSUME NEW c \in Conn, Close(c) PROVE CountInv'
  <2>1. connections' = connections \ {c} /\ mu' = mu /\ mu = None
    BY <1>11 DEF Close, Teardown
  <2>2. CASE c \in connections
    <3>1. activeConnections' = activeConnections - 1
      BY <1>11, <2>2 DEF Close, Teardown
    <3>2. IsFiniteSet(connections') /\ Cardinality(connections') = Cardinality(connections) - 1
      BY <2>1, <2>2, FS_RemoveElement
    <3> QED
      BY <2>1, <3>1, <3>2
  <2>3. CASE c \notin connections
    <3>1. connections' = connections /\ activeConnections' = activeConnections
      BY <1>11, <2>1, <2>3 DEF Close, Teardown
    <3> QED
      BY <2>1, <3>1
  <2> QED
    BY <2>2, <2>3
<1>12. ASSUME NEW c \in Conn, CloseOnShutdown(c) PROVE CountInv'
  <2>1. connections' = connections \ {c} /\ mu' = mu /\ mu = None
    BY <1>12 DEF CloseOnShutdown, Teardown
  <2>2. CASE c \in connections
    <3>1. activeConnections' = activeConnections - 1
      BY <1>12, <2>2 DEF CloseOnShutdown, Teardown
    <3>2. IsFiniteSet(connections') /\ Cardinality(connections') = Cardinality(connections) - 1
      BY <2>1, <2>2, FS_RemoveElement
    <3> QED
      BY <2>1, <3>1, <3>2
  <2>3. CASE c \notin connections
    <3>1. connections' = connections /\ activeConnections' = activeConnections
      BY <1>12, <2>1, <2>3 DEF CloseOnShutdown, Teardown
    <3> QED
      BY <2>1, <3>1
  <2> QED
    BY <2>2, <2>3
<1>13. CASE ShutdownSignal
  BY <1>13 DEF ShutdownSignal
<1>14. CASE ShutdownReturns
  BY <1>14 DEF ShutdownReturns, Tracked
<1>15. CASE ShutdownFails
  BY <1>15 DEF ShutdownFails
<1>16. CASE WaitReturns
  BY <1>16 DEF WaitReturns
<1>17. CASE Exit
  BY <1>17 DEF Exit
<1>18. CASE UNCHANGED vars
  BY <1>18 DEF vars
<1> QED
  BY <1>1, <1>2, <1>3, <1>4, <1>5, <1>6, <1>7, <1>8, <1>9, <1>10, <1>11, <1>12, <1>13, <1>14, <1>15, <1>16, <1>17, <1>18 DEF Next, Handler, Main

LEMMA TypeStep == TypeOK /\ CountInv /\ CountInv' /\ [Next]_vars => TypeOK'
<1> SUFFICES ASSUME TypeOK /\ CountInv /\ CountInv', [Next]_vars PROVE TypeOK'
  OBVIOUS
<1> USE WebServicesAssumption DEF TypeOK
<1>0. activeConnections' \in Nat
  BY FS_CardinalityType DEF CountInv
<1>1. ASSUME NEW c \in Conn, Request(c) PROVE TypeOK'
  BY <1>1 DEF Request, Goto
<1>2. ASSUME NEW c \in Conn, CheckLimit(c) PROVE TypeOK'
  BY <1>2 DEF CheckLimit, Goto
<1>3. ASSUME NEW c \in Conn, UpgradeFails(c) PROVE TypeOK'
  BY <1>3 DEF UpgradeFails, Goto
<1>4. ASSUME NEW c \in Conn, Hijack(c) PROVE TypeOK'
  BY <1>4 DEF Hijack, Goto
<1>5. ASSUME NEW c \in Conn, Register(c) PROVE TypeOK'
  BY <1>5 DEF Register, Goto
<1>6. ASSUME NEW c \in Conn, Acquire(c) PROVE TypeOK'
  BY <1>6 DEF Acquire, Goto
<1>7. ASSUME NEW c \in Conn, AcquireFails(c) PROVE TypeOK'
  BY <1>7 DEF AcquireFails, Goto
<1>8. ASSUME NEW c \in Conn, PeerLeaves(c) PROVE TypeOK'
  BY <1>8 DEF PeerLeaves
<1>9. ASSUME NEW c \in Conn, Stop(c) PROVE TypeOK'
  BY <1>9 DEF Stop, Goto, Stops
<1>10. ASSUME NEW c \in Conn, Release(c) PROVE TypeOK'
  BY <1>10 DEF Release, Goto
<1>11. ASSUME NEW c \in Conn, Close(c) PROVE TypeOK'
  BY <1>0, <1>11 DEF Close, Goto, Teardown
<1>12. ASSUME NEW c \in Conn, CloseOnShutdown(c) PROVE TypeOK'
  BY <1>0, <1>12 DEF CloseOnShutdown, Teardown
<1>13. CASE ShutdownSignal
  BY <1>13 DEF ShutdownSignal
<1>14. CASE ShutdownReturns
  BY <1>14 DEF ShutdownReturns, Tracked
<1>15. CASE ShutdownFails
  BY <1>15 DEF ShutdownFails
<1>16. CASE WaitReturns
  BY <1>16 DEF WaitReturns
<1>17. CASE Exit
  BY <1>17 DEF Exit
<1>18. CASE UNCHANGED vars
  BY <1>18 DEF vars
<1> QED
  BY <1>1, <1>2, <1>3, <1>4, <1>5, <1>6, <1>7, <1>8, <1>9, <1>10, <1>11, <1>12, <1>13, <1>14, <1>15, <1>16, <1>17, <1>18 DEF Next, Handler, Main

LEMMA StepInv == IInv /\ [Next]_vars => IInv'
  BY MuStep, RegisteredStep, ExitStep, CountStep, TypeStep DEF IInv

LEMMA Invariance == Spec => []IInv
<1>1. Init => IInv
  BY InitInv
<1>2. IInv /\ [Next]_vars => IInv'
  BY StepInv
<1> QED
  BY <1>1, <1>2, PTL DEF Spec

(***************************************************************************)
(* Every variable keeps its type: the counter of the wait group, which     *)
(* would panic below zero, is never negative.                              *)
(***************************************************************************)
THEOREM TypeCorrect == Spec => []TypeOK
<1>1. IInv => TypeOK
  BY DEF IInv
<1> QED
  BY Invariance, <1>1, PTL

(***************************************************************************)
(* However many requests there are, no more than Max connections are open  *)
(* or being upgraded, although the lock is held across the upgrade and the *)
(* map is filled only after it (SetupConnection).                          *)
(***************************************************************************)
THEOREM KeepsLimit == Spec => []LimitRespected
<1>1. IInv => LimitRespected
  <2> SUFFICES ASSUME IInv PROVE LimitRespected
    OBVIOUS
  <2> DEFINE upgrading == {c \in Conn : pc[c] \in {"upgrade", "hijacked"}}
  <2>1. upgrading = IF mu = None THEN {} ELSE {mu}
    BY WebServicesAssumption DEF IInv, MuInv, TypeOK
  <2>2. CASE mu = None
    <3>1. connections \cup upgrading = connections
      BY <2>1, <2>2
    <3> QED
      BY <3>1 DEF IInv, CountInv, LimitRespected
  <2>3. CASE mu # None
    <3>1. connections \cup upgrading = connections \cup {mu} /\ mu \notin connections
      BY <2>1, <2>3 DEF IInv, MuInv, RegisteredInv, Working, TypeOK
    <3>2. Cardinality(connections \cup {mu}) = Cardinality(connections) + 1
      BY <3>1, FS_AddElement DEF IInv, CountInv
    <3>3. Cardinality(connections) + 1 <= Max
      BY <2>3, FS_CardinalityType, WebServicesAssumption DEF IInv, CountInv
    <3> QED
      BY <3>1, <3>2, <3>3 DEF LimitRespected
  <2> QED
    BY <2>2, <2>3
<1> QED
  BY Invariance, <1>1, PTL

(***************************************************************************)
(* The wait group and the map agree in every state, although the handler   *)
(* and the shutdown goroutine of the file manager both tear a connection   *)
(* down (TeardownConnection).                                              *)
(***************************************************************************)
THEOREM CountsAgree == Spec => []CountAgrees
<1>1. IInv => CountAgrees
  BY DEF IInv, CountInv, CountAgrees
<1> QED
  BY Invariance, <1>1, PTL

(***************************************************************************)
(* A handler that has something to give back is registered (the order of   *)
(* clean-up and teardown in the handlers).                                 *)
(***************************************************************************)
THEOREM HeldStaysRegistered == Spec => []HeldIsRegistered
<1>1. IInv => HeldIsRegistered
  BY DEF IInv, TypeOK, RegisteredInv, Working, HeldIsRegistered
<1> QED
  BY Invariance, <1>1, PTL

(***************************************************************************)
(* main exits after the handlers it knows of: Wait, in main, together with *)
(* the order of clean-up and teardown in the handlers.                     *)
(***************************************************************************)
THEOREM ExitsAfterHandlers == Spec => []ExitAfterHandlers
<1>1. IInv => ExitAfterHandlers
  BY DEF IInv, TypeOK, RegisteredInv, ExitInv, ExitAfterHandlers
<1> QED
  BY Invariance, <1>1, PTL

(***************************************************************************)
(* Both: whoever holds something is counted, up to the exit.               *)
(***************************************************************************)
THEOREM CountsHandlers == Spec => []HandlersCounted
BY HeldStaysRegistered, ExitsAfterHandlers, PTL DEF HandlersCounted
=============================================================================
