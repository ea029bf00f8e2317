--------------------------- MODULE TerminalProofs ---------------------------
(***************************************************************************)
(* Proofs about TerminalSession, for every capacity, output and set of     *)
(* sizes.                                                                  *)
(***************************************************************************)
EXTENDS TerminalSession, TLAPS

Closing == {"kill", "reap", "closePtmx", "closeConn", "wait"}

\* What the handler has done at each of its steps.
HandlerInv ==
  /\ main = "start" => reader = "none" /\ writer = "none" /\ shell = "none" /\ ptmx = "none"
  /\ ptmx = "open" => shell # "none"
  /\ main \in {"closePtmx", "closeConn", "wait"} => shell = "reaped"
  /\ main \in {"closeConn", "wait"} => ptmx = "closed"
  /\ main = "wait" => ~connected
  /\ main \in Closing => closeRequested /\ (stopping \/ Done)

\* A shell that is dead, and did not exit by itself, was killed on request.
ShellInv ==
  shell \in {"killed", "dead", "reaped"} /\ ~exited => closeRequested

\* What the reader knows of the shell: nothing is lost before it ends.
ReaderInv ==
  /\ reader \in {"none", "read", "exited", "tell", "sleep"} => forwarded + outq = written
  /\ reader = "forward" => forwarded + outq + 1 = written
  /\ reader \in {"exited", "tell", "sleep"} \/ told => ~Alive /\ shell # "none" /\ outq = 0
  /\ reader = "tell" => exited
  /\ told => exited /\ forwarded = written /\ (reader = "sleep" \/ (reader = "over" /\ waited))

IInv == TypeOK /\ HandlerInv /\ ShellInv /\ ReaderInv /\ NothingLeft

LEMMA InitInv == Init => IInv
<1> SUFFICES ASSUME Init PROVE IInv
  OBVIOUS
<1>1. TypeOK
  <2>1. stopping \in BOOLEAN /\ closeRequested \in BOOLEAN /\ connected \in BOOLEAN
        /\ exited \in BOOLEAN /\ told \in BOOLEAN /\ waited \in BOOLEAN
    BY Zenon DEF Init
  <2>2. inq \in 0..InCap /\ outq \in Nat /\ written \in Nat /\ forwarded \in Nat
    BY TerminalAssumption DEF Init
  <2>3. size \in {<<0, 0>>} \cup (1..MaxCols) \X (1..MaxRows)
    BY DEF Init
  <2> QED
    BY <2>1, <2>2, <2>3 DEF Init, TypeOK
<1>2. HandlerInv /\ ShellInv /\ ReaderInv /\ NothingLeft
  BY DEF Init, HandlerInv, ShellInv, ReaderInv, NothingLeft, Closing
<1> QED
  BY <1>1, <1>2 DEF IInv

LEMMA TypeStep == TypeOK /\ [Next]_vars => TypeOK'
<1> SUFFICES ASSUME TypeOK, [Next]_vars PROVE TypeOK'
  OBVIOUS
<1> USE TerminalAssumption DEF TypeOK, ptyVars, wsVars
<1>1. CASE Start
  BY <1>1 DEF Start
<1>2. CASE StartFails
  <2>1. connected' \in BOOLEAN
    BY <1>2, Zenon DEF StartFails
  <2> QED
    BY <1>2, <2>1 DEF StartFails
<1>3. CASE LeaveLoop
  BY <1>3 DEF LeaveLoop
<1>4. CASE Kill
  BY <1>4 DEF Kill
<1>5. CASE Reap
  BY <1>5 DEF Reap
<1>6. CASE ClosePtmx
  BY <1>6 DEF ClosePtmx
<1>7. CASE CloseConn
  <2>1. connected' \in BOOLEAN
    BY <1>7, Zenon DEF CloseConn
  <2> QED
    BY <1>7, <2>1 DEF CloseConn
<1>8. CASE Return
  BY <1>8 DEF Return
<1>9. CASE ReadOutput
  BY <1>9 DEF ReadOutput
<1>10. CASE ReadEIO
  BY <1>10 DEF ReadEIO
<1>11. CASE ReadFails
  BY <1>11 DEF ReadFails
<1>12. CASE Forward
  BY <1>12 DEF Forward
<1>13. CASE ForwardFails
  BY <1>13 DEF ForwardFails
<1>14. CASE CheckRequested
  BY <1>14 DEF CheckRequested
<1>15. CASE Tell
  BY <1>15 DEF Tell
<1>16. CASE TellFails
  BY <1>16 DEF TellFails
<1>17. CASE Wake
  BY <1>17 DEF Wake
<1>18. CASE ReceiveInput
  BY <1>18 DEF ReceiveInput
<1>19. CASE ReceiveFails
  BY <1>19 DEF ReceiveFails
<1>20. CASE WriteInput
  BY <1>20 DEF WriteInput
<1>21. CASE WriteInputFails
  BY <1>21 DEF WriteInputFails
<1>22. ASSUME NEW cols \in Dim, NEW rows \in Dim, ReceiveResize(cols, rows) PROVE TypeOK'
  BY <1>22 DEF ReceiveResize, ValidSize
<1>23. CASE ShellReads
  BY <1>23 DEF ShellReads
<1>24. CASE ShellWrites
  BY <1>24 DEF ShellWrites
<1>25. CASE ShellExits
  BY <1>25 DEF ShellExits
<1>26. CASE ShellDies
  BY <1>26 DEF ShellDies
<1>27. CASE PeerLeaves
  BY <1>27 DEF PeerLeaves
<1>28. CASE ShutdownSignal
  BY <1>28 DEF ShutdownSignal
<1>29. CASE UNCHANGED vars
  BY <1>29 DEF vars
<1> QED
  BY <1>1, <1>2, <1>3, <1>4, <1>5, <1>6, <1>7, <1>8, <1>9, <1>10, <1>11, <1>12, <1>13, <1>14, <1>15, <1>16, <1>17, <1>18, <1>19, <1>20, <1>21, <1>22, <1>23, <1>24, <1>25, <1>26, <1>27, <1>28, <1>29
  DEF Next, Handler, Reader, Writer, Environment

LEMMA HandlerStep == TypeOK /\ HandlerInv /\ NothingLeft /\ [Next]_vars => (HandlerInv /\ NothingLeft)'
<1> SUFFICES ASSUME TypeOK /\ HandlerInv /\ NothingLeft, [Next]_vars PROVE HandlerInv' /\ NothingLeft'
  OBVIOUS
<1> USE DEF HandlerInv, NothingLeft, Closing, Done, ptyVars, wsVars
<1>1. CASE Start
  BY <1>1 DEF Start
<1>2. CASE StartFails
  BY <1>2 DEF StartFails
<1>3. CASE LeaveLoop
  BY <1>3 DEF LeaveLoop
<1>4. CASE Kill
  BY <1>4 DEF Kill
<1>5. CASE Reap
  BY <1>5 DEF Reap
<1>6. CASE ClosePtmx
  BY <1>6 DEF ClosePtmx
<1>7. CASE CloseConn
  BY <1>7 DEF CloseConn
<1>8. CASE Return
  BY <1>8 DEF Return
<1>9. CASE ReadOutput
  BY <1>9 DEF ReadOutput
<1>10. CASE ReadEIO
  BY <1>10 DEF ReadEIO
<1>11. CASE ReadFails
  BY <1>11 DEF ReadFails
<1>12. CASE Forward
  BY <1>12 DEF Forward
<1>13. CASE ForwardFails
  BY <1>13 DEF ForwardFails
<1>14. CASE CheckRequested
  BY <1>14 DEF CheckRequested
<1>15. CASE Tell
  BY <1>15 DEF Tell
<1>16. CASE TellFails
  BY <1>16 DEF TellFails
<1>17. CASE Wake
  BY <1>17 DEF Wake
<1>18. CASE ReceiveInput
  BY <1>18 DEF ReceiveInput
<1>19. CASE ReceiveFails
  BY <1>19 DEF ReceiveFails
<1>20. CASE WriteInput
  BY <1>20 DEF WriteInput
<1>21. CASE WriteInputFails
  BY <1>21 DEF WriteInputFails
<1>22. ASSUME NEW cols \in Dim, NEW rows \in Dim, ReceiveResize(cols, rows) PROVE HandlerInv' /\ NothingLeft'
  BY <1>22 DEF ReceiveResize, ValidSize
<1>23. CASE ShellReads
  BY <1>23 DEF ShellReads
<1>24. CASE ShellWrites
  BY <1>24 DEF ShellWrites
<1>25. CASE ShellExits
  BY <1>25 DEF ShellExits
<1>26. CASE ShellDies
  BY <1>26 DEF ShellDies
<1>27. CASE PeerLeaves
  BY <1>27 DEF PeerLeaves
<1>28. CASE ShutdownSignal
  BY <1>28 DEF ShutdownSignal
<1>29. CASE UNCHANGED vars
  BY <1>29 DEF vars
<1> QED
  BY <1>1, <1>2, <1>3, <1>4, <1>5, <1>6, <1>7, <1>8, <1>9, <1>10, <1>11, <1>12, <1>13, <1>14, <1>15, <1>16, <1>17, <1>18, <1>19, <1>20, <1>21, <1>22, <1>23, <1>24, <1>25, <1>26, <1>27, <1>28, <1>29
  DEF Next, Handler, Reader, Writer, Environment

LEMMA ReaderStep == TypeOK /\ HandlerInv /\ ShellInv /\ ReaderInv /\ [Next]_vars => (ShellInv /\ ReaderInv)'
<1> SUFFICES ASSUME TypeOK /\ HandlerInv /\ ShellInv /\ ReaderInv, [Next]_vars PROVE ShellInv' /\ ReaderInv'
  OBVIOUS
<1> USE DEF TypeOK, HandlerInv, ShellInv, ReaderInv, Closing, Alive, ptyVars, wsVars
<1>1. CASE Start
  BY <1>1 DEF Start
<1>2. CASE StartFails
  BY <1>2 DEF StartFails
<1>3. CASE LeaveLoop
  BY <1>3 DEF LeaveLoop
<1>4. CASE Kill
  BY <1>4 DEF Kill
<1>5. CASE Reap
  BY <1>5 DEF Reap
<1>6. CASE ClosePtmx
  BY <1>6 DEF ClosePtmx
<1>7. CASE CloseConn
  BY <1>7 DEF CloseConn
<1>8. CASE Return
  BY <1>8 DEF Return
<1>9. CASE ReadOutput
  BY <1>9 DEF ReadOutput
<1>10. CASE ReadEIO
  BY <1>10 DEF ReadEIO
<1>11. CASE ReadFails
  BY <1>11 DEF ReadFails
<1>12. CASE Forward
  BY <1>12 DEF Forward
<1>13. CASE ForwardFails
  BY <1>13 DEF ForwardFails
<1>14. CASE CheckRequested
  BY <1>14 DEF CheckRequested
<1>15. CASE Tell
  BY <1>15 DEF Tell
<1>16. CASE TellFails
  BY <1>16 DEF TellFails
<1>17. CASE Wake
  BY <1>17 DEF Wake
<1>18. CASE ReceiveInput
  BY <1>18 DEF ReceiveInput
<1>19. CASE ReceiveFails
  BY <1>19 DEF ReceiveFails
<1>20. CASE WriteInput
  BY <1>20 DEF WriteInput
<1>21. CASE WriteInputFails
  BY <1>21 DEF WriteInputFails
<1>22. ASSUME NEW cols \in Dim, NEW rows \in Dim, ReceiveResize(cols, rows) PROVE ShellInv' /\ ReaderInv'
  BY <1>22 DEF ReceiveResize, ValidSize
<1>23. CASE ShellReads
  BY <1>23 DEF ShellReads
<1>24. CASE ShellWrites
  BY <1>24 DEF ShellWrites
<1>25. CASE ShellExits
  BY <1>25 DEF ShellExits
<1>26. CASE ShellDies
  BY <1>26 DEF ShellDies
<1>27. CASE PeerLeaves
  BY <1>27 DEF PeerLeaves
<1>28. CASE ShutdownSignal
  BY <1>28 DEF ShutdownSignal
<1>29. CASE UNCHANGED vars
  BY <1>29 DEF vars
<1> QED
  BY <1>1, <1>2, <1>3, <1>4, <1>5, <1>6, <1>7, <1>8, <1>9, <1>10, <1>11, <1>12, <1>13, <1>14, <1>15, <1>16, <1>17, <1>18, <1>19, <1>20, <1>21, <1>22, <1>23, <1>24, <1>25, <1>26, <1>27, <1>28, <1>29
  DEF Next, Handler, Reader, Writer, Environment

LEMMA StepInv == IInv /\ [Next]_vars => IInv'
  BY TypeStep, HandlerStep, ReaderStep DEF IInv

LEMMA Invariance == Spec => []IInv
<1>1. Init => IInv
  BY InitInv
<1>2. IInv /\ [Next]_vars => IInv'
  BY StepInv
<1> QED
  BY <1>1, <1>2, PTL DEF Spec

-----------------------------------------------------------------------------
\* Every variable keeps its type; a resize never sets a size out of bounds.
THEOREM TypeCorrect == Spec => []TypeOK
<1>1. IInv => TypeOK
  BY DEF IInv
<1> QED
  BY <1>1, Invariance, PTL

\* The close message is sent only when the shell exited by itself, after all of
\* its output.
THEOREM ReportsExits == Spec => []ExitReported
<1>1. IInv => ExitReported
  BY DEF IInv, ReaderInv, ExitReported
<1> QED
  BY <1>1, Invariance, PTL

\* A handler that returned left no goroutine, process, descriptor or connection.
THEOREM LeavesNothing == Spec => []NothingLeft
<1>1. IInv => NothingLeft
  BY DEF IInv
<1> QED
  BY <1>1, Invariance, PTL

\* A client that was told has its time, unless for a shutdown or because it left.
THEOREM KeepsGrace == Spec => GraceKept
<1>1. IInv /\ [Next]_vars => [told /\ connected /\ ~connected' => waited \/ stopping \/ writer = "over"]_vars
  <2> SUFFICES ASSUME IInv, Next, told, connected, ~connected'
               PROVE  waited \/ stopping \/ writer = "over"
    BY DEF vars
  <2> USE DEF IInv, HandlerInv, ReaderInv, Closing, Done
  <2>1. StartFails \/ CloseConn
    BY DEF Next, Handler, Reader, Writer, Environment, ptyVars, wsVars, Start, LeaveLoop, Kill,
       Reap, ClosePtmx, Return, ReadOutput, ReadEIO, ReadFails, Forward, ForwardFails,
       CheckRequested, Tell, TellFails, Wake, ReceiveInput, ReceiveFails, WriteInput,
       WriteInputFails, ReceiveResize, ShellReads, ShellWrites, ShellExits, ShellDies,
       PeerLeaves, ShutdownSignal
  <2>2. CASE StartFails
    BY <2>2 DEF StartFails
  <2>3. CASE CloseConn
    BY <2>3 DEF CloseConn
  <2> QED
    BY <2>1, <2>2, <2>3
<1> QED
  BY <1>1, Invariance, PTL DEF Spec, GraceKept

\* The client is told the truth about its shell, and in time.
THEOREM TellsClient == Spec => ClientTold
BY ReportsExits, KeepsGrace, PTL DEF ClientTold
=============================================================================
