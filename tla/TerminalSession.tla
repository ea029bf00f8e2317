-------------------------- MODULE TerminalSession ---------------------------
(***************************************************************************)
(* One session of the web terminal (src/webservices/terminal.go): the      *)
(* handler starts a shell on a pseudo-terminal and two goroutines that     *)
(* copy, the reader from the terminal to the WebSocket and the writer from *)
(* the WebSocket to the terminal.  Whichever ends first, or a shutdown,    *)
(* makes the handler kill the shell, close both ends and wait.             *)
(*                                                                         *)
(* Output and input are counted in blocks.  External: when the shell, the  *)
(* leader of the session, dies, the system hangs the terminal up, and a    *)
(* read returns what is left of the output, then EIO; closing the master   *)
(* side interrupts a read or a write of it.                                *)
(***************************************************************************)
EXTENDS Integers

CONSTANTS
  InCap,        \* blocks of input the terminal holds
  MaxOut,       \* bound of the model: blocks the shell writes
  Dim,          \* numbers of columns and rows a client asks for
  MaxCols,      \* largest number of columns accepted
  MaxRows       \* largest number of rows accepted

ASSUME TerminalAssumption ==
  /\ InCap \in Nat \ {0} /\ MaxOut \in Nat
  /\ Dim \subseteq Int /\ MaxCols \in Nat /\ MaxRows \in Nat

VARIABLES
  stopping,     \* appCtx is done
  main,         \* the handler
  reader,       \* terminal to WebSocket
  writer,       \* WebSocket to terminal
  closeRequested, \* ptyCloseRequested
  shell,        \* "none", "running", "killed", "dead" (a zombie), "reaped"
  ptmx,         \* "none", "open", "closed"
  connected,    \* the WebSocket is open on this side
  peer,         \* the browser: "open" or "gone"
  size,         \* columns and rows of the terminal
  inq,          \* blocks of input the shell has not read
  outq,         \* blocks of output nobody has read
  written,      \* history: blocks of output of the shell
  forwarded,    \* history: blocks of output written to the WebSocket
  exited,       \* history: the shell exited by itself
  told,         \* history: the close message was written to the WebSocket
  waited        \* history: the client had its time after it

ptyVars == <<shell, ptmx, size, inq, outq, written, exited>>
wsVars  == <<connected, peer, forwarded, told, waited>>
vars == <<stopping, main, reader, writer, closeRequested, ptyVars, wsVars>>

Init ==
  /\ stopping = FALSE /\ closeRequested = FALSE
  /\ main = "start" /\ reader = "none" /\ writer = "none"
  /\ shell = "none" /\ ptmx = "none" /\ size = <<0, 0>>
  /\ inq = 0 /\ outq = 0 /\ written = 0 /\ exited = FALSE
  /\ connected = TRUE /\ peer = "open" /\ forwarded = 0 /\ told = FALSE /\ waited = FALSE

Alive == shell \in {"running", "killed"}

\* done is closed when a goroutine ends.
Done == reader = "over" \/ writer = "over"

-----------------------------------------------------------------------------
(* The handler                                                             *)

Start ==
  /\ main = "start"
  /\ main' = "loop" /\ reader' = "read" /\ writer' = "read"
  /\ shell' = "running" /\ ptmx' = "open"
  /\ UNCHANGED <<stopping, closeRequested, size, inq, outq, written, exited, wsVars>>

\* pty.Start fails: the deferred closeConn.
StartFails ==
  /\ main = "start"
  /\ main' = "returned" /\ connected' = FALSE
  /\ UNCHANGED <<stopping, reader, writer, closeRequested, ptyVars, peer, forwarded, told, waited>>

\* closePty records that the closure is requested before it kills the shell.
LeaveLoop ==
  /\ main = "loop" /\ (stopping \/ Done)
  /\ main' = "kill" /\ closeRequested' = TRUE
  /\ UNCHANGED <<stopping, reader, writer, ptyVars, wsVars>>

Kill ==
  /\ main = "kill"
  /\ main' = "reap"
  /\ shell' = IF shell = "running" THEN "killed" ELSE shell
  /\ UNCHANGED <<stopping, reader, writer, closeRequested, ptmx, size, inq, outq, written,
                 exited, wsVars>>

Reap ==
  /\ main = "reap" /\ shell = "dead"
  /\ main' = "closePtmx" /\ shell' = "reaped"
  /\ UNCHANGED <<stopping, reader, writer, closeRequested, ptmx, size, inq, outq, written,
                 exited, wsVars>>

ClosePtmx ==
  /\ main = "closePtmx"
  /\ main' = "closeConn" /\ ptmx' = "closed"
  /\ UNCHANGED <<stopping, reader, writer, closeRequested, shell, size, inq, outq, written,
                 exited, wsVars>>

\* Mutant: the WebSocket is left to the deferred call, after the wait.
MutCloseConn ==
  /\ main = "closeConn"
  /\ main' = "wait"
  /\ UNCHANGED <<stopping, reader, writer, closeRequested, ptyVars, wsVars>>

CloseConn ==
  /\ main = "closeConn"
  /\ main' = "wait" /\ connected' = FALSE
  /\ UNCHANGED <<stopping, reader, writer, closeRequested, ptyVars, peer, forwarded, told, waited>>

\* Mutant: the handler waits for one goroutine only.
MutReturn ==
  /\ main = "wait" /\ Done
  /\ main' = "returned"
  /\ UNCHANGED <<stopping, reader, writer, closeRequested, ptyVars, wsVars>>

Return ==
  /\ main = "wait" /\ reader = "over" /\ writer = "over"
  /\ main' = "returned"
  /\ UNCHANGED <<stopping, reader, writer, closeRequested, ptyVars, wsVars>>

-----------------------------------------------------------------------------
(* The reader                                                              *)

ReadOutput ==
  /\ reader = "read" /\ ptmx = "open" /\ outq > 0
  /\ reader' = "forward" /\ outq' = outq - 1
  /\ UNCHANGED <<stopping, main, writer, closeRequested, shell, ptmx, size, inq, written,
                 exited, wsVars>>

ReadEIO ==
  /\ reader = "read" /\ ptmx = "open" /\ ~Alive /\ outq = 0
  /\ reader' = "exited"
  /\ UNCHANGED <<stopping, main, writer, closeRequested, ptyVars, wsVars>>

\* Any other error: the terminal was closed under the read.
ReadFails ==
  /\ reader = "read" /\ ptmx = "closed"
  /\ reader' = "over"
  /\ UNCHANGED <<stopping, main, writer, closeRequested, ptyVars, wsVars>>

\* The system takes what is written to a client that is gone, for a while.
Forward ==
  /\ reader = "forward" /\ connected
  /\ reader' = "read" /\ forwarded' = forwarded + 1
  /\ UNCHANGED <<stopping, main, writer, closeRequested, ptyVars, connected, peer, told, waited>>

\* Closed on this side or by the client, or not taken within writeWait.
ForwardFails ==
  /\ reader = "forward"
  /\ reader' = "over"
  /\ UNCHANGED <<stopping, main, writer, closeRequested, ptyVars, wsVars>>

CheckRequested ==
  /\ reader = "exited"
  /\ reader' = IF closeRequested THEN "over" ELSE "tell"
  /\ UNCHANGED <<stopping, main, writer, closeRequested, ptyVars, wsVars>>

\* Mutant: the goroutine ends without giving the client time.
MutTell ==
  /\ reader = "tell" /\ connected
  /\ reader' = "over" /\ told' = TRUE
  /\ UNCHANGED <<stopping, main, writer, closeRequested, ptyVars, connected, peer, forwarded, waited>>

Tell ==
  /\ reader = "tell" /\ connected
  /\ reader' = "sleep" /\ told' = TRUE
  /\ UNCHANGED <<stopping, main, writer, closeRequested, ptyVars, connected, peer, forwarded, waited>>

TellFails ==
  /\ reader = "tell"
  /\ reader' = "over"
  /\ UNCHANGED <<stopping, main, writer, closeRequested, ptyVars, wsVars>>

Wake ==
  /\ reader = "sleep"
  /\ reader' = "over" /\ waited' = TRUE
  /\ UNCHANGED <<stopping, main, writer, closeRequested, ptyVars, connected, peer, forwarded, told>>

-----------------------------------------------------------------------------
(* The writer                                                              *)

ReceiveInput ==
  /\ writer = "read" /\ connected /\ peer = "open"
  /\ writer' = "input"
  /\ UNCHANGED <<stopping, main, reader, closeRequested, ptyVars, wsVars>>

ValidSize(cols, rows) == cols \in 1..MaxCols /\ rows \in 1..MaxRows

\* A resize that is out of bounds, or comes too late, is only logged.
ReceiveResize(cols, rows) ==
  /\ writer = "read" /\ connected /\ peer = "open"
  /\ size' = IF ValidSize(cols, rows) /\ ptmx = "open" THEN <<cols, rows>> ELSE size
  /\ UNCHANGED <<stopping, main, reader, writer, closeRequested, shell, ptmx, inq, outq,
                 written, exited, wsVars>>

ReceiveFails ==
  /\ writer = "read" /\ (~connected \/ peer = "gone")
  /\ writer' = "over"
  /\ UNCHANGED <<stopping, main, reader, closeRequested, ptyVars, wsVars>>

\* Blocks while the terminal has no room.
WriteInput ==
  /\ writer = "input" /\ ptmx = "open" /\ inq < InCap
  /\ writer' = "read" /\ inq' = inq + 1
  /\ UNCHANGED <<stopping, main, reader, closeRequested, shell, ptmx, size, outq, written,
                 exited, wsVars>>

WriteInputFails ==
  /\ writer = "input" /\ (ptmx = "closed" \/ ~Alive)
  /\ writer' = "over"
  /\ UNCHANGED <<stopping, main, reader, closeRequested, ptyVars, wsVars>>

-----------------------------------------------------------------------------
(* The shell, the browser and the signal                                   *)

ShellReads ==
  /\ Alive /\ inq > 0
  /\ inq' = inq - 1
  /\ UNCHANGED <<stopping, main, reader, writer, closeRequested, shell, ptmx, size, outq,
                 written, exited, wsVars>>

ShellWrites ==
  /\ Alive /\ written < MaxOut
  /\ outq' = outq + 1 /\ written' = written + 1
  /\ UNCHANGED <<stopping, main, reader, writer, closeRequested, shell, ptmx, size, inq,
                 exited, wsVars>>

ShellExits ==
  /\ shell = "running"
  /\ shell' = "dead" /\ exited' = TRUE
  /\ UNCHANGED <<stopping, main, reader, writer, closeRequested, ptmx, size, inq, outq,
                 written, wsVars>>

ShellDies ==
  /\ shell = "killed"
  /\ shell' = "dead"
  /\ UNCHANGED <<stopping, main, reader, writer, closeRequested, ptmx, size, inq, outq,
                 written, exited, wsVars>>

PeerLeaves ==
  /\ peer = "open"
  /\ peer' = "gone"
  /\ UNCHANGED <<stopping, main, reader, writer, closeRequested, ptyVars, connected,
                 forwarded, told, waited>>

ShutdownSignal ==
  /\ ~stopping
  /\ stopping' = TRUE
  /\ UNCHANGED <<main, reader, writer, closeRequested, ptyVars, wsVars>>

Handler == Start \/ StartFails \/ LeaveLoop \/ Kill \/ Reap \/ ClosePtmx \/ CloseConn \/ Return

Reader ==
  \/ ReadOutput \/ ReadEIO \/ ReadFails \/ Forward \/ ForwardFails
  \/ CheckRequested \/ Tell \/ TellFails \/ Wake

Writer ==
  \/ ReceiveInput \/ ReceiveFails \/ WriteInput \/ WriteInputFails
  \/ \E cols, rows \in Dim : ReceiveResize(cols, rows)

Environment == ShellReads \/ ShellWrites \/ ShellExits \/ ShellDies \/ PeerLeaves \/ ShutdownSignal

Next == Handler \/ Reader \/ Writer \/ Environment

Spec == Init /\ [][Next]_vars

\* Goroutines that can run do, a killed process dies.  Nothing is assumed of
\* what the shell reads, writes or when it exits, or of the browser.
FairSpec ==
  /\ Spec /\ WF_vars(Handler) /\ WF_vars(Reader) /\ WF_vars(ShellDies)
  /\ WF_vars(ReceiveFails) /\ WF_vars(WriteInput) /\ WF_vars(WriteInputFails)

-----------------------------------------------------------------------------
TypeOK ==
  /\ stopping \in BOOLEAN /\ closeRequested \in BOOLEAN /\ connected \in BOOLEAN
  /\ main \in {"start", "loop", "kill", "reap", "closePtmx", "closeConn", "wait", "returned"}
  /\ reader \in {"none", "read", "forward", "exited", "tell", "sleep", "over"}
  /\ writer \in {"none", "read", "input", "over"}
  /\ shell \in {"none", "running", "killed", "dead", "reaped"}
  /\ ptmx \in {"none", "open", "closed"} /\ peer \in {"open", "gone"}
  /\ size \in {<<0, 0>>} \cup (1..MaxCols) \X (1..MaxRows)
  /\ inq \in 0..InCap /\ outq \in Nat /\ written \in Nat /\ forwarded \in Nat
  /\ exited \in BOOLEAN /\ told \in BOOLEAN /\ waited \in BOOLEAN

\* The close message tells the client that its shell exited: it is sent only when
\* the shell did so by itself, not because the handler killed it, and after every
\* block of the shell's output.
ExitReported == told => exited /\ forwarded = written

\* "Give some time to the peer to process the message": once the client was told,
\* the WebSocket is closed after the two seconds, unless for a shutdown or because
\* the writer has ended (the client left, or typed into the dead terminal).
GraceKept ==
  [][told /\ connected /\ ~connected' => waited \/ stopping \/ writer = "over"]_vars

\* What the client is told is true, and it has the time to hear it.
ClientTold == []ExitReported /\ GraceKept

\* The handler leaves nothing behind: no goroutine, no process, no zombie, no
\* descriptor, no registered connection.
NothingLeft ==
  main = "returned" =>
    /\ reader \in {"none", "over"} /\ writer \in {"none", "over"}
    /\ shell \in {"none", "reaped"} /\ ptmx # "open" /\ ~connected

\* A shutdown and the exit of the shell end the session: the handler never waits
\* for a goroutine that waits for the terminal or for the client.
SessionEnds == (stopping \/ exited) ~> (main = "returned")

\* A session outlives its client only while its shell does not read its input and
\* the writer, which would see the client leave, waits for room in the terminal.
OutlivesOnlyWhenStuck ==
  []<>(peer = "open" \/ main = "returned") \/ <>[](writer = "input" /\ inq = InCap)

\* A session ends, for every reason it may end for but the one named.
SessionIsOver == SessionEnds /\ OutlivesOnlyWhenStuck
=============================================================================
