-------------------------- MODULE NotificationHub ---------------------------
(***************************************************************************)
(* Desktop notifications (src/webservices/notification.go): D-Bus calls of *)
(* Notify, each in a goroutine of its own, hand a message to every web     *)
(* client through a bounded channel; the handler of a client forwards them *)
(* and notices that its client is gone by a failed read, a failed write or *)
(* a missing pong.                                                         *)
(*                                                                         *)
(* A message is its rank in the order in which the calls took clientsMutex. *)
(* The model starts with any number of notifications already sent: nextID  *)
(* is a constant, near the point where the counter wraps.                  *)
(***************************************************************************)
EXTENDS Integers, FiniteSets, Sequences

CONSTANTS
  Client,       \* WebSocket connections of notification clients
  Caller,       \* goroutines that serve a D-Bus call
  Buffer,       \* capacity of a client's channel (16)
  IdMod,        \* number of values of a notification id (2^32)
  FirstId,      \* nextID when the model starts
  Replaced,     \* values of replaces_id the callers use, apart from 0
  MaxMessages,  \* bound of the model: notifications
  None          \* nobody

ASSUME NotificationHubAssumption ==
  /\ Buffer \in Nat \ {0} /\ IdMod \in Nat \ {0, 1}
  /\ FirstId \in 0..IdMod - 1 /\ Replaced \subseteq 1..IdMod - 1
  /\ MaxMessages \in Nat /\ None \notin Caller

VARIABLES
  stopping,     \* appCtx is done
  nextID,       \* Notifications.nextID
  call,         \* the call each D-Bus goroutine serves
  clientsMutex, \* the call that holds it, or None
  clients,      \* registered clients
  ch,           \* the channel of each client
  main,         \* the handler of each client: "none", "loop", "leaving", "closed"
  readCh,       \* clients whose reader has reported an error
  peer,         \* the browser: "alive", "silent" (answers no ping) or "gone"
  deadline,     \* clients whose connection has a read deadline
  sent,         \* notifications whose call has taken the lock
  joined,       \* history: value of sent when the client registered
  delivered     \* history: messages written to the client, in order

clientVars == <<clients, ch, main, readCh, peer, deadline, joined, delivered>>
callVars   == <<nextID, call, clientsMutex, sent>>
vars == <<stopping, callVars, clientVars>>

\* A call at pc, for the id, which is a new one or not.
Calling(pc, id, new) == [pc |-> pc, id |-> id, new |-> new, todo |-> {}]

IdleCall == Calling("idle", 0, FALSE)

Init ==
  /\ stopping = FALSE
  /\ nextID = FirstId
  /\ call = [k \in Caller |-> IdleCall] /\ clientsMutex = None
  /\ clients = {} /\ readCh = {} /\ deadline = {}
  /\ ch = [c \in Client |-> <<>>]
  /\ main = [c \in Client |-> "none"] /\ peer = [c \in Client |-> "alive"]
  /\ sent = 0 /\ joined = [c \in Client |-> 0] /\ delivered = [c \in Client |-> <<>>]

-----------------------------------------------------------------------------
(* Notify                                                                  *)

Next1 == (nextID + 1) % IdMod

\* Bound of the model.
MayCall == sent + Cardinality({k \in Caller : call[k].pc \in {"again", "lock"}}) < MaxMessages

\* Mutant: a wrapped counter is handed out.
MutNotifyNew(k) ==
  /\ call[k].pc = "idle" /\ MayCall
  /\ nextID' = Next1
  /\ call' = [call EXCEPT ![k] = Calling("lock", Next1, TRUE)]
  /\ UNCHANGED <<stopping, clientsMutex, sent, clientVars>>

\* replacesID = 0: a new id, and once more if the counter wrapped to 0.
NotifyNew(k) ==
  /\ call[k].pc = "idle" /\ MayCall
  /\ nextID' = Next1
  /\ call' = [call EXCEPT ![k] = Calling(IF Next1 = 0 THEN "again" ELSE "lock", Next1, TRUE)]
  /\ UNCHANGED <<stopping, clientsMutex, sent, clientVars>>

NotifyAgain(k) ==
  /\ call[k].pc = "again"
  /\ nextID' = Next1
  /\ call' = [call EXCEPT ![k] = Calling("lock", Next1, TRUE)]
  /\ UNCHANGED <<stopping, clientsMutex, sent, clientVars>>

NotifyReplaces(k, id) ==
  /\ call[k].pc = "idle" /\ MayCall
  /\ call' = [call EXCEPT ![k] = Calling("lock", id, FALSE)]
  /\ UNCHANGED <<stopping, nextID, clientsMutex, sent, clientVars>>

\* Mutant: the call sends without taking clientsMutex.
MutNotifyLock(k) ==
  /\ call[k].pc = "lock"
  /\ sent' = sent + 1
  /\ call' = [call EXCEPT ![k].pc = "send", ![k].todo = clients]
  /\ UNCHANGED <<stopping, nextID, clientsMutex, clientVars>>

NotifyLock(k) ==
  /\ call[k].pc = "lock" /\ clientsMutex = None
  /\ clientsMutex' = k
  /\ sent' = sent + 1
  /\ call' = [call EXCEPT ![k].pc = "send", ![k].todo = clients]
  /\ UNCHANGED <<stopping, nextID, clientVars>>

\* Mutant: the send blocks.
MutNotifySend(k, c) ==
  /\ call[k].pc = "send" /\ c \in call[k].todo
  /\ Len(ch[c]) < Buffer
  /\ ch' = [ch EXCEPT ![c] = Append(@, sent)]
  /\ call' = [call EXCEPT ![k].todo = @ \ {c}]
  /\ UNCHANGED <<stopping, nextID, clientsMutex, sent, clients, main, readCh, peer, deadline,
                 joined, delivered>>

\* A client whose channel is full misses the message.
NotifySend(k, c) ==
  /\ call[k].pc = "send" /\ c \in call[k].todo
  /\ ch' = IF Len(ch[c]) < Buffer THEN [ch EXCEPT ![c] = Append(@, sent)] ELSE ch
  /\ call' = [call EXCEPT ![k].todo = @ \ {c}]
  /\ UNCHANGED <<stopping, nextID, clientsMutex, sent, clients, main, readCh, peer, deadline,
                 joined, delivered>>

NotifyReturn(k) ==
  /\ call[k].pc = "send" /\ call[k].todo = {}
  /\ clientsMutex' = None
  /\ call' = [call EXCEPT ![k] = IdleCall]
  /\ UNCHANGED <<stopping, nextID, sent, clientVars>>

-----------------------------------------------------------------------------
(* The handler of a client                                                 *)

Register(c) ==
  /\ main[c] = "none" /\ ~stopping /\ clientsMutex = None
  /\ clients' = clients \cup {c}
  /\ main' = [main EXCEPT ![c] = "loop"]
  /\ joined' = [joined EXCEPT ![c] = sent]
  /\ UNCHANGED <<stopping, callVars, ch, readCh, peer, deadline, delivered>>

Leave(c) == main' = [main EXCEPT ![c] = "leaving"]

\* Writing to a client that is not gone succeeds: the system buffers it.
Forward(c) ==
  /\ main[c] = "loop" /\ ch[c] # <<>> /\ peer[c] # "gone"
  /\ ch' = [ch EXCEPT ![c] = Tail(@)]
  /\ delivered' = [delivered EXCEPT ![c] = Append(@, Head(ch[c]))]
  /\ UNCHANGED <<stopping, callVars, clients, main, readCh, peer, deadline, joined>>

ForwardFails(c) ==
  /\ main[c] = "loop" /\ ch[c] # <<>> /\ peer[c] # "alive"
  /\ ch' = [ch EXCEPT ![c] = Tail(@)]
  /\ Leave(c)
  /\ UNCHANGED <<stopping, callVars, clients, readCh, peer, deadline, joined, delivered>>

\* A ping, and the pong of a client that answers: the pong handler sets the read
\* deadline, which nothing sets before the first pong.
Ping(c) ==
  /\ main[c] = "loop" /\ peer[c] # "gone"
  /\ deadline' = IF peer[c] = "alive" THEN deadline \cup {c} ELSE deadline
  /\ UNCHANGED <<stopping, callVars, clients, ch, main, readCh, peer, joined, delivered>>

PingFails(c) ==
  /\ main[c] = "loop" /\ peer[c] # "alive"
  /\ Leave(c)
  /\ UNCHANGED <<stopping, callVars, clients, ch, readCh, peer, deadline, joined, delivered>>

\* The reader: the client closed the connection, or was silent past the deadline.
ReaderFails(c) ==
  /\ main[c] \in {"loop", "leaving"} /\ c \notin readCh
  /\ peer[c] = "gone" \/ (peer[c] = "silent" /\ c \in deadline)
  /\ readCh' = readCh \cup {c}
  /\ UNCHANGED <<stopping, callVars, clients, ch, main, peer, deadline, joined, delivered>>

\* Mutant: the loop goes on after a failed read.
MutReadError(c) ==
  /\ main[c] = "loop" /\ c \in readCh
  /\ readCh' = readCh \ {c}
  /\ UNCHANGED <<stopping, callVars, clients, ch, main, peer, deadline, joined, delivered>>

ReadError(c) ==
  /\ main[c] = "loop" /\ c \in readCh
  /\ Leave(c)
  /\ UNCHANGED <<stopping, callVars, clients, ch, readCh, peer, deadline, joined, delivered>>

StopLoop(c) ==
  /\ main[c] = "loop" /\ stopping
  /\ Leave(c)
  /\ UNCHANGED <<stopping, callVars, clients, ch, readCh, peer, deadline, joined, delivered>>

\* The deferred calls: the client entry goes under clientsMutex.
Unregister(c) ==
  /\ main[c] = "leaving" /\ clientsMutex = None
  /\ clients' = clients \ {c}
  /\ main' = [main EXCEPT ![c] = "closed"]
  /\ UNCHANGED <<stopping, callVars, ch, readCh, peer, deadline, joined, delivered>>

-----------------------------------------------------------------------------
PeerChanges(c) ==
  /\ \/ peer[c] = "alive" /\ peer' = [peer EXCEPT ![c] = "silent"]
     \/ peer[c] # "gone" /\ peer' = [peer EXCEPT ![c] = "gone"]
  /\ UNCHANGED <<stopping, callVars, clients, ch, main, readCh, deadline, joined, delivered>>

ShutdownSignal ==
  /\ ~stopping
  /\ stopping' = TRUE
  /\ UNCHANGED <<callVars, clientVars>>

Notify(k) ==
  \/ NotifyAgain(k) \/ NotifyLock(k) \/ NotifyReturn(k)
  \/ \E c \in Client : NotifySend(k, c)

Handler(c) ==
  \/ Register(c) \/ Forward(c) \/ ForwardFails(c) \/ Ping(c) \/ PingFails(c)
  \/ ReaderFails(c) \/ ReadError(c) \/ StopLoop(c) \/ Unregister(c)

Next ==
  \/ \E k \in Caller : NotifyNew(k) \/ Notify(k)
  \/ \E k \in Caller, id \in Replaced : NotifyReplaces(k, id)
  \/ \E c \in Client : Handler(c) \/ PeerChanges(c)
  \/ ShutdownSignal

Spec == Init /\ [][Next]_vars

\* Goroutines that can run do; select chooses among its ready cases at random,
\* so each of them is chosen sooner or later; the ticker ticks.
FairSpec ==
  /\ Spec
  /\ \A k \in Caller : SF_vars(NotifyLock(k)) /\ WF_vars(Notify(k))
  /\ \A c \in Client :
       /\ WF_vars(Forward(c)) /\ WF_vars(Ping(c))
       /\ WF_vars(ReaderFails(c)) /\ WF_vars(ReadError(c)) /\ WF_vars(StopLoop(c))
       /\ SF_vars(Unregister(c))

-----------------------------------------------------------------------------
CallsTyped ==
  /\ nextID \in 0..IdMod - 1 /\ sent \in Nat /\ clientsMutex \in Caller \cup {None}
  /\ call \in [Caller -> [pc : {"idle", "again", "lock", "send"}, id : 0..IdMod - 1,
                          new : BOOLEAN, todo : SUBSET Client]]

ChannelsTyped ==
  /\ ch \in [Client -> Seq(Nat)] /\ \A c \in Client : Len(ch[c]) <= Buffer
  /\ delivered \in [Client -> Seq(Nat)] /\ joined \in [Client -> Nat]

TypeOK ==
  /\ stopping \in BOOLEAN /\ CallsTyped /\ ChannelsTyped
  /\ clients \subseteq Client /\ readCh \subseteq Client /\ deadline \subseteq Client
  /\ main \in [Client -> {"none", "loop", "leaving", "closed"}]
  /\ peer \in [Client -> {"alive", "silent", "gone"}]

\* 0 means "new" in the protocol: no notification gets it, and two that are
\* created at the same time never share an id, even when the counter wraps.
FreshIds ==
  \A k \in Caller : call[k].pc \in {"lock", "send"} =>
    /\ call[k].id # 0
    /\ \A l \in Caller \ {k} :
         (call[k].new /\ call[l].new /\ call[l].pc \in {"lock", "send"})
           => call[l].id # call[k].id

\* What a client has got and will get.
Got(c) == delivered[c] \o ch[c]

\* ... comes in the order in which the calls took the lock, without repetition,
\* and with nothing older than the registration of the client.
InOrder ==
  \A c \in Client : LET got == Got(c)
                     IN /\ \A i, j \in DOMAIN got : i < j => got[i] < got[j]
                        /\ \A i \in DOMAIN got : got[i] \in joined[c] + 1 .. sent

\* A burst that fits the channel reaches every client, however slow: only the
\* message being sent right now may not have arrived in the channel yet.
BurstKept ==
  \A c \in clients :
    (main[c] = "loop" /\ sent - joined[c] <= Buffer) =>
      \A m \in joined[c] + 1 .. sent :
        \/ \E i \in DOMAIN Got(c) : Got(c)[i] = m
        \/ m = sent /\ \E k \in Caller : c \in call[k].todo

\* Notifications reach every client in one order, and none of a burst is lost.
DeliversInOrder == InOrder /\ BurstKept

\* A D-Bus call returns whatever the clients do: it never waits for one.
NotifyReturns == \A k \in Caller : (call[k].pc # "idle") ~> (call[k].pc = "idle")

\* A client that closed its connection, and one that stopped to answer pings
\* after it had answered one, is forgotten.
DeadForgotten ==
  \A c \in Client :
    (c \in clients /\ (peer[c] = "gone" \/ (peer[c] = "silent" /\ c \in deadline)))
      ~> (c \notin clients)
=============================================================================
