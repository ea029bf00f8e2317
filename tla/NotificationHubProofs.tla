----------------------- MODULE NotificationHubProofs ------------------------
(***************************************************************************)
(* Proofs about NotificationHub, for any clients, callers, buffer, number  *)
(* of ids and number of notifications: types, delivery and ids.            *)
(***************************************************************************)
EXTENDS NotificationHub, FiniteSetTheorems, TLAPS

-----------------------------------------------------------------------------
(* Sequences of messages.                                                  *)

\* Increasing, in lo + 1 .. hi.
Ordered(s, lo, hi) ==
  /\ \A i, j \in DOMAIN s : i < j => s[i] < s[j]
  /\ \A i \in DOMAIN s : s[i] \in lo + 1 .. hi

LEMMA MoveHead ==
  ASSUME NEW d \in Seq(Nat), NEW q \in Seq(Nat), q # <<>>
  PROVE  /\ Append(d, Head(q)) \o Tail(q) = d \o q
         /\ Append(d, Head(q)) \in Seq(Nat) /\ Tail(q) \in Seq(Nat) /\ Len(Tail(q)) = Len(q) - 1
OBVIOUS

LEMMA AppendLast ==
  ASSUME NEW d \in Seq(Nat), NEW q \in Seq(Nat), NEW m \in Nat
  PROVE  /\ d \o Append(q, m) = Append(d \o q, m) /\ d \o q \in Seq(Nat)
         /\ Len(d \o q) = Len(d) + Len(q) /\ Len(Append(d \o q, m)) = Len(d \o q) + 1
OBVIOUS

LEMMA OrderedAppend ==
  ASSUME NEW s \in Seq(Nat), NEW m \in Nat, NEW lo \in Nat, NEW hi \in Nat,
         Ordered(s, lo, hi), \A i \in DOMAIN s : s[i] < m, m \in lo + 1 .. hi
  PROVE  Ordered(Append(s, m), lo, hi)
BY DEF Ordered

LEMMA TailFacts ==
  ASSUME NEW q \in Seq(Nat), q # <<>>
  PROVE  /\ Tail(q) \in Seq(Nat) /\ Len(Tail(q)) = Len(q) - 1
         /\ \A i \in 1..Len(Tail(q)) : Tail(q)[i] = q[i + 1]
OBVIOUS

LEMMA ConcatFacts ==
  ASSUME NEW d \in Seq(Nat), NEW q \in Seq(Nat)
  PROVE  /\ d \o q \in Seq(Nat) /\ Len(d \o q) = Len(d) + Len(q) /\ DOMAIN (d \o q) = 1..Len(d \o q)
         /\ \A i \in 1..Len(d \o q) : i <= Len(d) => (d \o q)[i] = d[i]
         /\ \A i \in 1..Len(d \o q) : ~(i <= Len(d)) => (d \o q)[i] = q[i - Len(d)]
<1>1. d \o q \in Seq(Nat) /\ Len(d \o q) = Len(d) + Len(q) OBVIOUS
<1>2. DOMAIN (d \o q) = 1..Len(d \o q) BY <1>1
<1>3. \A i \in 1..Len(d \o q) : i <= Len(d) => (d \o q)[i] = d[i] OBVIOUS
<1>4. \A i \in 1..Len(d \o q) : ~(i <= Len(d)) => (d \o q)[i] = q[i - Len(d)] OBVIOUS
<1> QED BY <1>1, <1>2, <1>3, <1>4

\* Without the head of q: each message is where one was before.
LEMMA DropHead ==
  ASSUME NEW d \in Seq(Nat), NEW q \in Seq(Nat), q # <<>>, NEW i \in DOMAIN (d \o Tail(q))
  PROVE  LET k == IF i <= Len(d) THEN i ELSE i + 1
         IN  k \in DOMAIN (d \o q) /\ (d \o Tail(q))[i] = (d \o q)[k]
<1> DEFINE s == d \o q
           r == Tail(q)
           t == d \o r
<1>1. r \in Seq(Nat) /\ Len(r) = Len(q) - 1 /\ \A k \in 1..Len(r) : r[k] = q[k + 1] BY TailFacts
<1> HIDE DEF r
<1>2. /\ Len(t) = Len(d) + Len(r) /\ i \in 1..Len(t)
      /\ i <= Len(d) => t[i] = d[i]
      /\ ~(i <= Len(d)) => t[i] = r[i - Len(d)]
  BY <1>1, ConcatFacts DEF r
<1> HIDE DEF t
<1>3. /\ Len(s) = Len(d) + Len(q) /\ DOMAIN s = 1..Len(s)
      /\ \A k \in 1..Len(s) : k <= Len(d) => s[k] = d[k]
      /\ \A k \in 1..Len(s) : ~(k <= Len(d)) => s[k] = q[k - Len(d)]
  BY ConcatFacts
<1> HIDE DEF s
<1>4. Len(d) \in Nat /\ Len(q) \in Nat /\ i \in Nat OBVIOUS
<1>5. CASE i <= Len(d)
  <2>1. i \in 1..Len(s) BY <1>1, <1>2, <1>3, <1>4, <1>5
  <2>2. s[i] = d[i] BY <1>3, <1>5, <2>1
  <2> QED BY <1>2, <1>3, <1>5, <2>1, <2>2 DEF s, t, r
<1>6. CASE ~(i <= Len(d))
  <2>1. i + 1 \in 1..Len(s) /\ i - Len(d) \in 1..Len(r) /\ ~(i + 1 <= Len(d))
        /\ i + 1 - Len(d) = i - Len(d) + 1
    BY <1>1, <1>2, <1>3, <1>4, <1>6
  <2>2. s[i + 1] = q[i + 1 - Len(d)] BY <1>3, <2>1
  <2>3. r[i - Len(d)] = q[i - Len(d) + 1] BY <1>1, <2>1
  <2> QED BY <1>2, <1>3, <1>6, <2>1, <2>2, <2>3 DEF s, t, r
<1> QED BY <1>5, <1>6

LEMMA OrderedDrop ==
  ASSUME NEW d \in Seq(Nat), NEW q \in Seq(Nat), q # <<>>, NEW lo \in Nat, NEW hi \in Nat,
         Ordered(d \o q, lo, hi)
  PROVE  Ordered(d \o Tail(q), lo, hi) /\ Len(d \o Tail(q)) < Len(d \o q)
<1> DEFINE s == d \o q
           t == d \o Tail(q)
           f(i) == IF i <= Len(d) THEN i ELSE i + 1
<1>1. \A i \in DOMAIN t : f(i) \in DOMAIN s /\ t[i] = s[f(i)] BY DropHead
<1>2. DOMAIN t \subseteq Nat /\ Len(d) \in Nat BY ConcatFacts, TailFacts
<1>3. \A i, j \in DOMAIN t : i < j => f(i) < f(j) BY <1>2
<1>4. Len(t) < Len(s)
  <2>1. Len(t) = Len(d) + Len(Tail(q)) /\ Len(s) = Len(d) + Len(q) BY ConcatFacts, TailFacts
  <2> QED BY <2>1, TailFacts
<1> HIDE DEF s, t, f
<1>5. Ordered(s, lo, hi) BY DEF s
<1>6. Ordered(t, lo, hi) BY <1>1, <1>3, <1>5 DEF Ordered
<1> QED BY <1>4, <1>6 DEF s, t

-----------------------------------------------------------------------------
(* Types.                                                                  *)

LEMMA InitTypeOK == Init => TypeOK
<1> SUFFICES ASSUME Init PROVE TypeOK OBVIOUS
<1>1. \A A : <<>> \in Seq(A) /\ Len(<<>>) = 0 OBVIOUS
<1>2. CallsTyped
  <2>1. 0 \in 0..IdMod - 1 /\ nextID \in 0..IdMod - 1 /\ sent \in Nat
    BY NotificationHubAssumption DEF Init
  <2>2. IdleCall \in [pc : {"idle", "again", "lock", "send"}, id : 0..IdMod - 1, new : BOOLEAN,
                      todo : SUBSET Client]
    BY <2>1 DEF IdleCall, Calling
  <2> QED BY <2>1, <2>2 DEF Init, CallsTyped
<1>3. ChannelsTyped BY <1>1, NotificationHubAssumption DEF Init, ChannelsTyped
<1> QED BY <1>2, <1>3 DEF Init, TypeOK

LEMMA NextId == ASSUME TypeOK PROVE Next1 \in 0..IdMod - 1
BY NotificationHubAssumption DEF TypeOK, CallsTyped, Next1

LEMMA SameTyped ==
  ASSUME TypeOK
  PROVE  /\ UNCHANGED callVars => CallsTyped'
         /\ UNCHANGED <<ch, delivered, joined>> => ChannelsTyped'
BY DEF TypeOK, callVars, CallsTyped, ChannelsTyped

LEMMA CallTyped ==
  ASSUME TypeOK, NEW k \in Caller, NotifyNew(k) \/ Notify(k) \/ \E id \in Replaced : NotifyReplaces(k, id)
  PROVE  CallsTyped'
<1> USE DEF TypeOK, CallsTyped
<1> DEFINE Calls == [pc : {"idle", "again", "lock", "send"}, id : 0..IdMod - 1, new : BOOLEAN,
                     todo : SUBSET Client]
<1>a. ASSUME NEW pc \in {"idle", "again", "lock", "send"}, NEW id \in 0..IdMod - 1, NEW new \in BOOLEAN,
             call' = [call EXCEPT ![k] = Calling(pc, id, new)], UNCHANGED sent,
             nextID' \in 0..IdMod - 1, clientsMutex' \in Caller \cup {None}
      PROVE  CallsTyped'
  <2>1. Calling(pc, id, new) \in Calls BY DEF Calling
  <2> QED BY <1>a, <2>1
<1>1. CASE NotifyNew(k)
  <2> DEFINE p == IF Next1 = 0 THEN "again" ELSE "lock"
  <2>1. p \in {"again", "lock"} /\ call' = [call EXCEPT ![k] = Calling(p, Next1, TRUE)]
    BY <1>1 DEF NotifyNew
  <2> HIDE DEF p
  <2> QED BY <1>1, <1>a, <2>1, NextId DEF NotifyNew
<1>2. CASE NotifyAgain(k) BY <1>2, <1>a, NextId DEF NotifyAgain
<1>3. ASSUME NEW id \in Replaced, NotifyReplaces(k, id) PROVE CallsTyped'
  <2>1. id \in 0..IdMod - 1 BY NotificationHubAssumption
  <2> QED BY <1>3, <1>a, <2>1 DEF NotifyReplaces
<1>4. CASE NotifyLock(k)
  <2> DEFINE r == [call[k] EXCEPT !.pc = "send", !.todo = clients]
  <2>1. r \in Calls /\ call' = [call EXCEPT ![k] = r] BY <1>4 DEF NotifyLock
  <2> DEFINE n == sent + 1
  <2>2. n \in Nat /\ sent' = n /\ clientsMutex' \in Caller \cup {None} /\ nextID' = nextID
    BY <1>4 DEF NotifyLock
  <2> HIDE DEF r, n
  <2> QED BY <2>1, <2>2
<1>5. ASSUME NEW c \in Client, NotifySend(k, c) PROVE CallsTyped' BY <1>5 DEF NotifySend
<1>6. CASE NotifyReturn(k)
  <2>1. 0 \in 0..IdMod - 1 BY NotificationHubAssumption
  <2> QED BY <1>6, <1>a, <2>1 DEF NotifyReturn, IdleCall
<1> QED BY <1>1, <1>2, <1>3, <1>4, <1>5, <1>6 DEF Notify

LEMMA SendTyped ==
  ASSUME TypeOK, NEW k \in Caller, NEW c \in Client, NotifySend(k, c) PROVE ChannelsTyped'
<1> USE DEF TypeOK, ChannelsTyped
<1>1. CASE Len(ch[c]) < Buffer
  <2> DEFINE q == Append(ch[c], sent)
  <2>1. q \in Seq(Nat) /\ Len(q) <= Buffer BY <1>1, NotificationHubAssumption DEF CallsTyped
  <2>2. ch' = [ch EXCEPT ![c] = q] /\ UNCHANGED <<delivered, joined>> BY <1>1 DEF NotifySend
  <2> HIDE DEF q
  <2> QED BY <2>1, <2>2
<1>2. CASE ~(Len(ch[c]) < Buffer) BY <1>2 DEF NotifySend
<1> QED BY <1>1, <1>2

LEMMA ForwardTyped ==
  ASSUME TypeOK, NEW c \in Client, Forward(c) \/ ForwardFails(c) PROVE ChannelsTyped'
<1> USE DEF TypeOK, ChannelsTyped
<1> DEFINE q == Tail(ch[c])
           d == Append(delivered[c], Head(ch[c]))
<1>1. ch[c] \in Seq(Nat) /\ ch[c] # <<>> /\ delivered[c] \in Seq(Nat) /\ Len(ch[c]) <= Buffer
  BY DEF Forward, ForwardFails
<1>2. q \in Seq(Nat) /\ Len(q) <= Buffer /\ d \in Seq(Nat)
  BY <1>1, MoveHead, NotificationHubAssumption
<1>3. /\ ch' = [ch EXCEPT ![c] = q] /\ joined' = joined
      /\ delivered' = delivered \/ delivered' = [delivered EXCEPT ![c] = d]
  BY DEF Forward, ForwardFails
<1> HIDE DEF q, d
<1> QED BY <1>2, <1>3

LEMMA StepTypeOK == TypeOK /\ [Next]_vars => TypeOK'
<1> SUFFICES ASSUME TypeOK, [Next]_vars PROVE TypeOK' OBVIOUS
<1> USE DEF clientVars
<1>1. ASSUME NEW k \in Caller,
             NotifyNew(k) \/ Notify(k) \/ \E id \in Replaced : NotifyReplaces(k, id)
      PROVE  TypeOK'
  <2>1. ChannelsTyped'
    BY <1>1, SameTyped, SendTyped
       DEF NotifyNew, Notify, NotifyReplaces, NotifyAgain, NotifyLock, NotifyReturn
  <2>2. UNCHANGED <<stopping, clients, readCh, deadline, main, peer>>
    BY <1>1 DEF NotifyNew, Notify, NotifyReplaces, NotifyAgain, NotifyLock, NotifyReturn, NotifySend
  <2> QED BY <1>1, <2>1, <2>2, CallTyped DEF TypeOK
<1>2. ASSUME NEW c \in Client, Handler(c) PROVE TypeOK'
  <2>1. ChannelsTyped'
    <3>1. CASE Register(c) BY <3>1 DEF Register, TypeOK, CallsTyped, ChannelsTyped
    <3> QED BY <1>2, <3>1, SameTyped, ForwardTyped
            DEF Handler, Ping, PingFails, ReaderFails, ReadError, StopLoop, Unregister
  <2>2. CallsTyped' /\ stopping' = stopping
    BY <1>2, SameTyped DEF Handler, Register, Forward, ForwardFails, Ping, PingFails, ReaderFails,
       ReadError, StopLoop, Unregister
  <2>3. /\ clients' \subseteq Client /\ readCh' \subseteq Client /\ deadline' \subseteq Client
        /\ main' \in [Client -> {"none", "loop", "leaving", "closed"}] /\ peer' = peer
    BY <1>2 DEF Handler, Register, Forward, ForwardFails, Ping, PingFails, ReaderFails,
       ReadError, StopLoop, Unregister, Leave, TypeOK
  <2> QED BY <2>1, <2>2, <2>3 DEF TypeOK
<1>3. ASSUME NEW c \in Client, PeerChanges(c) PROVE TypeOK'
  <2>1. ChannelsTyped' /\ CallsTyped' BY <1>3, SameTyped DEF PeerChanges
  <2> QED BY <1>3, <2>1 DEF PeerChanges, TypeOK
<1>4. CASE ShutdownSignal \/ UNCHANGED vars
  <2>1. ChannelsTyped' /\ CallsTyped' BY <1>4, SameTyped DEF ShutdownSignal, vars
  <2> QED BY <1>4, <2>1 DEF ShutdownSignal, vars, TypeOK
<1> QED BY <1>1, <1>2, <1>3, <1>4 DEF Next

\* Every variable keeps its type; a channel never holds more than its capacity.
THEOREM TypeCorrect == Spec => []TypeOK
BY InitTypeOK, StepTypeOK, PTL DEF Spec

-----------------------------------------------------------------------------
(* Delivery.                                                               *)

\* The call that is sending has not yet come to this client.
Pending(c) == \E k \in Caller : c \in call[k].todo

\* What a client got of the messages j + 1 .. n since it registered.
Fine(s, j, n)    == Ordered(s, j, n) /\ j <= n /\ Len(s) <= n - j
Due(s, j, n)     == Len(s) < n - j /\ \A i \in DOMAIN s : s[i] < n
Complete(s, j, n) == n - j <= Buffer => \A m \in j + 1 .. n : \E i \in DOMAIN s : s[i] = m

Delivers(c) ==
  /\ Fine(Got(c), joined[c], sent)
  /\ Pending(c) => Due(Got(c), joined[c], sent)
  /\ (main[c] = "loop" /\ ~Pending(c)) => Complete(Got(c), joined[c], sent)
  /\ (main[c] = "loop" /\ Pending(c)) => Complete(Got(c), joined[c], sent - 1)

\* One call at a time sends, and only to clients that stay registered meanwhile.
LockInv ==
  /\ \A k \in Caller : call[k].pc = "send" => clientsMutex = k
  /\ \A k \in Caller : call[k].todo # {} => call[k].pc = "send"
  /\ \A k \in Caller : call[k].todo \subseteq clients
  /\ \A c \in Client : c \in clients <=> main[c] \in {"loop", "leaving"}
  /\ \A c \in Client : main[c] = "none" => ch[c] = <<>> /\ delivered[c] = <<>>

HubInv == LockInv /\ \A c \in Client : Delivers(c)

LEMMA CompleteAppend ==
  ASSUME NEW s \in Seq(Nat), NEW j \in Nat, NEW n \in Nat, j < n, Complete(s, j, n - 1)
  PROVE  Complete(Append(s, n), j, n)
<1> SUFFICES ASSUME n - j <= Buffer, NEW m \in j + 1 .. n
             PROVE  \E i \in DOMAIN Append(s, n) : Append(s, n)[i] = m
  BY DEF Complete
<1>1. Len(Append(s, n)) = Len(s) + 1 /\ Append(s, n)[Len(s) + 1] = n
      /\ \A i \in 1..Len(s) : Append(s, n)[i] = s[i]
  OBVIOUS
<1>2. Append(s, n) \in Seq(Nat) /\ Len(s) \in Nat OBVIOUS
<1>3. CASE m = n BY <1>1, <1>2, <1>3
<1>4. CASE m # n
  <2>1. PICK i \in DOMAIN s : s[i] = m BY <1>4, NotificationHubAssumption DEF Complete
  <2>2. i \in 1..Len(s) BY <2>1
  <2>3. i \in DOMAIN Append(s, n) BY <1>1, <1>2, <2>2
  <2> QED BY <1>1, <2>1, <2>2, <2>3
<1> QED BY <1>3, <1>4

LEMMA FineAppend ==
  ASSUME NEW s \in Seq(Nat), NEW j \in Nat, NEW n \in Nat, Fine(s, j, n), Due(s, j, n)
  PROVE  Fine(Append(s, n), j, n)
<1>1. Len(s) \in Nat /\ Len(Append(s, n)) = Len(s) + 1 OBVIOUS
<1>2. n \in j + 1 .. n BY <1>1 DEF Due
<1>3. Ordered(Append(s, n), j, n) BY <1>2, OrderedAppend DEF Fine, Due
<1> QED BY <1>1, <1>3 DEF Fine, Due

LEMMA FineDrop ==
  ASSUME NEW d \in Seq(Nat), NEW q \in Seq(Nat), q # <<>>, NEW j \in Nat, NEW n \in Nat,
         Fine(d \o q, j, n)
  PROVE  /\ Fine(d \o Tail(q), j, n)
         /\ Due(d \o q, j, n) => Due(d \o Tail(q), j, n)
<1>1. Ordered(d \o Tail(q), j, n) /\ Len(d \o Tail(q)) < Len(d \o q) BY OrderedDrop DEF Fine
<1>2. d \o q \in Seq(Nat) /\ d \o Tail(q) \in Seq(Nat) BY ConcatFacts, TailFacts
<1>3. Len(d \o q) \in Nat /\ Len(d \o Tail(q)) \in Nat BY <1>2
<1>4. Fine(d \o Tail(q), j, n) BY <1>1, <1>3 DEF Fine
<1>5. ASSUME Due(d \o q, j, n) PROVE Due(d \o Tail(q), j, n)
  <2>1. \A i \in DOMAIN (d \o Tail(q)) : (d \o Tail(q))[i] < n BY <1>5, DropHead DEF Due
  <2> QED BY <1>1, <1>3, <1>5, <2>1 DEF Due
<1> QED BY <1>4, <1>5

\* A call takes the lock: one more message is due.
LEMMA OneMore ==
  ASSUME NEW s \in Seq(Nat), NEW j \in Nat, NEW n \in Nat, Fine(s, j, n)
  PROVE  Fine(s, j, n + 1) /\ Due(s, j, n + 1)
<1>1. Len(s) \in Nat OBVIOUS
<1> QED BY <1>1 DEF Fine, Due, Ordered

LEMMA GotTyped == ASSUME TypeOK, NEW c \in Client
                  PROVE  Got(c) \in Seq(Nat) /\ joined[c] \in Nat /\ sent \in Nat
BY ConcatFacts DEF TypeOK, CallsTyped, ChannelsTyped, Got

\* A step that neither sends, forwards nor registers leaves what a client gets.
LEMMA DeliversSame ==
  ASSUME NEW c \in Client, Delivers(c),
         UNCHANGED <<delivered[c], ch[c], joined[c], sent>>, Pending(c)' <=> Pending(c),
         main'[c] = "loop" => main[c] = "loop"
  PROVE  Delivers(c)'
BY DEF Delivers, Got

LEMMA InitHub == Init => HubInv
<1> SUFFICES ASSUME Init PROVE HubInv OBVIOUS
<1>1. LockInv BY DEF Init, IdleCall, Calling, LockInv
<1>2. ASSUME NEW c \in Client PROVE Delivers(c)
  <2>1. Got(c) = <<>> /\ joined[c] = 0 /\ sent = 0 /\ main[c] = "none" BY DEF Init, Got
  <2>2. ~Pending(c) BY DEF Init, Pending, IdleCall, Calling
  <2>3. Fine(<<>>, 0, 0) BY DEF Fine, Ordered
  <2> QED BY <2>1, <2>2, <2>3 DEF Delivers
<1> QED BY <1>1, <1>2 DEF HubInv

\* The call of k moves on without sending.
LEMMA CallMoves ==
  ASSUME TypeOK, HubInv, NEW k \in Caller, NEW pc, NEW id, NEW new, pc # "send",
         call' = [call EXCEPT ![k] = Calling(pc, id, new)], call[k].todo = {},
         UNCHANGED <<sent, clientVars>>,
         clientsMutex' = clientsMutex \/ (clientsMutex = k /\ call[k].pc = "send")
  PROVE  HubInv'
<1> USE DEF clientVars
<1>1. call \in [Caller -> [pc : {"idle", "again", "lock", "send"}, id : 0..IdMod - 1,
                           new : BOOLEAN, todo : SUBSET Client]]
  BY DEF TypeOK, CallsTyped
<1>2. /\ call'[k].pc = pc /\ call'[k].todo = {}
      /\ \A l \in Caller \ {k} : call'[l] = call[l]
  BY <1>1 DEF Calling
<1>3. LockInv' BY <1>2 DEF HubInv, LockInv
<1>4. \A c \in Client : Pending(c)' <=> Pending(c) BY <1>2 DEF Pending
<1>5. \A c \in Client : Delivers(c)' BY <1>4, DeliversSame DEF HubInv
<1> QED BY <1>3, <1>5 DEF HubInv

LEMMA LockHub == ASSUME TypeOK, HubInv, NEW k \in Caller, NotifyLock(k) PROVE HubInv'
<1> USE DEF clientVars
<1>1. /\ clientsMutex = None /\ clientsMutex' = k /\ sent' = sent + 1
      /\ UNCHANGED <<clients, ch, main, joined, delivered>>
  BY DEF NotifyLock
<1>2. /\ call'[k].pc = "send" /\ call'[k].todo = clients
      /\ \A l \in Caller \ {k} : call'[l] = call[l]
  BY DEF NotifyLock, TypeOK, CallsTyped
<1>3. \A l \in Caller : call[l].todo = {} /\ call[l].pc # "send"
  BY <1>1, NotificationHubAssumption DEF HubInv, LockInv
<1>4. LockInv' BY <1>1, <1>2, <1>3 DEF HubInv, LockInv
<1>5. ASSUME NEW c \in Client PROVE Delivers(c)'
  <2>1. ~Pending(c) /\ (Pending(c)' <=> c \in clients) BY <1>2, <1>3 DEF Pending
  <2>2. Got(c)' = Got(c) /\ joined'[c] = joined[c] /\ main'[c] = main[c] BY <1>1 DEF Got
  <2>3. Fine(Got(c), joined[c], sent + 1) /\ Due(Got(c), joined[c], sent + 1)
    BY OneMore, GotTyped DEF HubInv, Delivers
  <2>4. main[c] = "loop" => c \in clients /\ Complete(Got(c), joined[c], sent)
    BY <2>1 DEF HubInv, LockInv, Delivers
  <2>5. sent' - 1 = sent BY <1>1, GotTyped
  <2> QED BY <1>1, <2>1, <2>2, <2>3, <2>4, <2>5 DEF Delivers
<1> QED BY <1>4, <1>5 DEF HubInv

LEMMA SendHub ==
  ASSUME TypeOK, HubInv, NEW k \in Caller, NEW b \in Client, NotifySend(k, b) PROVE HubInv'
<1>1. /\ call[k].pc = "send" /\ b \in call[k].todo
      /\ UNCHANGED <<clientsMutex, sent, clients, main, joined, delivered>>
  BY DEF NotifySend
<1>2. /\ call'[k].pc = "send" /\ call'[k].todo = call[k].todo \ {b}
      /\ \A l \in Caller \ {k} : call'[l] = call[l]
  BY DEF NotifySend, TypeOK, CallsTyped
<1>3. \A l \in Caller \ {k} : call[l].todo = {} BY <1>1 DEF HubInv, LockInv
<1>4. /\ \A c \in Client \ {b} : ch'[c] = ch[c] /\ (Pending(c)' <=> Pending(c))
      /\ Pending(b) /\ ~Pending(b)'
  <2>1. \A c \in Client \ {b} : ch'[c] = ch[c] BY DEF NotifySend, TypeOK, ChannelsTyped
  <2> QED BY <1>1, <1>2, <1>3, <2>1 DEF Pending
<1>5. LockInv'
  <2>1. b \in clients BY <1>1 DEF HubInv, LockInv
  <2>2. main[b] # "none" BY <2>1 DEF HubInv, LockInv
  <2> QED BY <1>1, <1>2, <1>4, <2>2 DEF HubInv, LockInv
<1>6. ASSUME NEW c \in Client \ {b} PROVE Delivers(c)' BY <1>1, <1>4, DeliversSame DEF HubInv
<1>7. Delivers(b)'
  <2>1. /\ Fine(Got(b), joined[b], sent) /\ Due(Got(b), joined[b], sent)
        /\ main[b] = "loop" => Complete(Got(b), joined[b], sent - 1)
    BY <1>4 DEF HubInv, Delivers
  <2>2. Got(b) \in Seq(Nat) /\ joined[b] \in Nat /\ sent \in Nat /\ Len(Got(b)) \in Nat BY GotTyped
  <2>3. ch[b] \in Seq(Nat) /\ delivered[b] \in Seq(Nat) BY DEF TypeOK, ChannelsTyped
  <2>4. CASE Len(ch[b]) < Buffer
    <3>1. ch'[b] = Append(ch[b], sent) BY <2>4 DEF NotifySend, TypeOK, ChannelsTyped
    <3>2. Got(b)' = Append(Got(b), sent)
      <4>1. delivered[b] \o Append(ch[b], sent) = Append(delivered[b] \o ch[b], sent)
        BY <2>2, <2>3, AppendLast
      <4>2. delivered'[b] = delivered[b] BY <1>1
      <4> QED BY <3>1, <4>1, <4>2, Zenon DEF Got
    <3>3. Fine(Append(Got(b), sent), joined[b], sent) BY <2>1, <2>2, FineAppend
    <3>4. main[b] = "loop" => Complete(Append(Got(b), sent), joined[b], sent)
      BY <2>1, <2>2, CompleteAppend DEF Due
    <3> QED BY <1>1, <1>4, <3>2, <3>3, <3>4 DEF Delivers
  <2>5. CASE ~(Len(ch[b]) < Buffer)
    <3>1. ch'[b] = ch[b] BY <2>5 DEF NotifySend
    <3>2. Got(b)' = Got(b) BY <1>1, <3>1 DEF Got
    <3>3. Len(Got(b)) = Len(delivered[b]) + Len(ch[b]) BY <2>3, ConcatFacts DEF Got
    <3>4. Len(delivered[b]) \in Nat /\ Len(ch[b]) \in Nat /\ Buffer \in Nat
      BY <2>3, NotificationHubAssumption
    <3>5. Complete(Got(b), joined[b], sent)
      <4>1. Len(Got(b)) < sent - joined[b] BY <2>1 DEF Due
      <4> DEFINE l == Len(Got(b))
                 d == Len(delivered[b])
                 q == Len(ch[b])
      <4>2. l < sent - joined[b] /\ l = d + q /\ ~(q < Buffer) BY <2>5, <3>3, <4>1
      <4>3. l \in Nat /\ d \in Nat /\ q \in Nat BY <2>2, <3>4
      <4> HIDE DEF l, d, q
      <4>4. ~(sent - joined[b] <= Buffer) BY <2>2, <3>4, <4>2, <4>3
      <4> QED BY <4>4 DEF Complete
    <3> QED BY <1>1, <1>4, <2>1, <3>2, <3>5 DEF Delivers
  <2> QED BY <2>4, <2>5
<1> QED BY <1>5, <1>6, <1>7 DEF HubInv

LEMMA CallHub ==
  ASSUME TypeOK, HubInv, NEW k \in Caller,
         NotifyNew(k) \/ Notify(k) \/ \E id \in Replaced : NotifyReplaces(k, id)
  PROVE  HubInv'
<1>1. CASE NotifyNew(k)
  <2> DEFINE p == IF Next1 = 0 THEN "again" ELSE "lock"
  <2>1. /\ p # "send" /\ call' = [call EXCEPT ![k] = Calling(p, Next1, TRUE)] /\ call[k].todo = {}
        /\ UNCHANGED <<sent, clientVars>> /\ clientsMutex' = clientsMutex
    BY <1>1 DEF NotifyNew, HubInv, LockInv
  <2> HIDE DEF p
  <2> QED BY <2>1, CallMoves
<1>2. CASE NotifyAgain(k)
  <2>1. call[k].todo = {} BY <1>2 DEF NotifyAgain, HubInv, LockInv
  <2> QED BY <1>2, <2>1, CallMoves DEF NotifyAgain
<1>3. ASSUME NEW id \in Replaced, NotifyReplaces(k, id) PROVE HubInv'
  <2>1. call[k].todo = {} BY <1>3 DEF NotifyReplaces, HubInv, LockInv
  <2> QED BY <1>3, <2>1, CallMoves DEF NotifyReplaces
<1>4. CASE NotifyReturn(k)
  <2>1. call[k].todo = {} /\ call[k].pc = "send" /\ clientsMutex = k
    BY <1>4 DEF NotifyReturn, HubInv, LockInv
  <2> QED BY <1>4, <2>1, CallMoves DEF NotifyReturn, IdleCall
<1> QED BY <1>1, <1>2, <1>3, <1>4, LockHub, SendHub DEF Notify

\* A step of a client's handler: what it does to the client itself is <1>5.
LEMMA HandlerHub == ASSUME TypeOK, HubInv, NEW b \in Client, Handler(b) PROVE HubInv'
<1> USE DEF callVars
<1>1. UNCHANGED callVars
  BY DEF Handler, Register, Forward, ForwardFails, Ping, PingFails, ReaderFails, ReadError,
     StopLoop, Unregister
<1>2. \A c \in Client \ {b} : UNCHANGED <<ch[c], main[c], joined[c], delivered[c]>>
  BY DEF Handler, Register, Forward, ForwardFails, Ping, PingFails, ReaderFails, ReadError,
     StopLoop, Unregister, Leave, TypeOK, ChannelsTyped
<1>3. \A c \in Client : Pending(c)' <=> Pending(c) BY <1>1 DEF Pending
<1>4. \A c \in Client \ {b} : Delivers(c)' BY <1>1, <1>2, <1>3, DeliversSame DEF HubInv
<1>5. LockInv' /\ Delivers(b)'
  <2>a. /\ main \in [Client -> {"none", "loop", "leaving", "closed"}] /\ clients \subseteq Client
        /\ ch \in [Client -> Seq(Nat)] /\ delivered \in [Client -> Seq(Nat)]
        /\ joined \in [Client -> Nat]
    BY DEF TypeOK, ChannelsTyped
  <2>b. clientsMutex = None => \A k \in Caller : call[k].todo = {}
    BY NotificationHubAssumption DEF HubInv, LockInv
  <2>1. CASE Register(b)
    <3>1. /\ main[b] = "none" /\ clientsMutex = None /\ clients' = clients \cup {b}
          /\ main'[b] = "loop" /\ joined'[b] = sent /\ UNCHANGED <<ch, delivered>>
      BY <2>1, <2>a DEF Register
    <3>2. LockInv' BY <1>1, <1>2, <2>b, <3>1 DEF HubInv, LockInv
    <3>3. Got(b)' = <<>> BY <3>1 DEF Got, HubInv, LockInv
    <3>4. ~Pending(b)' BY <1>3, <2>b, <3>1 DEF Pending
    <3>5. sent \in Nat BY GotTyped
    <3>6. Fine(<<>>, sent, sent) /\ Complete(<<>>, sent, sent)
      <4>1. sent + 1 .. sent = {} BY <3>5
      <4> QED BY <3>5, <4>1 DEF Fine, Ordered, Complete
    <3> QED BY <1>1, <3>1, <3>2, <3>3, <3>4, <3>6 DEF Delivers
  <2>2. CASE Forward(b)
    <3>1. /\ main[b] = "loop" /\ ch[b] # <<>> /\ UNCHANGED <<clients, main, joined>>
          /\ ch'[b] = Tail(ch[b]) /\ delivered'[b] = Append(delivered[b], Head(ch[b]))
      BY <2>2, <2>a DEF Forward
    <3>2. Got(b)' = Got(b) BY <2>a, <3>1, MoveHead DEF Got
    <3>3. LockInv' BY <1>1, <1>2, <3>1 DEF HubInv, LockInv
    <3>4. Delivers(b)' BY <1>1, <1>3, <3>1, <3>2 DEF HubInv, Delivers
    <3> QED BY <3>3, <3>4
  <2>3. CASE ForwardFails(b)
    <3>1. /\ main[b] = "loop" /\ main'[b] = "leaving" /\ ch[b] # <<>>
          /\ UNCHANGED <<clients, delivered, joined>> /\ ch'[b] = Tail(ch[b])
      BY <2>3, <2>a DEF ForwardFails, Leave
    <3>2. LockInv' BY <1>1, <1>2, <3>1 DEF HubInv, LockInv
    <3>3. Got(b)' = delivered[b] \o Tail(ch[b]) BY <3>1 DEF Got
    <3>4. /\ Fine(Got(b), joined[b], sent) => Fine(Got(b)', joined[b], sent)
          /\ Fine(Got(b), joined[b], sent) /\ Due(Got(b), joined[b], sent)
               => Due(Got(b)', joined[b], sent)
      BY <2>a, <3>1, <3>3, FineDrop, GotTyped DEF Got
    <3> QED BY <1>1, <1>3, <3>1, <3>2, <3>4 DEF HubInv, Delivers
  <2>4. CASE Unregister(b)
    <3>1. /\ main[b] = "leaving" /\ main'[b] = "closed" /\ clientsMutex = None
          /\ clients' = clients \ {b} /\ UNCHANGED <<ch, delivered, joined>>
      BY <2>4, <2>a DEF Unregister
    <3>2. LockInv' BY <1>1, <1>2, <2>b, <3>1 DEF HubInv, LockInv
    <3> QED BY <1>1, <1>3, <3>1, <3>2, DeliversSame DEF HubInv
  <2>5. CASE PingFails(b) \/ ReadError(b) \/ StopLoop(b)
    <3>1. /\ main[b] = "loop" /\ main'[b] = "leaving"
          /\ UNCHANGED <<clients, ch, delivered, joined>>
      BY <2>5, <2>a DEF PingFails, ReadError, StopLoop, Leave
    <3>2. LockInv' BY <1>1, <1>2, <3>1 DEF HubInv, LockInv
    <3> QED BY <1>1, <1>3, <3>1, <3>2, DeliversSame DEF HubInv
  <2>6. CASE Ping(b) \/ ReaderFails(b)
    <3>1. UNCHANGED <<clients, ch, main, delivered, joined>> BY <2>6 DEF Ping, ReaderFails
    <3>2. LockInv' BY <1>1, <3>1 DEF HubInv, LockInv
    <3> QED BY <1>1, <1>3, <3>1, <3>2, DeliversSame DEF HubInv
  <2> QED BY <2>1, <2>2, <2>3, <2>4, <2>5, <2>6 DEF Handler
<1> QED BY <1>4, <1>5 DEF HubInv

LEMMA StepHub == TypeOK /\ HubInv /\ [Next]_vars => HubInv'
<1> SUFFICES ASSUME TypeOK, HubInv, [Next]_vars PROVE HubInv' OBVIOUS
<1>1. CASE ShutdownSignal \/ UNCHANGED vars \/ \E c \in Client : PeerChanges(c)
  <2>1. UNCHANGED <<callVars, clients, ch, main, joined, delivered>>
    BY <1>1 DEF ShutdownSignal, vars, PeerChanges, clientVars
  <2>2. LockInv' BY <2>1 DEF callVars, HubInv, LockInv
  <2>3. \A c \in Client : Delivers(c)'
    <3>1. \A c \in Client : Pending(c)' <=> Pending(c) BY <2>1 DEF callVars, Pending
    <3> QED BY <2>1, <3>1, DeliversSame DEF HubInv, callVars
  <2> QED BY <2>2, <2>3 DEF HubInv
<1> QED BY <1>1, CallHub, HandlerHub DEF Next

LEMMA HubDelivers == TypeOK /\ HubInv => DeliversInOrder
<1> SUFFICES ASSUME TypeOK, HubInv PROVE DeliversInOrder OBVIOUS
<1>1. InOrder BY DEF InOrder, HubInv, Delivers, Fine, Ordered
<1>2. ASSUME NEW c \in clients, main[c] = "loop", sent - joined[c] <= Buffer,
             NEW m \in joined[c] + 1 .. sent
      PROVE  \/ \E i \in DOMAIN Got(c) : Got(c)[i] = m
             \/ m = sent /\ \E k \in Caller : c \in call[k].todo
  <2>1. c \in Client BY DEF TypeOK
  <2>2. joined[c] \in Nat /\ sent \in Nat /\ Buffer \in Nat
    BY <2>1, GotTyped, NotificationHubAssumption
  <2>3. CASE Pending(c)
    <3>1. Complete(Got(c), joined[c], sent - 1) BY <1>2, <2>1, <2>3 DEF HubInv, Delivers
    <3> QED BY <1>2, <2>2, <2>3, <3>1 DEF Complete, Pending
  <2>4. CASE ~Pending(c)
    <3>1. Complete(Got(c), joined[c], sent) BY <1>2, <2>1, <2>4 DEF HubInv, Delivers
    <3> QED BY <1>2, <3>1 DEF Complete
  <2> QED BY <2>3, <2>4
<1>3. BurstKept BY <1>2 DEF BurstKept
<1> QED BY <1>1, <1>3 DEF DeliversInOrder

\* Whatever the interleaving of D-Bus calls and clients, a client gets the
\* notifications in the order in which the calls took clientsMutex, none twice,
\* and every one of a burst that fits its channel.
THEOREM OrderedDelivery == Spec => []DeliversInOrder
BY InitTypeOK, StepTypeOK, InitHub, StepHub, HubDelivers, PTL DEF Spec

-----------------------------------------------------------------------------
(* Ids.                                                                    *)

\* Calls that have an id, or half of one, and not yet the lock.
Waiting == {k \in Caller : call[k].pc \in {"again", "lock"}}

\* Notifications that were begun.
Started == sent + Cardinality(Waiting)

\* A call that has got an id of its own.
HasNew(k) == call[k].new /\ call[k].pc \in {"lock", "send"}

\* How many ids before m an id was handed out.
Age(id, m) == IF id <= m THEN m - id ELSE m + IdMod - id

Wrapped(n) == FirstId + n >= IdMod

\* The counter was incremented n times: once for a notification, and once more
\* for the one that met 0.
Counted(n) ==
  /\ nextID = IF Wrapped(n) THEN FirstId + n - IdMod ELSE FirstId + n
  /\ n <= Started + (IF Wrapped(n) THEN 1 ELSE 0)
  /\ \A k \in Caller : call[k].pc = "again" => Wrapped(n) /\ n <= Started
  /\ \A k \in Caller : HasNew(k) => Age(call[k].id, nextID) < n

IdsInv ==
  /\ IsFiniteSet(Waiting) /\ Started <= MaxMessages
  /\ \A k, l \in Caller : call[k].pc = "again" /\ call[l].pc = "again" => k = l
  /\ \E n \in 0..IdMod : Counted(n)
  /\ FreshIds

LEMMA NextValue ==
  ASSUME TypeOK PROVE Next1 = IF nextID + 1 = IdMod THEN 0 ELSE nextID + 1
<1>1. nextID \in 0..IdMod - 1 /\ IdMod \in Nat \ {0, 1} BY NotificationHubAssumption DEF TypeOK, CallsTyped
<1>2. CASE nextID + 1 = IdMod BY <1>1, <1>2 DEF Next1
<1>3. CASE nextID + 1 # IdMod
  <2> DEFINE m == nextID + 1
  <2>1. m \in 0..IdMod - 1 BY <1>1, <1>3
  <2> HIDE DEF m
  <2>2. m % IdMod = m BY <2>1, <1>1
  <2> QED BY <1>3, <2>2 DEF Next1, m
<1> QED BY <1>2, <1>3

LEMMA InitIds == Init => IdsInv
<1> SUFFICES ASSUME Init PROVE IdsInv OBVIOUS
<1>1. Waiting = {} /\ \A k \in Caller : call[k].pc = "idle" BY DEF Init, Waiting, IdleCall, Calling
<1>2. IsFiniteSet(Waiting) /\ Started = 0 BY <1>1, FS_EmptySet DEF Init, Started
<1>3. FreshIds BY <1>1 DEF FreshIds
<1>4. Counted(0)
  <2>1. FirstId \in Nat /\ FirstId < IdMod /\ IdMod \in Nat BY NotificationHubAssumption
  <2> QED BY <1>1, <1>2, <2>1 DEF Counted, Wrapped, HasNew, Init
<1> QED BY <1>1, <1>2, <1>3, <1>4, NotificationHubAssumption DEF IdsInv

LEMMA WaitingFacts ==
  ASSUME TypeOK, IdsInv
  PROVE  Cardinality(Waiting) \in Nat /\ sent \in Nat /\ Started \in Nat
BY FS_CardinalityType DEF IdsInv, TypeOK, CallsTyped, Started

\* One more id: it differs from every id that is in use.
LEMMA Tick ==
  ASSUME TypeOK, NEW n \in 0..IdMod - 1, Counted(n), nextID' = Next1
  PROVE  /\ nextID' = IF Wrapped(n + 1) THEN FirstId + (n + 1) - IdMod ELSE FirstId + (n + 1)
         /\ nextID' = 0 <=> FirstId + (n + 1) = IdMod
         /\ Age(nextID', nextID') = 0
         /\ \A id \in 0..IdMod - 1 : Age(id, nextID) < n =>
              id # nextID' /\ Age(id, nextID') = Age(id, nextID) + 1
<1>1. /\ nextID \in Nat /\ nextID < IdMod /\ IdMod \in Nat /\ IdMod > 1 /\ FirstId \in Nat /\ FirstId < IdMod
      /\ n \in Nat /\ n < IdMod
  BY NotificationHubAssumption DEF TypeOK, CallsTyped
<1>2. nextID' = IF nextID + 1 = IdMod THEN 0 ELSE nextID + 1 BY NextValue
<1>3. nextID = IF Wrapped(n) THEN FirstId + n - IdMod ELSE FirstId + n BY DEF Counted
<1>4. /\ nextID' = IF Wrapped(n + 1) THEN FirstId + (n + 1) - IdMod ELSE FirstId + (n + 1)
      /\ nextID' = 0 <=> FirstId + (n + 1) = IdMod
  BY <1>1, <1>2, <1>3 DEF Wrapped
<1>5. Age(nextID', nextID') = 0 BY <1>1, <1>2 DEF Age
<1>6. ASSUME NEW id \in 0..IdMod - 1, Age(id, nextID) < n
      PROVE  id # nextID' /\ Age(id, nextID') = Age(id, nextID) + 1
  <2>1. id \in Nat /\ id < IdMod BY <1>1
  <2> QED BY <1>1, <1>2, <1>6, <2>1 DEF Age
<1> QED BY <1>4, <1>5, <1>6

\* The call of k gets the next id, and goes to pc.
LEMMA TakesId ==
  ASSUME TypeOK, IdsInv, NEW k \in Caller, nextID' = Next1, NEW n \in 0..IdMod - 1, Counted(n),
         ~HasNew(k), call' = [call EXCEPT ![k] = Calling(IF Next1 = 0 THEN "again" ELSE "lock", Next1, TRUE)]
  PROVE  /\ FreshIds'
         /\ \A l \in Caller : HasNew(l)' => Age(call'[l].id, nextID') < n + 1
         /\ \A l \in Caller : call'[l].pc = "again" =>
              \/ l = k /\ FirstId + (n + 1) = IdMod
              \/ l # k /\ call[l].pc = "again"
         /\ n + 1 \in 0..IdMod
         /\ nextID' = IF Wrapped(n + 1) THEN FirstId + (n + 1) - IdMod ELSE FirstId + (n + 1)
<1> DEFINE pc == IF Next1 = 0 THEN "again" ELSE "lock"
           r  == Calling(pc, Next1, TRUE)
<1>1. /\ r.pc = pc /\ r.id = nextID' /\ r.new = TRUE /\ (pc = "again" <=> nextID' = 0)
      /\ pc \in {"again", "lock"}
  BY DEF Calling
<1>2. call' = [call EXCEPT ![k] = r] OBVIOUS
<1> HIDE DEF pc, r
<1>3. call'[k] = r /\ \A l \in Caller \ {k} : call'[l] = call[l] BY <1>2 DEF TypeOK, CallsTyped
<1>4. \A l \in Caller : call[l].id \in 0..IdMod - 1 BY DEF TypeOK, CallsTyped
<1>5. \A l \in Caller \ {k} : HasNew(l)' <=> HasNew(l) BY <1>3 DEF HasNew
<1>6. \A l \in Caller : HasNew(l) => Age(call[l].id, nextID) < n BY DEF Counted
<1>7. HasNew(k)' <=> pc = "lock" BY <1>1, <1>3 DEF HasNew
<1>8. \A l \in Caller \ {k} : HasNew(l) =>
        call[l].id # nextID' /\ Age(call[l].id, nextID') = Age(call[l].id, nextID) + 1
  <2> SUFFICES ASSUME NEW l \in Caller \ {k}, HasNew(l)
               PROVE  call[l].id # nextID' /\ Age(call'[l].id, nextID') = Age(call[l].id, nextID) + 1
    BY <1>3
  <2> QED BY <1>3, <1>4, <1>6, Tick
<1>9. FreshIds'
  <2> SUFFICES ASSUME NEW l \in Caller, call'[l].pc \in {"lock", "send"}
               PROVE  /\ call'[l].id # 0
                      /\ \A m \in Caller \ {l} :
                           (call'[l].new /\ call'[m].new /\ call'[m].pc \in {"lock", "send"})
                             => call'[m].id # call'[l].id
    BY DEF FreshIds
  <2>1. call'[l].id # 0 BY <1>1, <1>3 DEF IdsInv, FreshIds
  <2>2. ASSUME NEW m \in Caller \ {l}, HasNew(l)', HasNew(m)' PROVE call'[m].id # call'[l].id
    <3>1. CASE l = k BY <1>1, <1>3, <1>5, <1>8, <2>2, <3>1
    <3>2. CASE m = k BY <1>1, <1>3, <1>5, <1>8, <2>2, <3>2
    <3>3. CASE l # k /\ m # k BY <1>3, <2>2, <3>3 DEF IdsInv, FreshIds, HasNew
    <3> QED BY <3>1, <3>2, <3>3
  <2> QED BY <2>1, <2>2 DEF HasNew
<1>13. n \in Nat BY NotificationHubAssumption
<1>10. ASSUME NEW l \in Caller, HasNew(l)' PROVE Age(call'[l].id, nextID') < n + 1
  <2> DEFINE a == Age(call[l].id, nextID)
             b == Age(call'[l].id, nextID')
  <2>1. CASE l = k
    <3>1. b = 0 BY <1>1, <1>3, <2>1, Tick
    <3> HIDE DEF b
    <3>2. b < n + 1 BY <1>13, <3>1
    <3> QED BY <3>2 DEF b
  <2>2. CASE l # k
    <3>1. a < n /\ b = a + 1 BY <1>3, <1>5, <1>6, <1>8, <1>10, <2>2
    <3>2. a \in Int BY <1>4, NotificationHubAssumption DEF Age, TypeOK, CallsTyped
    <3> HIDE DEF a, b
    <3>3. b < n + 1 BY <1>13, <3>1, <3>2
    <3> QED BY <3>3 DEF b
  <2> QED BY <2>1, <2>2
<1>11. ASSUME NEW l \in Caller, call'[l].pc = "again"
       PROVE  \/ l = k /\ FirstId + (n + 1) = IdMod
              \/ l # k /\ call[l].pc = "again"
  BY <1>1, <1>3, <1>11, Tick
<1>12. n + 1 \in 0..IdMod BY NotificationHubAssumption
<1> QED BY <1>9, <1>10, <1>11, <1>12, Tick

LEMMA NewIds ==
  ASSUME TypeOK, IdsInv, MaxMessages < IdMod, NEW k \in Caller, NotifyNew(k)
  PROVE  IdsInv'
<1>1. PICK n \in 0..IdMod : Counted(n) BY DEF IdsInv
<1>2. /\ Cardinality(Waiting) \in Nat /\ sent \in Nat /\ Started \in Nat /\ Started < MaxMessages
      /\ MaxMessages \in Nat /\ IdMod \in Nat /\ FirstId \in Nat /\ FirstId < IdMod
  BY WaitingFacts, NotificationHubAssumption DEF NotifyNew, MayCall, Started, Waiting
<1>3. n <= Started + 1 /\ n \in 0..IdMod - 1 BY <1>1, <1>2 DEF Counted
<1>4. call[k].pc = "idle" /\ ~HasNew(k) /\ k \notin Waiting BY DEF NotifyNew, HasNew, Waiting
<1>5. Waiting' = Waiting \cup {k}
  BY DEF NotifyNew, Waiting, Calling, TypeOK, CallsTyped
<1>6. IsFiniteSet(Waiting') /\ Cardinality(Waiting') = Cardinality(Waiting) + 1
  BY <1>4, <1>5, FS_AddElement DEF IdsInv
<1>7. Started' = Started + 1 BY <1>2, <1>6 DEF Started, NotifyNew
<1>8. /\ FreshIds'
      /\ \A l \in Caller : HasNew(l)' => Age(call'[l].id, nextID') < n + 1
      /\ \A l \in Caller : call'[l].pc = "again" =>
           \/ l = k /\ FirstId + (n + 1) = IdMod
           \/ l # k /\ call[l].pc = "again"
      /\ n + 1 \in 0..IdMod
      /\ nextID' = IF Wrapped(n + 1) THEN FirstId + (n + 1) - IdMod ELSE FirstId + (n + 1)
  BY <1>1, <1>3, <1>4, TakesId DEF NotifyNew
<1>9. \A l \in Caller : call[l].pc = "again" => FirstId + n >= IdMod /\ n <= Started
  BY <1>1 DEF Counted, Wrapped
<1>10. \A l, m \in Caller : call'[l].pc = "again" /\ call'[m].pc = "again" => l = m
  BY <1>2, <1>3, <1>8, <1>9 DEF IdsInv
<1>11. n \in Nat BY <1>2
<1>12. n + 1 <= Started' + (IF Wrapped(n + 1) THEN 1 ELSE 0)
  BY <1>1, <1>2, <1>7, <1>11 DEF Counted, Wrapped
<1>13. \A l \in Caller : call'[l].pc = "again" => Wrapped(n + 1) /\ n + 1 <= Started'
  <2>1. ASSUME FirstId + (n + 1) = IdMod PROVE Wrapped(n + 1) /\ n + 1 <= Started'
    BY <1>1, <1>2, <1>7, <1>11, <2>1 DEF Counted, Wrapped
  <2>2. ASSUME FirstId + n >= IdMod, n <= Started PROVE Wrapped(n + 1) /\ n + 1 <= Started'
    BY <1>2, <1>7, <1>11, <2>2 DEF Wrapped
  <2> QED BY <1>8, <1>9, <2>1, <2>2
<1>14. Counted(n + 1)' BY <1>8, <1>12, <1>13 DEF Counted, Wrapped
<1>15. Started' <= MaxMessages BY <1>2, <1>7
<1> QED BY <1>6, <1>8, <1>10, <1>14, <1>15 DEF IdsInv

LEMMA AgainIds ==
  ASSUME TypeOK, IdsInv, MaxMessages < IdMod, NEW k \in Caller, NotifyAgain(k)
  PROVE  IdsInv'
<1>1. PICK n \in 0..IdMod : Counted(n) BY DEF IdsInv
<1>2. /\ Cardinality(Waiting) \in Nat /\ sent \in Nat /\ Started \in Nat /\ Started <= MaxMessages
      /\ MaxMessages \in Nat /\ IdMod \in Nat /\ FirstId \in Nat /\ FirstId < IdMod
  BY WaitingFacts, NotificationHubAssumption DEF IdsInv
<1>3. call[k].pc = "again" /\ ~HasNew(k) BY DEF NotifyAgain, HasNew
<1>4. FirstId + n >= IdMod /\ n <= Started BY <1>1, <1>3 DEF Counted, Wrapped
<1>5. n \in 0..IdMod - 1 /\ n \in Nat BY <1>2, <1>4
<1>6. Next1 # 0 BY <1>1, <1>2, <1>4, <1>5, Tick DEF NotifyAgain
<1>7. /\ FreshIds'
      /\ \A l \in Caller : HasNew(l)' => Age(call'[l].id, nextID') < n + 1
      /\ \A l \in Caller : call'[l].pc = "again" =>
           \/ l = k /\ FirstId + (n + 1) = IdMod
           \/ l # k /\ call[l].pc = "again"
      /\ n + 1 \in 0..IdMod
      /\ nextID' = IF Wrapped(n + 1) THEN FirstId + (n + 1) - IdMod ELSE FirstId + (n + 1)
  BY <1>1, <1>3, <1>5, <1>6, TakesId DEF NotifyAgain
<1>8. \A l \in Caller : call'[l].pc # "again"
  BY <1>2, <1>3, <1>4, <1>5, <1>7 DEF IdsInv
<1>9. Waiting' = Waiting BY <1>3 DEF NotifyAgain, Waiting, Calling, TypeOK, CallsTyped
<1>10. Started' = Started BY <1>9 DEF Started, NotifyAgain
<1>11. n + 1 <= Started' + (IF Wrapped(n + 1) THEN 1 ELSE 0)
  BY <1>2, <1>4, <1>5, <1>10 DEF Wrapped
<1>12. Counted(n + 1)' BY <1>7, <1>8, <1>11 DEF Counted, Wrapped
<1> QED BY <1>7, <1>8, <1>9, <1>10, <1>12 DEF IdsInv

\* A step that hands out no id, and after which as many notifications were begun.
\* A step that gives the call no new id.
KeepsId(l) ==
  /\ call'[l].pc = "again" => call[l].pc = "again"
  /\ HasNew(l)' => HasNew(l) /\ call'[l].id = call[l].id
  /\ call'[l].pc \in {"lock", "send"} => call'[l].id # 0

LEMMA KeepsIds ==
  ASSUME TypeOK, IdsInv, UNCHANGED nextID, IsFiniteSet(Waiting'), Started' <= MaxMessages,
         Started' \in Nat, Started <= Started',
         \A l \in Caller : KeepsId(l)
  PROVE  IdsInv'
<1>1. PICK n \in 0..IdMod : Counted(n) BY DEF IdsInv
<1>2. n \in Nat /\ Started \in Nat BY WaitingFacts, NotificationHubAssumption
<1>3. n <= Started' + (IF Wrapped(n) THEN 1 ELSE 0)
  <2> DEFINE w == IF Wrapped(n) THEN 1 ELSE 0
             m == Started
             p == Started'
  <2>1. w \in Nat /\ n <= m + w BY <1>1 DEF Counted
  <2>2. n \in Nat /\ m \in Nat /\ p \in Nat /\ m <= p BY <1>2
  <2> HIDE DEF w, m, p
  <2>3. n <= p + w BY <2>1, <2>2
  <2> QED BY <2>3 DEF w, p
<1>4. \A l \in Caller : call'[l].pc = "again" => Wrapped(n) /\ n <= Started' BY <1>1, <1>2 DEF Counted, KeepsId, Wrapped
<1>5. \A l \in Caller : HasNew(l)' => Age(call'[l].id, nextID') < n BY <1>1 DEF Counted, KeepsId
<1>6. Counted(n)' BY <1>1, <1>3, <1>4, <1>5 DEF Counted, Wrapped
<1>7. FreshIds' BY DEF IdsInv, FreshIds, HasNew, KeepsId
<1> QED BY <1>6, <1>7 DEF IdsInv, KeepsId

LEMMA OtherIds ==
  ASSUME TypeOK, IdsInv, NEW k \in Caller,
         \/ NotifyLock(k) \/ NotifyReturn(k) \/ \E c \in Client : NotifySend(k, c)
         \/ \E id \in Replaced : NotifyReplaces(k, id)
  PROVE  IdsInv'
<1>a. /\ Cardinality(Waiting) \in Nat /\ sent \in Nat /\ Started \in Nat /\ Started <= MaxMessages
      /\ MaxMessages \in Nat /\ IsFiniteSet(Waiting)
  BY WaitingFacts, NotificationHubAssumption DEF IdsInv
<1>b. \A l \in Caller : call[l].pc \in {"lock", "send"} => call[l].id # 0 BY DEF IdsInv, FreshIds
<1>1. CASE NotifyLock(k)
  <2>1. k \in Waiting /\ Waiting' = Waiting \ {k} BY <1>1 DEF NotifyLock, Waiting, TypeOK, CallsTyped
  <2>2. IsFiniteSet(Waiting') /\ Cardinality(Waiting') = Cardinality(Waiting) - 1
    BY <1>a, <2>1, FS_RemoveElement
  <2>3. Started' = Started BY <1>1, <1>a, <2>2 DEF Started, NotifyLock
  <2>4. \A l \in Caller : KeepsId(l)
    BY <1>1, <1>b DEF KeepsId, NotifyLock, HasNew, TypeOK, CallsTyped
  <2> QED BY <1>1, <1>a, <2>2, <2>3, <2>4, KeepsIds DEF NotifyLock
<1>2. CASE NotifyReturn(k)
  <2>1. Waiting' = Waiting BY <1>2 DEF NotifyReturn, Waiting, IdleCall, Calling, TypeOK, CallsTyped
  <2>2. Started' = Started BY <1>2, <2>1 DEF Started, NotifyReturn
  <2>3. \A l \in Caller : KeepsId(l)
    BY <1>2, <1>b DEF KeepsId, NotifyReturn, HasNew, IdleCall, Calling, TypeOK, CallsTyped
  <2> QED BY <1>2, <1>a, <2>1, <2>2, <2>3, KeepsIds DEF NotifyReturn
<1>3. ASSUME NEW c \in Client, NotifySend(k, c) PROVE IdsInv'
  <2>1. Waiting' = Waiting BY <1>3 DEF NotifySend, Waiting, TypeOK, CallsTyped
  <2>2. Started' = Started BY <1>3, <2>1 DEF Started, NotifySend
  <2>3. \A l \in Caller : KeepsId(l)
    BY <1>3, <1>b DEF KeepsId, NotifySend, HasNew, TypeOK, CallsTyped
  <2> QED BY <1>3, <1>a, <2>1, <2>2, <2>3, KeepsIds DEF NotifySend
<1>4. ASSUME NEW id \in Replaced, NotifyReplaces(k, id) PROVE IdsInv'
  <2>1. k \notin Waiting /\ Waiting' = Waiting \cup {k}
    BY <1>4 DEF NotifyReplaces, Waiting, Calling, TypeOK, CallsTyped
  <2>2. IsFiniteSet(Waiting') /\ Cardinality(Waiting') = Cardinality(Waiting) + 1
    BY <1>a, <2>1, FS_AddElement
  <2>3. Started' = Started + 1 /\ Started + 1 <= MaxMessages
    BY <1>4, <1>a, <2>2 DEF Started, NotifyReplaces, MayCall, Waiting
  <2>4. id # 0 BY NotificationHubAssumption
  <2>5. \A l \in Caller : KeepsId(l)
    BY <1>4, <1>b, <2>4 DEF KeepsId, NotifyReplaces, HasNew, Calling, TypeOK, CallsTyped
  <2> QED BY <1>4, <1>a, <2>2, <2>3, <2>5, KeepsIds DEF NotifyReplaces
<1> QED BY <1>1, <1>2, <1>3, <1>4

LEMMA StepIds == MaxMessages < IdMod /\ TypeOK /\ IdsInv /\ [Next]_vars => IdsInv'
<1> SUFFICES ASSUME MaxMessages < IdMod, TypeOK, IdsInv, [Next]_vars PROVE IdsInv' OBVIOUS
<1>1. ASSUME UNCHANGED <<nextID, call, sent>> PROVE IdsInv'
  BY <1>1 DEF IdsInv, Waiting, Started, Counted, HasNew, FreshIds
<1>2. ASSUME NEW c \in Client, Handler(c) \/ PeerChanges(c) PROVE IdsInv'
  BY <1>1, <1>2 DEF Handler, Register, Forward, ForwardFails, Ping, PingFails, ReaderFails,
     ReadError, StopLoop, Unregister, PeerChanges, callVars
<1>3. CASE ShutdownSignal \/ UNCHANGED vars BY <1>1, <1>3 DEF ShutdownSignal, vars, callVars
<1> QED BY <1>2, <1>3, NewIds, AgainIds, OtherIds DEF Next, Notify

\* While fewer notifications are sent than there are ids, from any value of the
\* counter: no notification has the id 0, and two new ones that are being sent at
\* the same time never share an id, although the counter wraps and concurrent
\* calls may all meet the 0.
THEOREM IdsAreFresh == MaxMessages < IdMod => (Spec => []FreshIds)
<1> SUFFICES ASSUME MaxMessages < IdMod PROVE Spec => []FreshIds OBVIOUS
<1>1. TypeOK /\ IdsInv /\ [Next]_vars => (TypeOK /\ IdsInv)' BY StepTypeOK, StepIds
<1>2. IdsInv => FreshIds BY DEF IdsInv
<1> QED BY <1>1, <1>2, InitTypeOK, InitIds, PTL DEF Spec
=============================================================================
