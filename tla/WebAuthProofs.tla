--------------------------- MODULE WebAuthProofs ----------------------------
(* What holds of the web authentication service for every number of users, *)
(* tokens and concurrent logins, every store size and every lifetime.      *)
EXTENDS WebAuth, FiniteSetTheorems, TLAPS

-----------------------------------------------------------------------------
(* Types                                                                   *)

LEMMA TypeInit == Init => TypeOK
<1> SUFFICES ASSUME Init PROVE TypeOK
  OBVIOUS
<1>1. DOMAIN gTokens = {} /\ gTokens \in [DOMAIN gTokens -> Nat]
  BY DEF Init
<1>2. bucket \in 0..Burst /\ admitted \in Nat
  BY WebAuthAssumption DEF Init
<1>3. req \in [Request -> LoginState]
  BY DEF Init, LoginState
<1>4. issuedAt \in [Token -> Nat \cup {None}]
  BY DEF Init
<1> QED
  BY <1>1, <1>2, <1>3, <1>4 DEF Init, TypeOK

LEMMA StoreOpsTyped ==
  ASSUME TypeOK
  PROVE  /\ DOMAIN CleanupTokens \subseteq DOMAIN gTokens
         /\ CleanupTokens \in [DOMAIN CleanupTokens -> Nat]
         /\ DOMAIN RoomMade \subseteq DOMAIN gTokens
         /\ RoomMade \in [DOMAIN RoomMade -> Nat]
  BY DEF TypeOK, CleanupTokens, RoomMade

LEMMA TypeNext == TypeOK /\ [Next]_vars => TypeOK'
<1> SUFFICES ASSUME TypeOK, [Next]_vars PROVE TypeOK'
  OBVIOUS
<1>0. Burst \in Nat /\ Validity \in Nat
  BY WebAuthAssumption
<1>1. ASSUME NEW r \in Request, LoginBegin(r) PROVE TypeOK'
  <2>1. req' \in [Request -> LoginState]
    <3>1. ASSUME NEW c \in Credential
          PROVE  [IdleReq EXCEPT !.pc = "match", !.cred = c] \in LoginState
      BY DEF IdleReq, LoginState
    <3> QED
      BY <1>1, <3>1 DEF TypeOK, LoginBegin
  <2>2. bucket' \in 0..Burst /\ admitted' \in Nat
    <3>1. bucket > 0 /\ bucket' = bucket - 1 /\ admitted' = admitted + 1
      BY <1>1 DEF LoginBegin
    <3>2. bucket \in 0..Burst /\ admitted \in Nat
      BY DEF TypeOK
    <3> QED
      BY <1>0, <3>1, <3>2
  <2> QED
    BY <1>1, <2>1, <2>2 DEF TypeOK, LoginBegin, procVars, storeVars, dbVars
<1>2. ASSUME NEW r \in Request, LoginMatch(r) PROVE TypeOK'
  <2>1. req' \in [Request -> LoginState]
    BY <1>2 DEF TypeOK, LoginMatch, IdleReq, LoginState
  <2> QED
    BY <1>2, <2>1 DEF TypeOK, LoginMatch, procVars, storeVars, limitVars, dbVars
<1>15. ASSUME NEW r \in Request, GenerateTokenFails(r) PROVE TypeOK'
  <2>1. req' \in [Request -> LoginState]
    BY <1>15 DEF TypeOK, GenerateTokenFails, LoginState
  <2> QED
    BY <1>15, <2>1 DEF TypeOK, GenerateTokenFails, procVars, storeVars, limitVars, dbVars
<1>3. ASSUME NEW r \in Request, LoginIssue(r) PROVE TypeOK'
  <2>1. PICK t \in Token \ generated :
          /\ generated' = generated \cup {t}
          /\ \/ gTokens' = RoomMade /\ req' = [req EXCEPT ![r] = IdleReq]
                /\ UNCHANGED issuedAt
             \/ gTokens' = SaveToken(t)
                /\ req' = [req EXCEPT ![r].pc = "respond", ![r].token = t]
                /\ issuedAt' = [issuedAt EXCEPT ![t] = now]
    BY <1>3 DEF LoginIssue
  <2>2. DOMAIN gTokens' \subseteq Token /\ gTokens' \in [DOMAIN gTokens' -> Nat]
    BY <1>0, <2>1, StoreOpsTyped DEF SaveToken, TypeOK
  <2>3. issuedAt' \in [Token -> Nat \cup {None}]
    BY <2>1 DEF TypeOK
  <2>4. req' \in [Request -> LoginState]
    BY <1>3, <2>1 DEF TypeOK, LoginIssue, IdleReq, LoginState
  <2> QED
    BY <1>0, <1>3, <2>1, <2>2, <2>3, <2>4 DEF TypeOK, LoginIssue, procVars, limitVars, dbVars
<1>4. ASSUME NEW r \in Request, LoginRespond(r) PROVE TypeOK'
  <2>1. req[r].token \in Token
    BY <1>4 DEF TypeOK, LoginRespond, LoginState, IdleReq
  <2>2. cookies' \subseteq Cookie
    BY <1>4, <2>1 DEF TypeOK, LoginRespond, Cookie
  <2>3. req' \in [Request -> LoginState]
    BY <1>4 DEF TypeOK, LoginRespond, LoginState
  <2> QED
    BY <1>4, <2>2, <2>3 DEF TypeOK, LoginRespond, procVars, limitVars, dbVars
<1>5. ASSUME NEW ck \in cookies, Logout(ck) PROVE TypeOK'
  <2>1. ck.token \in Token
    BY DEF TypeOK, Cookie
  <2>2. DOMAIN gTokens' \subseteq Token /\ gTokens' \in [DOMAIN gTokens' -> Nat]
    BY <1>5 DEF TypeOK, Logout, RemoveToken
  <2> QED
    BY <1>5, <2>1, <2>2 DEF TypeOK, Logout, procVars, limitVars, dbVars
<1>6. CASE PeriodicCleanup
  BY <1>6, StoreOpsTyped DEF TypeOK, PeriodicCleanup, procVars, limitVars, dbVars
<1>7. ASSUME NEW e \in Editor, EditFile(e) PROVE TypeOK'
  BY <1>7 DEF TypeOK, EditFile, procVars, storeVars, limitVars
<1>16. ASSUME NEW e \in Editor, EditDone(e) PROVE TypeOK'
  BY <1>16 DEF TypeOK, EditDone, procVars, storeVars, limitVars
<1>8. ASSUME NEW e \in Editor, SignalEdit(e) PROVE TypeOK'
  BY <1>8 DEF TypeOK, SignalEdit, storeVars, limitVars, Serving
<1>9. CASE ReloadRead
  <2>1. Readable \subseteq SUBSET Credential
    BY DEF Readable, TypeOK
  <2>2. snapshot' \subseteq SUBSET Credential /\ sighup' = FALSE
    BY <1>9, <2>1 DEF ReloadRead
  <2> QED
    BY <1>9, <2>2 DEF TypeOK, ReloadRead, procVars, storeVars, limitVars
<1>10. CASE ReloadSwap
  BY <1>10 DEF TypeOK, ReloadSwap, procVars, storeVars, limitVars
<1>11. CASE Load
  <2>1. DOMAIN gTokens' \subseteq Token /\ gTokens' \in [DOMAIN gTokens' -> Nat]
    BY <1>11 DEF Load
  <2>2. bucket' \in 0..Burst /\ admitted' \in Nat
    BY <1>0, <1>11 DEF Load
  <2>3. req' \in [Request -> LoginState]
    BY <1>11 DEF Load, LoginState
  <2>4. /\ phase' = "loaded" /\ start' \in Nat /\ startedAt' \in Nat
        /\ gPasswordDb' \subseteq Credential /\ sighup' = FALSE /\ snapshot' = {}
    BY <1>11 DEF TypeOK, Load, Readable
  <2>5. UNCHANGED <<now, cookies, generated, issuedAt, loggedOut, file, editor, edits>>
    BY <1>11 DEF Load
  <2> QED
    BY <2>1, <2>2, <2>3, <2>4, <2>5 DEF TypeOK
<1>12. CASE Listen \/ Shutdown \/ Exit
  BY <1>12 DEF TypeOK, Listen, Shutdown, Exit, storeVars, limitVars, dbVars
<1>13. CASE Tick
  BY <1>0, <1>13 DEF TypeOK, Tick, procVars, storeVars, dbVars
<1>14. CASE UNCHANGED vars
  BY <1>14 DEF TypeOK, vars, procVars, storeVars, limitVars, dbVars
<1> QED
  BY <1>1, <1>2, <1>3, <1>4, <1>5, <1>6, <1>7, <1>8, <1>9, <1>10, <1>11,
     <1>12, <1>13, <1>14, <1>15, <1>16 DEF Next, Login

(* Every variable keeps its type: the store stays a map from tokens to     *)
(* times, the limiter between nothing and its burst.                       *)
THEOREM TypeCorrect == Spec => []TypeOK
  BY TypeInit, TypeNext, PTL DEF Spec

-----------------------------------------------------------------------------
(* The size of the store                                                   *)

LEMMA RoomMadeBounded ==
  ASSUME TypeOK, StoreBounded
  PROVE  /\ IsFiniteSet(DOMAIN RoomMade)
         /\ Cardinality(DOMAIN RoomMade) \in Nat
         /\ Cardinality(DOMAIN RoomMade) <= Cardinality(DOMAIN gTokens)
         /\ Cardinality(DOMAIN gTokens) \in Nat
<1>1. DOMAIN RoomMade \subseteq DOMAIN gTokens /\ IsFiniteSet(DOMAIN gTokens)
  BY StoreOpsTyped DEF StoreBounded
<1> QED
  BY <1>1, FS_Subset, FS_CardinalityType

LEMMA SmallerStoreBounded ==
  ASSUME TypeOK, StoreBounded, DOMAIN gTokens' \subseteq DOMAIN gTokens
  PROVE  StoreBounded'
<1>1. /\ IsFiniteSet(DOMAIN gTokens')
      /\ Cardinality(DOMAIN gTokens') <= Cardinality(DOMAIN gTokens)
  BY FS_Subset DEF StoreBounded
<1>2. Cardinality(DOMAIN gTokens) \in Nat /\ Cardinality(DOMAIN gTokens') \in Nat
  BY <1>1, FS_CardinalityType DEF StoreBounded
<1> QED
  BY <1>1, <1>2, WebAuthAssumption DEF StoreBounded

\* A login finds the store full, or leaves room for its token.
LEMMA IssueBounded ==
  ASSUME TypeOK, StoreBounded, NEW r \in Request, LoginIssue(r)
  PROVE  StoreBounded'
<1>1. PICK t \in Token \ generated :
        IF StoreFull THEN gTokens' = RoomMade ELSE gTokens' = SaveToken(t)
  BY DEF LoginIssue
<1>2. CASE StoreFull
  BY <1>1, <1>2, StoreOpsTyped, SmallerStoreBounded
<1>3. CASE ~StoreFull
  <2>1. DOMAIN gTokens' = DOMAIN RoomMade \cup {t}
    BY <1>1, <1>3 DEF SaveToken
  <2>2. Cardinality(DOMAIN RoomMade) < MaxTokens
    BY <1>3, RoomMadeBounded, WebAuthAssumption DEF StoreBounded, StoreFull
  <2>3. /\ IsFiniteSet(DOMAIN gTokens')
        /\ \/ Cardinality(DOMAIN gTokens') = Cardinality(DOMAIN RoomMade)
           \/ Cardinality(DOMAIN gTokens') = Cardinality(DOMAIN RoomMade) + 1
    BY <2>1, RoomMadeBounded, FS_AddElement
  <2> QED
    BY <2>2, <2>3, RoomMadeBounded, WebAuthAssumption DEF StoreBounded
<1> QED
  BY <1>2, <1>3

(* However many logins race, the store never outgrows -max-tokens: the ==  *)
(* of SaveToken is as good as a >=.                                        *)
THEOREM StoreNeverOutgrown == Spec => []StoreBounded
<1>1. Init => StoreBounded
  <2> SUFFICES ASSUME Init PROVE StoreBounded
    OBVIOUS
  <2>1. DOMAIN gTokens = {}
    BY DEF Init
  <2> QED
    BY <2>1, FS_EmptySet, WebAuthAssumption DEF StoreBounded
<1>2. TypeOK /\ StoreBounded /\ [Next]_vars => StoreBounded'
  <2> SUFFICES ASSUME TypeOK, StoreBounded, [Next]_vars PROVE StoreBounded'
    OBVIOUS
  <2>1. ASSUME NEW r \in Request, LoginIssue(r) PROVE StoreBounded'
    BY <2>1, IssueBounded
  <2>2. ASSUME NEW r \in Request,
               LoginBegin(r) \/ LoginMatch(r) \/ GenerateTokenFails(r) \/ LoginRespond(r)
        PROVE  StoreBounded'
    BY <2>2 DEF LoginBegin, LoginMatch, GenerateTokenFails, LoginRespond, storeVars,
                StoreBounded
  <2>3. ASSUME NEW ck \in cookies, Logout(ck) PROVE StoreBounded'
    <3>1. DOMAIN gTokens' \subseteq DOMAIN gTokens
      BY <2>3 DEF Logout, RemoveToken
    <3> QED
      BY <3>1, SmallerStoreBounded
  <2>4. CASE PeriodicCleanup
    BY <2>4, StoreOpsTyped, SmallerStoreBounded DEF PeriodicCleanup
  <2>5. CASE Load
    <3>1. DOMAIN gTokens' \subseteq DOMAIN gTokens
      BY <2>5 DEF Load
    <3> QED
      BY <3>1, SmallerStoreBounded
  <2>6. CASE \/ \E e \in Editor : EditFile(e) \/ EditDone(e) \/ SignalEdit(e)
             \/ ReloadRead \/ ReloadSwap \/ Listen \/ Shutdown \/ Exit \/ Tick
             \/ UNCHANGED vars
    BY <2>6 DEF EditFile, EditDone, SignalEdit, ReloadRead, ReloadSwap, Listen, Shutdown,
                Exit, Tick, vars, storeVars, StoreBounded
  <2> QED
    BY <2>1, <2>2, <2>3, <2>4, <2>5, <2>6 DEF Next, Login
<1> QED
  BY <1>1, <1>2, TypeCorrect, PTL DEF Spec

-----------------------------------------------------------------------------
(* The limiter                                                             *)

\* What was admitted and what may still be admitted now, together, is what
\* the burst and the time since the start allow.
LimiterInv ==
  /\ startedAt <= now
  /\ admitted + bucket <= Burst + (now - startedAt)

\* Together they grow no faster than the clock while the process runs.
Refills == start' = start => admitted' + bucket' <= admitted + bucket + (now' - now)

(* Credentials can be tried no faster than the limiter allows, whatever    *)
(* the requests look like and however they interleave.                     *)
THEOREM AttemptsNeverExceed == Spec => AttemptsBounded
<1>0. Burst \in Nat
  BY WebAuthAssumption
<1>1. Init => LimiterInv
  BY <1>0 DEF Init, LimiterInv
<1>2. TypeOK /\ LimiterInv /\ [Next]_vars => LimiterInv' /\ Refills
  <2> SUFFICES ASSUME TypeOK, LimiterInv, [Next]_vars PROVE LimiterInv' /\ Refills
    OBVIOUS
  <2>1. /\ bucket \in Int /\ bucket >= 0 /\ admitted \in Nat
        /\ now \in Nat /\ startedAt \in Nat /\ start \in Nat
    BY <1>0 DEF TypeOK
  <2>2. ASSUME NEW r \in Request, LoginBegin(r) PROVE LimiterInv' /\ Refills
    <3>1. /\ bucket' = bucket - 1 /\ admitted' = admitted + 1
          /\ now' = now /\ startedAt' = startedAt
      BY <2>2 DEF LoginBegin, procVars
    <3> QED
      BY <1>0, <2>1, <3>1 DEF LimiterInv, Refills
  <2>3. CASE Load
    <3>1. /\ bucket' = Burst /\ admitted' = 0 /\ now' = now /\ startedAt' = now
          /\ start' = start + 1
      BY <2>3 DEF Load
    <3> QED
      BY <1>0, <2>1, <3>1 DEF LimiterInv, Refills
  <2>4. CASE Tick
    <3>1. /\ bucket' = bucket + 1 \/ bucket' = bucket
          /\ admitted' = admitted /\ now' = now + 1 /\ startedAt' = startedAt
      BY <2>4 DEF Tick, procVars
    <3> QED
      BY <1>0, <2>1, <3>1 DEF LimiterInv, Refills
  <2>5. CASE \/ \E r \in Request : LoginMatch(r) \/ GenerateTokenFails(r)
             \/ \E r \in Request : LoginIssue(r) \/ LoginRespond(r)
             \/ \E ck \in cookies : Logout(ck)
             \/ \E e \in Editor : EditFile(e) \/ EditDone(e) \/ SignalEdit(e)
             \/ PeriodicCleanup \/ ReloadRead \/ ReloadSwap
             \/ Listen \/ Shutdown \/ Exit
             \/ UNCHANGED vars
    <3>1. UNCHANGED <<bucket, admitted, now, startedAt>>
      BY <2>5 DEF LoginMatch, GenerateTokenFails, LoginIssue, LoginRespond, Logout,
                  EditFile, EditDone, SignalEdit, PeriodicCleanup, ReloadRead, ReloadSwap, Listen,
                  Shutdown, Exit, vars, procVars, limitVars
    <3> QED BY <2>1, <3>1 DEF LimiterInv, Refills
  <2> QED
    BY <2>2, <2>3, <2>4, <2>5 DEF Next, Login
<1> DEFINE Bounded == bucket <= Burst /\ admitted <= Burst + (now - startedAt)
<1>3. TypeOK /\ LimiterInv => Bounded
  BY <1>0 DEF TypeOK, LimiterInv
<1> HIDE DEF Bounded
<1>4. Spec => []Bounded /\ [][Refills]_vars
  BY <1>1, <1>2, <1>3, TypeCorrect, PTL DEF Spec
<1> QED
  BY <1>4 DEF AttemptsBounded, Bounded, Refills

-----------------------------------------------------------------------------
(* Refusals                                                                *)

(* A user with valid credentials is turned away for lack of room only when *)
(* MaxTokens tokens not past their expiration are stored.                  *)
THEOREM RefusalsJustified == Spec => RefusedOnlyWhenFull
<1>1. ASSUME TypeOK, [Next]_vars, NEW r \in Request,
             req[r].pc = "issue", req'[r].pc = "idle", generated' # generated
      PROVE  Cardinality({t \in DOMAIN gTokens : now <= gTokens[t]}) = MaxTokens
  <2>0. req \in [Request -> LoginState]
    BY <1>1 DEF TypeOK
  <2>1. LoginIssue(r)
    <3>1. PICK s \in Request : LoginIssue(s)
      BY <1>1
      DEF Next, Login, LoginBegin, LoginMatch, GenerateTokenFails, LoginRespond,
          Logout, EditFile, EditDone, SignalEdit, PeriodicCleanup, ReloadRead,
          ReloadSwap, Load, Listen, Shutdown, Exit, Tick, vars, storeVars
    <3>2. s = r
      BY <1>1, <2>0, <3>1 DEF LoginIssue
    <3> QED
      BY <3>1, <3>2
  <2>2. StoreFull
    <3>1. CASE ~StoreFull
      <4>1. PICK t \in Token : req' = [req EXCEPT ![r].pc = "respond", ![r].token = t]
        BY <2>1, <3>1 DEF LoginIssue
      <4>2. req'[r].pc = "respond"
        BY <2>0, <4>1 DEF LoginState, IdleReq
      <4> QED
        BY <1>1, <4>2
    <3> QED
      BY <3>1
  <2>3. Cardinality(DOMAIN gTokens) = MaxTokens /\ RoomMade = CleanupTokens
    BY <2>2 DEF StoreFull, RoomMade
  <2>4. DOMAIN CleanupTokens = {t \in DOMAIN gTokens : now <= gTokens[t]}
    BY <1>1 DEF CleanupTokens, TypeOK
  <2> QED
    BY <2>2, <2>3, <2>4 DEF StoreFull
<1>2. TypeOK /\ [Next]_vars =>
        [\A r \in Request :
           (req[r].pc = "issue" /\ req'[r].pc = "idle" /\ generated' # generated)
             => Cardinality({t \in DOMAIN gTokens : now <= gTokens[t]}) = MaxTokens]_vars
  BY <1>1
<1> QED
  BY <1>2, TypeCorrect, PTL DEF Spec, RefusedOnlyWhenFull

-----------------------------------------------------------------------------
(* Which cookies open the GUI                                              *)

CookieTokens == {ck.token : ck \in cookies}

\* The expiration of a stored token was fixed when it was issued.
StoreInv ==
  \A t \in DOMAIN gTokens : issuedAt[t] # None /\ gTokens[t] = issuedAt[t] + Validity

IssuedInv == \A t \in Token : issuedAt[t] # None => t \in generated /\ issuedAt[t] <= now

\* A cookie is younger than its token.  A token of an earlier incarnation is
\* not in the store; one of this incarnation is, until it expires or logs out.
CookieInv ==
  \A ck \in cookies :
    /\ ck.key <= start
    /\ issuedAt[ck.token] # None /\ issuedAt[ck.token] <= ck.at
    /\ ck.key # start => ck.token \notin DOMAIN gTokens
    /\ (ck.key = start /\ ck.token \notin loggedOut /\ now < issuedAt[ck.token] + Validity)
         => ck.token \in DOMAIN gTokens

LogoutInv ==
  /\ loggedOut \subseteq CookieTokens
  /\ \A t \in DOMAIN gTokens : now < gTokens[t] => t \notin loggedOut

\* The token of a login about to be answered is in no cookie yet, belongs to
\* no other login, and is in the store until it expires.
LoginInv ==
  \A r \in Request :
    req[r].pc = "respond" =>
      /\ issuedAt[req[r].token] # None
      /\ req[r].token \notin CookieTokens
      /\ now < issuedAt[req[r].token] + Validity => req[r].token \in DOMAIN gTokens
      /\ \A s \in Request :
           (s # r /\ req[s].pc = "respond") => req[s].token # req[r].token

AuthInv == StoreInv /\ IssuedInv /\ CookieInv /\ LogoutInv /\ LoginInv

LEMMA ConstFacts == Validity \in Nat /\ Validity > 0 /\ None \notin Nat /\ None \notin Token
  BY WebAuthAssumption

\* The store after a cleanup, or after the part of SaveToken that makes room.
LEMMA CleanupKeeps ==
  ASSUME TypeOK
  PROVE  /\ \A t \in DOMAIN CleanupTokens : t \in DOMAIN gTokens /\ CleanupTokens[t] = gTokens[t]
         /\ \A t \in DOMAIN gTokens : now < gTokens[t] => t \in DOMAIN CleanupTokens
         /\ \A t \in DOMAIN RoomMade : t \in DOMAIN gTokens /\ RoomMade[t] = gTokens[t]
         /\ \A t \in DOMAIN gTokens : now < gTokens[t] => t \in DOMAIN RoomMade
<1>1. now \in Nat /\ \A t \in DOMAIN gTokens : gTokens[t] \in Nat
  BY DEF TypeOK
<1>2. /\ \A t \in DOMAIN CleanupTokens : t \in DOMAIN gTokens /\ CleanupTokens[t] = gTokens[t]
      /\ \A t \in DOMAIN gTokens : now < gTokens[t] => t \in DOMAIN CleanupTokens
  BY <1>1 DEF CleanupTokens
<1> QED
  BY <1>2 DEF RoomMade

\* A step that only takes tokens out of the store that have expired, and moves
\* no login to its answer, keeps AuthInv.
LEMMA ShrinkKeepsAuthInv ==
  ASSUME TypeOK, AuthInv,
         UNCHANGED <<start, now, cookies, generated, issuedAt, loggedOut>>,
         \A t \in DOMAIN gTokens' : t \in DOMAIN gTokens /\ gTokens'[t] = gTokens[t],
         \A t \in DOMAIN gTokens : now < gTokens[t] => t \in DOMAIN gTokens',
         \A r \in Request : req'[r].pc = "respond" => req[r].pc = "respond"
                                                      /\ req'[r].token = req[r].token
  PROVE  AuthInv'
<1>1. StoreInv'
  BY DEF AuthInv, StoreInv
<1>2. IssuedInv'
  BY DEF AuthInv, IssuedInv
<1>3. CookieInv'
  <2> SUFFICES ASSUME NEW ck \in cookies
               PROVE  /\ ck.key <= start
                      /\ issuedAt[ck.token] # None /\ issuedAt[ck.token] <= ck.at
                      /\ ck.key # start => ck.token \notin DOMAIN gTokens'
                      /\ (ck.key = start /\ ck.token \notin loggedOut
                          /\ now < issuedAt[ck.token] + Validity)
                           => ck.token \in DOMAIN gTokens'
    BY DEF CookieInv
  <2> QED
    BY DEF AuthInv, CookieInv, StoreInv
<1>4. LogoutInv'
  BY DEF AuthInv, LogoutInv, CookieTokens
<1>5. LoginInv'
  <2>1. CookieTokens' = CookieTokens
    BY DEF CookieTokens
  <2> QED
    BY <2>1 DEF AuthInv, LoginInv, StoreInv
<1> QED
  BY <1>1, <1>2, <1>3, <1>4, <1>5 DEF AuthInv

LEMMA AuthInvInit == Init => AuthInv
<1> SUFFICES ASSUME Init PROVE AuthInv
  OBVIOUS
<1>1. DOMAIN gTokens = {} /\ cookies = {} /\ loggedOut = {}
  BY DEF Init
<1>2. \A r \in Request : req[r].pc = "idle"
  BY DEF Init, IdleReq
<1>3. \A t \in Token : issuedAt[t] = None
  BY DEF Init
<1> QED
  BY <1>1, <1>2, <1>3
  DEF AuthInv, StoreInv, IssuedInv, CookieInv, LogoutInv, LoginInv, CookieTokens

LEMMA AuthInvIssue ==
  ASSUME TypeOK, AuthInv, NEW r \in Request, LoginIssue(r)
  PROVE  AuthInv'
<1>1. PICK t \in Token \ generated :
        /\ generated' = generated \cup {t}
        /\ IF StoreFull
           THEN /\ gTokens' = RoomMade
                /\ req' = [req EXCEPT ![r] = IdleReq]
                /\ UNCHANGED issuedAt
           ELSE /\ gTokens' = SaveToken(t)
                /\ req' = [req EXCEPT ![r].pc = "respond", ![r].token = t]
                /\ issuedAt' = [issuedAt EXCEPT ![t] = now]
  BY DEF LoginIssue
<1>2. UNCHANGED <<start, now, cookies, loggedOut>>
  BY DEF LoginIssue, procVars
<1>3. /\ now \in Nat /\ req \in [Request -> LoginState] /\ issuedAt \in [Token -> Nat \cup {None}]
      /\ cookies \subseteq Cookie /\ DOMAIN gTokens \subseteq Token
      /\ \A u \in DOMAIN gTokens : gTokens[u] \in Nat
  BY DEF TypeOK
<1>4. CASE StoreFull
  <2>1. IssuedInv'
    BY <1>1, <1>2, <1>4 DEF AuthInv, IssuedInv
  <2>2. \A s \in Request : req'[s].pc = "respond" => req[s].pc = "respond" /\ req'[s] = req[s]
    BY <1>1, <1>3, <1>4 DEF IdleReq
  <2>3. StoreInv'
    BY <1>1, <1>4, CleanupKeeps DEF AuthInv, StoreInv
  <2>4. CookieInv'
    <3> SUFFICES ASSUME NEW ck \in cookies
                 PROVE  /\ ck.key <= start
                        /\ issuedAt[ck.token] # None /\ issuedAt[ck.token] <= ck.at
                        /\ ck.key # start => ck.token \notin DOMAIN gTokens'
                        /\ (ck.key = start /\ ck.token \notin loggedOut
                            /\ now < issuedAt[ck.token] + Validity)
                             => ck.token \in DOMAIN gTokens'
      BY <1>1, <1>2, <1>4 DEF CookieInv
    <3> QED
      BY <1>1, <1>4, CleanupKeeps DEF AuthInv, CookieInv, StoreInv
  <2>5. LogoutInv'
    BY <1>1, <1>2, <1>4, CleanupKeeps DEF AuthInv, LogoutInv, CookieTokens
  <2>6. LoginInv'
    <3>1. CookieTokens' = CookieTokens
      BY <1>2 DEF CookieTokens
    <3>2. \A u \in DOMAIN gTokens : now < issuedAt[u] + Validity => u \in DOMAIN gTokens'
      BY <1>1, <1>4, CleanupKeeps DEF AuthInv, StoreInv
    <3> QED
      BY <1>1, <1>2, <1>4, <2>2, <3>1, <3>2 DEF AuthInv, LoginInv
  <2> QED
    BY <2>1, <2>3, <2>4, <2>5, <2>6 DEF AuthInv
<1>5. CASE ~StoreFull
  <2>1. /\ gTokens' = SaveToken(t)
        /\ req' = [req EXCEPT ![r].pc = "respond", ![r].token = t]
        /\ issuedAt' = [issuedAt EXCEPT ![t] = now]
    BY <1>1, <1>5
  <2>2. issuedAt[t] = None /\ issuedAt'[t] = now /\ now # None
    BY <1>1, <1>3, <2>1, ConstFacts DEF AuthInv, IssuedInv
  <2>3. \A u \in Token : u # t => issuedAt'[u] = issuedAt[u]
    BY <1>3, <2>1
  <2>4. t \notin DOMAIN gTokens /\ t \notin CookieTokens /\ t \notin loggedOut
    BY <2>2 DEF AuthInv, StoreInv, CookieInv, LogoutInv, CookieTokens
  <2>5. /\ t \in DOMAIN gTokens' /\ gTokens'[t] = now + Validity
        /\ \A u \in DOMAIN gTokens' :
             u # t => u \in DOMAIN gTokens /\ gTokens'[u] = gTokens[u]
        /\ \A u \in DOMAIN gTokens : now < gTokens[u] => u \in DOMAIN gTokens'
    BY <2>1, <2>4, CleanupKeeps DEF SaveToken
  <2>6. StoreInv'
    BY <1>3, <2>2, <2>3, <2>5 DEF AuthInv, StoreInv
  <2>7. IssuedInv'
    BY <1>1, <1>2, <1>3, <2>2, <2>3 DEF AuthInv, IssuedInv
  <2>8. CookieInv'
    <3> SUFFICES ASSUME NEW ck \in cookies
                 PROVE  /\ ck.key <= start
                        /\ issuedAt'[ck.token] # None /\ issuedAt'[ck.token] <= ck.at
                        /\ ck.key # start => ck.token \notin DOMAIN gTokens'
                        /\ (ck.key = start /\ ck.token \notin loggedOut
                            /\ now < issuedAt'[ck.token] + Validity)
                             => ck.token \in DOMAIN gTokens'
      BY <1>2 DEF CookieInv
    <3>1. ck.token # t /\ ck.token \in Token
      BY <1>3, <2>4 DEF CookieTokens, Cookie
    <3> QED
      BY <2>3, <2>5, <3>1 DEF AuthInv, CookieInv, StoreInv
  <2>9. LogoutInv'
    BY <1>2, <2>4, <2>5 DEF AuthInv, LogoutInv, CookieTokens
  <2>10. LoginInv'
    <3>1. CookieTokens' = CookieTokens
      BY <1>2 DEF CookieTokens
    <3>2. req'[r].pc = "respond" /\ req'[r].token = t
      BY <1>3, <2>1 DEF LoginState, IdleReq
    <3>3. \A s \in Request : s # r => req'[s] = req[s]
      BY <1>3, <2>1
    <3>4. \A s \in Request :
            (s # r /\ req[s].pc = "respond") => req[s].token # t /\ req[s].token \in Token
      BY <1>3, <2>2 DEF AuthInv, LoginInv, LoginState, IdleReq
    <3>5. ASSUME NEW s \in Request, s # r, req[s].pc = "respond"
          PROVE  /\ issuedAt'[req[s].token] # None
                 /\ req[s].token \notin CookieTokens
                 /\ now < issuedAt'[req[s].token] + Validity => req[s].token \in DOMAIN gTokens'
      BY <2>3, <2>5, <3>4, <3>5 DEF AuthInv, LoginInv, StoreInv
    <3> QED
      BY <1>2, <2>2, <2>4, <2>5, <3>1, <3>2, <3>3, <3>4, <3>5 DEF AuthInv, LoginInv
  <2> QED
    BY <2>6, <2>7, <2>8, <2>9, <2>10 DEF AuthInv
<1> QED
  BY <1>4, <1>5

LEMMA AuthInvRespond ==
  ASSUME TypeOK, AuthInv, NEW r \in Request, LoginRespond(r)
  PROVE  AuthInv'
<1> DEFINE t == req[r].token
           new == [key |-> start, token |-> t, at |-> now]
<1>1. /\ req[r].pc = "respond" /\ req' = [req EXCEPT ![r] = IdleReq]
      /\ cookies' = cookies \cup {new} \/ cookies' = cookies
      /\ UNCHANGED <<start, now, gTokens, generated, issuedAt, loggedOut>>
  BY DEF LoginRespond, procVars
<1>2. /\ req \in [Request -> LoginState] /\ issuedAt \in [Token -> Nat \cup {None}]
      /\ start \in Nat /\ now \in Nat /\ t \in Token
  BY <1>1 DEF TypeOK, LoginState, IdleReq
<1>3. /\ issuedAt[t] # None /\ t \notin CookieTokens /\ issuedAt[t] <= now
      /\ now < issuedAt[t] + Validity => t \in DOMAIN gTokens
  BY <1>1, <1>2 DEF AuthInv, LoginInv, IssuedInv
<1>4. StoreInv' /\ IssuedInv'
  BY <1>1 DEF AuthInv, StoreInv, IssuedInv
<1>5. CookieInv'
  <2> SUFFICES ASSUME NEW ck \in cookies'
               PROVE  /\ ck.key <= start
                      /\ issuedAt[ck.token] # None /\ issuedAt[ck.token] <= ck.at
                      /\ ck.key # start => ck.token \notin DOMAIN gTokens
                      /\ (ck.key = start /\ ck.token \notin loggedOut
                          /\ now < issuedAt[ck.token] + Validity)
                           => ck.token \in DOMAIN gTokens
    BY <1>1 DEF CookieInv
  <2>1. CASE ck \in cookies
    BY <2>1 DEF AuthInv, CookieInv
  <2>2. CASE ck = new
    BY <1>2, <1>3, <2>2
  <2> QED
    BY <1>1, <2>1, <2>2
<1>6. LogoutInv'
  <2>1. CookieTokens \subseteq CookieTokens'
    BY <1>1 DEF CookieTokens
  <2> QED
    BY <1>1, <2>1 DEF AuthInv, LogoutInv
<1>7. LoginInv'
  <2>1. \A s \in Request : req'[s].pc = "respond" => s # r /\ req[s].pc = "respond"
                                                     /\ req'[s] = req[s]
    BY <1>1, <1>2 DEF IdleReq
  <2>2. \A u : u # t /\ u \notin CookieTokens => u \notin CookieTokens'
    BY <1>1 DEF CookieTokens
  <2>3. \A s \in Request : (s # r /\ req[s].pc = "respond") => req[s].token # t
    BY <1>1 DEF AuthInv, LoginInv
  <2> QED
    BY <1>1, <2>1, <2>2, <2>3 DEF AuthInv, LoginInv
<1> QED
  BY <1>4, <1>5, <1>6, <1>7 DEF AuthInv

LEMMA AuthInvLogout ==
  ASSUME TypeOK, AuthInv, NEW ck \in cookies, Logout(ck)
  PROVE  AuthInv'
<1>1. /\ gTokens' = IF Decode(ck) THEN RemoveToken(ck.token) ELSE gTokens
      /\ loggedOut' = loggedOut \cup {ck.token}
      /\ UNCHANGED <<start, now, cookies, generated, issuedAt, req>>
  BY DEF Logout, procVars
<1>2. /\ now \in Nat /\ ck \in Cookie /\ issuedAt \in [Token -> Nat \cup {None}]
  BY DEF TypeOK
<1>3. /\ \A u \in DOMAIN gTokens' : u \in DOMAIN gTokens /\ gTokens'[u] = gTokens[u]
      /\ \A u \in DOMAIN gTokens : u # ck.token => u \in DOMAIN gTokens'
  BY <1>1 DEF RemoveToken
\* A cookie too old to be decoded belongs to a token that has expired.
<1>4. ck.token \in DOMAIN gTokens' => ~(now < gTokens'[ck.token])
  <2>1. CASE Decode(ck)
    BY <1>1, <2>1 DEF RemoveToken
  <2>2. CASE ck.key # start
    BY <1>3, <2>2 DEF AuthInv, CookieInv
  <2>3. CASE ~(ck.at >= now - Validity)
    <3> SUFFICES ASSUME ck.token \in DOMAIN gTokens' PROVE ~(now < gTokens'[ck.token])
      OBVIOUS
    <3>1. /\ gTokens'[ck.token] = issuedAt[ck.token] + Validity
          /\ issuedAt[ck.token] # None /\ issuedAt[ck.token] <= ck.at
      BY <1>3 DEF AuthInv, StoreInv, CookieInv
    <3>2. issuedAt[ck.token] \in Nat /\ ck.at \in Nat
      BY <1>2, <3>1 DEF Cookie
    <3> QED
      BY <1>2, <2>3, <3>1, <3>2, ConstFacts
  <2> QED
    BY <2>1, <2>2, <2>3 DEF Decode
<1>5. StoreInv' /\ IssuedInv'
  BY <1>1, <1>3 DEF AuthInv, StoreInv, IssuedInv
<1>6. CookieInv'
  <2> SUFFICES ASSUME NEW c \in cookies
               PROVE  /\ c.key <= start
                      /\ issuedAt[c.token] # None /\ issuedAt[c.token] <= c.at
                      /\ c.key # start => c.token \notin DOMAIN gTokens'
                      /\ (c.key = start /\ c.token \notin loggedOut'
                          /\ now < issuedAt[c.token] + Validity)
                           => c.token \in DOMAIN gTokens'
    BY <1>1 DEF CookieInv
  <2> QED
    BY <1>1, <1>3 DEF AuthInv, CookieInv
<1>7. LogoutInv'
  BY <1>1, <1>3, <1>4 DEF AuthInv, LogoutInv, CookieTokens
<1>8. LoginInv'
  <2>1. CookieTokens' = CookieTokens /\ ck.token \in CookieTokens
    BY <1>1 DEF CookieTokens
  <2> QED
    BY <1>1, <1>3, <2>1 DEF AuthInv, LoginInv
<1> QED
  BY <1>5, <1>6, <1>7, <1>8 DEF AuthInv

LEMMA AuthInvLoad == ASSUME TypeOK, AuthInv, Load PROVE AuthInv'
<1>1. /\ start' = start + 1 /\ DOMAIN gTokens' = {}
      /\ req' = [r \in Request |-> IdleReq]
      /\ UNCHANGED <<now, cookies, generated, issuedAt, loggedOut>>
  BY DEF Load
<1>2. start \in Nat /\ cookies \subseteq Cookie
  BY DEF TypeOK
<1>3. CookieInv'
  <2> SUFFICES ASSUME NEW ck \in cookies
               PROVE  /\ ck.key <= start + 1 /\ ck.key # start + 1
                      /\ issuedAt[ck.token] # None /\ issuedAt[ck.token] <= ck.at
    BY <1>1 DEF CookieInv
  <2>1. ck.key \in Nat /\ ck.key <= start
    BY <1>2 DEF AuthInv, CookieInv, Cookie
  <2> QED
    BY <1>2, <2>1 DEF AuthInv, CookieInv
<1>4. LoginInv'
  BY <1>1 DEF LoginInv, IdleReq
<1> QED
  BY <1>1, <1>3, <1>4 DEF AuthInv, StoreInv, IssuedInv, LogoutInv, CookieTokens

LEMMA AuthInvTick == ASSUME TypeOK, AuthInv, Tick PROVE AuthInv'
<1>1. /\ now' = now + 1 /\ now \in Nat
      /\ UNCHANGED <<start, gTokens, cookies, generated, issuedAt, loggedOut, req>>
  BY DEF Tick, procVars, storeVars, TypeOK
<1>2. /\ issuedAt \in [Token -> Nat \cup {None}] /\ cookies \subseteq Cookie
      /\ \A t \in DOMAIN gTokens : gTokens[t] \in Nat
      /\ req \in [Request -> LoginState]
  BY DEF TypeOK
<1>3. StoreInv' /\ IssuedInv'
  BY <1>1, <1>2 DEF AuthInv, StoreInv, IssuedInv
<1>4. CookieInv'
  <2> SUFFICES ASSUME NEW ck \in cookies
               PROVE  /\ ck.key <= start
                      /\ issuedAt[ck.token] # None /\ issuedAt[ck.token] <= ck.at
                      /\ ck.key # start => ck.token \notin DOMAIN gTokens
                      /\ (ck.key = start /\ ck.token \notin loggedOut
                          /\ now + 1 < issuedAt[ck.token] + Validity)
                           => ck.token \in DOMAIN gTokens
    BY <1>1 DEF CookieInv
  <2>1. issuedAt[ck.token] \in Nat
    BY <1>2 DEF AuthInv, CookieInv, Cookie
  <2> QED
    BY <1>1, <2>1, ConstFacts DEF AuthInv, CookieInv
<1>5. LogoutInv'
  BY <1>1, <1>2 DEF AuthInv, LogoutInv, CookieTokens
<1>6. LoginInv'
  <2>1. CookieTokens' = CookieTokens
    BY <1>1 DEF CookieTokens
  <2>2. ASSUME NEW r \in Request, req[r].pc = "respond"
        PROVE  now + 1 < issuedAt[req[r].token] + Validity
                 => now < issuedAt[req[r].token] + Validity
    <3>1. issuedAt[req[r].token] \in Nat
      BY <1>2, <2>2 DEF AuthInv, LoginInv, LoginState, IdleReq
    <3> QED
      BY <1>1, <3>1, ConstFacts
  <2> QED
    BY <1>1, <2>1, <2>2 DEF AuthInv, LoginInv
<1> QED
  BY <1>3, <1>4, <1>5, <1>6 DEF AuthInv

LEMMA AuthInvNext == TypeOK /\ AuthInv /\ [Next]_vars => AuthInv'
<1> SUFFICES ASSUME TypeOK, AuthInv, [Next]_vars PROVE AuthInv'
  OBVIOUS
<1>1. ASSUME NEW r \in Request, LoginBegin(r) \/ LoginMatch(r) \/ GenerateTokenFails(r)
      PROVE  AuthInv'
  <2>1. UNCHANGED <<start, now, gTokens, cookies, generated, issuedAt, loggedOut>>
    BY <1>1 DEF LoginBegin, LoginMatch, GenerateTokenFails, procVars, storeVars
  <2>2. req \in [Request -> LoginState]
    BY DEF TypeOK
  <2>3. \A s \in Request : req'[s].pc = "respond" => req[s].pc = "respond"
                                                     /\ req'[s].token = req[s].token
    <3>1. CASE LoginBegin(r)
      <4>1. \A c : [IdleReq EXCEPT !.pc = "match", !.cred = c].pc # "respond"
        BY DEF IdleReq
      <4> QED
        BY <2>2, <3>1, <4>1 DEF LoginBegin
    <3>2. CASE LoginMatch(r)
      <4>1. [req[r] EXCEPT !.pc = "issue"].pc # "respond" /\ IdleReq.pc # "respond"
        BY <2>2 DEF IdleReq, LoginState
      <4> QED
        BY <2>2, <3>2, <4>1 DEF LoginMatch
    <3>3. CASE GenerateTokenFails(r)
      BY <2>2, <3>3 DEF GenerateTokenFails, IdleReq
    <3> QED
      BY <1>1, <3>1, <3>2, <3>3
  <2> QED
    BY <2>1, <2>3, ShrinkKeepsAuthInv
<1>2. ASSUME NEW r \in Request, LoginIssue(r) PROVE AuthInv'
  BY <1>2, AuthInvIssue
<1>3. ASSUME NEW r \in Request, LoginRespond(r) PROVE AuthInv'
  BY <1>3, AuthInvRespond
<1>4. ASSUME NEW ck \in cookies, Logout(ck) PROVE AuthInv'
  BY <1>4, AuthInvLogout
<1>5. CASE PeriodicCleanup
  <2>1. /\ UNCHANGED <<start, now, cookies, generated, issuedAt, loggedOut, req>>
        /\ gTokens' = CleanupTokens
    BY <1>5 DEF PeriodicCleanup, procVars
  <2> QED
    BY <2>1, CleanupKeeps, ShrinkKeepsAuthInv
<1>6. CASE Load
  BY <1>6, AuthInvLoad
<1>7. CASE Tick
  BY <1>7, AuthInvTick
<1>8. CASE \/ \E e \in Editor : EditFile(e) \/ EditDone(e) \/ SignalEdit(e)
           \/ ReloadRead \/ ReloadSwap \/ Listen \/ Shutdown \/ Exit
           \/ UNCHANGED vars
  <2>1. UNCHANGED <<start, now, gTokens, cookies, generated, issuedAt, loggedOut, req>>
    BY <1>8 DEF EditFile, EditDone, SignalEdit, ReloadRead, ReloadSwap, Listen, Shutdown, Exit,
                vars, procVars, storeVars
  <2> QED
    BY <2>1, ShrinkKeepsAuthInv
<1> QED
  BY <1>1, <1>2, <1>3, <1>4, <1>5, <1>6, <1>7, <1>8 DEF Next, Login

(* The promise of the README about a session, in both directions: a cookie *)
(* opens the GUI exactly while its own incarnation of the service runs,    *)
(* its validity lasts and nobody has logged out with it.                   *)
THEOREM AuthIsExact == Spec => []AuthExact
<1>1. ASSUME TypeOK, AuthInv, Serving, NEW ck \in cookies
      PROVE  authHandler(ck) <=> /\ ck.key = start
                                 /\ now < issuedAt[ck.token] + Validity
                                 /\ ck.token \notin loggedOut
  <2>1. /\ ck \in Cookie /\ now \in Nat /\ issuedAt \in [Token -> Nat \cup {None}]
    BY <1>1 DEF TypeOK
  <2>2. /\ issuedAt[ck.token] \in Nat /\ ck.at \in Nat /\ issuedAt[ck.token] <= ck.at
        /\ ck.token \in DOMAIN gTokens => gTokens[ck.token] = issuedAt[ck.token] + Validity
    BY <1>1, <2>1 DEF AuthInv, CookieInv, StoreInv, Cookie
  <2>3. authHandler(ck) => /\ ck.key = start
                           /\ now < issuedAt[ck.token] + Validity
                           /\ ck.token \notin loggedOut
    BY <1>1, <2>2 DEF authHandler, Decode, ValidateToken, AuthInv, LogoutInv
  <2>4. ASSUME ck.key = start, now < issuedAt[ck.token] + Validity, ck.token \notin loggedOut
        PROVE  authHandler(ck)
    <3>1. ck.token \in DOMAIN gTokens
      BY <1>1, <2>4 DEF AuthInv, CookieInv
    <3>2. ck.at >= now - Validity
      BY <2>1, <2>2, <2>4, ConstFacts
    <3> QED
      BY <1>1, <2>2, <2>4, <3>1, <3>2 DEF authHandler, Decode, ValidateToken
  <2> QED
    BY <2>3, <2>4
<1>2. TypeOK /\ AuthInv => AuthExact
  BY <1>1 DEF AuthExact
<1> QED
  BY <1>2, AuthInvInit, AuthInvNext, TypeCorrect, PTL DEF Spec

-----------------------------------------------------------------------------
(* The service implements SessionStore                                     *)

Accepted(t) == phase # "down" /\ ValidateToken(t)

LEMMA SessionOfIs ==
  ASSUME NEW t \in Token
  PROVE  /\ sessionOf[t] = "unused" <=> issuedAt[t] = None
         /\ sessionOf[t] = "live" <=> issuedAt[t] # None /\ Accepted(t)
         /\ sessionOf[t] = "over" <=> issuedAt[t] # None /\ ~Accepted(t)
  BY DEF sessionOf, Accepted

\* A step that issues no token and makes no token acceptable again closes the
\* sessions it ends, or stutters.
LEMMA ClosingStep ==
  ASSUME issuedAt' = issuedAt,
         \A t \in Token : issuedAt[t] # None /\ Accepted(t)' => Accepted(t)
  PROVE  [Sessions!Next]_sessionOf
<1> DEFINE S == {t \in Token : sessionOf[t] = "live" /\ sessionOf'[t] # "live"}
<1>1. \A t \in Token : /\ sessionOf'[t] = "unused" <=> issuedAt[t] = None
                       /\ sessionOf'[t] = "live" <=> issuedAt[t] # None /\ Accepted(t)'
                       /\ sessionOf'[t] = "over" <=> issuedAt[t] # None /\ ~Accepted(t)'
  BY DEF sessionOf, Accepted
<1>2. sessionOf' = [t \in Token |-> IF t \in S THEN "over" ELSE sessionOf[t]]
  <2>1. \A t \in Token : sessionOf'[t] = IF t \in S THEN "over" ELSE sessionOf[t]
    BY <1>1, SessionOfIs
  <2>2. sessionOf' = [t \in Token |-> sessionOf'[t]]
    BY DEF sessionOf
  <2> QED
    BY <2>1, <2>2
<1>3. CASE S = {}
  <2>1. sessionOf = [t \in Token |-> sessionOf[t]]
    BY DEF sessionOf
  <2> QED
    BY <1>2, <1>3, <2>1
<1>4. CASE S # {}
  <2>1. S \subseteq Sessions!Live /\ S \in SUBSET Token
    BY DEF Sessions!Live
  <2>2. Sessions!Close(S)
    BY <1>2, <1>4, <2>1 DEF Sessions!Close
  <2> QED
    BY <2>1, <2>2 DEF Sessions!Next
<1> QED
  BY <1>3, <1>4

\* A login that is given a token opens a session nobody had, in a store with
\* room for it.
LEMMA OpeningStep ==
  ASSUME TypeOK, AuthInv, StoreBounded, NEW r \in Request, LoginIssue(r)
  PROVE  [Sessions!Next]_sessionOf
<1>1. PICK t \in Token \ generated :
        IF StoreFull
        THEN gTokens' = RoomMade /\ UNCHANGED issuedAt
        ELSE gTokens' = SaveToken(t) /\ issuedAt' = [issuedAt EXCEPT ![t] = now]
  BY DEF LoginIssue
<1>2. phase' = phase /\ now' = now /\ phase # "down"
  BY DEF LoginIssue, procVars, Serving
<1>3. /\ now \in Nat /\ issuedAt \in [Token -> Nat \cup {None}] /\ now # None
      /\ DOMAIN gTokens \subseteq Token
  BY ConstFacts DEF TypeOK
<1>4. CASE StoreFull
  <2>1. \A u \in Token : Accepted(u)' => Accepted(u)
    BY <1>1, <1>2, <1>4, CleanupKeeps DEF Accepted, ValidateToken
  <2> QED
    BY <1>1, <1>4, <2>1, ClosingStep
<1>5. CASE ~StoreFull
  <2>1. gTokens' = SaveToken(t) /\ issuedAt' = [issuedAt EXCEPT ![t] = now]
    BY <1>1, <1>5
  <2>2. sessionOf[t] = "unused"
    BY <1>1, SessionOfIs DEF AuthInv, IssuedInv
  <2>3. \A u \in Token : u # t => (Accepted(u)' <=> Accepted(u)) /\ issuedAt'[u] = issuedAt[u]
    BY <1>2, <1>3, <2>1, CleanupKeeps DEF Accepted, ValidateToken, SaveToken
  <2>4. Accepted(t)' /\ issuedAt'[t] # None
    <3>1. t \in DOMAIN gTokens' /\ gTokens'[t] = now + Validity
      BY <2>1 DEF SaveToken
    <3> QED
      BY <1>2, <1>3, <2>1, <3>1, ConstFacts DEF Accepted, ValidateToken
  <2>5. sessionOf' = [sessionOf EXCEPT ![t] = "live"]
    <3>1. \A u \in Token : sessionOf'[u] = IF u = t THEN "live" ELSE sessionOf[u]
      BY <1>1, <2>3, <2>4 DEF sessionOf, Accepted
    <3>2. /\ sessionOf' = [u \in Token |-> sessionOf'[u]]
          /\ sessionOf = [u \in Token |-> sessionOf[u]]
      BY DEF sessionOf
    <3> QED
      BY <3>1, <3>2
  <2>6. Cardinality(Sessions!Live) < MaxTokens
    <3>1. Sessions!Live \subseteq DOMAIN RoomMade
      BY SessionOfIs, CleanupKeeps DEF Sessions!Live, Accepted, ValidateToken
    <3>2. Cardinality(DOMAIN RoomMade) < MaxTokens
      BY <1>5, RoomMadeBounded, WebAuthAssumption DEF StoreBounded, StoreFull
    <3>3. /\ IsFiniteSet(Sessions!Live)
          /\ Cardinality(Sessions!Live) <= Cardinality(DOMAIN RoomMade)
      BY <3>1, RoomMadeBounded, FS_Subset
    <3>4. Cardinality(Sessions!Live) \in Nat
      BY <3>3, FS_CardinalityType
    <3> QED
      BY <3>2, <3>3, <3>4, RoomMadeBounded, WebAuthAssumption
  <2>7. Sessions!Cardinality(Sessions!Live) = Cardinality(Sessions!Live)
    BY DEF Cardinality, Sessions!Cardinality
  <2>8. Sessions!Open(t)
    BY <2>2, <2>5, <2>6, <2>7 DEF Sessions!Open
  <2> QED
    BY <2>8 DEF Sessions!Next
<1> QED
  BY <1>4, <1>5

LEMMA StepRefines ==
  TypeOK /\ AuthInv /\ StoreBounded /\ [Next]_vars => [Sessions!Next]_sessionOf
<1> SUFFICES ASSUME TypeOK, AuthInv, StoreBounded, [Next]_vars
             PROVE  [Sessions!Next]_sessionOf
  OBVIOUS
<1>1. ASSUME NEW r \in Request, LoginIssue(r) PROVE [Sessions!Next]_sessionOf
  BY <1>1, OpeningStep
<1>2. ASSUME NEW ck \in cookies, Logout(ck) PROVE [Sessions!Next]_sessionOf
  <2>1. \A t \in Token : Accepted(t)' => Accepted(t)
    BY <1>2 DEF Logout, RemoveToken, procVars, Accepted, ValidateToken
  <2> QED
    BY <1>2, <2>1, ClosingStep DEF Logout
<1>3. CASE PeriodicCleanup
  <2>1. \A t \in Token : Accepted(t)' => Accepted(t)
    BY <1>3, CleanupKeeps DEF PeriodicCleanup, procVars, Accepted, ValidateToken
  <2> QED
    BY <1>3, <2>1, ClosingStep DEF PeriodicCleanup
<1>4. CASE Load
  <2>1. DOMAIN gTokens' = {}
    BY <1>4 DEF Load
  <2>2. \A t \in Token : ~Accepted(t)'
    BY <2>1 DEF Accepted, ValidateToken
  <2> QED
    BY <1>4, <2>2, ClosingStep DEF Load
<1>5. CASE Tick
  <2>1. \A t \in DOMAIN gTokens : gTokens[t] \in Nat
    BY DEF TypeOK
  <2>2. now \in Nat /\ now' = now + 1 /\ phase' = phase /\ gTokens' = gTokens
        /\ issuedAt' = issuedAt
    BY <1>5 DEF TypeOK, Tick, procVars, storeVars
  <2>3. \A t \in Token : Accepted(t)' => Accepted(t)
    BY <2>1, <2>2 DEF Accepted, ValidateToken
  <2> QED
    BY <2>2, <2>3, ClosingStep
<1>6. CASE \/ \E r \in Request : LoginBegin(r) \/ LoginMatch(r)
           \/ \E r \in Request : GenerateTokenFails(r) \/ LoginRespond(r)
           \/ \E e \in Editor : EditFile(e) \/ EditDone(e)
           \/ ReloadRead \/ ReloadSwap \/ UNCHANGED vars
  <2>1. UNCHANGED <<phase, now, gTokens, issuedAt>>
    BY <1>6 DEF LoginBegin, LoginMatch, GenerateTokenFails, LoginRespond, EditFile,
                EditDone, ReloadRead, ReloadSwap,
                vars, procVars, storeVars
  <2> QED
    BY <2>1, ClosingStep DEF Accepted, ValidateToken
<1>7. CASE (\E e \in Editor : SignalEdit(e)) \/ Listen \/ Shutdown \/ Exit
  <2>1. /\ UNCHANGED <<now, gTokens, issuedAt>>
        /\ phase' # "down" => phase # "down"
    BY <1>7 DEF SignalEdit, Listen, Shutdown, Exit, storeVars
  <2> QED
    BY <2>1, ClosingStep DEF Accepted, ValidateToken
<1> QED
  BY <1>1, <1>2, <1>3, <1>4, <1>5, <1>6, <1>7 DEF Next, Login

(* The token store, with its lazy expiry, its two kinds of cleanup and its *)
(* restarts, implements sessions that open once, within the capacity, and  *)
(* never come back once they are over.                                     *)
THEOREM ImplementsSessions == Spec => SessionsRefined
<1>1. Init => Sessions!Init
  BY DEF Init, Sessions!Init, sessionOf
<1> QED
  BY <1>1, StepRefines, AuthInvInit, AuthInvNext, TypeCorrect, StoreNeverOutgrown, PTL
  DEF Spec, SessionsRefined, Sessions!Spec
=============================================================================
