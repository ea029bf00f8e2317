------------------------------ MODULE WebAuth -------------------------------
(***************************************************************************)
(* The web authentication service (src/webauth/webauth.go): the in-memory  *)
(* token store behind /login, /logout and /auth, the login rate limiter,   *)
(* the password database reloaded on SIGHUP, and the life of the process   *)
(* under its supervisor.  nginx asks /auth about every request it proxies. *)
(*                                                                         *)
(* Time advances in ticks.  A tick is the second in which the limiter      *)
(* regains one login; Validity is the token lifetime in the same unit.     *)
(***************************************************************************)
EXTENDS Integers, FiniteSets

CONSTANTS
  Credential,   \* username and password pairs that a user may present
  Token,        \* the values GenerateToken can return
  Request,      \* goroutines that serve POST /login
  Editor,       \* shells that run webauth-user
  MaxTokens,    \* gConfig.MaxTokens
  Validity,     \* gConfig.TokenValidityDuration
  Burst,        \* burst of gLoginLimiter
  MaxTime,      \* bound of the model: ticks
  MaxStarts,    \* bound of the model: starts of the process
  MaxEdits,     \* bound of the model: edits of the password database
  None          \* no value

ASSUME WebAuthAssumption ==
  /\ MaxTokens \in Nat
  /\ Validity \in Nat \ {0}
  /\ Burst \in Nat
  /\ MaxTime \in Nat /\ MaxStarts \in Nat /\ MaxEdits \in Nat
  /\ None \notin Token \cup Credential /\ None \notin Nat

VARIABLES
  phase,      \* the process: "down", "loaded", "up" or "draining"
  start,      \* number of the incarnation; stands for its random cookie keys
  now,        \* the clock
  gTokens,    \* the token store: token -> expiration
  bucket,     \* logins gLoginLimiter would admit now
  req,        \* the login requests being served
  cookies,    \* auth cookies handed to browsers, kept by them for ever
  generated,  \* every token GenerateToken has returned
  file,       \* the password database on disk
  gPasswordDb,\* the password database in memory
  sighup,     \* sighupChannel holds a signal
  snapshot,   \* {db} once the reload goroutine has read db, until it installs it
  editor,     \* webauth-user: "idle", "writing", or "edited" before its killall
  edits,      \* number of edits so far
  issuedAt,   \* history: when SaveToken stored the token, or None
  loggedOut,  \* history: tokens whose logout has been answered
  admitted,   \* history: logins the limiter let through since the start
  startedAt   \* history: when the present incarnation started

storeVars == <<gTokens, cookies, generated, issuedAt, loggedOut>>
dbVars    == <<file, gPasswordDb, sighup, snapshot, editor, edits>>
procVars  == <<phase, start, startedAt>>
limitVars == <<bucket, admitted>>
vars == <<procVars, now, storeVars, limitVars, req, dbVars>>

Cookie == [key : Nat, token : Token, at : Nat]

IdleReq == [pc |-> "idle", cred |-> None, token |-> None]

LoginState ==
  {IdleReq}
    \cup [pc : {"match", "issue"}, cred : Credential, token : {None}]
    \cup [pc : {"respond"}, cred : Credential, token : Token]

Serving == phase \in {"up", "draining"}

-----------------------------------------------------------------------------
(* The token store.  Each of these runs under gTokensMutex.                *)

\* Mutant: the expiration is not looked at.
MutValidateToken(t) == t \in DOMAIN gTokens

ValidateToken(t) == t \in DOMAIN gTokens /\ now < gTokens[t]

\* Only tokens strictly past their expiration go.
CleanupTokens == [t \in {u \in DOMAIN gTokens : ~(now > gTokens[u])} |-> gTokens[t]]

RemoveToken(t) == [u \in DOMAIN gTokens \ {t} |-> gTokens[u]]

\* Mutant: a full store is not cleaned up.
MutRoomMade == gTokens

\* What SaveToken finds after the cleanup that a full store triggers.
RoomMade ==
  IF Cardinality(DOMAIN gTokens) = MaxTokens THEN CleanupTokens ELSE gTokens

\* Mutant: the limit is off by one.
MutStoreFull == Cardinality(DOMAIN RoomMade) > MaxTokens

StoreFull == Cardinality(DOMAIN RoomMade) = MaxTokens

SaveToken(t) ==
  [u \in DOMAIN RoomMade \cup {t} |-> IF u = t THEN now + Validity ELSE RoomMade[u]]

\* securecookie: wrong keys, or older than MaxAge, and the cookie is refused.
Decode(ck) == ck.key = start /\ ck.at >= now - Validity

\* GET /auth answers 200.
authHandler(ck) == Serving /\ Decode(ck) /\ ValidateToken(ck.token)

-----------------------------------------------------------------------------
Init ==
  /\ phase = "down" /\ start = 0 /\ startedAt = 0
  /\ now = 0
  /\ gTokens = [t \in {} |-> 0]
  /\ bucket = Burst /\ admitted = 0
  /\ req = [r \in Request |-> IdleReq]
  /\ cookies = {} /\ generated = {}
  /\ issuedAt = [t \in Token |-> None] /\ loggedOut = {}
  /\ file \in SUBSET Credential
  /\ gPasswordDb = {} /\ sighup = FALSE /\ snapshot = {}
  /\ editor = [e \in Editor |-> "idle"] /\ edits = 0

-----------------------------------------------------------------------------
(* POST /login                                                             *)

\* Mutant: only a well-formed request is charged.
MutLoginBegin(r) ==
  /\ phase = "up" /\ req[r].pc = "idle"
  /\ bucket > 0
  /\ admitted' = admitted + 1
  /\ \/ req' = req /\ bucket' = bucket
     \/ /\ bucket' = bucket - 1
        /\ \E c \in Credential :
             req' = [req EXCEPT ![r] = [IdleReq EXCEPT !.pc = "match", !.cred = c]]
  /\ UNCHANGED <<procVars, now, storeVars, dbVars>>

\* The limiter decides first; a refused request (429) changes nothing.  A
\* malformed request has still used up one admission.
LoginBegin(r) ==
  /\ phase = "up" /\ req[r].pc = "idle"
  /\ bucket > 0
  /\ bucket' = bucket - 1 /\ admitted' = admitted + 1
  /\ \/ req' = req                                    \* 400 Bad Request
     \/ \E c \in Credential :
          req' = [req EXCEPT ![r] = [IdleReq EXCEPT !.pc = "match", !.cred = c]]
  /\ UNCHANGED <<procVars, now, storeVars, dbVars>>

LoginMatch(r) ==
  /\ Serving /\ req[r].pc = "match"
  /\ req' = [req EXCEPT ![r] = IF req[r].cred \in gPasswordDb
                               THEN [@ EXCEPT !.pc = "issue"]
                               ELSE IdleReq]          \* INVALID_CREDENTIALS
  /\ UNCHANGED <<procVars, now, storeVars, limitVars, dbVars>>

\* GenerateToken has no random bytes to give: 500.
GenerateTokenFails(r) ==
  /\ Serving /\ req[r].pc = "issue"
  /\ req' = [req EXCEPT ![r] = IdleReq]
  /\ UNCHANGED <<procVars, now, storeVars, limitVars, dbVars>>

\* GenerateToken, then SaveToken.
LoginIssue(r) ==
  /\ Serving /\ req[r].pc = "issue"
  /\ \E t \in Token \ generated :
       /\ generated' = generated \cup {t}
       /\ IF StoreFull
          THEN /\ gTokens' = RoomMade                 \* 500, store full
               /\ req' = [req EXCEPT ![r] = IdleReq]
               /\ UNCHANGED issuedAt
          ELSE /\ gTokens' = SaveToken(t)
               /\ req' = [req EXCEPT ![r].pc = "respond", ![r].token = t]
               /\ issuedAt' = [issuedAt EXCEPT ![t] = now]
  /\ UNCHANGED <<procVars, now, cookies, loggedOut, limitVars, dbVars>>

\* Encode the cookie and answer.  When Encode fails the token stays stored.
LoginRespond(r) ==
  /\ Serving /\ req[r].pc = "respond"
  /\ \/ cookies' = cookies \cup {[key |-> start, token |-> req[r].token, at |-> now]}
     \/ cookies' = cookies                            \* 500
  /\ req' = [req EXCEPT ![r] = IdleReq]
  /\ UNCHANGED <<procVars, now, gTokens, generated, issuedAt, loggedOut, limitVars, dbVars>>

(* GET /logout.  A cookie that cannot be decoded is no error: the browser  *)
(* is told to drop it all the same, so the logout counts as answered.      *)
Logout(ck) ==
  /\ phase = "up"
  /\ gTokens' = IF Decode(ck) THEN RemoveToken(ck.token) ELSE gTokens
  /\ loggedOut' = loggedOut \cup {ck.token}
  /\ UNCHANGED <<procVars, now, cookies, generated, issuedAt, limitVars, req, dbVars>>

\* The hourly ticker.
PeriodicCleanup ==
  /\ Serving
  /\ gTokens' = CleanupTokens
  /\ UNCHANGED <<procVars, now, cookies, generated, issuedAt, loggedOut, limitVars,
                 req, dbVars>>

-----------------------------------------------------------------------------
(* The password database: webauth-user, SIGHUP and the reload goroutine.   *)

\* htpasswd -B or -D prepares the new contents and starts to copy them over the
\* file in place.  Two such copies do not overlap.
EditFile(e) ==
  /\ editor[e] = "idle" /\ edits < MaxEdits
  /\ \A o \in Editor : editor[o] # "writing"
  /\ \E c \in Credential : file' = (file \ {c}) \cup ({c} \ file)   \* add or del
  /\ editor' = [editor EXCEPT ![e] = "writing"] /\ edits' = edits + 1
  /\ UNCHANGED <<procVars, now, storeVars, limitVars, req, gPasswordDb, sighup, snapshot>>

EditDone(e) ==
  /\ editor[e] = "writing"
  /\ editor' = [editor EXCEPT ![e] = "edited"]
  /\ UNCHANGED <<procVars, now, storeVars, limitVars, req,
                 file, gPasswordDb, sighup, snapshot, edits>>

\* What a read of the file returns: while it is being copied, any part of it.
Readable ==
  IF \E e \in Editor : editor[e] = "writing" THEN SUBSET file ELSE {file}

\* Mutant: an unbuffered channel, so a signal during a reload is lost.
MutSignalEdit(e) ==
  /\ editor[e] = "edited"
  /\ editor' = [editor EXCEPT ![e] = "idle"]
  /\ sighup' = (sighup \/ (Serving /\ snapshot = {}))
  /\ phase' = IF phase = "loaded" THEN "down" ELSE phase
  /\ UNCHANGED <<start, startedAt, now, storeVars, limitVars, req,
                 file, gPasswordDb, snapshot, edits>>

\* killall -SIGHUP webauth.  The channel holds one signal and drops the next.
\* Before signal.Notify, SIGHUP has its default effect: the process dies.
SignalEdit(e) ==
  /\ editor[e] = "edited"
  /\ editor' = [editor EXCEPT ![e] = "idle"]
  /\ sighup' = (sighup \/ Serving)
  /\ phase' = IF phase = "loaded" THEN "down" ELSE phase
  /\ UNCHANGED <<start, startedAt, now, storeVars, limitVars, req,
                 file, gPasswordDb, snapshot, edits>>

\* htpasswd Reload reads the whole file ...
ReloadRead ==
  /\ Serving /\ sighup /\ snapshot = {}
  /\ sighup' = FALSE
  /\ \/ \E db \in Readable : snapshot' = {db}
     \/ Readable # {file} /\ snapshot' = {}           \* Reload fails: logged
  /\ UNCHANGED <<procVars, now, storeVars, limitVars, req, file, gPasswordDb, editor, edits>>

\* ... and then swaps the table in, under its own lock.
ReloadSwap ==
  /\ Serving /\ gPasswordDb' \in snapshot
  /\ snapshot' = {}
  /\ UNCHANGED <<procVars, now, storeVars, limitVars, req, file, sighup, editor, edits>>

-----------------------------------------------------------------------------
(* The process.  Its supervisor restarts it whenever it is down.           *)

\* Mutant: the store is restored across a restart.
MutLoad ==
  /\ phase = "down" /\ start < MaxStarts
  /\ phase' = "loaded" /\ start' = start + 1 /\ startedAt' = now
  /\ bucket' = Burst /\ admitted' = 0
  /\ req' = [r \in Request |-> IdleReq]
  /\ gPasswordDb' \in Readable /\ sighup' = FALSE /\ snapshot' = {}
  /\ UNCHANGED <<now, storeVars, file, editor, edits>>

\* New keys, an empty store, a full limiter, the database as it is now.
Load ==
  /\ phase = "down" /\ start < MaxStarts
  /\ phase' = "loaded" /\ start' = start + 1 /\ startedAt' = now
  /\ gTokens' = [t \in {} |-> 0]
  /\ bucket' = Burst /\ admitted' = 0
  /\ req' = [r \in Request |-> IdleReq]
  /\ gPasswordDb' \in Readable /\ sighup' = FALSE /\ snapshot' = {}
  /\ UNCHANGED <<now, cookies, generated, issuedAt, loggedOut, file, editor, edits>>

\* signal.Notify has run, the listener is up.
Listen ==
  /\ phase = "loaded"
  /\ phase' = "up"
  /\ UNCHANGED <<start, startedAt, now, storeVars, limitVars, req, dbVars>>

\* SIGTERM: server.Shutdown takes no new request and waits for those running.
Shutdown ==
  /\ phase = "up"
  /\ phase' = "draining"
  /\ UNCHANGED <<start, startedAt, now, storeVars, limitVars, req, dbVars>>

\* Shutdown returned, its 10 seconds are over, or the process was killed.
Exit ==
  /\ phase \in {"loaded", "up", "draining"}
  /\ phase' = "down"
  /\ UNCHANGED <<start, startedAt, now, storeVars, limitVars, req, dbVars>>

\* One tick: the limiter regains one login.
Tick ==
  /\ now < MaxTime
  /\ now' = now + 1
  /\ bucket' = IF bucket < Burst THEN bucket + 1 ELSE bucket
  /\ UNCHANGED <<procVars, storeVars, admitted, req, dbVars>>

-----------------------------------------------------------------------------
Login(r) ==
  \/ LoginBegin(r) \/ LoginMatch(r)
  \/ GenerateTokenFails(r) \/ LoginIssue(r) \/ LoginRespond(r)

Next ==
  \/ \E r \in Request : Login(r)
  \/ \E ck \in cookies : Logout(ck)
  \/ \E e \in Editor : EditFile(e) \/ EditDone(e) \/ SignalEdit(e)
  \/ PeriodicCleanup
  \/ ReloadRead \/ ReloadSwap
  \/ Load \/ Listen \/ Shutdown \/ Exit
  \/ Tick

Spec == Init /\ [][Next]_vars

\* The reload goroutine and the ticker are always scheduled, webauth-user
\* always finishes its copy and gets to its killall, and the process gets past
\* its start.
FairSpec ==
  /\ Spec
  /\ WF_vars(ReloadRead) /\ WF_vars(ReloadSwap)
  /\ WF_vars(PeriodicCleanup)
  /\ \A e \in Editor : WF_vars(EditDone(e)) /\ WF_vars(SignalEdit(e))
  /\ WF_vars(Listen)

-----------------------------------------------------------------------------
TypeOK ==
  /\ phase \in {"down", "loaded", "up", "draining"}
  /\ start \in Nat /\ now \in Nat /\ startedAt \in Nat
  /\ DOMAIN gTokens \subseteq Token /\ gTokens \in [DOMAIN gTokens -> Nat]
  /\ bucket \in 0..Burst /\ admitted \in Nat
  /\ req \in [Request -> LoginState]
  /\ cookies \subseteq Cookie
  /\ generated \subseteq Token /\ loggedOut \subseteq Token
  /\ issuedAt \in [Token -> Nat \cup {None}]
  /\ file \subseteq Credential /\ gPasswordDb \subseteq Credential
  /\ sighup \in BOOLEAN /\ snapshot \subseteq SUBSET Credential
  /\ editor \in [Editor -> {"idle", "writing", "edited"}] /\ edits \in Nat

\* However logins interleave, the store never holds more than MaxTokens tokens:
\* SaveToken compares with ==, which is only a bound if no insertion skips it.
StoreBounded ==
  IsFiniteSet(DOMAIN gTokens) /\ Cardinality(DOMAIN gTokens) <= MaxTokens

\* The README's promise, both ways round: a cookie opens the GUI exactly when
\* this incarnation issued it, its validity is not over and nobody has logged
\* out with it.  No cleanup, restart, other login or other logout changes that.
AuthExact ==
  Serving =>
    \A ck \in cookies :
      authHandler(ck) <=> /\ ck.key = start
                          /\ now < issuedAt[ck.token] + Validity
                          /\ ck.token \notin loggedOut

\* The limiter bounds the credentials that can be tried, malformed requests
\* included: since the process started no more than the burst plus one per tick,
\* and between any two points of its run no more than the bucket held at the
\* first, which is at most the burst, plus one per tick (what was admitted and
\* what may be admitted now, together, grow no faster than the clock).
AttemptsBounded ==
  /\ [](bucket <= Burst /\ admitted <= Burst + (now - startedAt))
  /\ [][start' = start => admitted' + bucket' <= admitted + bucket + (now' - now)]_vars

\* A login that got a token is refused by SaveToken only when MaxTokens tokens
\* not past their expiration are stored: expired tokens never keep a user out.
RefusedOnlyWhenFull ==
  [][\A r \in Request :
       (req[r].pc = "issue" /\ req'[r].pc = "idle" /\ generated' # generated)
         => Cardinality({t \in DOMAIN gTokens : now <= gTokens[t]}) = MaxTokens]_vars

\* A user added or removed with webauth-user is known to the running service
\* sooner or later, even if signals are dropped or arrive during a reload, and
\* even if a reload or a start ran into the middle of the edit.
ReloadConverges ==
  (Serving /\ gPasswordDb # file) ~> (gPasswordDb = file \/ ~Serving)

\* The hourly cleanup gives back the memory of a session nobody logged out of.
ExpiredPurged ==
  \A t \in Token :
    (t \in DOMAIN gTokens /\ now > gTokens[t]) ~> (t \notin DOMAIN gTokens \/ ~Serving)

\* What the service keeps in memory does not stay stale: neither the users nor
\* the tokens.
StaleIsReplaced == ReloadConverges /\ ExpiredPurged

-----------------------------------------------------------------------------
(* The service implements SessionStore: a session is live while /auth's    *)
(* ValidateToken accepts its token in a process that serves.               *)
sessionOf ==
  [t \in Token |->
     IF issuedAt[t] = None THEN "unused"
     ELSE IF phase # "down" /\ ValidateToken(t) THEN "live" ELSE "over"]

Sessions == INSTANCE SessionStore
              WITH Session <- Token, Capacity <- MaxTokens, session <- sessionOf

SessionsRefined == Sessions!Spec
=============================================================================
