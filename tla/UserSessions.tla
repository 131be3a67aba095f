---------------------------- MODULE UserSessions ----------------------------
(***************************************************************************)
(* Logging in and out of the game server.                                  *)
(*                                                                         *)
(* Every accepted connection has a ClientHandler object and a detached     *)
(* thread that runs ClientHandler::run: it reads one request, serves it,   *)
(* answers it, and reads the next one, until the peer is gone.  The        *)
(* threads share the SQLite connection (tables Users and Sessions) and the *)
(* map Server::user_map.  SQLite serialises single statements and          *)
(* clients_mutex serialises single calls on the map; nothing holds a lock  *)
(* across two of them.  Hence one action here is one statement or one call *)
(* on the map, together with the thread-local work up to the next one, and *)
(* the threads interleave between actions.                                 *)
(*                                                                         *)
(* The clients are those of client/main.cpp: one request at a time, LOGIN  *)
(* only from the authentication menu (no token held), LOGOUT with the      *)
(* token received at login.                                                *)
(***************************************************************************)
EXTENDS Naturals, FiniteSets

CONSTANTS
  Users,              \* accounts present in table Users
  Handlers,           \* addresses a ClientHandler can be allocated at
  Tokens,             \* session tokens; a fresh one is free again once unused
  NoUser, NoHandler, NoToken,
  MaxFailedAttempts,  \* MAX_FAILED_ATTEMPTS
  LockDuration,       \* LOCK_DURATION_SECONDS, in clock ticks
  SharedAccounts,     \* may an account be used by two clients at a time?
  MayMistype,         \* may a client send a wrong password?
  MayCrash            \* may the server process die and be started again?

ASSUME NullAssumption ==
  /\ NoUser \notin Users
  /\ NoHandler \notin Handlers
  /\ NoToken \notin Tokens

(* A process has no more threads at a time than memory for them.           *)
ASSUME HandlersAssumption == IsFiniteSet(Handlers)

ASSUME LimitAssumption ==
  /\ MaxFailedAttempts \in Nat \ {0}
  /\ LockDuration \in Nat \ {0}

ASSUME EnvironmentAssumption ==
  /\ SharedAccounts \in BOOLEAN
  /\ MayMistype \in BOOLEAN
  /\ MayCrash \in BOOLEAN

VARIABLES
  \* The database: it survives a crash of the server.
  sessions,  \* rows of Sessions: the pairs (user_id, token)
  attempts,  \* Users.failed_login_attempts
  locked,    \* Users.is_locked
  lockLeft,  \* Users.locked_until, as the time left until then (0: passed)
  \* The server process.
  userMap,   \* Server::user_map, NoHandler where the map has no key
  pc,        \* where each handler's thread stands; "none": no such object
  uid,       \* ClientHandler::user_id, NoUser for 0
  req,       \* the account the request at hand is about
  pwOk,      \* does the request carry the right password?
  seenLeft,  \* the locked_until that isUserLocked read, as time left
  \* The clients.
  peer,      \* is the client process of the connection running?
  tok        \* the token created for, and then held by, the client

dbVars     == <<sessions, attempts, locked, lockLeft>>
lockVars   == <<attempts, locked, lockLeft>>
threadVars == <<pc, uid, req, pwOk, seenLeft>>
clientVars == <<peer, tok>>
vars == <<sessions, attempts, locked, lockLeft, userMap,
          pc, uid, req, pwOk, seenLeft, peer, tok>>

LoginStages == {"isUserLocked", "checkExpiry", "unlockUser",
                "incrementFailed", "getFailed", "lockUser",
                "hasActiveSession", "createSession", "resetFailed",
                "registerUser"}
LogoutStages == {"getUserIdByToken", "removeSessionByToken",
                 "unregisterUser"}
CleanupStages == {"removeSession", "cleanupMap", "removeClient"}
Stages == {"none", "readMessage"} \cup LoginStages \cup LogoutStages
            \cup CleanupStages

SessionRows == [user : Users, token : Tokens]

-----------------------------------------------------------------------------
(* Helpers                                                                 *)

Goto(h, stage) == pc' = [pc EXCEPT ![h] = stage]

(* The request is answered: the thread returns to recv with no request.    *)
Answer(h) ==
  /\ Goto(h, "readMessage")
  /\ req' = [req EXCEPT ![h] = NoUser]
  /\ pwOk' = [pwOk EXCEPT ![h] = FALSE]
  /\ seenLeft' = [seenLeft EXCEPT ![h] = 0]

(* The request goes on at another stage.                                   *)
Continue(h, stage) ==
  /\ Goto(h, stage)
  /\ UNCHANGED <<req, pwOk, seenLeft>>

(* What login does once isUserLocked has returned false: compare hashes.   *)
VerifyStage(h) == IF pwOk[h] THEN "hasActiveSession" ELSE "incrementFailed"

HasSession(u) == \E s \in sessions : s.user = u

UnusedTokens ==
  {t \in Tokens : /\ \A s \in sessions : s.token # t
                  /\ \A h \in Handlers : tok[h] # t}

(* A LOGIN as u is being served on h, its client alive or not, or the      *)
(* client of h is logged in as u.                                          *)
Busy(h, u) ==
  \/ pc[h] \in LoginStages /\ req[h] = u
  \/ peer[h] /\ tok[h] # NoToken /\ uid[h] = u

-----------------------------------------------------------------------------
Init ==
  /\ sessions = {}
  /\ attempts = [u \in Users |-> 0]
  /\ locked = [u \in Users |-> FALSE]
  /\ lockLeft = [u \in Users |-> 0]
  /\ userMap = [u \in Users |-> NoHandler]
  /\ pc = [h \in Handlers |-> "none"]
  /\ uid = [h \in Handlers |-> NoUser]
  /\ req = [h \in Handlers |-> NoUser]
  /\ pwOk = [h \in Handlers |-> FALSE]
  /\ seenLeft = [h \in Handlers |-> 0]
  /\ peer = [h \in Handlers |-> FALSE]
  /\ tok = [h \in Handlers |-> NoToken]

-----------------------------------------------------------------------------
(* Connections                                                             *)

(* acceptLoop: a client connects, a handler is allocated and its thread    *)
(* started.                                                                *)
Accept(h) ==
  /\ pc[h] = "none"
  /\ Goto(h, "readMessage")
  /\ uid' = [uid EXCEPT ![h] = NoUser]
  /\ peer' = [peer EXCEPT ![h] = TRUE]
  /\ tok' = [tok EXCEPT ![h] = NoToken]
  /\ UNCHANGED <<dbVars, userMap, req, pwOk, seenLeft>>

(* The client process ends, by "Exit" or killed, whatever its handler is   *)
(* doing; the handler finds out when it next calls recv.                   *)
PeerGone(h) ==
  /\ pc[h] # "none"
  /\ peer[h]
  /\ peer' = [peer EXCEPT ![h] = FALSE]
  /\ UNCHANGED <<dbVars, userMap, threadVars, tok>>

(* A slip for the checks: run closes the socket without removing the       *)
(* sessions of the user.                                                   *)
ReadEofSkipsSession(h) ==
  /\ pc[h] = "readMessage"
  /\ ~peer[h]
  /\ Continue(h, IF uid[h] = NoUser THEN "removeClient" ELSE "cleanupMap")
  /\ UNCHANGED <<dbVars, userMap, uid, clientVars>>

(* readMessage returns "": run leaves its loop, and cleans up if the       *)
(* handler's user_id is not 0.                                             *)
ReadEof(h) ==
  /\ pc[h] = "readMessage"
  /\ ~peer[h]
  /\ Continue(h, IF uid[h] = NoUser THEN "removeClient" ELSE "removeSession")
  /\ UNCHANGED <<dbVars, userMap, uid, clientVars>>

(* UserDAO::removeSession at disconnect: every session of the user goes.   *)
RemoveSession(h) ==
  /\ pc[h] = "removeSession"
  /\ sessions' = {s \in sessions : s.user # uid[h]}
  /\ Continue(h, "cleanupMap")
  /\ UNCHANGED <<lockVars, userMap, uid, clientVars>>

(* A slip for the checks: the user stays registered after the disconnect.  *)
CleanupMapForgets(h) ==
  /\ pc[h] = "cleanupMap"
  /\ Continue(h, "removeClient")
  /\ UNCHANGED <<dbVars, userMap, uid, clientVars>>

(* Server::unregisterUser at disconnect.                                   *)
CleanupMap(h) ==
  /\ pc[h] = "cleanupMap"
  /\ userMap' = [userMap EXCEPT ![uid[h]] = NoHandler]
  /\ Continue(h, "removeClient")
  /\ UNCHANGED <<dbVars, uid, clientVars>>

(* close and Server::removeClient: the handler object is deleted.          *)
RemoveClient(h) ==
  /\ pc[h] = "removeClient"
  /\ Goto(h, "none")
  /\ uid' = [uid EXCEPT ![h] = NoUser]
  /\ tok' = [tok EXCEPT ![h] = NoToken]
  /\ UNCHANGED <<dbVars, userMap, req, pwOk, seenLeft, peer>>

-----------------------------------------------------------------------------
(* UserService::login, one action per database statement                   *)

(* A well-formed LOGIN of an existing account arrives; findByUsername has  *)
(* read its row.  Malformed and unknown names are refused without a trace. *)
RecvLogin(h, u, ok) ==
  /\ pc[h] = "readMessage"
  /\ peer[h]
  /\ tok[h] = NoToken
  /\ Goto(h, "isUserLocked")
  /\ req' = [req EXCEPT ![h] = u]
  /\ pwOk' = [pwOk EXCEPT ![h] = ok]
  /\ UNCHANGED <<dbVars, userMap, uid, seenLeft, clientVars>>

(* isUserLocked reads is_locked and locked_until.                          *)
IsUserLocked(h) ==
  /\ pc[h] = "isUserLocked"
  /\ IF locked[req[h]]
       THEN /\ Goto(h, "checkExpiry")
            /\ seenLeft' = [seenLeft EXCEPT ![h] = lockLeft[req[h]]]
            /\ UNCHANGED <<req, pwOk>>
       ELSE Continue(h, VerifyStage(h))
  /\ UNCHANGED <<dbVars, userMap, uid, clientVars>>

(* ... then compares the locked_until it read with the clock.              *)
CheckExpiry(h) ==
  /\ pc[h] = "checkExpiry"
  /\ IF seenLeft[h] > 0
       THEN Answer(h)      \* ACCOUNT_LOCKED
       ELSE Continue(h, "unlockUser")
  /\ UNCHANGED <<dbVars, userMap, uid, clientVars>>

(* A slip for the checks: unlocking leaves the count of failures as it is. *)
UnlockUserKeepsCount(h) ==
  /\ pc[h] = "unlockUser"
  /\ locked' = [locked EXCEPT ![req[h]] = FALSE]
  /\ lockLeft' = [lockLeft EXCEPT ![req[h]] = 0]
  /\ Continue(h, VerifyStage(h))
  /\ UNCHANGED <<sessions, attempts, userMap, uid, clientVars>>

(* ... and unlocks an account whose lock it saw to have expired.           *)
UnlockUser(h) ==
  /\ pc[h] = "unlockUser"
  /\ locked' = [locked EXCEPT ![req[h]] = FALSE]
  /\ lockLeft' = [lockLeft EXCEPT ![req[h]] = 0]
  /\ attempts' = [attempts EXCEPT ![req[h]] = 0]
  /\ Continue(h, VerifyStage(h))
  /\ UNCHANGED <<sessions, userMap, uid, clientVars>>

(* The password is wrong: incrementFailedLoginAttempts.                    *)
IncrementFailed(h) ==
  /\ pc[h] = "incrementFailed"
  /\ attempts' = [attempts EXCEPT ![req[h]] = @ + 1]
  /\ Continue(h, "getFailed")
  /\ UNCHANGED <<sessions, locked, lockLeft, userMap, uid, clientVars>>

(* A slip for the checks: the account is locked one failure too late.      *)
GetFailedOffByOne(h) ==
  /\ pc[h] = "getFailed"
  /\ IF attempts[req[h]] > MaxFailedAttempts
       THEN Continue(h, "lockUser")
       ELSE Answer(h)
  /\ UNCHANGED <<dbVars, userMap, uid, clientVars>>

(* getFailedLoginAttempts, and the comparison with MAX_FAILED_ATTEMPTS.    *)
GetFailed(h) ==
  /\ pc[h] = "getFailed"
  /\ IF attempts[req[h]] >= MaxFailedAttempts
       THEN Continue(h, "lockUser")
       ELSE Answer(h)      \* WRONG_PASSWORD
  /\ UNCHANGED <<dbVars, userMap, uid, clientVars>>

(* A slip for the checks: the term is added to the one still running.      *)
LockUserAddsUp(h) ==
  /\ pc[h] = "lockUser"
  /\ locked' = [locked EXCEPT ![req[h]] = TRUE]
  /\ lockLeft' = [lockLeft EXCEPT ![req[h]] = @ + LockDuration]
  /\ Answer(h)
  /\ UNCHANGED <<sessions, attempts, userMap, uid, clientVars>>

(* lockUser.  The answer is ACCOUNT_LOCKED.                                *)
LockUser(h) ==
  /\ pc[h] = "lockUser"
  /\ locked' = [locked EXCEPT ![req[h]] = TRUE]
  /\ lockLeft' = [lockLeft EXCEPT ![req[h]] = LockDuration]
  /\ Answer(h)
  /\ UNCHANGED <<sessions, attempts, userMap, uid, clientVars>>

(* A slip for the checks: no look at the sessions that exist.              *)
HasActiveSessionSkipped(h) ==
  /\ pc[h] = "hasActiveSession"
  /\ Continue(h, "createSession")
  /\ UNCHANGED <<dbVars, userMap, uid, clientVars>>

(* The password is right: hasActiveSession.                                *)
HasActiveSession(h) ==
  /\ pc[h] = "hasActiveSession"
  /\ IF HasSession(req[h])
       THEN Answer(h)      \* ALREADY_LOGGED_IN
       ELSE Continue(h, "createSession")
  /\ UNCHANGED <<dbVars, userMap, uid, clientVars>>

(* createSession with a new random token.                                  *)
CreateSession(h) ==
  /\ pc[h] = "createSession"
  /\ \E t \in UnusedTokens :
        /\ sessions' = sessions \cup {[user |-> req[h], token |-> t]}
        /\ tok' = [tok EXCEPT ![h] = t]
  /\ Continue(h, "resetFailed")
  /\ UNCHANGED <<lockVars, userMap, uid, peer>>

(* resetFailedLoginAttempts.                                               *)
ResetFailed(h) ==
  /\ pc[h] = "resetFailed"
  /\ locked' = [locked EXCEPT ![req[h]] = FALSE]
  /\ lockLeft' = [lockLeft EXCEPT ![req[h]] = 0]
  /\ attempts' = [attempts EXCEPT ![req[h]] = 0]
  /\ Continue(h, "registerUser")
  /\ UNCHANGED <<sessions, userMap, uid, clientVars>>

(* Back in run: setUserId, Server::registerUser, and LOGIN_OK is sent.     *)
RegisterUser(h) ==
  /\ pc[h] = "registerUser"
  /\ uid' = [uid EXCEPT ![h] = req[h]]
  /\ userMap' = [userMap EXCEPT ![req[h]] = h]
  /\ Answer(h)
  /\ UNCHANGED <<dbVars, clientVars>>

-----------------------------------------------------------------------------
(* UserService::logout, with the client's token                            *)

(* LOGOUT arrives and getUserIdByToken is about to run.                    *)
RecvLogout(h) ==
  /\ pc[h] = "readMessage"
  /\ peer[h]
  /\ tok[h] # NoToken
  /\ Continue(h, "getUserIdByToken")
  /\ UNCHANGED <<dbVars, userMap, uid, clientVars>>

(* The user of the token, 0 when no session has it.                        *)
GetUserIdByToken(h) ==
  /\ pc[h] = "getUserIdByToken"
  /\ Goto(h, "removeSessionByToken")
  /\ IF \E s \in sessions : s.token = tok[h]
       THEN \E s \in sessions : /\ s.token = tok[h]
                                /\ req' = [req EXCEPT ![h] = s.user]
       ELSE req' = [req EXCEPT ![h] = NoUser]
  /\ UNCHANGED <<dbVars, userMap, uid, pwOk, seenLeft, clientVars>>

(* removeSessionByToken; it succeeds when there is nothing to remove, too. *)
(* With no user found, LOGOUT_OK is sent and the handler stays as it is.   *)
RemoveSessionByToken(h) ==
  /\ pc[h] = "removeSessionByToken"
  /\ sessions' = {s \in sessions : s.token # tok[h]}
  /\ IF req[h] = NoUser
       THEN /\ Answer(h)
            /\ tok' = [tok EXCEPT ![h] = NoToken]
       ELSE /\ Continue(h, "unregisterUser")
            /\ UNCHANGED tok
  /\ UNCHANGED <<lockVars, userMap, uid, peer>>

(* Back in run: Server::unregisterUser, setUserId(0), LOGOUT_OK is sent.   *)
UnregisterUser(h) ==
  /\ pc[h] = "unregisterUser"
  /\ userMap' = [userMap EXCEPT ![req[h]] = NoHandler]
  /\ uid' = [uid EXCEPT ![h] = NoUser]
  /\ tok' = [tok EXCEPT ![h] = NoToken]
  /\ Answer(h)
  /\ UNCHANGED <<dbVars, peer>>

-----------------------------------------------------------------------------
(* Time, crashes, and the whole                                            *)

Less(n) == IF n > 0 THEN n - 1 ELSE 0

(* A clock tick: every instant remembered as time left comes closer.       *)
Tick ==
  /\ \/ \E u \in Users : lockLeft[u] > 0
     \/ \E h \in Handlers : seenLeft[h] > 0
  /\ lockLeft' = [u \in Users |-> Less(lockLeft[u])]
  /\ seenLeft' = [h \in Handlers |-> Less(seenLeft[h])]
  /\ UNCHANGED <<sessions, attempts, locked, userMap,
                 pc, uid, req, pwOk, clientVars>>

(* The server process dies, main starts it again: the tables are as they   *)
(* were (schema.sql creates what is missing and clears nothing), all the   *)
(* rest is gone, and so are the clients, whose connections broke.          *)
Crash ==
  /\ MayCrash
  /\ userMap' = [u \in Users |-> NoHandler]
  /\ pc' = [h \in Handlers |-> "none"]
  /\ uid' = [h \in Handlers |-> NoUser]
  /\ req' = [h \in Handlers |-> NoUser]
  /\ pwOk' = [h \in Handlers |-> FALSE]
  /\ seenLeft' = [h \in Handlers |-> 0]
  /\ peer' = [h \in Handlers |-> FALSE]
  /\ tok' = [h \in Handlers |-> NoToken]
  /\ UNCHANGED dbVars

(* What the thread of h does without waiting for its client.               *)
ThreadStep(h) ==
  \/ ReadEof(h) \/ RemoveSession(h) \/ CleanupMap(h) \/ RemoveClient(h)
  \/ IsUserLocked(h) \/ CheckExpiry(h) \/ UnlockUser(h)
  \/ IncrementFailed(h) \/ GetFailed(h) \/ LockUser(h)
  \/ HasActiveSession(h) \/ CreateSession(h) \/ ResetFailed(h)
  \/ RegisterUser(h)
  \/ GetUserIdByToken(h) \/ RemoveSessionByToken(h) \/ UnregisterUser(h)

(* The user at a client logs in where and how the instance has it: with    *)
(* SharedAccounts to any account, else to one nobody else is using.        *)
UserTries(h, u, ok) ==
  /\ ok \/ MayMistype
  /\ SharedAccounts \/ \A g \in Handlers \ {h} : ~Busy(g, u)

(* What a client does.                                                     *)
ClientStep(h) ==
  \/ Accept(h)
  \/ PeerGone(h)
  \/ \E u \in Users, ok \in BOOLEAN : UserTries(h, u, ok) /\ RecvLogin(h, u, ok)
  \/ RecvLogout(h)

Next ==
  \/ \E h \in Handlers : ThreadStep(h) \/ ClientStep(h)
  \/ Tick
  \/ Crash

Spec == Init /\ [][Next]_vars

(* The operating system schedules every thread; nobody makes a user act.   *)
FairSpec == Spec /\ \A h \in Handlers : WF_vars(ThreadStep(h))

-----------------------------------------------------------------------------
(* Properties                                                              *)

(* The types of the variables, with the bound of the lock's term.          *)
TypeOK ==
  /\ sessions \subseteq SessionRows
  /\ attempts \in [Users -> Nat]
  /\ locked \in [Users -> BOOLEAN]
  /\ lockLeft \in [Users -> 0..LockDuration]
  /\ userMap \in [Users -> Handlers \cup {NoHandler}]
  /\ pc \in [Handlers -> Stages]
  /\ uid \in [Handlers -> Users \cup {NoUser}]
  /\ req \in [Handlers -> Users \cup {NoUser}]
  /\ pwOk \in [Handlers -> BOOLEAN]
  /\ seenLeft \in [Handlers -> 0..LockDuration]
  /\ peer \in [Handlers -> BOOLEAN]
  /\ tok \in [Handlers -> Tokens \cup {NoToken}]

(* Handler h answers for session s: it holds its token, and either it has  *)
(* just created it or it will remove the sessions of its user at the end.  *)
Owns(h, s) ==
  /\ tok[h] = s.token
  /\ \/ pc[h] \in {"resetFailed", "registerUser"} /\ req[h] = s.user
     \/ /\ pc[h] \in {"readMessage", "getUserIdByToken",
                      "removeSessionByToken", "removeSession"}
        /\ uid[h] = s.user

(* While the server runs, no row of Sessions is left behind: each belongs  *)
(* to a connection that still exists and that will remove it, however      *)
(* logins, logouts and disconnects of several devices of one account       *)
(* interleave.  Otherwise hasActiveSession would refuse the user for good. *)
SessionHasOwner == \A s \in sessions : \E h \in Handlers : Owns(h, s)

(* "Check for duplicate login": an account has one session at most.  With  *)
(* SharedAccounts it is not so: two logins may both pass hasActiveSession  *)
(* before either has its row.                                              *)
AtMostOneSession ==
  \A s1, s2 \in sessions : s1.user = s2.user => s1 = s2

SessionsOf(u) == {s \in sessions : s.user = u}
Creating(u) == {h \in Handlers : pc[h] = "createSession" /\ req[h] = u}

(* What the check gives always: only logins that overlap get rows beside   *)
(* each other, so that an account never has more sessions than the server  *)
(* has connections at a time.  The server may die and leave rows behind as *)
(* often as it will: they do not add up, over restarts, with those of the  *)
(* logins that come later.                                                 *)
SessionsDoNotPileUp ==
  \A u \in Users :
    Cardinality(SessionsOf(u)) + Cardinality(Creating(u))
      <= Cardinality(Handlers)

(* A client that holds a token and has not asked to log out is not told    *)
(* that the token is invalid: no cleanup of an earlier connection of its   *)
(* user takes its session away.                                            *)
TokenStaysValid ==
  \A h \in Handlers :
    /\ pc[h] = "readMessage"
    /\ peer[h]
    /\ tok[h] # NoToken
    => [user |-> uid[h], token |-> tok[h]] \in sessions

(* user_map never points to a deleted handler: run has unregistered its    *)
(* user before Server::removeClient deletes the object.                    *)
NoDanglingRegistration ==
  \A u \in Users : userMap[u] # NoHandler => pc[userMap[u]] # "none"

(* A client that is logged in is online: user_map has its user, so that    *)
(* friends see it and broadcasts reach it.                                 *)
LoggedInIsOnline ==
  \A h \in Handlers :
    /\ pc[h] = "readMessage"
    /\ peer[h]
    /\ [user |-> uid[h], token |-> tok[h]] \in sessions
    => userMap[uid[h]] # NoHandler

(* LoginService as this module implements it: an account is taken while it *)
(* has a row in Sessions, and held by the client that has the row's token. *)
Taken == {u \in Users : HasSession(u)}
Holds == {p \in Users \X Handlers :
            [user |-> p[1], token |-> tok[p[2]]] \in sessions}
Online == {u \in Users : userMap[u] # NoHandler}

Login == INSTANCE LoginService
           WITH Clients <- Handlers,
                taken <- Taken, holds <- Holds, online <- Online

(* Where an account is used on one device at a time, all the statements of *)
(* login, logout, disconnect and restart amount to taking and giving back  *)
(* an account that one client holds: every step between them is invisible, *)
(* none takes another client's account away, and only a holder goes online.*)
ImplementsLogin == Login!Spec

(* Enough failures never go unpunished: an account that has reached        *)
(* MAX_FAILED_ATTEMPTS is locked, or a thread that counted a failure of it *)
(* is about to see that and to lock it; no reset, unlock or concurrent     *)
(* failure in between makes all of them miss it.                           *)
ThresholdIsEnforced ==
  \A u \in Users :
    attempts[u] >= MaxFailedAttempts /\ ~locked[u]
      => \E h \in Handlers : req[h] = u /\ pc[h] \in {"getFailed", "lockUser"}

(* Logins that passed isUserLocked before the lock was set may still fail, *)
(* but no more than one per connection beyond the limit.                   *)
OvershootBounded ==
  \A u \in Users :
    attempts[u] <= MaxFailedAttempts - 1 + Cardinality(Handlers)

(* No running client uses account u, and no thread still logs it in.       *)
Unused(u) == \A h \in Handlers : ~Busy(h, u)

(* A user who has left on all devices can come back: once nobody uses the  *)
(* account its sessions are gone, for as long as nobody does.              *)
SessionsDrain ==
  \A u \in Users : (<>[]Unused(u)) => (<>[](~HasSession(u)))

(* Enough failures lead to the lock, unless the count is reset first.      *)
FailuresLock ==
  \A u \in Users :
    attempts[u] >= MaxFailedAttempts
      ~> (locked[u] \/ attempts[u] < MaxFailedAttempts)
=============================================================================
