-------------------------- MODULE SharedConnection --------------------------
(***************************************************************************)
(* Accounts and stored matches: REGISTER, RESET_PASSWORD and START_MATCH,  *)
(* with what LOGIN inserts.  What they share is the one SQLite connection  *)
(* of the process.  Each statement on it is one step; the row id of the    *)
(* last INSERT is a value of the connection, whatever table and thread the *)
(* INSERT was for, and is asked for in a step of its own.                  *)
(*                                                                         *)
(* No row is deleted from these tables but Sessions, so the ids that       *)
(* AUTOINCREMENT gives are positions in sequences.  A session is the pair  *)
(* of the user and the thread whose client holds its token; the locks of   *)
(* accounts and the sessions that a crash leaves are the matter of         *)
(* UserSessions.  The rooms and their players are fixed: joining is the    *)
(* matter of Rematch.  A room may hold ids that are no user's: joinRoom    *)
(* takes any user_id (RoomService.cpp:25-31).                              *)
(***************************************************************************)
EXTENDS Naturals, Sequences, FiniteSets

CONSTANTS
  Threads,       \* handler threads
  Names, Passwords,
  FirstUsers,    \* the accounts there are from the start, as rows of Users
  Rooms,         \* rooms that START_MATCH is asked for
  RoomPlayers,   \* Room::players of each, user ids in the order of joining
  StoredRooms,   \* those with a row in table Rooms (no code writes there)
  Questions,     \* ids of the stored questions
  PerRound,      \* questions of one round; there are three rounds
  MaxQuestions,  \* LIMIT of the choice of questions
  MatchCost,     \* bound: for how many requests a START_MATCH counts
  MaxRequests    \* bound: how many requests are sent

ASSUME TablesAssumption ==
  /\ FirstUsers \in Seq([name : Names, password : Passwords])
  /\ \A i, j \in DOMAIN FirstUsers :
       FirstUsers[i].name = FirstUsers[j].name => i = j
  /\ "none" \notin Passwords
  /\ RoomPlayers \in [Rooms -> Seq(Nat)]
  /\ IsFiniteSet(Questions)
  /\ PerRound \in Nat \ {0}
  /\ MaxQuestions \in Nat
  /\ MatchCost \in Nat \ {0}
  /\ MaxRequests \in Nat

VARIABLES
  \* The database and its connection.
  users, matches, matchPlayers, matchQuestions,
  sessions,      \* the sessions that are stored, as <<user id, thread>>
  sessionCount,  \* how many have been
  lastRow,       \* sqlite3_last_insert_rowid
  \* The server process.
  games,     \* gamesMap, by match id
  pc,        \* where each thread stands, named after its next statement
  req,       \* the request it serves
  user,      \* the id its client is logged in as, 0 if it is not
  row,       \* the row id it has read: matchId of createMatch
  todo,      \* the players or questions still to be inserted
  requests,  \* how many requests have been sent, counted as the bounds say
  \* History.
  known,     \* by name: the password of the last RESET_PASSWORD_OK, of
             \* REGISTER_OK if there was none
  owners,    \* by name: how many clients were told REGISTER_OK
  started,   \* what START_MATCH answered: the room and the game
  mixedUp    \* match ids: read by a thread whose own row has another id, or
             \* those of the rows whose thread has read another id

dbVars == <<users, matches, matchPlayers, matchQuestions, sessions,
            sessionCount, lastRow>>
threadVars == <<pc, req, user, row, todo>>
historyVars == <<known, owners, started, mixedUp>>
vars == <<dbVars, games, threadVars, requests, historyVars>>

NoRequest == [command |-> "none"]

Idle(t) == pc[t] = "recv"
Goto(t, stage) == pc' = [pc EXCEPT ![t] = stage]
Answer(t) ==
  /\ Goto(t, "recv")
  /\ req' = [req EXCEPT ![t] = NoRequest]
  /\ row' = [row EXCEPT ![t] = 0]
  /\ todo' = [todo EXCEPT ![t] = <<>>]
  /\ UNCHANGED user

(* The id of the account of that name, 0 if there is none.                 *)
IdOf(name) ==
  LET ids == {i \in DOMAIN users : users[i].name = name}
  IN  IF ids = {} THEN 0 ELSE CHOOSE i \in ids : TRUE

Init ==
  /\ users = FirstUsers
  /\ matches = <<>>
  /\ matchPlayers = <<>>
  /\ matchQuestions = <<>>
  /\ sessions = {}
  /\ sessionCount = 0
  /\ lastRow = 0
  /\ games = << >>
  /\ pc = [t \in Threads |-> "recv"]
  /\ req = [t \in Threads |-> NoRequest]
  /\ user = [t \in Threads |-> 0]
  /\ row = [t \in Threads |-> 0]
  /\ todo = [t \in Threads |-> <<>>]
  /\ requests = 0
  /\ known = [n \in Names |->
                IF IdOf(n) = 0 THEN "none" ELSE users[IdOf(n)].password]
  /\ owners = [n \in Names |-> 0]
  /\ started = <<>>
  /\ mixedUp = {}

(* A request reaches thread t.                                             *)
Serve(t, r, stage) ==
  /\ Idle(t)
  /\ requests' = requests + IF r.command = "START_MATCH" THEN MatchCost ELSE 1
  /\ requests' <= MaxRequests
  /\ req' = [req EXCEPT ![t] = r]
  /\ Goto(t, stage)
  /\ UNCHANGED <<dbVars, games, user, row, todo, historyVars>>

-----------------------------------------------------------------------------
(* REGISTER: UserService::registerUser.                                    *)

Register(t) ==
  \E n \in Names, p \in Passwords :
    Serve(t, [command |-> "REGISTER", name |-> n, password |-> p],
          "findByUsername")

(* USERNAME_TAKEN, or on to createUser.                                    *)
FindByUsername(t) ==
  /\ pc[t] = "findByUsername"
  /\ IF IdOf(req[t].name) # 0
       THEN Answer(t)
       ELSE Goto(t, "createUser") /\ UNCHANGED <<req, user, row, todo>>
  /\ UNCHANGED <<dbVars, games, requests, historyVars>>

NewUser(t) == [name |-> req[t].name, password |-> req[t].password]

(* Slips for the checks: the column username is not UNIQUE; or a row of    *)
(* that name is replaced.                                                  *)
CreateUserAgain(t) ==
  /\ pc[t] = "createUser"
  /\ users' = Append(users, NewUser(t))
  /\ lastRow' = Len(users')
  /\ Goto(t, "lastUserRow")
  /\ UNCHANGED <<matches, matchPlayers, matchQuestions, sessions,
                 sessionCount, games, req, user, row, todo, requests,
                 historyVars>>

CreateUserReplacing(t) ==
  /\ pc[t] = "createUser"
  /\ LET id == IdOf(req[t].name) IN
     users' = IF id = 0 THEN Append(users, NewUser(t))
                        ELSE [users EXCEPT ![id] = NewUser(t)]
  /\ lastRow' = Len(users')
  /\ Goto(t, "lastUserRow")
  /\ UNCHANGED <<matches, matchPlayers, matchQuestions, sessions,
                 sessionCount, games, req, user, row, todo, requests,
                 historyVars>>

(* The INSERT.  username is UNIQUE: CREATE_USER_FAILED.                    *)
CreateUser(t) ==
  /\ pc[t] = "createUser"
  /\ IF IdOf(req[t].name) # 0
       THEN Answer(t) /\ UNCHANGED <<users, lastRow>>
       ELSE /\ users' = Append(users, NewUser(t))
            /\ lastRow' = Len(users')
            /\ Goto(t, "lastUserRow")
            /\ UNCHANGED <<req, user, row, todo>>
  /\ UNCHANGED <<matches, matchPlayers, matchQuestions, sessions,
                 sessionCount, games, requests, historyVars>>

(* REGISTER_OK with the row id, or CREATE_USER_FAILED if that is 0.  (It   *)
(* is not: an INSERT has been made.)  The client does not look at the id.  *)
LastUserRow(t) ==
  /\ pc[t] = "lastUserRow"
  /\ IF lastRow = 0
       THEN UNCHANGED <<owners, known>>
       ELSE /\ owners' = [owners EXCEPT ![req[t].name] = @ + 1]
            /\ known' = [known EXCEPT ![req[t].name] =
                           IF @ = "none" THEN req[t].password ELSE @]
  /\ Answer(t)
  /\ UNCHANGED <<dbVars, games, requests, started, mixedUp>>

-----------------------------------------------------------------------------
(* LOGIN and LOGOUT, as far as these tables go.                            *)

(* findByUsername finds the row, and the password given is the one in it.  *)
(* (Otherwise the answer comes here, and nothing changes.)                 *)
LogIn(t) ==
  /\ user[t] = 0
  /\ \E n \in Names :
       /\ IdOf(n) # 0
       /\ Serve(t, [command |-> "LOGIN", name |-> n], "hasActiveSession")

HasActiveSession(t) ==
  /\ pc[t] = "hasActiveSession"
  /\ IF \E s \in sessions : s[1] = IdOf(req[t].name)
       THEN Answer(t)
       ELSE Goto(t, "createSession") /\ UNCHANGED <<req, user, row, todo>>
  /\ UNCHANGED <<dbVars, games, requests, historyVars>>

CreateSession(t) ==
  /\ pc[t] = "createSession"
  /\ sessions' = sessions \cup {<<IdOf(req[t].name), t>>}
  /\ sessionCount' = sessionCount + 1
  /\ lastRow' = sessionCount'
  /\ user' = [user EXCEPT ![t] = IdOf(req[t].name)]
  /\ req' = [req EXCEPT ![t] = NoRequest]
  /\ Goto(t, "recv")
  /\ UNCHANGED <<users, matches, matchPlayers, matchQuestions, games, row,
                 todo, requests, historyVars>>

(* The client is through: LOGOUT removes the session of its token, the     *)
(* cleanup after a disconnect every session of its user.                   *)
LogOut(t) ==
  /\ Idle(t)
  /\ user[t] # 0
  /\ \/ sessions' = sessions \ {<<user[t], t>>}
     \/ sessions' = {s \in sessions : s[1] # user[t]}
  /\ user' = [user EXCEPT ![t] = 0]
  /\ UNCHANGED <<users, matches, matchPlayers, matchQuestions, sessionCount,
                 lastRow, games, pc, req, row, todo, requests, historyVars>>

-----------------------------------------------------------------------------
(* RESET_PASSWORD: UserService::resetPassword.                             *)

ResetPassword(t) ==
  /\ user[t] # 0
  /\ \E o, n \in Passwords :
       Serve(t, [command |-> "RESET_PASSWORD", id |-> user[t],
                 old |-> o, new |-> n], "getUserIdByToken")

(* INVALID_TOKEN if the session of the client is no longer stored.         *)
GetUserIdByToken(t) ==
  /\ pc[t] = "getUserIdByToken"
  /\ IF <<user[t], t>> \notin sessions
       THEN Answer(t)
       ELSE Goto(t, "findById") /\ UNCHANGED <<req, user, row, todo>>
  /\ UNCHANGED <<dbVars, games, requests, historyVars>>

(* WRONG_OLD_PASSWORD, or on to updatePassword.                            *)
FindById(t) ==
  /\ pc[t] = "findById"
  /\ IF users[req[t].id].password # req[t].old
       THEN Answer(t)
       ELSE Goto(t, "updatePassword") /\ UNCHANGED <<req, user, row, todo>>
  /\ UNCHANGED <<dbVars, games, requests, historyVars>>

UpdatePassword(t) ==
  /\ pc[t] = "updatePassword"
  /\ users' = [users EXCEPT ![req[t].id].password = req[t].new]
  /\ known' = [known EXCEPT ![users[req[t].id].name] = req[t].new]
  /\ Answer(t)
  /\ UNCHANGED <<matches, matchPlayers, matchQuestions, sessions,
                 sessionCount, lastRow, games, requests, owners, started,
                 mixedUp>>

-----------------------------------------------------------------------------
(* START_MATCH: GameService::startMatch, MatchService::createMatchFromRoom *)
(* and MatchDAO::createMatch.                                              *)

StartMatch(t) ==
  \E r \in Rooms : Serve(t, [command |-> "START_MATCH", room |-> r],
                         "insertMatch")

(* NoPlayersInRoom; or the INSERT, which fails (CreateMatchFailed) if the  *)
(* room is not stored.  Here row is set to the id of the new row, so that  *)
(* the next step can tell whether it reads that one.                       *)
InsertMatch(t) ==
  /\ pc[t] = "insertMatch"
  /\ IF RoomPlayers[req[t].room] = <<>> \/ req[t].room \notin StoredRooms
       THEN Answer(t) /\ UNCHANGED <<matches, lastRow>>
       ELSE /\ matches' = Append(matches, req[t].room)
            /\ lastRow' = Len(matches')
            /\ row' = [row EXCEPT ![t] = Len(matches')]
            /\ Goto(t, "lastMatchRow")
            /\ UNCHANGED <<req, user, todo>>
  /\ UNCHANGED <<users, matchPlayers, matchQuestions, sessions, sessionCount,
                 games, requests, historyVars>>

LastMatchRow(t) ==
  /\ pc[t] = "lastMatchRow"
  /\ row' = [row EXCEPT ![t] = lastRow]
  /\ mixedUp' = mixedUp \cup (IF lastRow = row[t] THEN {}
                                ELSE {lastRow, row[t]})
  /\ todo' = [todo EXCEPT ![t] = RoomPlayers[req[t].room]]
  /\ Goto(t, "insertPlayers")
  /\ UNCHANGED <<dbVars, games, req, user, requests, known, owners, started>>

(* A slip for the checks: foreign keys are off.                            *)
InsertUnchecked(table, r, found) == Append(table, r)

(* The next INSERT of a loop: it fails, and the loop goes on, where a row  *)
(* that it refers to is not found.                                         *)
InsertInto(table, r, found) == IF found THEN Append(table, r) ELSE table

InsertPlayer(t) ==
  /\ pc[t] = "insertPlayers"
  /\ todo[t] # <<>>
  /\ matchPlayers' =
       InsertInto(matchPlayers,
         [match |-> row[t], user |-> Head(todo[t]),
          rank |-> Len(RoomPlayers[req[t].room]) - Len(todo[t]) + 1],
         row[t] \in DOMAIN matches /\ Head(todo[t]) \in DOMAIN users)
  /\ lastRow' = IF matchPlayers' = matchPlayers THEN lastRow
                ELSE Len(matchPlayers')
  /\ todo' = [todo EXCEPT ![t] = Tail(@)]
  /\ UNCHANGED <<users, matches, matchQuestions, sessions, sessionCount,
                 games, pc, req, user, row, requests, historyVars>>

(* How many questions a match gets.                                        *)
Chosen == IF Cardinality(Questions) < MaxQuestions
          THEN Cardinality(Questions) ELSE MaxQuestions

SelectQuestions(t) ==
  /\ pc[t] = "insertPlayers"
  /\ todo[t] = <<>>
  /\ \E selected \in [1 .. Chosen -> Questions] :
       /\ \A i, j \in 1 .. Chosen : i # j => selected[i] # selected[j]
       /\ todo' = [todo EXCEPT ![t] = selected]
  /\ Goto(t, "insertQuestions")
  /\ UNCHANGED <<dbVars, games, req, user, row, requests, historyVars>>

(* A slip for the checks: positions counted from 1.                        *)
InsertQuestionFromOne(t) ==
  /\ pc[t] = "insertQuestions"
  /\ todo[t] # <<>>
  /\ LET i == Chosen - Len(todo[t]) + 1 IN
     matchQuestions' =
       InsertInto(matchQuestions,
         [match |-> row[t], question |-> Head(todo[t]),
          round |-> (i \div PerRound) + 1, order |-> (i % PerRound) + 1],
         row[t] \in DOMAIN matches)
  /\ lastRow' = IF matchQuestions' = matchQuestions THEN lastRow
                ELSE Len(matchQuestions')
  /\ todo' = [todo EXCEPT ![t] = Tail(@)]
  /\ UNCHANGED <<users, matches, matchPlayers, sessions, sessionCount, games,
                 pc, req, user, row, requests, historyVars>>

InsertQuestion(t) ==
  /\ pc[t] = "insertQuestions"
  /\ todo[t] # <<>>
  /\ LET i == Chosen - Len(todo[t]) IN
     matchQuestions' =
       InsertInto(matchQuestions,
         [match |-> row[t], question |-> Head(todo[t]),
          round |-> (i \div PerRound) + 1, order |-> (i % PerRound) + 1],
         row[t] \in DOMAIN matches)
  /\ lastRow' = IF matchQuestions' = matchQuestions THEN lastRow
                ELSE Len(matchQuestions')
  /\ todo' = [todo EXCEPT ![t] = Tail(@)]
  /\ UNCHANGED <<users, matches, matchPlayers, sessions, sessionCount, games,
                 pc, req, user, row, requests, historyVars>>

(* Rows in the order of a column, those with equal values in the order in  *)
(* which they were inserted: ORDER BY.                                     *)
Ordered(table, chosen, column) ==
  LET Place(i) == Cardinality({j \in chosen :
                    \/ table[j][column] < table[i][column]
                    \/ table[j][column] = table[i][column] /\ j <= i})
  IN  [n \in 1 .. Cardinality(chosen) |->
         table[CHOOSE i \in chosen : Place(i) = n]]

getPlayersForMatch(m) ==
  LET rows == Ordered(matchPlayers,
                      {i \in DOMAIN matchPlayers : matchPlayers[i].match = m},
                      "rank")
  IN  [n \in DOMAIN rows |-> rows[n].user]

getQuestionsForMatch(m, round) ==
  LET rows == Ordered(matchQuestions,
                      {i \in DOMAIN matchQuestions :
                         /\ matchQuestions[i].match = m
                         /\ matchQuestions[i].round = round},
                      "order")
  IN  [n \in DOMAIN rows |-> rows[n].question]

GetPlayers(t) ==
  /\ pc[t] = "insertQuestions"
  /\ todo[t] = <<>>
  /\ todo' = [todo EXCEPT ![t] = getPlayersForMatch(row[t])]
  /\ Goto(t, "emplace")
  /\ UNCHANGED <<dbVars, games, req, user, row, requests, historyVars>>

GameStart(t) ==
  /\ started' = Append(started, [room |-> req[t].room, game |-> row[t],
                                 players |-> todo[t]])
  /\ Answer(t)
  /\ UNCHANGED <<known, owners, mixedUp>>

(* try_emplace: the game is in the map, and has yet to be filled; or there *)
(* is one of that id already, which stays as it is, and GAME_START goes to *)
(* the players read before.                                                *)
Emplace(t) ==
  /\ pc[t] = "emplace"
  /\ IF row[t] \in DOMAIN games
       THEN GameStart(t) /\ UNCHANGED games
       ELSE /\ games' = [m \in DOMAIN games \cup {row[t]} |->
                           IF m = row[t]
                           THEN [players |-> <<>>, questions |-> <<>>]
                           ELSE games[m]]
            /\ Goto(t, "fillGame")
            /\ UNCHANGED <<req, user, row, todo, historyVars>>
  /\ UNCHANGED <<dbVars, requests>>

(* One round after the other is read; after the last one GAME_START.       *)
FillGame(t) ==
  /\ pc[t] = "fillGame"
  /\ LET filled == games[row[t]].questions
         round == Len(filled) + 1
     IN  /\ games' = [games EXCEPT ![row[t]] =
                        [players |-> todo[t],
                         questions |-> Append(filled,
                           getQuestionsForMatch(row[t], round))]]
         /\ IF round = 3
              THEN GameStart(t)
              ELSE UNCHANGED <<threadVars, historyVars>>
  /\ UNCHANGED <<dbVars, requests>>

-----------------------------------------------------------------------------
Account(t) ==
  \/ Register(t) \/ FindByUsername(t) \/ CreateUser(t) \/ LastUserRow(t)
  \/ LogIn(t) \/ HasActiveSession(t) \/ CreateSession(t) \/ LogOut(t)
  \/ ResetPassword(t) \/ GetUserIdByToken(t) \/ FindById(t)
  \/ UpdatePassword(t)

Match(t) ==
  \/ StartMatch(t) \/ InsertMatch(t) \/ LastMatchRow(t) \/ InsertPlayer(t)
  \/ SelectQuestions(t) \/ InsertQuestion(t) \/ GetPlayers(t) \/ Emplace(t)
  \/ FillGame(t)

Next == \E t \in Threads : Account(t) \/ Match(t)

Spec == Init /\ [][Next]_vars

-----------------------------------------------------------------------------
(* The rows refer to rows that are there, also where ids were mixed up;    *)
(* what has been counted is what is stored.                                *)
TypeOK ==
  /\ users \in Seq([name : Names, password : Passwords])
  /\ matches \in Seq(StoredRooms)
  /\ \A i \in DOMAIN matchPlayers :
       /\ matchPlayers[i].match \in DOMAIN matches
       /\ matchPlayers[i].user \in DOMAIN users
  /\ \A i \in DOMAIN matchQuestions :
       /\ matchQuestions[i].match \in DOMAIN matches
       /\ matchQuestions[i].question \in Questions
  /\ \A t \in Threads : user[t] = 0 \/ user[t] \in DOMAIN users

(* Of all who register a name at once, one at most is told REGISTER_OK,    *)
(* although each may have passed findByUsername before any INSERT.         *)
OneOwnerPerName == \A n \in Names : owners[n] <= 1

(* An account has the password of the last RESET_PASSWORD_OK, or if there  *)
(* was none that of REGISTER_OK, whatever others register meanwhile and    *)
(* although two clients of one account may reset it at once.  Between the  *)
(* INSERT of a new account and REGISTER_OK nothing has been promised.      *)
PasswordIsKnown ==
  \A i \in DOMAIN users :
    \/ users[i].password = known[users[i].name]
    \/ \E t \in Threads : /\ pc[t] = "lastUserRow"
                          /\ req[t].name = users[i].name

(* The players are those of the room, in the order they joined in; who has *)
(* no account is left out.                                                 *)
AreOfRoom(players, r) ==
  \E place \in [DOMAIN players -> DOMAIN RoomPlayers[r]] :
    /\ \A a, b \in DOMAIN players : a < b => place[a] < place[b]
    /\ \A a \in DOMAIN players : /\ players[a] = RoomPlayers[r][place[a]]
                                 /\ players[a] \in DOMAIN users
    /\ \A k \in DOMAIN RoomPlayers[r] :
         RoomPlayers[r][k] \in DOMAIN FirstUsers =>
           \E a \in DOMAIN players : place[a] = k

InRound(r) ==
  LET before == PerRound * (r - 1)
  IN  IF Chosen <= before THEN 0
      ELSE IF Chosen - before < PerRound THEN Chosen - before
      ELSE PerRound

(* Each GAME_START is about a game of its own, which has the players of    *)
(* the room, and PerRound of the chosen questions in each round as far as  *)
(* they go, none twice.                                                    *)
IsItsRoom(i) ==
  LET s == started[i]
      game == games[s.game]
      asked == {a \in (1 .. 3) \X (1 .. Chosen) :
                  a[2] \in DOMAIN game.questions[a[1]]}
  IN  /\ \A j \in DOMAIN started : i # j => s.game # started[j].game
      /\ AreOfRoom(s.players, s.room)
      /\ game.players = s.players
      /\ Len(game.questions) = 3
      /\ \A r \in 1 .. 3 : Len(game.questions[r]) = InRound(r)
      /\ \A a, b \in asked :
           a # b => game.questions[a[1]][a[2]] # game.questions[b[1]][b[2]]

(* So it is with every match whose id no thread has mixed up with another, *)
(* whatever is mixed up beside it and whoever in the room has no account.  *)
MatchIsItsRoom ==
  \A i \in DOMAIN started : started[i].game \notin mixedUp => IsItsRoom(i)
=============================================================================
