----------------------- MODULE SharedConnectionProofs ------------------------
(* Theorems about SharedConnection: about the rows of its tables, about    *)
(* the accounts and about what is stored of the matches, for any number of *)
(* threads, names, rooms, questions and requests.                          *)
EXTENDS SharedConnection, FiniteSetTheorems, SequenceTheorems, TLAPS

AccountRows == [name : Names, password : Passwords]
PlayerRows == [match : Nat, user : Nat, rank : Int]
QuestionRows == [match : Nat, question : Questions, round : Int, order : Int]

LogInStages == {"hasActiveSession", "createSession"}
RegisterStages == {"findByUsername", "createUser", "lastUserRow"}
ResetStages == {"getUserIdByToken", "findById", "updatePassword"}
MatchStages == {"insertMatch", "lastMatchRow", "insertPlayers",
                "insertQuestions", "emplace", "fillGame"}
Stages == {"recv"} \cup LogInStages \cup RegisterStages \cup ResetStages
            \cup MatchStages

Registering == [command : {"REGISTER"}, name : Names, password : Passwords]
LoggingIn == [command : {"LOGIN"}, name : Names]
Resetting == [command : {"RESET_PASSWORD"}, id : Nat, old : Passwords,
              new : Passwords]
Starting == [command : {"START_MATCH"}, room : Rooms]
Requests == {NoRequest} \cup Registering \cup LoggingIn \cup Resetting
              \cup Starting

-----------------------------------------------------------------------------
(* The tables: the inductive invariant                                     *)

RowTypes ==
  /\ sessionCount \in Nat
  /\ lastRow \in Nat
  /\ matchPlayers \in Seq(PlayerRows)
  /\ matchQuestions \in Seq(QuestionRows)
  /\ Len(FirstUsers) <= Len(users)

ThreadTypes ==
  /\ pc \in [Threads -> Stages]
  /\ req \in [Threads -> Requests]
  /\ user \in [Threads -> Nat]
  /\ row \in [Threads -> Nat]
  /\ DOMAIN todo = Threads

Stored(n) == \E i \in DOMAIN users : users[i].name = n

(* A thread serves a request of the kind its stage belongs to; the players *)
(* it has still to insert need not have accounts, the questions are stored *)
(* ones.                                                                   *)
StageFits(t) ==
  /\ pc[t] = "recv" => req[t] = NoRequest
  /\ pc[t] \in RegisterStages => req[t] \in Registering
  /\ pc[t] \in LogInStages => /\ req[t] \in LoggingIn
                              /\ user[t] = 0
                              /\ Stored(req[t].name)
  /\ pc[t] \in ResetStages => /\ req[t] \in Resetting
                              /\ req[t].id = user[t]
                              /\ user[t] # 0
  /\ pc[t] \in MatchStages => req[t] \in Starting
  /\ pc[t] = "insertPlayers" => todo[t] \in Seq(Nat)
  /\ pc[t] = "insertQuestions" => todo[t] \in Seq(Questions)

TablesInv ==
  /\ TypeOK
  /\ RowTypes
  /\ ThreadTypes
  /\ \A t \in Threads : StageFits(t)

-----------------------------------------------------------------------------
(* What IdOf finds.                                                        *)
LEMMA IdOfFinds ==
  ASSUME users \in Seq(AccountRows), NEW n
  PROVE  /\ IdOf(n) = 0 <=> ~ Stored(n)
         /\ Stored(n) => IdOf(n) \in DOMAIN users /\ users[IdOf(n)].name = n
<1>1. 0 \notin DOMAIN users
  BY LenProperties
<1>2. CASE Stored(n)
  <2> DEFINE ids == {i \in DOMAIN users : users[i].name = n}
  <2>1. ids # {}
    BY <1>2 DEF Stored
  <2>2. IdOf(n) = CHOOSE i \in ids : TRUE
    BY <2>1 DEF IdOf
  <2>3. IdOf(n) \in ids
    BY <2>1, <2>2
  <2> QED
    BY <2>3, <1>1, <1>2
<1>3. CASE ~ Stored(n)
  BY <1>3 DEF IdOf, Stored
<1> QED
  BY <1>2, <1>3

(* What Append does to a table.                                            *)
LEMMA RowAdded ==
  ASSUME NEW S, NEW s \in Seq(S), NEW e \in S
  PROVE  /\ Append(s, e) \in Seq(S)
         /\ Append(s, e) # s
         /\ Len(s) \in Nat
         /\ Len(Append(s, e)) = Len(s) + 1
         /\ DOMAIN Append(s, e) = DOMAIN s \cup {Len(s) + 1}
         /\ Len(s) + 1 \notin DOMAIN s
         /\ \A i \in DOMAIN s : Append(s, e)[i] = s[i]
         /\ Append(s, e)[Len(s) + 1] = e
<1>1. Len(s) \in Nat /\ DOMAIN s = 1 .. Len(s)
  BY LenProperties
<1> DEFINE longer == Append(s, e)
<1>2. /\ longer \in Seq(S)
      /\ Len(longer) = Len(s) + 1
      /\ \A i \in 1 .. Len(s) : longer[i] = s[i]
      /\ longer[Len(s) + 1] = e
  BY AppendProperties
<1>3. DOMAIN longer = 1 .. Len(longer)
  BY <1>2, LenProperties
<1> HIDE DEF longer
<1>4. longer # s
  <2>1. \A n \in Nat : n + 1 # n
    OBVIOUS
  <2>2. Len(longer) # Len(s)
    BY <1>1, <1>2, <2>1, Zenon
  <2> QED
    BY <2>2, Zenon
<1>5. DOMAIN longer = DOMAIN s \cup {Len(s) + 1} /\ Len(s) + 1 \notin DOMAIN s
  BY <1>1, <1>2, <1>3
<1>6. /\ longer \in Seq(S) /\ longer # s
      /\ Len(s) \in Nat /\ Len(longer) = Len(s) + 1
      /\ DOMAIN longer = DOMAIN s \cup {Len(s) + 1}
      /\ Len(s) + 1 \notin DOMAIN s
      /\ \A i \in DOMAIN s : longer[i] = s[i]
      /\ longer[Len(s) + 1] = e
  BY <1>1, <1>2, <1>4, <1>5
<1> QED
  BY <1>6 DEF longer

LEMMA ChosenNat == Chosen \in Nat
BY FS_CardinalityType, TablesAssumption DEF Chosen

-----------------------------------------------------------------------------
(* What holds of the other threads after a step of thread t.               *)
LEMMA OthersFit ==
  ASSUME NEW t \in Threads, NEW s \in Threads \ {t}, StageFits(s),
         pc'[s] = pc[s], req'[s] = req[s], user'[s] = user[s],
         todo'[s] = todo[s],
         \A n \in Names : Stored(n) => Stored(n)'
  PROVE  StageFits(s)'
BY DEF StageFits, LoggingIn

(* A step that inserts no row but, perhaps, a session.                     *)
LEMMA ThreadStep ==
  ASSUME TablesInv, NEW t \in Threads,
         UNCHANGED <<users, matches, matchPlayers, matchQuestions>>,
         sessionCount' \in Nat, lastRow' \in Nat,
         ThreadTypes',
         \A s \in Threads \ {t} :
           /\ pc'[s] = pc[s] /\ req'[s] = req[s]
           /\ user'[s] = user[s] /\ todo'[s] = todo[s],
         user'[t] = 0 \/ user'[t] \in DOMAIN users,
         StageFits(t)'
  PROVE  TablesInv'
<1>1. \A n : Stored(n)' <=> Stored(n)
  BY DEF Stored
<1>2. \A s \in Threads : StageFits(s)'
  BY <1>1, OthersFit DEF TablesInv
<1>3. TypeOK' /\ RowTypes'
  BY DEF TablesInv, TypeOK, RowTypes
<1> QED
  BY <1>2, <1>3 DEF TablesInv

(* A step in which thread t answers.                                       *)
LEMMA Answering ==
  ASSUME TablesInv, NEW t \in Threads, Answer(t),
         UNCHANGED <<users, sessionCount, lastRow, matches, matchPlayers,
                     matchQuestions>>
  PROVE  TablesInv'
<1>1. /\ pc' = [pc EXCEPT ![t] = "recv"]
      /\ req' = [req EXCEPT ![t] = NoRequest]
      /\ row' = [row EXCEPT ![t] = 0]
      /\ todo' = [todo EXCEPT ![t] = <<>>]
      /\ user' = user
  BY DEF Answer, Goto
<1>2. ThreadTypes'
  BY <1>1 DEF TablesInv, ThreadTypes, Stages, Requests
<1>3. StageFits(t)'
  BY <1>1 DEF TablesInv, ThreadTypes, StageFits, RegisterStages, ResetStages,
              MatchStages, LogInStages
<1> QED
  BY <1>1, <1>2, <1>3, ThreadStep DEF TablesInv, ThreadTypes, RowTypes, TypeOK

(* A step in which thread t begins to serve a request.                     *)
LEMMA Serving ==
  ASSUME TablesInv, NEW t \in Threads, NEW r \in Requests,
         NEW stage \in Stages \ {"insertPlayers", "insertQuestions"},
         Serve(t, r, stage),
         stage # "recv",
         stage \in RegisterStages => r \in Registering,
         stage \in LogInStages => /\ r \in LoggingIn
                                  /\ user[t] = 0
                                  /\ Stored(r.name),
         stage \in ResetStages => r \in Resetting /\ r.id = user[t] /\ user[t] # 0,
         stage \in MatchStages => r \in Starting
  PROVE  TablesInv'
<1>1. /\ pc' = [pc EXCEPT ![t] = stage]
      /\ req' = [req EXCEPT ![t] = r]
      /\ UNCHANGED <<dbVars, user, row, todo>>
  BY DEF Serve, Goto
<1>2. ThreadTypes'
  BY <1>1 DEF TablesInv, ThreadTypes
<1>3. StageFits(t)'
  BY <1>1 DEF TablesInv, ThreadTypes, StageFits, Stored, dbVars
<1> QED
  BY <1>1, <1>2, <1>3, ThreadStep
     DEF TablesInv, ThreadTypes, RowTypes, TypeOK, dbVars

LEMMA TablesInit == Init => TablesInv
<1> SUFFICES ASSUME Init PROVE TablesInv
  OBVIOUS
<1> USE DEF Init
<1>1. users \in Seq(AccountRows)
  BY TablesAssumption DEF AccountRows
<1>2. TypeOK
  <2>1. matches \in Seq(StoredRooms)
    BY EmptySeq
  <2> QED
    BY <1>1, <2>1 DEF TypeOK, AccountRows
<1>3. RowTypes
  <2>1. Len(users) \in Nat
    BY <1>1, LenProperties
  <2>2. matchPlayers \in Seq(PlayerRows) /\ matchQuestions \in Seq(QuestionRows)
    BY EmptySeq
  <2> QED
    BY <2>1, <2>2 DEF RowTypes
<1>4. ThreadTypes /\ \A t \in Threads : StageFits(t)
  BY DEF ThreadTypes, StageFits, Stages, RegisterStages, ResetStages,
         MatchStages, LogInStages, Requests
<1> QED
  BY <1>2, <1>3, <1>4 DEF TablesInv

(* Requests of the kinds that the model sends.                             *)
LEMMA RequestKinds ==
  /\ \A n \in Names, p \in Passwords :
       [command |-> "REGISTER", name |-> n, password |-> p] \in Registering
  /\ \A n \in Names : [command |-> "LOGIN", name |-> n] \in LoggingIn
  /\ \A i \in Nat : \A o, n \in Passwords :
       [command |-> "RESET_PASSWORD", id |-> i, old |-> o, new |-> n]
         \in Resetting
  /\ \A r \in Rooms : [command |-> "START_MATCH", room |-> r] \in Starting
BY DEF Registering, LoggingIn, Resetting, Starting

LEMMA CreateUserKeepsTables ==
  ASSUME TablesInv, NEW t \in Threads, CreateUser(t)
  PROVE  TablesInv'
<1>1. CASE IdOf(req[t].name) # 0
  BY <1>1, Answering DEF CreateUser
<1>2. CASE IdOf(req[t].name) = 0
  <2>1. /\ pc[t] = "createUser"
        /\ users' = Append(users, NewUser(t))
        /\ lastRow' = Len(users')
        /\ pc' = [pc EXCEPT ![t] = "lastUserRow"]
        /\ UNCHANGED <<req, user, row, todo, sessionCount, matches,
                       matchPlayers, matchQuestions>>
    BY <1>2 DEF CreateUser, Goto
  <2>2. req[t] \in Registering /\ NewUser(t) \in AccountRows
    BY <2>1 DEF TablesInv, StageFits, RegisterStages, NewUser, AccountRows,
                Registering
  <2>3. users \in Seq(AccountRows)
    BY DEF TablesInv, TypeOK, AccountRows
  <2>4. /\ users' \in Seq(AccountRows)
        /\ Len(users) \in Nat /\ Len(users') = Len(users) + 1
        /\ DOMAIN users \subseteq DOMAIN users'
        /\ \A i \in DOMAIN users : users'[i] = users[i]
    BY <2>1, <2>2, <2>3, RowAdded
  <2>5. TypeOK'
    BY <2>1, <2>4 DEF TablesInv, TypeOK, AccountRows
  <2>6. RowTypes' /\ ThreadTypes'
    <3>1. Len(FirstUsers) \in Nat
      BY TablesAssumption, LenProperties
    <3>2. lastRow' \in Nat /\ Len(FirstUsers) <= Len(users')
      BY <2>1, <2>4, <3>1 DEF TablesInv, RowTypes
    <3> QED
      BY <2>1, <3>2 DEF TablesInv, RowTypes, ThreadTypes, Stages,
                        RegisterStages
  <2>7. \A s \in Threads : StageFits(s)'
    <3>1. \A n : Stored(n) => Stored(n)'
      BY <2>4 DEF Stored
    <3>2. StageFits(t)'
      BY <2>1, <2>2 DEF TablesInv, ThreadTypes, StageFits, RegisterStages,
                        ResetStages, MatchStages, LogInStages
    <3> QED
      BY <2>1, <3>1, <3>2, OthersFit DEF TablesInv, ThreadTypes
  <2> QED
    BY <2>5, <2>6, <2>7 DEF TablesInv
<1> QED
  BY <1>1, <1>2

LEMMA UpdatePasswordKeepsTables ==
  ASSUME TablesInv, NEW t \in Threads, UpdatePassword(t)
  PROVE  TablesInv'
<1>1. /\ pc[t] = "updatePassword"
      /\ users' = [users EXCEPT ![req[t].id].password = req[t].new]
      /\ pc' = [pc EXCEPT ![t] = "recv"]
      /\ req' = [req EXCEPT ![t] = NoRequest]
      /\ row' = [row EXCEPT ![t] = 0]
      /\ todo' = [todo EXCEPT ![t] = <<>>]
      /\ UNCHANGED <<user, sessionCount, lastRow, matches, matchPlayers,
                     matchQuestions>>
  BY DEF UpdatePassword, Answer, Goto
<1>2. req[t] \in Resetting /\ req[t].id \in DOMAIN users /\ req[t].new \in Passwords
  BY <1>1 DEF TablesInv, TypeOK, StageFits, ResetStages, Resetting
<1>3. users \in [1 .. Len(users) -> AccountRows] /\ Len(users) \in Nat
  BY LenProperties DEF TablesInv, TypeOK, AccountRows
<1>4. users' \in [1 .. Len(users) -> AccountRows]
  BY <1>1, <1>2, <1>3 DEF AccountRows
<1>5. users' \in Seq(AccountRows) /\ Len(users') = Len(users)
  BY <1>3, <1>4, LenProperties
<1>6. DOMAIN users' = DOMAIN users
      /\ \A i \in DOMAIN users : users'[i].name = users[i].name
  BY <1>1, <1>2, <1>3 DEF AccountRows
<1>7. TypeOK'
  BY <1>1, <1>5, <1>6 DEF TablesInv, TypeOK, AccountRows
<1>8. RowTypes' /\ ThreadTypes'
  BY <1>1, <1>5 DEF TablesInv, RowTypes, ThreadTypes, Stages, Requests
<1>9. \A s \in Threads : StageFits(s)'
  <2>1. \A n : Stored(n) => Stored(n)'
    BY <1>6 DEF Stored
  <2>2. StageFits(t)'
    BY <1>1 DEF TablesInv, ThreadTypes, StageFits, RegisterStages, ResetStages,
                MatchStages, LogInStages
  <2> QED
    BY <1>1, <2>1, <2>2, OthersFit DEF TablesInv, ThreadTypes
<1> QED
  BY <1>7, <1>8, <1>9 DEF TablesInv

(* The other steps on accounts insert no row into the tables here.         *)
LEMMA AccountStepKeepsTables ==
  ASSUME TablesInv, NEW t \in Threads, Account(t)
  PROVE  TablesInv'
<1>1. CASE Register(t)
  <2>1. PICK n \in Names, p \in Passwords :
          Serve(t, [command |-> "REGISTER", name |-> n, password |-> p],
                "findByUsername")
    BY <1>1 DEF Register
  <2> DEFINE r == [command |-> "REGISTER", name |-> n, password |-> p]
  <2>2. r \in Registering
    BY RequestKinds
  <2> HIDE DEF r
  <2> QED
    BY <2>1, <2>2, Serving DEF r, Requests, Stages, RegisterStages,
                               ResetStages, MatchStages, LogInStages
<1>2. CASE FindByUsername(t)
  <2>1. CASE IdOf(req[t].name) # 0
    BY <1>2, <2>1, Answering DEF FindByUsername, dbVars
  <2>2. CASE IdOf(req[t].name) = 0
    <3>1. /\ pc[t] = "findByUsername"
          /\ pc' = [pc EXCEPT ![t] = "createUser"]
          /\ UNCHANGED <<dbVars, req, user, row, todo>>
      BY <1>2, <2>2 DEF FindByUsername, Goto
    <3>2. ThreadTypes'
      BY <3>1 DEF TablesInv, ThreadTypes, Stages, RegisterStages
    <3>3. StageFits(t)'
      BY <3>1 DEF TablesInv, ThreadTypes, StageFits, RegisterStages,
                  ResetStages, MatchStages, LogInStages
    <3> QED
      BY <3>1, <3>2, <3>3, ThreadStep
         DEF TablesInv, ThreadTypes, RowTypes, TypeOK, dbVars
  <2> QED
    BY <2>1, <2>2
<1>3. CASE CreateUser(t)
  BY <1>3, CreateUserKeepsTables
<1>4. CASE LastUserRow(t)
  BY <1>4, Answering DEF LastUserRow, dbVars
<1>5. CASE LogIn(t)
  <2>1. PICK n \in Names :
          /\ user[t] = 0
          /\ IdOf(n) # 0
          /\ Serve(t, [command |-> "LOGIN", name |-> n], "hasActiveSession")
    BY <1>5 DEF LogIn
  <2> DEFINE r == [command |-> "LOGIN", name |-> n]
  <2>2. Stored(r.name)
    BY <2>1, IdOfFinds DEF TablesInv, TypeOK, AccountRows
  <2>3. r \in LoggingIn
    BY RequestKinds
  <2>4. Serve(t, r, "hasActiveSession")
    BY <2>1
  <2> HIDE DEF r
  <2> QED
    BY <2>1, <2>2, <2>3, <2>4, Serving DEF Requests, Stages, RegisterStages,
                               ResetStages, MatchStages, LogInStages
<1>6. CASE CreateSession(t)
  <2>1. /\ pc[t] = "createSession"
        /\ sessionCount' = sessionCount + 1
        /\ lastRow' = sessionCount'
        /\ user' = [user EXCEPT ![t] = IdOf(req[t].name)]
        /\ req' = [req EXCEPT ![t] = NoRequest]
        /\ pc' = [pc EXCEPT ![t] = "recv"]
        /\ UNCHANGED <<users, matches, matchPlayers, matchQuestions, row, todo>>
    BY <1>6 DEF CreateSession, Goto
  <2>2. Stored(req[t].name) /\ users \in Seq(AccountRows)
    BY <2>1 DEF TablesInv, StageFits, LogInStages, TypeOK, AccountRows
  <2>3. IdOf(req[t].name) \in DOMAIN users /\ IdOf(req[t].name) \in Nat
    BY <2>2, IdOfFinds, LenProperties
  <2>4. ThreadTypes'
    BY <2>1, <2>3 DEF TablesInv, ThreadTypes, Stages, Requests
  <2>5. StageFits(t)'
    BY <2>1 DEF TablesInv, ThreadTypes, StageFits, RegisterStages, ResetStages,
                MatchStages, LogInStages
  <2>6. sessionCount' \in Nat /\ lastRow' \in Nat
    BY <2>1 DEF TablesInv, RowTypes
  <2> QED
    BY <2>1, <2>3, <2>4, <2>5, <2>6, ThreadStep DEF TablesInv, ThreadTypes
<1>7. CASE LogOut(t)
  <2>1. /\ pc[t] = "recv"
        /\ user' = [user EXCEPT ![t] = 0]
        /\ UNCHANGED <<users, matches, matchPlayers, matchQuestions,
                       sessionCount, lastRow, pc, req, row, todo>>
    BY <1>7 DEF LogOut, Idle
  <2>2. ThreadTypes'
    BY <2>1 DEF TablesInv, ThreadTypes
  <2>3. StageFits(t)'
    BY <2>1 DEF TablesInv, ThreadTypes, StageFits, RegisterStages, ResetStages,
                MatchStages, LogInStages
  <2> QED
    BY <2>1, <2>2, <2>3, ThreadStep
       DEF TablesInv, ThreadTypes, RowTypes, dbVars
<1>8. CASE ResetPassword(t)
  <2>1. PICK o, n \in Passwords :
          /\ user[t] # 0
          /\ Serve(t, [command |-> "RESET_PASSWORD", id |-> user[t],
                       old |-> o, new |-> n], "getUserIdByToken")
    BY <1>8 DEF ResetPassword
  <2> DEFINE r == [command |-> "RESET_PASSWORD", id |-> user[t],
                   old |-> o, new |-> n]
  <2>2. r \in Resetting /\ r.id = user[t]
    BY RequestKinds DEF TablesInv, ThreadTypes
  <2>3. Serve(t, r, "getUserIdByToken")
    BY <2>1
  <2> HIDE DEF r
  <2> QED
    BY <2>1, <2>2, <2>3, Serving DEF Requests, Stages, RegisterStages,
                               ResetStages, MatchStages, LogInStages
<1>9. CASE FindById(t)
  <2>1. CASE users[req[t].id].password # req[t].old
    BY <1>9, <2>1, Answering DEF FindById, dbVars
  <2>2. CASE users[req[t].id].password = req[t].old
    <3>1. /\ pc[t] = "findById"
          /\ pc' = [pc EXCEPT ![t] = "updatePassword"]
          /\ UNCHANGED <<dbVars, req, user, row, todo>>
      BY <1>9, <2>2 DEF FindById, Goto
    <3>2. ThreadTypes'
      BY <3>1 DEF TablesInv, ThreadTypes, Stages, ResetStages
    <3>3. StageFits(t)'
      BY <3>1 DEF TablesInv, ThreadTypes, StageFits, RegisterStages,
                  ResetStages, MatchStages, LogInStages
    <3> QED
      BY <3>1, <3>2, <3>3, ThreadStep
         DEF TablesInv, ThreadTypes, RowTypes, TypeOK, dbVars
  <2> QED
    BY <2>1, <2>2
<1>10. CASE UpdatePassword(t)
  BY <1>10, UpdatePasswordKeepsTables
<1>11. CASE HasActiveSession(t)
  <2>1. CASE \E s \in sessions : s[1] = IdOf(req[t].name)
    BY <1>11, <2>1, Answering DEF HasActiveSession, dbVars
  <2>2. CASE ~ \E s \in sessions : s[1] = IdOf(req[t].name)
    <3>1. /\ pc[t] = "hasActiveSession"
          /\ pc' = [pc EXCEPT ![t] = "createSession"]
          /\ UNCHANGED <<dbVars, req, user, row, todo>>
      BY <1>11, <2>2 DEF HasActiveSession, Goto
    <3>2. ThreadTypes'
      BY <3>1 DEF TablesInv, ThreadTypes, Stages, LogInStages
    <3>3. StageFits(t)'
      BY <3>1 DEF TablesInv, ThreadTypes, StageFits, RegisterStages,
                  ResetStages, MatchStages, LogInStages, Stored, dbVars
    <3> QED
      BY <3>1, <3>2, <3>3, ThreadStep
         DEF TablesInv, ThreadTypes, RowTypes, TypeOK, dbVars
  <2> QED
    BY <2>1, <2>2
<1>12. CASE GetUserIdByToken(t)
  <2>1. CASE <<user[t], t>> \notin sessions
    BY <1>12, <2>1, Answering DEF GetUserIdByToken, dbVars
  <2>2. CASE <<user[t], t>> \in sessions
    <3>1. /\ pc[t] = "getUserIdByToken"
          /\ pc' = [pc EXCEPT ![t] = "findById"]
          /\ UNCHANGED <<dbVars, req, user, row, todo>>
      BY <1>12, <2>2 DEF GetUserIdByToken, Goto
    <3>2. ThreadTypes'
      BY <3>1 DEF TablesInv, ThreadTypes, Stages, ResetStages
    <3>3. StageFits(t)'
      BY <3>1 DEF TablesInv, ThreadTypes, StageFits, RegisterStages,
                  ResetStages, MatchStages, LogInStages
    <3> QED
      BY <3>1, <3>2, <3>3, ThreadStep
         DEF TablesInv, ThreadTypes, RowTypes, TypeOK, dbVars
  <2> QED
    BY <2>1, <2>2
<1> QED
  BY <1>1, <1>2, <1>3, <1>4, <1>5, <1>6, <1>7, <1>8, <1>9, <1>10, <1>11,
     <1>12 DEF Account

LEMMA InsertMatchKeepsTables ==
  ASSUME TablesInv, NEW t \in Threads, InsertMatch(t)
  PROVE  TablesInv'
<1>1. CASE RoomPlayers[req[t].room] = <<>> \/ req[t].room \notin StoredRooms
  BY <1>1, Answering DEF InsertMatch
<1>2. CASE ~ (RoomPlayers[req[t].room] = <<>> \/ req[t].room \notin StoredRooms)
  <2>1. /\ pc[t] = "insertMatch"
        /\ req[t].room \in StoredRooms
        /\ matches' = Append(matches, req[t].room)
        /\ lastRow' = Len(matches')
        /\ row' = [row EXCEPT ![t] = Len(matches')]
        /\ pc' = [pc EXCEPT ![t] = "lastMatchRow"]
        /\ UNCHANGED <<req, user, todo, users, sessionCount, matchPlayers,
                       matchQuestions>>
    BY <1>2 DEF InsertMatch, Goto
  <2>2. matches \in Seq(StoredRooms)
    BY DEF TablesInv, TypeOK
  <2>3. /\ matches' \in Seq(StoredRooms)
        /\ Len(matches') \in Nat
        /\ DOMAIN matches \subseteq DOMAIN matches'
    BY <2>1, <2>2, RowAdded
  <2>4. TypeOK'
    BY <2>1, <2>3 DEF TablesInv, TypeOK
  <2>5. RowTypes' /\ ThreadTypes'
    BY <2>1, <2>3 DEF TablesInv, RowTypes, ThreadTypes, Stages, MatchStages
  <2>6. \A s \in Threads : StageFits(s)'
    <3>1. \A n : Stored(n) => Stored(n)'
      BY <2>1 DEF Stored
    <3>2. StageFits(t)'
      BY <2>1 DEF TablesInv, ThreadTypes, StageFits, RegisterStages,
                  ResetStages, MatchStages, LogInStages
    <3> QED
      BY <2>1, <3>1, <3>2, OthersFit DEF TablesInv, ThreadTypes
  <2> QED
    BY <2>4, <2>5, <2>6 DEF TablesInv
<1> QED
  BY <1>1, <1>2

(* What the two loops of createMatch do to the table they insert into.     *)
LEMMA InsertedInto ==
  ASSUME NEW S, NEW table \in Seq(S), NEW r \in S, NEW found \in BOOLEAN
  PROVE  /\ InsertInto(table, r, found) \in Seq(S)
         /\ Len(InsertInto(table, r, found)) \in Nat
         /\ DOMAIN table \subseteq DOMAIN InsertInto(table, r, found)
         /\ \A i \in DOMAIN table : InsertInto(table, r, found)[i] = table[i]
         /\ \A i \in DOMAIN InsertInto(table, r, found) \ DOMAIN table :
              InsertInto(table, r, found)[i] = r /\ found
<1>1. CASE found
  <2> DEFINE longer == InsertInto(table, r, found)
  <2>1. longer = Append(table, r)
    BY <1>1 DEF InsertInto
  <2> HIDE DEF longer
  <2>2. /\ longer \in Seq(S) /\ Len(longer) \in Nat
        /\ DOMAIN longer = DOMAIN table \cup {Len(table) + 1}
        /\ \A i \in DOMAIN table : longer[i] = table[i]
        /\ longer[Len(table) + 1] = r
    <3>1. /\ Append(table, r) \in Seq(S)
          /\ DOMAIN Append(table, r) = DOMAIN table \cup {Len(table) + 1}
          /\ \A i \in DOMAIN table : Append(table, r)[i] = table[i]
          /\ Append(table, r)[Len(table) + 1] = r
      BY RowAdded
    <3> QED
      BY <2>1, <3>1, LenProperties
  <2>3. /\ DOMAIN table \subseteq DOMAIN longer
        /\ \A i \in DOMAIN longer \ DOMAIN table : longer[i] = r
    BY <2>2
  <2> QED
    BY <1>1, <2>2, <2>3 DEF longer
<1>2. CASE ~ found
  BY <1>2, LenProperties DEF InsertInto
<1> QED
  BY <1>1, <1>2

LEMMA InsertedRow ==
  ASSUME NEW S, NEW table \in Seq(S), NEW r \in S, NEW found \in BOOLEAN
  PROVE  \/ InsertInto(table, r, found) = table
         \/ Len(InsertInto(table, r, found)) # 0
BY RowAdded DEF InsertInto

(* A step of the two loops.                                                *)
LEMMA LoopStep ==
  ASSUME TablesInv, NEW t \in Threads,
         pc[t] \in {"insertPlayers", "insertQuestions"},
         todo[t] # <<>>, todo' = [todo EXCEPT ![t] = Tail(@)],
         lastRow' \in Nat,
         UNCHANGED <<users, sessionCount, matches, pc, req, user, row>>
  PROVE  /\ ThreadTypes'
         /\ \A s \in Threads : StageFits(s)'
<1>1. ThreadTypes'
  BY DEF TablesInv, ThreadTypes
<1>2. \A n : Stored(n) => Stored(n)'
  BY DEF Stored
<1>3. StageFits(t)'
  <2>1. StageFits(t) /\ todo'[t] = Tail(todo[t])
    BY DEF TablesInv, ThreadTypes
  <2>2. \A S : todo[t] \in Seq(S) => todo'[t] \in Seq(S)
    BY <2>1, HeadTailProperties
  <2> QED
    BY <2>1, <2>2, <1>2 DEF StageFits, LoggingIn
<1> QED
  BY <1>1, <1>2, <1>3, OthersFit DEF TablesInv, ThreadTypes

LEMMA InsertPlayerKeepsTables ==
  ASSUME TablesInv, NEW t \in Threads, InsertPlayer(t)
  PROVE  TablesInv' /\ (lastRow' = lastRow \/ lastRow' # 0)
<1> DEFINE r == [match |-> row[t], user |-> Head(todo[t]),
                 rank |-> Len(RoomPlayers[req[t].room]) - Len(todo[t]) + 1]
           found == row[t] \in DOMAIN matches /\ Head(todo[t]) \in DOMAIN users
<1>1. /\ pc[t] = "insertPlayers" /\ todo[t] # <<>>
      /\ matchPlayers' = InsertInto(matchPlayers, r, found)
      /\ lastRow' = IF matchPlayers' = matchPlayers THEN lastRow
                    ELSE Len(matchPlayers')
      /\ todo' = [todo EXCEPT ![t] = Tail(@)]
      /\ UNCHANGED <<users, sessionCount, matches, matchQuestions, pc, req,
                     user, row>>
  BY DEF InsertPlayer
<1>2. todo[t] \in Seq(Nat) /\ req[t] \in Starting
  BY <1>1 DEF TablesInv, StageFits, MatchStages
<1>3. Head(todo[t]) \in Nat /\ Len(todo[t]) \in Nat
  BY <1>1, <1>2, HeadTailProperties, LenProperties
<1>4. found \in BOOLEAN
  OBVIOUS
<1>5. Len(RoomPlayers[req[t].room]) \in Nat
  BY <1>2, TablesAssumption, LenProperties DEF Starting
<1>6. /\ r \in PlayerRows
      /\ found => r.match \in DOMAIN matches /\ r.user \in DOMAIN users
  BY <1>3, <1>5 DEF TablesInv, ThreadTypes, PlayerRows
<1> HIDE DEF r, found
<1>7. matchPlayers \in Seq(PlayerRows)
  BY DEF TablesInv, RowTypes
<1>8. /\ matchPlayers' \in Seq(PlayerRows)
      /\ Len(matchPlayers') \in Nat
      /\ matchPlayers' # matchPlayers => Len(matchPlayers') # 0
      /\ \A i \in DOMAIN matchPlayers : matchPlayers'[i] = matchPlayers[i]
      /\ \A i \in DOMAIN matchPlayers' \ DOMAIN matchPlayers :
           matchPlayers'[i] = r /\ found
  <2> DEFINE longer == InsertInto(matchPlayers, r, found)
  <2>1. /\ longer \in Seq(PlayerRows) /\ Len(longer) \in Nat
        /\ \A i \in DOMAIN matchPlayers : longer[i] = matchPlayers[i]
        /\ \A i \in DOMAIN longer \ DOMAIN matchPlayers :
             longer[i] = r /\ found
    BY <1>4, <1>6, <1>7, InsertedInto
  <2>2. longer = matchPlayers \/ Len(longer) # 0
    BY <1>4, <1>6, <1>7, InsertedRow
  <2> HIDE DEF longer
  <2>3. matchPlayers' = longer
    BY <1>1 DEF longer
  <2> QED
    BY <2>1, <2>2, <2>3
<1>9. TypeOK'
  BY <1>1, <1>6, <1>8 DEF TablesInv, TypeOK
<1>10. RowTypes'
  BY <1>1, <1>8 DEF TablesInv, RowTypes
<1> QED
  BY <1>1, <1>9, <1>10, <1>8, LoopStep DEF TablesInv, RowTypes

LEMMA InsertQuestionKeepsTables ==
  ASSUME TablesInv, NEW t \in Threads, InsertQuestion(t)
  PROVE  TablesInv' /\ (lastRow' = lastRow \/ lastRow' # 0)
<1> DEFINE n == Chosen - Len(todo[t])
           r == [match |-> row[t], question |-> Head(todo[t]),
                 round |-> (n \div PerRound) + 1, order |-> (n % PerRound) + 1]
           found == row[t] \in DOMAIN matches
<1>1. /\ pc[t] = "insertQuestions" /\ todo[t] # <<>>
      /\ matchQuestions' = InsertInto(matchQuestions, r, found)
      /\ lastRow' = IF matchQuestions' = matchQuestions THEN lastRow
                    ELSE Len(matchQuestions')
      /\ todo' = [todo EXCEPT ![t] = Tail(@)]
      /\ UNCHANGED <<users, sessionCount, matches, matchPlayers, pc, req,
                     user, row>>
  BY DEF InsertQuestion
<1>2. todo[t] \in Seq(Questions)
  BY <1>1 DEF TablesInv, StageFits
<1>3. Head(todo[t]) \in Questions /\ Len(todo[t]) \in Nat
  BY <1>1, <1>2, HeadTailProperties, LenProperties
<1>4. n \div PerRound \in Int /\ n % PerRound \in Int
  BY <1>3, ChosenNat, TablesAssumption
<1>5. /\ r \in QuestionRows /\ r.question \in Questions
      /\ found => r.match \in DOMAIN matches
  BY <1>3, <1>4 DEF TablesInv, ThreadTypes, QuestionRows
<1>10. found \in BOOLEAN
  OBVIOUS
<1> HIDE DEF r, found
<1>6. matchQuestions \in Seq(QuestionRows)
  BY DEF TablesInv, RowTypes
<1>7. /\ matchQuestions' \in Seq(QuestionRows)
      /\ Len(matchQuestions') \in Nat
      /\ matchQuestions' # matchQuestions => Len(matchQuestions') # 0
      /\ \A i \in DOMAIN matchQuestions : matchQuestions'[i] = matchQuestions[i]
      /\ \A i \in DOMAIN matchQuestions' \ DOMAIN matchQuestions :
           matchQuestions'[i] = r /\ found
  <2> DEFINE longer == InsertInto(matchQuestions, r, found)
  <2>1. /\ longer \in Seq(QuestionRows) /\ Len(longer) \in Nat
        /\ \A i \in DOMAIN matchQuestions : longer[i] = matchQuestions[i]
        /\ \A i \in DOMAIN longer \ DOMAIN matchQuestions :
             longer[i] = r /\ found
    BY <1>5, <1>10, <1>6, InsertedInto
  <2>2. longer = matchQuestions \/ Len(longer) # 0
    BY <1>5, <1>10, <1>6, InsertedRow
  <2> HIDE DEF longer
  <2>3. matchQuestions' = longer
    BY <1>1 DEF longer
  <2> QED
    BY <2>1, <2>2, <2>3
<1>8. TypeOK'
  BY <1>1, <1>5, <1>7 DEF TablesInv, TypeOK
<1>9. RowTypes'
  BY <1>1, <1>7 DEF TablesInv, RowTypes
<1> QED
  BY <1>1, <1>8, <1>9, <1>7, LoopStep DEF TablesInv, RowTypes

LEMMA MatchStepKeepsTables ==
  ASSUME TablesInv, NEW t \in Threads, Match(t)
  PROVE  TablesInv'
<1>1. CASE StartMatch(t)
  <2>1. PICK room \in Rooms :
          Serve(t, [command |-> "START_MATCH", room |-> room], "insertMatch")
    BY <1>1 DEF StartMatch
  <2> DEFINE r == [command |-> "START_MATCH", room |-> room]
  <2>2. r \in Starting
    BY RequestKinds
  <2> HIDE DEF r
  <2> QED
    BY <2>1, <2>2, Serving DEF r, Requests, Stages, RegisterStages,
                               ResetStages, MatchStages, LogInStages
<1>2. CASE InsertMatch(t)
  BY <1>2, InsertMatchKeepsTables
<1>3. CASE LastMatchRow(t)
  <2>1. /\ pc[t] = "lastMatchRow"
        /\ row' = [row EXCEPT ![t] = lastRow]
        /\ todo' = [todo EXCEPT ![t] = RoomPlayers[req[t].room]]
        /\ pc' = [pc EXCEPT ![t] = "insertPlayers"]
        /\ UNCHANGED <<dbVars, req, user>>
    BY <1>3 DEF LastMatchRow, Goto
  <2>2. req[t] \in Starting
    BY <2>1 DEF TablesInv, StageFits, MatchStages
  <2>3. RoomPlayers[req[t].room] \in Seq(Nat)
    BY <2>2, TablesAssumption DEF Starting
  <2>4. ThreadTypes'
    BY <2>1 DEF TablesInv, ThreadTypes, RowTypes, Stages, MatchStages
  <2>5. StageFits(t)'
    BY <2>1, <2>2, <2>3 DEF TablesInv, ThreadTypes, StageFits, RegisterStages,
                            ResetStages, MatchStages, LogInStages
  <2> QED
    BY <2>1, <2>4, <2>5, ThreadStep
       DEF TablesInv, ThreadTypes, RowTypes, TypeOK, dbVars
<1>4. CASE InsertPlayer(t)
  BY <1>4, InsertPlayerKeepsTables
<1>5. CASE SelectQuestions(t)
  <2>1. PICK selected \in [1 .. Chosen -> Questions] :
          todo' = [todo EXCEPT ![t] = selected]
    BY <1>5 DEF SelectQuestions
  <2>2. /\ pc[t] = "insertPlayers"
        /\ pc' = [pc EXCEPT ![t] = "insertQuestions"]
        /\ UNCHANGED <<dbVars, req, user, row>>
    BY <1>5 DEF SelectQuestions, Goto
  <2>3. selected \in Seq(Questions)
    BY ChosenNat
  <2>4. ThreadTypes'
    BY <2>1, <2>2 DEF TablesInv, ThreadTypes, Stages, MatchStages
  <2>5. StageFits(t)'
    BY <2>1, <2>2, <2>3 DEF TablesInv, ThreadTypes, StageFits, RegisterStages,
                            ResetStages, MatchStages, LogInStages
  <2> QED
    BY <2>1, <2>2, <2>4, <2>5, ThreadStep
       DEF TablesInv, ThreadTypes, RowTypes, TypeOK, dbVars
<1>6. CASE InsertQuestion(t)
  BY <1>6, InsertQuestionKeepsTables
<1>7. CASE GetPlayers(t)
  <2> DEFINE players == getPlayersForMatch(row[t])
  <2>1. /\ pc[t] = "insertQuestions"
        /\ todo' = [todo EXCEPT ![t] = players]
        /\ pc' = [pc EXCEPT ![t] = "emplace"]
        /\ UNCHANGED <<dbVars, req, user, row>>
    BY <1>7 DEF GetPlayers, Goto
  <2> HIDE DEF players
  <2>2. ThreadTypes'
    BY <2>1 DEF TablesInv, ThreadTypes, Stages, MatchStages
  <2>3. StageFits(t)'
    BY <2>1 DEF TablesInv, ThreadTypes, StageFits, RegisterStages,
                ResetStages, MatchStages, LogInStages
  <2> QED
    BY <2>1, <2>2, <2>3, ThreadStep
       DEF TablesInv, ThreadTypes, RowTypes, TypeOK, dbVars
<1>8. CASE Emplace(t)
  <2>1. CASE row[t] \in DOMAIN games
    BY <1>8, <2>1, Answering DEF Emplace, GameStart, dbVars
  <2>2. CASE row[t] \notin DOMAIN games
    <3>1. /\ pc[t] = "emplace"
          /\ pc' = [pc EXCEPT ![t] = "fillGame"]
          /\ UNCHANGED <<dbVars, req, user, row, todo>>
      BY <1>8, <2>2 DEF Emplace, Goto
    <3>2. ThreadTypes'
      BY <3>1 DEF TablesInv, ThreadTypes, Stages, MatchStages
    <3>3. StageFits(t)'
      BY <3>1 DEF TablesInv, ThreadTypes, StageFits, RegisterStages,
                  ResetStages, MatchStages, LogInStages
    <3> QED
      BY <3>1, <3>2, <3>3, ThreadStep
         DEF TablesInv, ThreadTypes, RowTypes, TypeOK, dbVars
  <2> QED
    BY <2>1, <2>2
<1>9. CASE FillGame(t)
  <2>1. CASE Answer(t)
    BY <1>9, <2>1, Answering DEF FillGame, dbVars
  <2>2. CASE UNCHANGED threadVars
    BY <1>9, <2>2 DEF FillGame, dbVars, threadVars, TablesInv, TypeOK, RowTypes,
                      ThreadTypes, StageFits, Stored
  <2> QED
    BY <1>9, <2>1, <2>2 DEF FillGame, GameStart
<1> QED
  BY <1>1, <1>2, <1>3, <1>4, <1>5, <1>6, <1>7, <1>8, <1>9 DEF Match

LEMMA TablesStep == TablesInv /\ [Next]_vars => TablesInv'
<1> SUFFICES ASSUME TablesInv, [Next]_vars PROVE TablesInv'
  OBVIOUS
<1>1. CASE \E t \in Threads : Account(t) \/ Match(t)
  BY <1>1, AccountStepKeepsTables, MatchStepKeepsTables
<1>2. CASE UNCHANGED vars
  <2>1. UNCHANGED <<dbVars, threadVars>>
    BY <1>2 DEF vars
  <2> QED
    BY <2>1 DEF dbVars, threadVars, TablesInv, TypeOK, RowTypes, ThreadTypes,
                StageFits, Stored
<1> QED
  BY <1>1, <1>2 DEF Next

(* The rows always refer to rows that are there: a player or question is   *)
(* only stored for a stored match, also when createMatch has read the id   *)
(* of another thread's row.                                                *)
THEOREM RowsReferToRows == Spec => []TypeOK
<1>1. TablesInv => TypeOK
  BY DEF TablesInv
<1> QED
  BY <1>1, TablesInit, TablesStep, PTL DEF Spec

-----------------------------------------------------------------------------
(* The accounts: the inductive invariant                                   *)

HistoryTypes ==
  /\ known \in [Names -> Passwords \cup {"none"}]
  /\ owners \in [Names -> {0, 1}]

NamesDiffer ==
  \A i, j \in DOMAIN users : users[i].name = users[j].name => i = j

(* Thread t has created an account that its client has not been told of:   *)
(* nobody else creates it, and it has the password of REGISTER, unless     *)
(* another client has logged in and replaced that meanwhile.               *)
NewAccount(t) ==
  pc[t] = "lastUserRow" =>
    /\ lastRow # 0
    /\ owners[req[t].name] = 0
    /\ \E i \in DOMAIN users :
         /\ users[i].name = req[t].name
         /\ users[i].password = IF known[req[t].name] = "none"
                                THEN req[t].password
                                ELSE known[req[t].name]
    /\ \A s \in Threads :
         pc[s] = "lastUserRow" /\ req[s].name = req[t].name => s = t

OwnersAreStored ==
  \A n \in Names : ~ Stored(n) => owners[n] = 0 /\ known[n] = "none"

AccountInv ==
  /\ HistoryTypes
  /\ \A t \in Threads : NewAccount(t)
  /\ NamesDiffer
  /\ OwnersAreStored
  /\ PasswordIsKnown

-----------------------------------------------------------------------------
LEMMA RowsOfUsers ==
  ASSUME TablesInv, NEW i \in DOMAIN users
  PROVE  /\ users[i] \in AccountRows
         /\ users[i].name \in Names /\ users[i].password \in Passwords
<1>1. users \in Seq(AccountRows)
  BY DEF TablesInv, TypeOK, AccountRows
<1>2. users[i] \in AccountRows
  BY <1>1, LenProperties
<1> QED
  BY <1>2 DEF AccountRows

LEMMA AccountInit == Init => AccountInv
<1> SUFFICES ASSUME Init PROVE AccountInv
  OBVIOUS
<1> USE DEF Init
<1>1. users \in Seq(AccountRows)
  BY TablesAssumption DEF AccountRows
<1>2. \A i \in DOMAIN users : /\ users[i] \in AccountRows
                              /\ i \in Nat \ {0}
                              /\ Stored(users[i].name)
  BY <1>1, LenProperties DEF Stored
<1>3. NamesDiffer
  BY TablesAssumption DEF NamesDiffer
<1>4. HistoryTypes
  <2>1. \A n \in Names : IdOf(n) # 0 => users[IdOf(n)].password \in Passwords
    BY <1>1, <1>2, IdOfFinds DEF AccountRows
  <2> QED
    BY <2>1 DEF HistoryTypes
<1>5. OwnersAreStored
  BY <1>1, IdOfFinds DEF OwnersAreStored
<1>6. PasswordIsKnown
  <2> SUFFICES ASSUME NEW i \in DOMAIN users
               PROVE  users[i].password = known[users[i].name]
    BY DEF PasswordIsKnown
  <2>1. users[i].name \in Names /\ IdOf(users[i].name) # 0
    BY <1>1, <1>2, IdOfFinds DEF AccountRows
  <2>2. IdOf(users[i].name) = i
    BY <1>1, <1>2, <1>3, IdOfFinds DEF NamesDiffer
  <2> QED
    BY <2>1, <2>2
<1> QED
  BY <1>3, <1>4, <1>5, <1>6 DEF AccountInv, NewAccount

(* A step of thread t that touches no account keeps the invariant, if it   *)
(* does not bring the thread into the stage that the invariant is about.   *)
LEMMA OtherStep ==
  ASSUME TablesInv, AccountInv, NEW t \in Threads,
         UNCHANGED <<users, known, owners>>,
         \A s \in Threads \ {t} : pc'[s] = pc[s] /\ req'[s] = req[s],
         pc'[t] # "lastUserRow",
         pc[t] # "lastUserRow",
         lastRow' = lastRow \/ lastRow' # 0
  PROVE  AccountInv'
<1> USE DEF AccountInv
<1>1. HistoryTypes'
  BY DEF HistoryTypes
<1>2. ASSUME NEW s \in Threads
      PROVE  NewAccount(s)'
  BY DEF NewAccount
<1>3. (NamesDiffer /\ OwnersAreStored)'
  BY DEF NamesDiffer, OwnersAreStored, Stored
<1>4. PasswordIsKnown'
  BY DEF PasswordIsKnown
<1> QED
  BY <1>1, <1>2, <1>3, <1>4

(* A step in which thread t answers and touches no account.                *)
LEMMA AnswerStep ==
  ASSUME TablesInv, AccountInv, NEW t \in Threads, Answer(t),
         UNCHANGED <<users, known, owners, lastRow>>,
         pc[t] # "lastUserRow"
  PROVE  AccountInv'
<1>1. /\ pc'[t] = "recv"
      /\ \A s \in Threads \ {t} : pc'[s] = pc[s] /\ req'[s] = req[s]
  BY DEF Answer, Goto, TablesInv, ThreadTypes
<1> QED
  BY <1>1, OtherStep

(* A step in which thread t goes on to another statement.                  *)
LEMMA GotoStep ==
  ASSUME TablesInv, AccountInv, NEW t \in Threads,
         NEW stage \in Stages \ {"lastUserRow"}, Goto(t, stage),
         pc[t] # "lastUserRow",
         UNCHANGED <<users, req, known, owners>>,
         lastRow' = lastRow \/ lastRow' # 0
  PROVE  AccountInv'
<1>1. /\ pc'[t] = stage
      /\ \A s \in Threads \ {t} : pc'[s] = pc[s] /\ req'[s] = req[s]
  BY DEF Goto, TablesInv, ThreadTypes
<1> QED
  BY <1>1, OtherStep

LEMMA CreateUserKeepsAccounts ==
  ASSUME TablesInv, AccountInv, NEW t \in Threads, CreateUser(t)
  PROVE  AccountInv'
<1> USE DEF AccountInv
<1>1. CASE IdOf(req[t].name) # 0
  BY <1>1, AnswerStep DEF CreateUser, historyVars
<1>2. CASE IdOf(req[t].name) = 0
  <2> DEFINE name == req[t].name
  <2>1. /\ pc[t] = "createUser"
        /\ users' = Append(users, NewUser(t))
        /\ lastRow' = Len(users')
        /\ pc' = [pc EXCEPT ![t] = "lastUserRow"]
        /\ UNCHANGED <<req, known, owners>>
    BY <1>2 DEF CreateUser, Goto, historyVars
  <2>2. /\ req[t] \in Registering /\ NewUser(t) \in AccountRows
        /\ NewUser(t).name = name /\ NewUser(t).password = req[t].password
        /\ name \in Names
    BY <2>1 DEF TablesInv, StageFits, RegisterStages, NewUser, AccountRows,
                Registering
  <2>3. users \in Seq(AccountRows) /\ ~ Stored(name)
    BY <1>2, IdOfFinds DEF TablesInv, TypeOK, AccountRows
  <2>4. PICK new \in Nat :
        /\ Len(users') = new /\ new # 0
        /\ DOMAIN users' = DOMAIN users \cup {new} /\ new \notin DOMAIN users
        /\ \A i \in DOMAIN users : users'[i] = users[i]
        /\ users'[new] = NewUser(t)
    BY <2>1, <2>2, <2>3, RowAdded
  <2>5. lastRow' # 0
    BY <2>1, <2>4
  <2> HIDE DEF name
  <2>6. \A n : Stored(n)' <=> Stored(n) \/ n = name
    BY <2>2, <2>4 DEF Stored
  <2>7. HistoryTypes'
    BY <2>1 DEF HistoryTypes
  <2>8. \A s \in Threads : pc[s] = "lastUserRow" => req[s].name # name
    BY <2>3 DEF NewAccount, Stored
  <2>9. ASSUME NEW s \in Threads
        PROVE  NewAccount(s)'
    <3>1. CASE s = t
      <4>1. owners[name] = 0 /\ known[name] = "none"
        BY <2>2, <2>3 DEF OwnersAreStored
      <4>2. \A r \in Threads :
              pc'[r] = "lastUserRow" /\ req'[r].name = name => r = t
        BY <2>1, <2>8 DEF TablesInv, ThreadTypes
      <4> QED
        BY <3>1, <4>1, <4>2, <2>1, <2>2, <2>4, <2>5 DEF NewAccount, name
    <3>2. CASE s # t
      <4> SUFFICES ASSUME pc[s] = "lastUserRow"
                   PROVE  NewAccount(s)'
        BY <3>2, <2>1 DEF NewAccount, TablesInv, ThreadTypes
      <4>1. PICK i \in DOMAIN users :
              /\ users[i].name = req[s].name
              /\ users[i].password = IF known[req[s].name] = "none"
                                     THEN req[s].password
                                     ELSE known[req[s].name]
        BY DEF NewAccount
      <4>2. i \in DOMAIN users' /\ users'[i] = users[i]
        BY <4>1, <2>4
      <4>3. \A r \in Threads :
              pc'[r] = "lastUserRow" /\ req'[r].name = req[s].name => r = s
        BY <2>1, <2>8, <3>2 DEF NewAccount, TablesInv, ThreadTypes, name
      <4> QED
        BY <4>1, <4>2, <4>3, <2>1, <2>5 DEF NewAccount
    <3> QED
      BY <3>1, <3>2
  <2>10. NamesDiffer'
    BY <2>2, <2>3, <2>4 DEF NamesDiffer, Stored
  <2>11. OwnersAreStored'
    BY <2>1, <2>6 DEF OwnersAreStored
  <2>12. PasswordIsKnown'
    <3> SUFFICES ASSUME NEW i \in DOMAIN users'
                 PROVE  \/ users'[i].password = known[users'[i].name]
                        \/ \E s \in Threads : /\ pc'[s] = "lastUserRow"
                                              /\ req'[s].name = users'[i].name
      BY <2>1 DEF PasswordIsKnown
    <3>1. CASE i = new
      BY <3>1, <2>1, <2>2, <2>4 DEF TablesInv, ThreadTypes, name
    <3>2. CASE i \in DOMAIN users
      <4>1. users'[i] = users[i]
        BY <3>2, <2>4
      <4>2. \A s \in Threads : pc[s] = "lastUserRow" => pc'[s] = "lastUserRow"
        BY <2>1 DEF TablesInv, ThreadTypes
      <4>3. \/ users[i].password = known[users[i].name]
            \/ \E s \in Threads : /\ pc[s] = "lastUserRow"
                                  /\ req[s].name = users[i].name
        BY <3>2 DEF PasswordIsKnown
      <4> QED
        BY <4>1, <4>2, <4>3, <2>1
    <3> QED
      BY <3>1, <3>2, <2>4
  <2> QED
    BY <2>7, <2>9, <2>10, <2>11, <2>12
<1> QED
  BY <1>1, <1>2

LEMMA LastUserRowKeepsAccounts ==
  ASSUME TablesInv, AccountInv, NEW t \in Threads, LastUserRow(t)
  PROVE  AccountInv'
<1> USE DEF AccountInv
<1> DEFINE name == req[t].name
           now == IF known[name] = "none" THEN req[t].password ELSE known[name]
<1>1. /\ pc[t] = "lastUserRow" /\ lastRow # 0
      /\ owners' = [owners EXCEPT ![name] = @ + 1]
      /\ known' = [known EXCEPT ![name] = now]
      /\ pc' = [pc EXCEPT ![t] = "recv"]
      /\ req' = [req EXCEPT ![t] = NoRequest]
      /\ UNCHANGED <<users, lastRow>>
  BY DEF LastUserRow, Answer, Goto, NewAccount, dbVars
<1>2. name \in Names /\ req[t].password \in Passwords
  BY <1>1 DEF TablesInv, StageFits, RegisterStages, Registering
<1>3. /\ owners[name] = 0
      /\ \A s \in Threads :
           pc[s] = "lastUserRow" /\ req[s].name = name => s = t
  BY <1>1 DEF NewAccount
<1>4. PICK i \in DOMAIN users : users[i].name = name /\ users[i].password = now
  BY <1>1 DEF NewAccount
<1>5. now \in Passwords
  BY <1>4, RowsOfUsers
<1> HIDE DEF name, now
<1>6. HistoryTypes'
  BY <1>1, <1>2, <1>3, <1>5 DEF HistoryTypes
<1>7. ASSUME NEW s \in Threads
      PROVE  NewAccount(s)'
  <2> SUFFICES ASSUME s # t, pc[s] = "lastUserRow"
               PROVE  NewAccount(s)'
    BY <1>1 DEF NewAccount, TablesInv, ThreadTypes
  <2>1. /\ req'[s] = req[s]
        /\ \A r \in Threads : pc'[r] = "lastUserRow" =>
                                pc[r] = "lastUserRow" /\ req'[r] = req[r]
    BY <1>1 DEF TablesInv, ThreadTypes
  <2>2. req[s].name \in Names /\ req[s].name # name
    BY <1>3 DEF TablesInv, StageFits, RegisterStages, Registering
  <2>3. /\ owners'[req[s].name] = owners[req[s].name]
        /\ known'[req[s].name] = known[req[s].name]
    BY <2>2, <1>1 DEF HistoryTypes
  <2> QED
    BY <2>1, <2>3, <1>1 DEF NewAccount
<1>8. NamesDiffer'
  BY <1>1 DEF NamesDiffer
<1>9. OwnersAreStored'
  <2>1. Stored(name)
    BY <1>4 DEF Stored
  <2>2. \A n \in Names : n # name => owners'[n] = owners[n] /\ known'[n] = known[n]
    BY <1>1 DEF HistoryTypes
  <2>3. \A n : Stored(n)' <=> Stored(n)
    BY <1>1 DEF Stored
  <2> QED
    BY <2>1, <2>2, <2>3 DEF OwnersAreStored
<1>10. PasswordIsKnown'
  <2> SUFFICES ASSUME NEW j \in DOMAIN users
               PROVE  \/ users[j].password = known'[users[j].name]
                      \/ \E s \in Threads : /\ pc'[s] = "lastUserRow"
                                            /\ req'[s].name = users[j].name
    BY <1>1 DEF PasswordIsKnown
  <2>1. CASE users[j].name = name
    BY <2>1, <1>1, <1>2, <1>4 DEF NamesDiffer, HistoryTypes
  <2>2. CASE users[j].name # name
    <3>1. known'[users[j].name] = known[users[j].name]
      <4>1. users[j].name \in Names
        BY RowsOfUsers
      <4> QED
        BY <4>1, <2>2, <1>1 DEF HistoryTypes
    <3>2. \A s \in Threads : s # t => pc'[s] = pc[s] /\ req'[s] = req[s]
      BY <1>1 DEF TablesInv, ThreadTypes
    <3> QED
      BY <3>1, <3>2, <2>2 DEF PasswordIsKnown, name
  <2> QED
    BY <2>1, <2>2
<1> QED
  BY <1>6, <1>7, <1>8, <1>9, <1>10

LEMMA UpdatePasswordKeepsAccounts ==
  ASSUME TablesInv, AccountInv, NEW t \in Threads, UpdatePassword(t)
  PROVE  AccountInv'
<1> USE DEF AccountInv
<1>1. /\ pc[t] = "updatePassword"
      /\ users' = [users EXCEPT ![req[t].id].password = req[t].new]
      /\ known' = [known EXCEPT ![users[req[t].id].name] = req[t].new]
      /\ pc' = [pc EXCEPT ![t] = "recv"]
      /\ req' = [req EXCEPT ![t] = NoRequest]
      /\ UNCHANGED <<lastRow, owners>>
  BY DEF UpdatePassword, Answer, Goto
<1>2. PICK id \in DOMAIN users : id = req[t].id
  BY <1>1 DEF TablesInv, TypeOK, StageFits, ResetStages
<1>3. PICK p \in Passwords : p = req[t].new
  BY <1>1 DEF TablesInv, StageFits, ResetStages, Resetting
<1>4. PICK n \in Names : n = users[id].name
  BY RowsOfUsers
<1>5. /\ DOMAIN users' = DOMAIN users
      /\ \A i \in DOMAIN users : i # id => users'[i] = users[i]
      /\ users'[id].name = n /\ users'[id].password = p
  <2>1. users[id] \in AccountRows
    BY RowsOfUsers
  <2> QED
    BY <2>1, <1>1, <1>2, <1>3, <1>4 DEF AccountRows
<1>6. known' = [known EXCEPT ![n] = p]
  BY <1>1, <1>2, <1>3, <1>4
<1>7. pc'[t] = "recv" /\ \A s \in Threads \ {t} : pc'[s] = pc[s] /\ req'[s] = req[s]
  BY <1>1 DEF TablesInv, ThreadTypes
<1>8. ASSUME NEW i \in DOMAIN users
      PROVE  users'[i].name = users[i].name
  BY <1>4, <1>5
<1>9. p # "none"
  BY TablesAssumption
<1>10. ASSUME NEW s \in Threads
       PROVE  NewAccount(s)'
  <2> SUFFICES ASSUME s # t, pc[s] = "lastUserRow"
               PROVE  NewAccount(s)'
    BY <1>7 DEF NewAccount
  <2>1. PICK i \in DOMAIN users :
          /\ users[i].name = req[s].name
          /\ users[i].password = IF known[req[s].name] = "none"
                                 THEN req[s].password
                                 ELSE known[req[s].name]
    BY DEF NewAccount
  <2>2. req[s].name \in Names
    BY <2>1, RowsOfUsers
  <2>3. /\ i \in DOMAIN users'
        /\ users'[i].name = req[s].name
        /\ users'[i].password = IF known'[req[s].name] = "none"
                                THEN req[s].password
                                ELSE known'[req[s].name]
    <3>1. CASE i = id
      BY <3>1, <2>1, <2>2, <1>4, <1>5, <1>6, <1>9 DEF HistoryTypes
    <3>2. CASE i # id
      <4>1. req[s].name # n
        BY <3>2, <2>1, <1>4 DEF NamesDiffer
      <4> QED
        BY <3>2, <4>1, <2>1, <2>2, <1>5, <1>6 DEF HistoryTypes
    <3> QED
      BY <3>1, <3>2
  <2>4. \A q \in Threads :
          pc'[q] = "lastUserRow" /\ req'[q].name = req[s].name => q = s
    BY <1>7 DEF NewAccount
  <2> QED
    BY <2>3, <2>4, <1>1, <1>7 DEF NewAccount
<1>11. (HistoryTypes /\ NamesDiffer)'
  <2>1. HistoryTypes'
    BY <1>1, <1>6 DEF HistoryTypes
  <2>2. NamesDiffer'
    BY <1>5, <1>8 DEF NamesDiffer
  <2> QED
    BY <2>1, <2>2
<1>12. OwnersAreStored'
  <2>1. \A m : Stored(m)' <=> Stored(m)
    BY <1>5, <1>8 DEF Stored
  <2>2. Stored(n)
    BY <1>4 DEF Stored
  <2> QED
    BY <2>1, <2>2, <1>1, <1>6 DEF OwnersAreStored, HistoryTypes
<1>13. PasswordIsKnown'
  <2> SUFFICES ASSUME NEW i \in DOMAIN users
               PROVE  \/ users'[i].password = known'[users'[i].name]
                      \/ \E s \in Threads : /\ pc'[s] = "lastUserRow"
                                            /\ req'[s].name = users'[i].name
    BY <1>5 DEF PasswordIsKnown
  <2>1. CASE i = id
    BY <2>1, <1>5, <1>6 DEF HistoryTypes
  <2>2. CASE i # id
    <3>1. users'[i] = users[i] /\ users[i].name # n
      BY <2>2, <1>4, <1>5 DEF NamesDiffer
    <3>2. known'[users[i].name] = known[users[i].name]
      BY <3>1, <1>6, RowsOfUsers DEF HistoryTypes
    <3>3. \A s \in Threads : pc[s] = "lastUserRow" =>
                               pc'[s] = "lastUserRow" /\ req'[s] = req[s]
      BY <1>1, <1>7
    <3> QED
      BY <3>1, <3>2, <3>3 DEF PasswordIsKnown
  <2> QED
    BY <2>1, <2>2
<1> QED
  BY <1>10, <1>11, <1>12, <1>13

LEMMA ServeKeepsAccounts ==
  ASSUME TablesInv, AccountInv, NEW t \in Threads, NEW r,
         NEW stage \in Stages \ {"lastUserRow"},
         Serve(t, r, stage)
  PROVE  AccountInv'
<1>1. /\ pc[t] = "recv"
      /\ pc' = [pc EXCEPT ![t] = stage]
      /\ req' = [req EXCEPT ![t] = r]
      /\ UNCHANGED <<users, lastRow, known, owners>>
  BY DEF Serve, Idle, Goto, dbVars, historyVars
<1>2. /\ pc'[t] = stage
      /\ \A s \in Threads \ {t} : pc'[s] = pc[s] /\ req'[s] = req[s]
  BY <1>1 DEF TablesInv, ThreadTypes
<1> QED
  BY <1>1, <1>2, OtherStep

LEMMA AccountStepKeepsAccounts ==
  ASSUME TablesInv, AccountInv, NEW t \in Threads, Account(t)
  PROVE  AccountInv'
<1> USE DEF Stages, LogInStages, RegisterStages, ResetStages, MatchStages
<1>1. CASE Register(t)
  BY <1>1, ServeKeepsAccounts DEF Register
<1>2. CASE FindByUsername(t)
  BY <1>2, AnswerStep, GotoStep DEF FindByUsername, dbVars, historyVars
<1>3. CASE LogIn(t)
  BY <1>3, ServeKeepsAccounts DEF LogIn
<1>4. CASE HasActiveSession(t)
  BY <1>4, AnswerStep, GotoStep DEF HasActiveSession, dbVars, historyVars
<1>5. CASE CreateSession(t)
  <2>1. /\ pc[t] = "createSession"
        /\ lastRow' = sessionCount + 1
        /\ req' = [req EXCEPT ![t] = NoRequest]
        /\ pc' = [pc EXCEPT ![t] = "recv"]
        /\ UNCHANGED <<users, known, owners>>
    BY <1>5 DEF CreateSession, Goto, historyVars
  <2>2. lastRow' # 0
    BY <2>1 DEF TablesInv, RowTypes
  <2>3. /\ pc'[t] = "recv"
        /\ \A s \in Threads \ {t} : pc'[s] = pc[s] /\ req'[s] = req[s]
    BY <2>1 DEF TablesInv, ThreadTypes
  <2> QED
    BY <2>1, <2>2, <2>3, OtherStep
<1>6. CASE LogOut(t)
  BY <1>6, OtherStep DEF LogOut, Idle, historyVars
<1>7. CASE ResetPassword(t)
  BY <1>7, ServeKeepsAccounts DEF ResetPassword
<1>8. CASE GetUserIdByToken(t)
  BY <1>8, AnswerStep, GotoStep DEF GetUserIdByToken, dbVars, historyVars
<1>9. CASE FindById(t)
  BY <1>9, AnswerStep, GotoStep DEF FindById, dbVars, historyVars
<1> QED
  BY <1>1, <1>2, <1>3, <1>4, <1>5, <1>6, <1>7, <1>8, <1>9,
     CreateUserKeepsAccounts, LastUserRowKeepsAccounts,
     UpdatePasswordKeepsAccounts DEF Account

LEMMA MatchStepKeepsAccounts ==
  ASSUME TablesInv, AccountInv, NEW t \in Threads, Match(t)
  PROVE  AccountInv'
<1> USE DEF Stages, LogInStages, RegisterStages, ResetStages, MatchStages
<1>1. CASE StartMatch(t)
  BY <1>1, ServeKeepsAccounts DEF StartMatch
<1>2. CASE InsertMatch(t)
  <2>1. CASE RoomPlayers[req[t].room] = <<>> \/ req[t].room \notin StoredRooms
    BY <1>2, <2>1, AnswerStep DEF InsertMatch, historyVars
  <2>2. CASE ~ (RoomPlayers[req[t].room] = <<>> \/ req[t].room \notin StoredRooms)
    <3>1. /\ pc[t] = "insertMatch"
          /\ req[t].room \in StoredRooms
          /\ matches' = Append(matches, req[t].room)
          /\ lastRow' = Len(matches')
          /\ Goto(t, "lastMatchRow")
          /\ UNCHANGED <<users, req, known, owners>>
      BY <1>2, <2>2 DEF InsertMatch, historyVars
    <3>2. lastRow' # 0
      BY <3>1, RowAdded DEF TablesInv, TypeOK
    <3> QED
      BY <3>1, <3>2, GotoStep
  <2> QED
    BY <2>1, <2>2
<1>3. CASE LastMatchRow(t)
  BY <1>3, GotoStep DEF LastMatchRow, dbVars
<1>4. CASE InsertPlayer(t)
  <2>1. pc[t] = "insertPlayers" /\ UNCHANGED <<users, pc, req, known, owners>>
    BY <1>4 DEF InsertPlayer, historyVars
  <2>2. lastRow' = lastRow \/ lastRow' # 0
    BY <1>4, InsertPlayerKeepsTables
  <2> QED
    BY <2>1, <2>2, OtherStep
<1>5. CASE SelectQuestions(t)
  BY <1>5, GotoStep DEF SelectQuestions, dbVars, historyVars
<1>6. CASE InsertQuestion(t)
  <2>1. pc[t] = "insertQuestions" /\ UNCHANGED <<users, pc, req, known, owners>>
    BY <1>6 DEF InsertQuestion, historyVars
  <2>2. lastRow' = lastRow \/ lastRow' # 0
    BY <1>6, InsertQuestionKeepsTables
  <2> QED
    BY <2>1, <2>2, OtherStep
<1>7. CASE GetPlayers(t)
  BY <1>7, GotoStep DEF GetPlayers, dbVars, historyVars
<1>8. CASE Emplace(t)
  BY <1>8, AnswerStep, GotoStep DEF Emplace, GameStart, dbVars, historyVars
<1>9. CASE FillGame(t)
  <2>1. CASE GameStart(t)
    BY <1>9, <2>1, AnswerStep DEF FillGame, GameStart, dbVars
  <2>2. CASE UNCHANGED <<threadVars, historyVars>>
    BY <1>9, <2>2, OtherStep DEF FillGame, dbVars, threadVars, historyVars
  <2> QED
    BY <1>9, <2>1, <2>2 DEF FillGame
<1> QED
  BY <1>1, <1>2, <1>3, <1>4, <1>5, <1>6, <1>7, <1>8, <1>9 DEF Match

LEMMA AccountStep == TablesInv /\ AccountInv /\ [Next]_vars => AccountInv'
<1> SUFFICES ASSUME TablesInv, AccountInv, [Next]_vars PROVE AccountInv'
  OBVIOUS
<1>1. CASE \E t \in Threads : Account(t) \/ Match(t)
  BY <1>1, AccountStepKeepsAccounts, MatchStepKeepsAccounts
<1>2. CASE UNCHANGED vars
  <2>1. UNCHANGED <<users, lastRow, pc, req, known, owners>>
    BY <1>2 DEF vars, dbVars, threadVars, historyVars
  <2> QED
    BY <2>1 DEF AccountInv, HistoryTypes, NewAccount, NamesDiffer,
                OwnersAreStored, Stored, PasswordIsKnown
<1> QED
  BY <1>1, <1>2 DEF Next

(* However many clients register a name at once, at most one of them is    *)
(* told that it has it.                                                    *)
THEOREM OneOwner == Spec => []OneOwnerPerName
<1>1. AccountInv => OneOwnerPerName
  BY DEF AccountInv, HistoryTypes, OneOwnerPerName
<1> QED
  BY <1>1, TablesInit, TablesStep, AccountInit, AccountStep, PTL DEF Spec

(* The stored password of an account is that of its last RESET_PASSWORD_OK *)
(* or, if there was none, of its REGISTER_OK, also where two clients reset *)
(* it at once or one does so before REGISTER_OK.                           *)
THEOREM PasswordsKnown == Spec => []PasswordIsKnown
<1>1. AccountInv => PasswordIsKnown
  BY DEF AccountInv
<1> QED
  BY <1>1, TablesInit, TablesStep, AccountInit, AccountStep, PTL DEF Spec

-----------------------------------------------------------------------------
(* Matches: what is stored of those whose ids are not mixed up             *)

OwnStages == {"lastMatchRow", "insertPlayers", "insertQuestions", "emplace",
              "fillGame"}

Selections ==
  {s \in [1 .. Chosen -> Questions] :
     \A i, j \in 1 .. Chosen : i # j => s[i] # s[j]}

(* The rows of match m in a table are those at f[1], ..., f[k].            *)
Listing(table, m, f, k) ==
  /\ f \in [1 .. k -> DOMAIN table]
  /\ \A i, j \in 1 .. k : f[i] = f[j] => i = j
  /\ \A i \in DOMAIN table :
       table[i].match = m <=> \E n \in 1 .. k : f[n] = i

NoRows(table, m) == \A i \in DOMAIN table : table[i].match # m

(* Of the first n players of a room k are picked, in their order, and all  *)
(* of them who had an account from the start.                              *)
Picks(place, players, n, k) ==
  /\ place \in [1 .. k -> 1 .. n]
  /\ \A a, b \in 1 .. k : a < b => place[a] < place[b]
  /\ \A c \in 1 .. n : players[c] \in DOMAIN FirstUsers
                         => \E a \in 1 .. k : place[a] = c

(* They are the rows of match m.                                           *)
PlayersIn(table, m, players, n) ==
  \E k \in 0 .. n :
    \E f \in [1 .. k -> DOMAIN table], place \in [1 .. k -> 1 .. n] :
      /\ Listing(table, m, f, k)
      /\ Picks(place, players, n, k)
      /\ \A a \in 1 .. k : /\ table[f[a]].user = players[place[a]]
                           /\ table[f[a]].rank = place[a]

RoundNumber(n) == ((n - 1) \div PerRound) + 1
OrderNumber(n) == ((n - 1) % PerRound) + 1

QuestionsIn(table, m, selected, k) ==
  \E f \in [1 .. k -> DOMAIN table] :
    /\ Listing(table, m, f, k)
    /\ \A n \in 1 .. k :
         /\ table[f[n]].question = selected[n]
         /\ table[f[n]].round = RoundNumber(n)
         /\ table[f[n]].order = OrderNumber(n)

(* What is left of n things of which the first have been treated.          *)
Left(rest, things, n) ==
  /\ Len(rest) \in 0 .. n
  /\ \A i \in 1 .. Len(rest) : rest[i] = things[n - Len(rest) + i]

(* The questions of a game, as far as it is filled: round by round.        *)
Asked(selected, r) ==
  [n \in 1 .. InRound(r) |-> selected[PerRound * (r - 1) + n]]

Filled(questions, selected) ==
  /\ questions \in Seq(Seq(Questions))
  /\ \A r \in 1 .. Len(questions) : questions[r] = Asked(selected, r)

(* How far match m has come at a stage of startMatch.                      *)
StoredSoFar(stage, m, players, rest, playerRows, questionRows, questions) ==
  /\ stage = "lastMatchRow" => /\ NoRows(playerRows, m)
                               /\ NoRows(questionRows, m)
  /\ stage = "insertPlayers" =>
       /\ Left(rest, players, Len(players))
       /\ PlayersIn(playerRows, m, players, Len(players) - Len(rest))
       /\ NoRows(questionRows, m)
  /\ stage = "insertQuestions" =>
       /\ PlayersIn(playerRows, m, players, Len(players))
       /\ \E selected \in Selections :
            /\ Left(rest, selected, Chosen)
            /\ QuestionsIn(questionRows, m, selected, Chosen - Len(rest))
  /\ stage \in {"emplace", "fillGame"} =>
       \E selected \in Selections :
         /\ QuestionsIn(questionRows, m, selected, Chosen)
         /\ stage = "fillGame" => /\ Filled(questions, selected)
                                  /\ Len(questions) < 3

(* AreOfRoom, given who has an account.                                    *)
OfRoom(players, r, accounts) ==
  \E place \in [DOMAIN players -> DOMAIN RoomPlayers[r]] :
    /\ \A a, b \in DOMAIN players : a < b => place[a] < place[b]
    /\ \A a \in DOMAIN players : /\ players[a] = RoomPlayers[r][place[a]]
                                 /\ players[a] \in accounts
    /\ \A k \in DOMAIN RoomPlayers[r] :
         RoomPlayers[r][k] \in DOMAIN FirstUsers =>
           \E a \in DOMAIN players : place[a] = k

(* A thread whose id is not mixed up has a match of its own, and its rows  *)
(* are those of its room.                                                  *)
OwnMatch(t) ==
  pc[t] \in OwnStages /\ row[t] \notin mixedUp =>
    /\ row[t] \in DOMAIN matches
    /\ row[t] \in DOMAIN games <=> pc[t] = "fillGame"
    /\ \A s \in Threads \ {t} : pc[s] \in OwnStages => row[s] # row[t]
    /\ \A i \in DOMAIN started : started[i].game # row[t]
    /\ StoredSoFar(pc[t], row[t], RoomPlayers[req[t].room], todo[t],
                   matchPlayers, matchQuestions, games[row[t]].questions)
    /\ pc[t] \in {"emplace", "fillGame"} =>
         OfRoom(todo[t], req[t].room, DOMAIN users)

(* The game that a GAME_START is about.                                    *)
IsFilled(s, game, accounts) ==
  /\ OfRoom(s.players, s.room, accounts)
  /\ game.players = s.players
  /\ Len(game.questions) = 3
  /\ \E selected \in Selections : Filled(game.questions, selected)

IsSequence(s) == s \in Seq({s[i] : i \in DOMAIN s})

GamesFit ==
  /\ DOMAIN games \ mixedUp \subseteq DOMAIN matches
  /\ IsSequence(started)
  /\ \A i \in DOMAIN started :
       started[i].game \notin mixedUp =>
         /\ \A j \in DOMAIN started : i # j => started[i].game # started[j].game
         /\ started[i].game \in DOMAIN games
         /\ IsFilled(started[i], games[started[i].game], DOMAIN users)

MatchInv == GamesFit /\ \A t \in Threads : OwnMatch(t)

-----------------------------------------------------------------------------
(* Sequences and orders.                                                   *)

(* Division as the code does it: what round and order of question n are.   *)
LEMMA RoundOf ==
  ASSUME NEW n \in Nat \ {0}, NEW r \in 1 .. 3
  PROVE  LET before == PerRound * (r - 1) IN
         /\ before \in Nat
         /\ RoundNumber(n) = r
              <=> before < n /\ n <= before + PerRound
         /\ before < n /\ n <= before + PerRound
              => OrderNumber(n) = n - before
<1>1. PerRound \in Nat /\ PerRound > 0
  BY TablesAssumption
<1>2. PICK i \in Nat : i = n - 1
  OBVIOUS
<1> DEFINE q == i \div PerRound
           m == i % PerRound
<1>3. q \in Nat /\ m \in Nat /\ m < PerRound /\ i = PerRound * q + m
  BY <1>1
<1> QED
  BY <1>1, <1>2, <1>3 DEF RoundNumber, OrderNumber

(* A column grows along f: the rows, ordered by it, come in the order of f. *)
GrowsAlong(table, chosen, column, f, k) ==
  /\ f \in [1 .. k -> chosen]
  /\ \A i, j \in 1 .. k : f[i] = f[j] => i = j
  /\ \A c \in chosen : \E n \in 1 .. k : f[n] = c
  /\ \A n \in 1 .. k : table[f[n]][column] \in Int
  /\ \A i, j \in 1 .. k :
       i < j => table[f[i]][column] < table[f[j]][column]

LEMMA OrderedAlong ==
  ASSUME NEW table, NEW chosen \in SUBSET Nat, NEW column, NEW k \in Nat, NEW f,
         GrowsAlong(table, chosen, column, f, k)
  PROVE  /\ DOMAIN Ordered(table, chosen, column) = 1 .. k
         /\ \A n \in 1 .. k :
              Ordered(table, chosen, column)[n] = table[f[n]]
<1>0. /\ f \in [1 .. k -> chosen]
      /\ \A i, j \in 1 .. k : f[i] = f[j] => i = j
      /\ \A c \in chosen : \E n \in 1 .. k : f[n] = c
      /\ \A n \in 1 .. k : table[f[n]][column] \in Int
      /\ \A i, j \in 1 .. k :
           i < j => table[f[i]][column] < table[f[j]][column]
  BY DEF GrowsAlong
<1> DEFINE Place(i) == Cardinality({j \in chosen :
                    \/ table[j][column] < table[i][column]
                    \/ table[j][column] = table[i][column] /\ j <= i})
<1>1. IsFiniteSet(1 .. k) /\ Cardinality(1 .. k) = k
  BY FS_Interval
<1>2. Cardinality(chosen) = k
  <2>1. f \in Bijection(1 .. k, chosen)
    BY <1>0 DEF Bijection, Injection, Surjection,
              IsInjective
  <2>2. ExistsBijection(1 .. k, chosen)
    BY <2>1 DEF ExistsBijection
  <2> QED
    BY <2>2, <1>1, FS_Bijection
<1>3. ASSUME NEW n \in 1 .. k PROVE Place(f[n]) = n
  <2> DEFINE upTo == {j \in chosen :
                    \/ table[j][column] < table[f[n]][column]
                    \/ table[j][column] = table[f[n]][column] /\ j <= f[n]}
             g == [i \in 1 .. n |-> f[i]]
  <2>1. \A i \in 1 .. n : i \in 1 .. k
    OBVIOUS
  <2>2. \A i \in 1 .. k : f[i] \in upTo <=> i <= n
    <3> SUFFICES ASSUME NEW i \in 1 .. k PROVE f[i] \in upTo <=> i <= n
      OBVIOUS
    <3>1. table[f[i]][column] \in Int /\ table[f[n]][column] \in Int
      BY <1>0
    <3>2. /\ i < n => table[f[i]][column] < table[f[n]][column]
          /\ n < i => table[f[n]][column] < table[f[i]][column]
      BY <1>0
    <3>3. f[i] \in chosen
      BY <1>0
    <3>4. f[i] \in Nat
      BY <3>3
    <3>5. i = n => f[i] <= f[n]
      BY <3>4
    <3>6. i < n \/ i = n \/ n < i
      OBVIOUS
    <3> QED
      BY <3>1, <3>2, <3>3, <3>5, <3>6
  <2> HIDE DEF upTo
  <2>3. upTo \subseteq chosen
    BY DEF upTo
  <2>4. g \in Bijection(1 .. n, upTo)
    <3>1. g \in [1 .. n -> upTo]
      BY <1>0, <2>1, <2>2
    <3>2. \A i, j \in 1 .. n : g[i] = g[j] => i = j
      BY <1>0, <2>1
    <3>3. \A c \in upTo : \E i \in 1 .. n : g[i] = c
      BY <1>0, <2>1, <2>2, <2>3
    <3> QED
      BY <3>1, <3>2, <3>3 DEF Bijection, Injection, Surjection,
              IsInjective
  <2>5. ExistsBijection(1 .. n, upTo)
    BY <2>4 DEF ExistsBijection
  <2>6. IsFiniteSet(1 .. n) /\ Cardinality(1 .. n) = n
    BY FS_Interval
  <2>7. Cardinality(upTo) = n
    BY <2>5, <2>6, FS_Bijection
  <2> QED
    BY <2>7 DEF upTo
<1> HIDE DEF Place
<1>4. \A n \in 1 .. k : (CHOOSE i \in chosen : Place(i) = n) = f[n]
  <2> SUFFICES ASSUME NEW n \in 1 .. k
               PROVE  (CHOOSE i \in chosen : Place(i) = n) = f[n]
    OBVIOUS
  <2>1. f[n] \in chosen /\ Place(f[n]) = n
    BY <1>0, <1>3
  <2>2. \A i \in chosen : Place(i) = n => i = f[n]
    BY <1>0, <1>3
  <2> QED
    BY <2>1, <2>2
<1> DEFINE at(n) == table[CHOOSE i \in chosen : Place(i) = n]
<1>5. Ordered(table, chosen, column)
        = [n \in 1 .. Cardinality(chosen) |-> at(n)]
  BY DEF Ordered, Place
<1>6. \A n \in 1 .. k : at(n) = table[f[n]]
  BY <1>4, Zenon
<1> HIDE DEF at
<1>7. Ordered(table, chosen, column) = [n \in 1 .. k |-> at(n)]
  BY <1>2, <1>5, Zenon
<1> QED
  BY <1>6, <1>7

(* What it takes for a table to be another with one row more.              *)
OneMore(longer, table, e) ==
  LET last == Len(table) + 1
  IN  /\ DOMAIN longer = DOMAIN table \cup {last}
      /\ last \notin DOMAIN table
      /\ \A i \in DOMAIN table : longer[i] = table[i]
      /\ longer[last] = e

LEMMA AppendIsOneMore ==
  ASSUME NEW S, NEW table \in Seq(S), NEW e \in S
  PROVE  OneMore(Append(table, e), table, e)
BY RowAdded DEF OneMore

(* Rows of other matches do not matter; one of this match is listed last.  *)
LEMMA ListingStays ==
  ASSUME NEW table, NEW e, NEW longer, OneMore(longer, table, e),
         NEW m, e.match # m, NEW k \in Nat, NEW f, Listing(table, m, f, k)
  PROVE  /\ Listing(longer, m, f, k)
         /\ \A n \in 1 .. k : longer[f[n]] = table[f[n]]
<1>1. PICK last : /\ DOMAIN longer = DOMAIN table \cup {last}
                  /\ last \notin DOMAIN table
                  /\ \A i \in DOMAIN table : longer[i] = table[i]
                  /\ longer[last] = e
  BY DEF OneMore
<1>2. f \in [1 .. k -> DOMAIN table]
  BY DEF Listing
<1>3. f \in [1 .. k -> DOMAIN longer]
  BY <1>1, <1>2
<1>4. \A i \in DOMAIN longer :
        longer[i].match = m <=> \E n \in 1 .. k : f[n] = i
  BY <1>1, <1>2 DEF Listing
<1>5. Listing(longer, m, f, k)
  BY <1>3, <1>4 DEF Listing
<1>6. \A n \in 1 .. k : longer[f[n]] = table[f[n]]
  BY <1>1, <1>2
<1> QED
  BY <1>5, <1>6

LEMMA ListingGrows ==
  ASSUME NEW table, NEW e, NEW longer, OneMore(longer, table, e),
         NEW m, e.match = m, NEW k \in Nat, NEW f, Listing(table, m, f, k)
  PROVE  \E g : /\ Listing(longer, m, g, k + 1)
                /\ \A n \in 1 .. k : longer[g[n]] = table[f[n]]
                /\ longer[g[k + 1]] = e
<1>1. PICK last : /\ DOMAIN longer = DOMAIN table \cup {last}
                  /\ last \notin DOMAIN table
                  /\ \A i \in DOMAIN table : longer[i] = table[i]
                  /\ longer[last] = e
  BY DEF OneMore
<1>2. f \in [1 .. k -> DOMAIN table]
  BY DEF Listing
<1> DEFINE g == [n \in 1 .. k + 1 |-> IF n = k + 1 THEN last ELSE f[n]]
<1>3. /\ g[k + 1] = last
      /\ \A n \in 1 .. k : g[n] = f[n]
      /\ g \in [1 .. k + 1 -> DOMAIN longer]
  BY <1>1, <1>2
<1> HIDE DEF g
<1>4. 1 .. k + 1 = (1 .. k) \cup {k + 1}
  OBVIOUS
<1>5. \A i, j \in 1 .. k + 1 : g[i] = g[j] => i = j
  BY <1>1, <1>2, <1>3, <1>4 DEF Listing
<1>6. ASSUME NEW i \in DOMAIN longer
      PROVE  longer[i].match = m <=> \E n \in 1 .. k + 1 : g[n] = i
  <2>1. CASE i = last
    BY <2>1, <1>1, <1>3, <1>4
  <2>2. CASE i \in DOMAIN table
    <3>1. longer[i].match = m <=> \E n \in 1 .. k : f[n] = i
      BY <2>2, <1>1 DEF Listing
    <3>2. g[k + 1] # i
      BY <2>2, <1>1, <1>3
    <3> QED
      BY <3>1, <3>2, <1>3, <1>4
  <2> QED
    BY <2>1, <2>2, <1>1
<1>7. Listing(longer, m, g, k + 1)
  BY <1>3, <1>5, <1>6 DEF Listing
<1>8. /\ \A n \in 1 .. k : longer[g[n]] = table[f[n]]
      /\ longer[g[k + 1]] = e
  BY <1>1, <1>2, <1>3
<1> QED
  BY <1>7, <1>8

LEMMA ListingNone ==
  ASSUME NEW table, NEW m, NoRows(table, m)
  PROVE  \E f \in [1 .. 0 -> DOMAIN table] : Listing(table, m, f, 0)
<1> DEFINE f == [n \in 1 .. 0 |-> 1]
<1>1. f \in [1 .. 0 -> DOMAIN table]
  OBVIOUS
<1> HIDE DEF f
<1>2. Listing(table, m, f, 0)
  BY <1>1 DEF Listing, NoRows
<1> QED
  BY <1>1, <1>2

-----------------------------------------------------------------------------
(* What is read of a match that has been stored is what was to be stored.  *)

LEMMA PlayersRead ==
  ASSUME TablesInv, NEW m, NEW room \in Rooms,
         PlayersIn(matchPlayers, m, RoomPlayers[room],
                   Len(RoomPlayers[room]))
  PROVE  AreOfRoom(getPlayersForMatch(m), room)
<1>1. PICK players \in Seq(Nat) : players = RoomPlayers[room]
  BY TablesAssumption
<1>2. PICK n \in Nat : n = Len(players) /\ DOMAIN players = 1 .. n
  BY LenProperties
<1>3. PICK k \in 0 .. n :
        \E f \in [1 .. k -> DOMAIN matchPlayers], place \in [1 .. k -> 1 .. n] :
          /\ Listing(matchPlayers, m, f, k)
          /\ Picks(place, players, n, k)
          /\ \A a \in 1 .. k :
               /\ matchPlayers[f[a]].user = players[place[a]]
               /\ matchPlayers[f[a]].rank = place[a]
  BY <1>1, <1>2 DEF PlayersIn
<1>4. PICK f \in [1 .. k -> DOMAIN matchPlayers], place \in [1 .. k -> 1 .. n] :
        /\ Listing(matchPlayers, m, f, k)
        /\ Picks(place, players, n, k)
        /\ \A a \in 1 .. k :
             /\ matchPlayers[f[a]].user = players[place[a]]
             /\ matchPlayers[f[a]].rank = place[a]
  BY <1>3
<1> DEFINE chosen == {i \in DOMAIN matchPlayers : matchPlayers[i].match = m}
           rows == Ordered(matchPlayers, chosen, "rank")
<1>5. /\ f \in [1 .. k -> chosen]
      /\ \A i, j \in 1 .. k : f[i] = f[j] => i = j
      /\ \A c \in chosen : \E a \in 1 .. k : f[a] = c
  BY <1>4 DEF Listing
<1>6. chosen \subseteq Nat
  <2>1. DOMAIN matchPlayers = 1 .. Len(matchPlayers)
    BY LenProperties DEF TablesInv, RowTypes
  <2> QED
    BY <2>1
<1>7. \A a \in 1 .. k : matchPlayers[f[a]].user \in DOMAIN users
  BY <1>4 DEF TablesInv, TypeOK
<1> HIDE DEF chosen
<1>8. DOMAIN rows = 1 .. k /\ \A a \in 1 .. k : rows[a] = matchPlayers[f[a]]
  <2>1. /\ \A a \in 1 .. k : place[a] \in Int
        /\ \A a, b \in 1 .. k : a < b => place[a] < place[b]
    BY <1>4 DEF Picks
  <2>2. GrowsAlong(matchPlayers, chosen, "rank", f, k)
    BY <1>4, <1>5, <2>1 DEF GrowsAlong
  <2>3. chosen \in SUBSET Nat
    BY <1>6
  <2>6. k \in Nat
    OBVIOUS
  <2>4. DOMAIN Ordered(matchPlayers, chosen, "rank") = 1 .. k
    BY <2>2, <2>3, <2>6, OrderedAlong
  <2>5. \A i \in 1 .. k :
          Ordered(matchPlayers, chosen, "rank")[i] = matchPlayers[f[i]]
    <3>1. PICK g : g = f
      OBVIOUS
    <3>2. GrowsAlong(matchPlayers, chosen, "rank", g, k)
      BY <2>2, <3>1
    <3>3. \A i \in 1 .. k :
            Ordered(matchPlayers, chosen, "rank")[i] = matchPlayers[g[i]]
      BY <2>3, <2>6, <3>2, OrderedAlong
    <3> QED
      BY <3>1, <3>3
  <2> QED
    BY <2>4, <2>5
<1>9. getPlayersForMatch(m) = [a \in DOMAIN rows |-> rows[a].user]
  BY DEF getPlayersForMatch, chosen
<1> HIDE DEF rows
<1>10. PICK read : /\ read = getPlayersForMatch(m)
                   /\ DOMAIN read = 1 .. k
                   /\ \A a \in 1 .. k : read[a] = rows[a].user
  BY <1>8, <1>9
<1>11. \A a \in 1 .. k : /\ read[a] = players[place[a]]
                         /\ read[a] \in DOMAIN users
  BY <1>4, <1>7, <1>8, <1>10
<1>12. /\ place \in [DOMAIN read -> DOMAIN RoomPlayers[room]]
       /\ \A a, b \in DOMAIN read : a < b => place[a] < place[b]
       /\ \A a \in DOMAIN read : /\ read[a] = RoomPlayers[room][place[a]]
                                 /\ read[a] \in DOMAIN users
       /\ \A c \in DOMAIN RoomPlayers[room] :
            RoomPlayers[room][c] \in DOMAIN FirstUsers
              => \E a \in DOMAIN read : place[a] = c
  BY <1>1, <1>2, <1>4, <1>10, <1>11 DEF Picks
<1>13. AreOfRoom(read, room)
  BY <1>12, Zenon DEF AreOfRoom
<1> QED
  BY <1>10, <1>13

LEMMA QuestionsRead ==
  ASSUME TablesInv, NEW m, NEW selected \in Selections, NEW r \in 1 .. 3,
         QuestionsIn(matchQuestions, m, selected, Chosen)
  PROVE  getQuestionsForMatch(m, r) = Asked(selected, r)
<1>1. PICK k \in Nat : k = Chosen
  BY ChosenNat
<1>2. PICK f \in [1 .. k -> DOMAIN matchQuestions] :
        /\ Listing(matchQuestions, m, f, k)
        /\ \A n \in 1 .. k :
             /\ matchQuestions[f[n]].question = selected[n]
             /\ matchQuestions[f[n]].round = RoundNumber(n)
             /\ matchQuestions[f[n]].order = OrderNumber(n)
  BY <1>1 DEF QuestionsIn
<1>3. PICK before \in Nat : before = PerRound * (r - 1)
  BY RoundOf
<1>0. PerRound \in Nat /\ PerRound > 0
  BY TablesAssumption
<1>4. PICK many \in Nat :
        /\ many = InRound(r)
        /\ many = IF k <= before THEN 0
                  ELSE IF k - before < PerRound THEN k - before ELSE PerRound
  <2>1. InRound(r) = IF k <= before THEN 0
                     ELSE IF k - before < PerRound THEN k - before
                     ELSE PerRound
    BY <1>1, <1>3 DEF InRound
  <2>2. InRound(r) \in Nat
    BY <2>1, <1>0
  <2> QED
    BY <2>1, <2>2
<1>5. \A n \in 1 .. many : /\ before + n \in 1 .. k
                           /\ before < before + n
                           /\ before + n <= before + PerRound
                           /\ (before + n) - before = n
  BY <1>0, <1>4
<1>6. \A n \in 1 .. k : before < n /\ n <= before + PerRound
                          => n - before \in 1 .. many
  BY <1>0, <1>4
<1> DEFINE chosen == {i \in DOMAIN matchQuestions :
                        /\ matchQuestions[i].match = m
                        /\ matchQuestions[i].round = r}
           rows == Ordered(matchQuestions, chosen, "order")
<1>7. \A n \in 1 .. k :
        /\ matchQuestions[f[n]].round = r
             <=> before < n /\ n <= before + PerRound
        /\ before < n /\ n <= before + PerRound
             => matchQuestions[f[n]].order = n - before
  BY <1>2, <1>3, RoundOf
<1>7g. PICK g : g = [n \in 1 .. many |-> f[before + n]]
  OBVIOUS
<1>8. \A n \in 1 .. many : /\ g[n] = f[before + n]
                           /\ matchQuestions[g[n]].round = r
                           /\ matchQuestions[g[n]].order = n
                           /\ matchQuestions[g[n]].question
                                = selected[before + n]
  <2> SUFFICES ASSUME NEW n \in 1 .. many
               PROVE  /\ g[n] = f[before + n]
                      /\ matchQuestions[g[n]].round = r
                      /\ matchQuestions[g[n]].order = n
                      /\ matchQuestions[g[n]].question
                           = selected[before + n]
    OBVIOUS
  <2>1. PICK i \in 1 .. k : /\ i = before + n /\ i - before = n
                            /\ before < i /\ i <= before + PerRound
    BY <1>5
  <2>2. g[n] = f[i]
    BY <2>1, <1>7g
  <2> QED
    BY <2>1, <2>2, <1>2, <1>7
<1>9. g \in [1 .. many -> chosen]
  BY <1>7g, <1>2, <1>5, <1>8 DEF Listing
<1>10. \A i, j \in 1 .. many : g[i] = g[j] => i = j
  <2> SUFFICES ASSUME NEW i \in 1 .. many, NEW j \in 1 .. many, g[i] = g[j]
               PROVE  i = j
    OBVIOUS
  <2>1. before + i \in 1 .. k /\ before + j \in 1 .. k
    BY <1>5
  <2>2. f[before + i] = f[before + j]
    BY <1>8
  <2>3. before + i = before + j
    BY <2>1, <2>2, <1>2 DEF Listing
  <2> QED
    BY <2>3
<1>11. \A c \in chosen : \E n \in 1 .. many : g[n] = c
  <2> SUFFICES ASSUME NEW c \in chosen PROVE \E n \in 1 .. many : g[n] = c
    OBVIOUS
  <2>1. PICK i \in 1 .. k : f[i] = c
    BY <1>2 DEF Listing
  <2>2. i - before \in 1 .. many /\ before + (i - before) = i
    BY <2>1, <1>6, <1>7
  <2> QED
    BY <2>1, <2>2, <1>8
<1>12. chosen \subseteq Nat
  <2>1. DOMAIN matchQuestions = 1 .. Len(matchQuestions)
    BY LenProperties DEF TablesInv, RowTypes
  <2> QED
    BY <2>1
<1> HIDE DEF chosen
<1>13. /\ DOMAIN rows = 1 .. many
       /\ \A n \in 1 .. many : rows[n] = matchQuestions[g[n]]
  <2>0. \A n \in 1 .. many : /\ matchQuestions[g[n]]["order"] = n
                             /\ n \in Int
    BY <1>8
  <2>1. GrowsAlong(matchQuestions, chosen, "order", g, many)
    BY <2>0, <1>9, <1>10, <1>11 DEF GrowsAlong
  <2>2. /\ DOMAIN Ordered(matchQuestions, chosen, "order") = 1 .. many
        /\ \A n \in 1 .. many :
             Ordered(matchQuestions, chosen, "order")[n] = matchQuestions[g[n]]
    <3>1. chosen \in SUBSET Nat
      BY <1>12
    <3>2. DOMAIN Ordered(matchQuestions, chosen, "order") = 1 .. many
      BY <3>1, <2>1, OrderedAlong
    <3>3. \A n \in 1 .. many :
             Ordered(matchQuestions, chosen, "order")[n] = matchQuestions[g[n]]
      BY <3>1, <2>1, OrderedAlong
    <3> QED
      BY <3>2, <3>3
  <2> QED
    BY <2>2
<1>14. getQuestionsForMatch(m, r) = [n \in DOMAIN rows |-> rows[n].question]
  BY DEF getQuestionsForMatch, chosen
<1> HIDE DEF rows
<1>15. /\ DOMAIN rows = 1 .. many
       /\ \A n \in 1 .. many : rows[n].question = selected[before + n]
  BY <1>8, <1>13
<1>16. getQuestionsForMatch(m, r) = [n \in 1 .. many |-> selected[before + n]]
  BY <1>14, <1>15
<1> QED
  BY <1>3, <1>4, <1>16 DEF Asked

-----------------------------------------------------------------------------
(* How the rows of a match change.                                         *)

(* The next player of the room has been treated: stored, or left out.      *)
LEMMA PicksGrow ==
  ASSUME NEW players, NEW n \in Nat, NEW k \in 0 .. n, NEW place,
         Picks(place, players, n, k)
  PROVE  \E longer : /\ Picks(longer, players, n + 1, k + 1)
                     /\ \A a \in 1 .. k : longer[a] = place[a]
                     /\ longer[k + 1] = n + 1
<1>1. /\ place \in [1 .. k -> 1 .. n]
      /\ \A a, b \in 1 .. k : a < b => place[a] < place[b]
      /\ \A c \in 1 .. n : players[c] \in DOMAIN FirstUsers
                             => \E a \in 1 .. k : place[a] = c
  BY DEF Picks
<1>2. \A c \in 1 .. n + 1 : c \in 1 .. n \/ c = n + 1
  OBVIOUS
<1>3. \A c \in 1 .. n : c \in 1 .. n + 1 /\ c < n + 1
  OBVIOUS
<1> DEFINE longer == [a \in 1 .. k + 1 |-> IF a = k + 1 THEN n + 1 ELSE place[a]]
<1>5. /\ longer[k + 1] = n + 1
      /\ \A a \in 1 .. k : longer[a] = place[a]
      /\ longer \in [1 .. k + 1 -> 1 .. n + 1]
  BY <1>1, <1>3
<1> HIDE DEF longer
<1>6. \A a \in 1 .. k + 1 : a \in 1 .. k \/ a = k + 1
  OBVIOUS
<1>7. ASSUME NEW a \in 1 .. k + 1, NEW b \in 1 .. k + 1, a < b
      PROVE  longer[a] < longer[b]
  <2>1. a \in 1 .. k
    BY <1>7
  <2>2. CASE b \in 1 .. k
    BY <2>1, <2>2, <1>1, <1>5, <1>7
  <2>3. CASE b = k + 1
    BY <2>1, <2>3, <1>1, <1>3, <1>5
  <2> QED
    BY <2>2, <2>3, <1>6
<1>8. ASSUME NEW c \in 1 .. n + 1, players[c] \in DOMAIN FirstUsers
      PROVE  \E a \in 1 .. k + 1 : longer[a] = c
  <2>1. k + 1 \in 1 .. k + 1 /\ \A a \in 1 .. k : a \in 1 .. k + 1
    OBVIOUS
  <2> QED
    BY <2>1, <1>1, <1>2, <1>5, <1>8
<1>9. Picks(longer, players, n + 1, k + 1)
  BY <1>5, <1>7, <1>8 DEF Picks
<1> QED
  BY <1>5, <1>9

LEMMA PicksStay ==
  ASSUME NEW players, NEW n \in Nat, NEW k \in 0 .. n, NEW place,
         Picks(place, players, n, k), players[n + 1] \notin DOMAIN FirstUsers
  PROVE  Picks(place, players, n + 1, k)
<1>1. /\ place \in [1 .. k -> 1 .. n]
      /\ \A a, b \in 1 .. k : a < b => place[a] < place[b]
      /\ \A c \in 1 .. n : players[c] \in DOMAIN FirstUsers
                             => \E a \in 1 .. k : place[a] = c
  BY DEF Picks
<1>2. \A c \in 1 .. n + 1 : c \in 1 .. n \/ c = n + 1
  OBVIOUS
<1>3. \A c \in 1 .. n : c \in 1 .. n + 1
  OBVIOUS
<1>4. place \in [1 .. k -> 1 .. n + 1]
  BY <1>1, <1>3
<1> QED
  BY <1>1, <1>2, <1>4 DEF Picks

LEMMA PlayersGrow ==
  ASSUME NEW table, NEW e, NEW longer, OneMore(longer, table, e), NEW m,
         NEW players, NEW n \in Nat, PlayersIn(table, m, players, n)
  PROVE  /\ e.match # m => PlayersIn(longer, m, players, n)
         /\ e.match = m /\ e.user = players[n + 1] /\ e.rank = n + 1
              => PlayersIn(longer, m, players, n + 1)
<1>1. PICK k \in 0 .. n :
        \E f \in [1 .. k -> DOMAIN table], place \in [1 .. k -> 1 .. n] :
          /\ Listing(table, m, f, k)
          /\ Picks(place, players, n, k)
          /\ \A a \in 1 .. k : /\ table[f[a]].user = players[place[a]]
                               /\ table[f[a]].rank = place[a]
  BY DEF PlayersIn
<1>2. PICK f \in [1 .. k -> DOMAIN table], place \in [1 .. k -> 1 .. n] :
        /\ Listing(table, m, f, k)
        /\ Picks(place, players, n, k)
        /\ \A a \in 1 .. k : /\ table[f[a]].user = players[place[a]]
                             /\ table[f[a]].rank = place[a]
  BY <1>1
<1>3. k \in Nat
  OBVIOUS
<1>4. ASSUME e.match # m
      PROVE  PlayersIn(longer, m, players, n)
  <2>1. /\ Listing(longer, m, f, k)
        /\ \A a \in 1 .. k : longer[f[a]] = table[f[a]]
    BY <1>2, <1>3, <1>4, ListingStays
  <2>2. f \in [1 .. k -> DOMAIN longer]
    BY <2>1 DEF Listing
  <2>3. \A a \in 1 .. k : /\ longer[f[a]].user = players[place[a]]
                          /\ longer[f[a]].rank = place[a]
    BY <1>2, <2>1
  <2> QED
    BY <1>2, <2>1, <2>2, <2>3 DEF PlayersIn
<1>5. ASSUME e.match = m, e.user = players[n + 1], e.rank = n + 1
      PROVE  PlayersIn(longer, m, players, n + 1)
  <2>1. Listing(table, m, f, k) /\ e.match = m
    BY <1>2, <1>5
  <2>2. PICK g : /\ Listing(longer, m, g, k + 1)
                 /\ \A a \in 1 .. k : longer[g[a]] = table[f[a]]
                 /\ longer[g[k + 1]] = e
    BY <2>1, <1>3, ListingGrows
  <2>3. PICK at : /\ Picks(at, players, n + 1, k + 1)
                  /\ \A a \in 1 .. k : at[a] = place[a]
                  /\ at[k + 1] = n + 1
    <3>1. Picks(place, players, n, k)
      BY <1>2
    <3> QED
      BY <3>1, PicksGrow
  <2>4. \A a \in 1 .. k + 1 : /\ longer[g[a]].user = players[at[a]]
                              /\ longer[g[a]].rank = at[a]
    <3>1. \A a \in 1 .. k + 1 : a \in 1 .. k \/ a = k + 1
      OBVIOUS
    <3> QED
      BY <3>1, <2>2, <2>3, <1>2, <1>5
  <2>5. g \in [1 .. k + 1 -> DOMAIN longer] /\ at \in [1 .. k + 1 -> 1 .. n + 1]
    BY <2>2, <2>3 DEF Listing, Picks
  <2>6. k + 1 \in 0 .. n + 1
    OBVIOUS
  <2> QED
    BY <2>2, <2>3, <2>4, <2>5, <2>6 DEF PlayersIn
<1> QED
  BY <1>4, <1>5

(* The INSERT of a player without an account stores nothing.               *)
LEMMA PlayersSkipped ==
  ASSUME NEW table, NEW m, NEW players, NEW n \in Nat,
         PlayersIn(table, m, players, n),
         players[n + 1] \notin DOMAIN FirstUsers
  PROVE  PlayersIn(table, m, players, n + 1)
<1>1. PICK k \in 0 .. n :
        \E f \in [1 .. k -> DOMAIN table], place \in [1 .. k -> 1 .. n] :
          /\ Listing(table, m, f, k)
          /\ Picks(place, players, n, k)
          /\ \A a \in 1 .. k : /\ table[f[a]].user = players[place[a]]
                               /\ table[f[a]].rank = place[a]
  BY DEF PlayersIn
<1>2. PICK f \in [1 .. k -> DOMAIN table], place \in [1 .. k -> 1 .. n] :
        /\ Listing(table, m, f, k)
        /\ Picks(place, players, n, k)
        /\ \A a \in 1 .. k : /\ table[f[a]].user = players[place[a]]
                             /\ table[f[a]].rank = place[a]
  BY <1>1
<1>3. Picks(place, players, n + 1, k)
  BY <1>2, PicksStay
<1>4. place \in [1 .. k -> 1 .. n + 1] /\ k \in 0 .. n + 1
  BY <1>3 DEF Picks
<1> QED
  BY <1>2, <1>3, <1>4 DEF PlayersIn

LEMMA QuestionsGrow ==
  ASSUME NEW table, NEW e, NEW longer, OneMore(longer, table, e), NEW m,
         NEW selected,
         NEW k \in Nat, QuestionsIn(table, m, selected, k)
  PROVE  /\ e.match # m => QuestionsIn(longer, m, selected, k)
         /\ /\ e.match = m /\ e.question = selected[k + 1]
            /\ e.round = RoundNumber(k + 1)
            /\ e.order = OrderNumber(k + 1)
            => QuestionsIn(longer, m, selected, k + 1)
<1>1. PICK f \in [1 .. k -> DOMAIN table] :
        /\ Listing(table, m, f, k)
        /\ \A n \in 1 .. k :
             /\ table[f[n]].question = selected[n]
             /\ table[f[n]].round = RoundNumber(n)
             /\ table[f[n]].order = OrderNumber(n)
  BY DEF QuestionsIn
<1>2. ASSUME e.match # m
      PROVE  QuestionsIn(longer, m, selected, k)
  <2>1. Listing(table, m, f, k)
    BY <1>1
  <2>2. /\ Listing(longer, m, f, k)
        /\ \A n \in 1 .. k : longer[f[n]] = table[f[n]]
    BY <2>1, <1>2, ListingStays
  <2>3. f \in [1 .. k -> DOMAIN longer]
    BY <2>2 DEF Listing
  <2>4. \A n \in 1 .. k : /\ longer[f[n]].question = selected[n]
                          /\ longer[f[n]].round = RoundNumber(n)
                          /\ longer[f[n]].order = OrderNumber(n)
    BY <1>1, <2>2
  <2> QED
    BY <2>2, <2>3, <2>4 DEF QuestionsIn
<1>3. ASSUME e.match = m, e.question = selected[k + 1],
             e.round = RoundNumber(k + 1), e.order = OrderNumber(k + 1)
      PROVE  QuestionsIn(longer, m, selected, k + 1)
  <2>1. Listing(table, m, f, k) /\ e.match = m
    BY <1>1, <1>3
  <2>2. PICK g : /\ Listing(longer, m, g, k + 1)
                 /\ \A n \in 1 .. k : longer[g[n]] = table[f[n]]
                 /\ longer[g[k + 1]] = e
    BY <2>1, ListingGrows
  <2>3. \A n \in 1 .. k + 1 :
          /\ longer[g[n]].question = selected[n]
          /\ longer[g[n]].round = RoundNumber(n)
          /\ longer[g[n]].order = OrderNumber(n)
    <3>1. \A n \in 1 .. k + 1 : n \in 1 .. k \/ n = k + 1
      OBVIOUS
    <3> QED
      BY <3>1, <2>2, <1>1, <1>3
  <2>4. g \in [1 .. k + 1 -> DOMAIN longer]
    BY <2>2 DEF Listing
  <2> QED
    BY <2>2, <2>3, <2>4 DEF QuestionsIn
<1> QED
  BY <1>2, <1>3

LEMMA StoredStays ==
  ASSUME NEW stage, NEW m, NEW players \in Seq(Nat), NEW rest, NEW filled,
         NEW p \in Seq(PlayerRows), NEW q \in Seq(QuestionRows),
         StoredSoFar(stage, m, players, rest, p, q, filled)
  PROVE  /\ \A e \in PlayerRows : e.match # m =>
              StoredSoFar(stage, m, players, rest, Append(p, e), q, filled)
         /\ \A e \in QuestionRows : e.match # m =>
              StoredSoFar(stage, m, players, rest, p, Append(q, e), filled)
<1>1. Len(players) \in Nat
  BY LenProperties
<1>2. ASSUME NEW S, NEW table \in Seq(S), NEW e \in S, e.match # m,
             NoRows(table, m)
      PROVE  NoRows(Append(table, e), m)
  BY <1>2, RowAdded DEF NoRows
<1>3. \A n \in Nat : Left(rest, players, n) => n - Len(rest) \in Nat
  BY DEF Left
<1>4. ASSUME NEW selected, Left(rest, selected, Chosen)
      PROVE  Chosen - Len(rest) \in Nat
  BY <1>4, ChosenNat DEF Left
<1>5. ASSUME NEW e \in PlayerRows, e.match # m
      PROVE  StoredSoFar(stage, m, players, rest, Append(p, e), q, filled)
  <2>0. OneMore(Append(p, e), p, e)
    BY AppendIsOneMore
  <2>1. stage = "lastMatchRow" => NoRows(Append(p, e), m) /\ NoRows(q, m)
    BY <1>2, <1>5 DEF StoredSoFar
  <2>2. stage = "insertPlayers" =>
          /\ Left(rest, players, Len(players))
          /\ PlayersIn(Append(p, e), m, players, Len(players) - Len(rest))
          /\ NoRows(q, m)
    BY <2>0, <1>1, <1>3, <1>5, PlayersGrow DEF StoredSoFar
  <2>3. stage = "insertQuestions" =>
          PlayersIn(Append(p, e), m, players, Len(players))
    BY <2>0, <1>1, <1>5, PlayersGrow DEF StoredSoFar
  <2> QED
    BY <2>1, <2>2, <2>3 DEF StoredSoFar
<1>6. ASSUME NEW e \in QuestionRows, e.match # m
      PROVE  StoredSoFar(stage, m, players, rest, p, Append(q, e), filled)
  <2>0. OneMore(Append(q, e), q, e)
    BY AppendIsOneMore
  <2>1. stage \in {"lastMatchRow", "insertPlayers"} => NoRows(Append(q, e), m)
    BY <1>2, <1>6 DEF StoredSoFar
  <2>2. ASSUME stage = "insertQuestions"
        PROVE  \E selected \in Selections :
                 /\ Left(rest, selected, Chosen)
                 /\ QuestionsIn(Append(q, e), m, selected, Chosen - Len(rest))
    <3>1. PICK selected \in Selections :
            /\ Left(rest, selected, Chosen)
            /\ QuestionsIn(q, m, selected, Chosen - Len(rest))
      BY <2>2 DEF StoredSoFar
    <3>2. QuestionsIn(Append(q, e), m, selected, Chosen - Len(rest))
      BY <3>1, <2>0, <1>4, <1>6, QuestionsGrow
    <3> QED
      BY <3>1, <3>2
  <2>3. ASSUME stage \in {"emplace", "fillGame"}
        PROVE  \E selected \in Selections :
                 /\ QuestionsIn(Append(q, e), m, selected, Chosen)
                 /\ stage = "fillGame" => /\ Filled(filled, selected)
                                          /\ Len(filled) < 3
    <3>1. PICK selected \in Selections :
            /\ QuestionsIn(q, m, selected, Chosen)
            /\ stage = "fillGame" => /\ Filled(filled, selected)
                                     /\ Len(filled) < 3
      BY <2>3 DEF StoredSoFar
    <3>2. QuestionsIn(Append(q, e), m, selected, Chosen)
      BY <3>1, <2>0, <1>6, ChosenNat, QuestionsGrow
    <3> QED
      BY <3>1, <3>2
  <2> QED
    BY <2>1, <2>2, <2>3 DEF StoredSoFar
<1> QED
  BY <1>5, <1>6

(* The next of n things has been treated.                                  *)
LEMMA LeftTail ==
  ASSUME NEW S, NEW rest \in Seq(S), rest # <<>>, NEW things, NEW n \in Nat,
         Left(rest, things, n)
  PROVE  /\ n - Len(rest) \in Nat
         /\ n - Len(Tail(rest)) = (n - Len(rest)) + 1
         /\ Head(rest) = things[(n - Len(rest)) + 1]
         /\ Left(Tail(rest), things, n)
<1>1. /\ Len(rest) \in Nat /\ Len(rest) >= 1
      /\ Head(rest) = rest[1] /\ Len(Tail(rest)) = Len(rest) - 1
      /\ \A i \in 1 .. Len(Tail(rest)) : Tail(rest)[i] = rest[i + 1]
  BY HeadTailProperties, LenProperties, EmptySeq
<1>2. /\ Len(rest) \in 0 .. n
      /\ \A i \in 1 .. Len(rest) : rest[i] = things[n - Len(rest) + i]
  BY DEF Left
<1>3. Head(rest) = things[(n - Len(rest)) + 1]
  <2>1. 1 \in 1 .. Len(rest)
    BY <1>1
  <2> QED
    BY <2>1, <1>1, <1>2
<1>4. ASSUME NEW i \in 1 .. Len(Tail(rest))
      PROVE  Tail(rest)[i] = things[n - Len(Tail(rest)) + i]
  <2>1. i + 1 \in 1 .. Len(rest)
    BY <1>1
  <2>2. rest[i + 1] = things[n - Len(rest) + (i + 1)]
    BY <2>1, <1>2
  <2>3. n - Len(rest) + (i + 1) = n - Len(Tail(rest)) + i
    BY <1>1
  <2> QED
    BY <2>2, <2>3, <1>1
<1>5. Left(Tail(rest), things, n)
  BY <1>1, <1>2, <1>4 DEF Left
<1> QED
  BY <1>1, <1>2, <1>3, <1>5

(* The next row of this match.                                             *)
LEMMA PlayerStored ==
  ASSUME NEW m, NEW players \in Seq(Nat), NEW rest \in Seq(Nat), rest # <<>>,
         NEW p \in Seq(PlayerRows), NEW q, NEW filled, NEW e \in PlayerRows,
         StoredSoFar("insertPlayers", m, players, rest, p, q, filled),
         e.match = m, e.user = Head(rest),
         e.rank = Len(players) - Len(rest) + 1
  PROVE  StoredSoFar("insertPlayers", m, players, Tail(rest), Append(p, e), q,
                     filled)
<1>1. PICK n \in Nat : n = Len(players)
  BY LenProperties
<1>2. /\ Left(rest, players, n) /\ PlayersIn(p, m, players, n - Len(rest))
      /\ NoRows(q, m)
  BY <1>1 DEF StoredSoFar
<1>3. PICK k \in Nat : k = n - Len(rest)
  BY <1>2, LeftTail
<1>4. /\ e.user = players[k + 1] /\ Left(Tail(rest), players, n)
      /\ n - Len(Tail(rest)) = k + 1
  BY <1>2, <1>3, LeftTail
<1>5. PlayersIn(Append(p, e), m, players, k + 1)
  BY <1>1, <1>2, <1>3, <1>4, AppendIsOneMore, PlayersGrow
<1> QED
  BY <1>1, <1>2, <1>4, <1>5 DEF StoredSoFar

(* A player of the room who has no account is left out.                    *)
LEMMA PlayerSkipped ==
  ASSUME NEW m, NEW players \in Seq(Nat), NEW rest \in Seq(Nat), rest # <<>>,
         NEW p, NEW q, NEW filled,
         StoredSoFar("insertPlayers", m, players, rest, p, q, filled),
         Head(rest) \notin DOMAIN FirstUsers
  PROVE  StoredSoFar("insertPlayers", m, players, Tail(rest), p, q, filled)
<1>1. PICK n \in Nat : n = Len(players)
  BY LenProperties
<1>2. /\ Left(rest, players, n) /\ PlayersIn(p, m, players, n - Len(rest))
      /\ NoRows(q, m)
  BY <1>1 DEF StoredSoFar
<1>3. PICK k \in Nat : k = n - Len(rest)
  BY <1>2, LeftTail
<1>4. /\ players[k + 1] \notin DOMAIN FirstUsers
      /\ Left(Tail(rest), players, n) /\ n - Len(Tail(rest)) = k + 1
  BY <1>2, <1>3, LeftTail
<1>5. PlayersIn(p, m, players, k + 1)
  BY <1>2, <1>3, <1>4, PlayersSkipped
<1> QED
  BY <1>1, <1>2, <1>4, <1>5 DEF StoredSoFar

LEMMA QuestionStored ==
  ASSUME NEW m, NEW players, NEW rest \in Seq(Questions), rest # <<>>,
         NEW p, NEW q \in Seq(QuestionRows), NEW filled, NEW e \in QuestionRows,
         StoredSoFar("insertQuestions", m, players, rest, p, q, filled),
         e.match = m, e.question = Head(rest),
         e.round = ((Chosen - Len(rest)) \div PerRound) + 1,
         e.order = ((Chosen - Len(rest)) % PerRound) + 1
  PROVE  StoredSoFar("insertQuestions", m, players, Tail(rest), p, Append(q, e),
                     filled)
<1>1. PICK n \in Nat : n = Chosen
  BY ChosenNat
<1>2. PICK selected \in Selections :
        /\ Left(rest, selected, n)
        /\ QuestionsIn(q, m, selected, n - Len(rest))
  BY <1>1 DEF StoredSoFar
<1>3. PICK k \in Nat : k = n - Len(rest)
  BY <1>2, LeftTail
<1>4. /\ e.question = selected[k + 1] /\ Left(Tail(rest), selected, n)
      /\ n - Len(Tail(rest)) = k + 1
  BY <1>2, <1>3, LeftTail
<1>5. e.round = RoundNumber(k + 1) /\ e.order = OrderNumber(k + 1)
  <2>1. (k + 1) - 1 = k
    OBVIOUS
  <2> QED
    BY <2>1, <1>1, <1>3 DEF RoundNumber, OrderNumber
<1>6. QuestionsIn(Append(q, e), m, selected, k + 1)
  BY <1>2, <1>3, <1>4, <1>5, AppendIsOneMore, QuestionsGrow
<1> QED
  BY <1>1, <1>2, <1>4, <1>6 DEF StoredSoFar

-----------------------------------------------------------------------------
(* A step of thread t that is about match m only.                          *)

RowsOnlyOf(m) ==
  /\ \/ matchPlayers' = matchPlayers
     \/ \E e \in PlayerRows :
          e.match = m /\ matchPlayers' = Append(matchPlayers, e)
  /\ \/ matchQuestions' = matchQuestions
     \/ \E e \in QuestionRows :
          e.match = m /\ matchQuestions' = Append(matchQuestions, e)

GamesOnlyOf(m) ==
  \A k : k # m => /\ k \in DOMAIN games' <=> k \in DOMAIN games
                  /\ k \in DOMAIN games => games'[k] = games[k]

AnswersOnlyOf(m) ==
  \/ started' = started
  \/ \E e : e.game = m /\ started' = Append(started, e)

SameElsewhere(t) ==
  \A s \in Threads \ {t} : /\ pc'[s] = pc[s] /\ req'[s] = req[s]
                           /\ row'[s] = row[s] /\ todo'[s] = todo[s]

StepOf(t, m) ==
  /\ SameElsewhere(t)
  /\ DOMAIN users \subseteq DOMAIN users'
  /\ DOMAIN matches \subseteq DOMAIN matches'
  /\ mixedUp \subseteq mixedUp'
  /\ RowsOnlyOf(m) /\ GamesOnlyOf(m) /\ AnswersOnlyOf(m)
  /\ \/ pc[t] \in OwnStages /\ m = row[t]
     \/ m \notin DOMAIN matches /\ UNCHANGED <<games, started>>
  /\ pc'[t] \in OwnStages => row'[t] = m \/ row'[t] \in mixedUp'

LEMMA AnswerAdded ==
  ASSUME NEW s, IsSequence(s), NEW e
  PROVE  /\ IsSequence(Append(s, e))
         /\ \E last : /\ DOMAIN Append(s, e) = DOMAIN s \cup {last}
                      /\ last \notin DOMAIN s
                      /\ \A i \in DOMAIN s : Append(s, e)[i] = s[i]
                      /\ Append(s, e)[last] = e
<1> DEFINE S == {s[i] : i \in DOMAIN s}
<1> DEFINE longer == Append(s, e)
<1> DEFINE values == {longer[i] : i \in DOMAIN longer}
<1>1. S \subseteq S \cup {e} /\ e \in S \cup {e}
  OBVIOUS
<1>2. s \in Seq(S \cup {e})
  <2>1. Len(s) \in Nat /\ DOMAIN s = 1 .. Len(s) /\ s \in [1 .. Len(s) -> S]
    BY LenProperties DEF IsSequence
  <2>2. s \in [1 .. Len(s) -> S \cup {e}]
    BY <2>1
  <2> QED
    BY <2>1, <2>2
<1>3. /\ longer \in Seq(S \cup {e})
      /\ DOMAIN longer = DOMAIN s \cup {Len(s) + 1}
      /\ Len(s) + 1 \notin DOMAIN s
      /\ \A i \in DOMAIN s : longer[i] = s[i]
      /\ longer[Len(s) + 1] = e
  <2> HIDE DEF S
  <2> QED
    BY <1>1, <1>2, RowAdded
<1>4. longer \in Seq(values)
  <2> HIDE DEF longer, S
  <2>1. Len(longer) \in Nat /\ DOMAIN longer = 1 .. Len(longer)
        /\ longer \in [1 .. Len(longer) -> S \cup {e}]
    BY <1>3, LenProperties
  <2>2. longer \in [1 .. Len(longer) -> values]
    BY <2>1
  <2> QED
    BY <2>1, <2>2
<1> QED
  BY <1>3, <1>4 DEF IsSequence

LEMMA RoomKept ==
  ASSUME NEW players, NEW r, NEW before, NEW after, before \subseteq after,
         OfRoom(players, r, before)
  PROVE  OfRoom(players, r, after)
BY DEF OfRoom

(* Of the stages only the last looks at the game.                          *)
LEMMA NotYetFilled ==
  ASSUME NEW stage, stage # "fillGame", NEW m, NEW players, NEW rest, NEW p,
         NEW q, NEW one, NEW other,
         StoredSoFar(stage, m, players, rest, p, q, one)
  PROVE  StoredSoFar(stage, m, players, rest, p, q, other)
BY DEF StoredSoFar

LEMMA OthersKeepTheirs ==
  ASSUME TablesInv, MatchInv, NEW t \in Threads, NEW m, StepOf(t, m),
         NEW s \in Threads \ {t}
  PROVE  OwnMatch(s)'
<1> SUFFICES ASSUME pc[s] \in OwnStages, row[s] \notin mixedUp'
             PROVE  OwnMatch(s)'
  BY DEF OwnMatch, StepOf, SameElsewhere
<1>1. PICK stage \in OwnStages : stage = pc[s]
  OBVIOUS
<1>2. PICK id : id = row[s]
  OBVIOUS
<1>3. /\ id \notin mixedUp /\ id \in DOMAIN matches
      /\ id \in DOMAIN games <=> stage = "fillGame"
      /\ \A u \in Threads \ {s} : pc[u] \in OwnStages => row[u] # id
      /\ \A i \in DOMAIN started : started[i].game # id
  BY <1>1, <1>2 DEF MatchInv, OwnMatch, StepOf
<1>4. id # m
  BY <1>3 DEF StepOf
<1>5. PICK players \in Seq(Nat) : players = RoomPlayers[req[s].room]
  BY <1>1, TablesAssumption
     DEF TablesInv, StageFits, OwnStages, MatchStages, Starting
<1>6. PICK rest : rest = todo[s]
  OBVIOUS
<1>7. PICK p \in Seq(PlayerRows), q \in Seq(QuestionRows) :
        p = matchPlayers /\ q = matchQuestions
  BY DEF TablesInv, RowTypes
<1>8. PICK filled : filled = games[id].questions
  OBVIOUS
<1>9. StoredSoFar(stage, id, players, rest, p, q, filled)
  BY <1>1, <1>2, <1>3, <1>5, <1>6, <1>7, <1>8 DEF MatchInv, OwnMatch
<1>10. /\ matchPlayers' \in Seq(PlayerRows)
       /\ StoredSoFar(stage, id, players, rest, matchPlayers', q, filled)
  <2>1. CASE matchPlayers' = matchPlayers
    BY <2>1, <1>7, <1>9
  <2>2. CASE matchPlayers' # matchPlayers
    <3>1. PICK e \in PlayerRows : e.match = m /\ matchPlayers' = Append(p, e)
      BY <2>2, <1>7 DEF StepOf, RowsOnlyOf
    <3>2. StoredSoFar(stage, id, players, rest, Append(p, e), q, filled)
      BY <3>1, <1>4, <1>9, StoredStays
    <3>3. Append(p, e) \in Seq(PlayerRows)
      BY RowAdded
    <3> QED
      BY <3>1, <3>2, <3>3
  <2> QED
    BY <2>1, <2>2
<1>11. PICK p2 \in Seq(PlayerRows) : p2 = matchPlayers'
  BY <1>10
<1>12. StoredSoFar(stage, id, players, rest, p2, matchQuestions', filled)
  <2>0. StoredSoFar(stage, id, players, rest, p2, q, filled)
    BY <1>10, <1>11
  <2>1. CASE matchQuestions' = matchQuestions
    BY <2>0, <2>1, <1>7
  <2>2. CASE matchQuestions' # matchQuestions
    <3>1. PICK e \in QuestionRows : e.match = m /\ matchQuestions' = Append(q, e)
      BY <2>2, <1>7 DEF StepOf, RowsOnlyOf
    <3>2. StoredSoFar(stage, id, players, rest, p2, Append(q, e), filled)
      BY <3>1, <2>0, <1>4, StoredStays
    <3> QED
      BY <3>1, <3>2
  <2> QED
    BY <2>1, <2>2
<1>13. /\ id \in DOMAIN games' <=> stage = "fillGame"
       /\ stage = "fillGame" => games'[id].questions = filled
  BY <1>3, <1>4, <1>8 DEF StepOf, GamesOnlyOf
<1>14. /\ pc'[s] = stage /\ row'[s] = id
       /\ RoomPlayers[req'[s].room] = players /\ todo'[s] = rest
  BY <1>1, <1>2, <1>5, <1>6 DEF StepOf, SameElsewhere
<1>15. StoredSoFar(pc'[s], row'[s], RoomPlayers[req'[s].room], todo'[s],
                   matchPlayers', matchQuestions', games'[row'[s]].questions)
  <2>1. CASE stage = "fillGame"
    BY <2>1, <1>11, <1>12, <1>13, <1>14
  <2>2. CASE stage # "fillGame"
    BY <2>2, <1>11, <1>12, <1>14, NotYetFilled
  <2> QED
    BY <2>1, <2>2
<1>16. \A i \in DOMAIN started' : started'[i].game # id
  <2>1. CASE started' = started
    BY <2>1, <1>3
  <2>2. CASE started' # started
    <3>1. PICK e : e.game = m /\ started' = Append(started, e)
      BY <2>2 DEF StepOf, AnswersOnlyOf
    <3>2. PICK old : old = started /\ IsSequence(old)
      BY DEF MatchInv, GamesFit
    <3>4. PICK one : one = e
      OBVIOUS
    <3>5. \E last : /\ DOMAIN Append(old, one) = DOMAIN old \cup {last}
                    /\ last \notin DOMAIN old
                    /\ \A i \in DOMAIN old : Append(old, one)[i] = old[i]
                    /\ Append(old, one)[last] = one
      <4>1. IsSequence(old)
        BY <3>2
      <4> QED
        BY ONLY <4>1, AnswerAdded
    <3>3. PICK last : /\ DOMAIN Append(old, one) = DOMAIN old \cup {last}
                      /\ last \notin DOMAIN old
                      /\ \A i \in DOMAIN old : Append(old, one)[i] = old[i]
                      /\ Append(old, one)[last] = one
      BY <3>5
    <3> QED
      BY <3>1, <3>2, <3>3, <3>4, <1>3, <1>4
  <2> QED
    BY <2>1, <2>2
<1>17. \A u \in Threads \ {s} : pc'[u] \in OwnStages => row'[u] # row'[s]
  BY <1>2, <1>3, <1>4, <1>14 DEF StepOf, SameElsewhere
<1>18. pc[s] \in {"emplace", "fillGame"} =>
         OfRoom(todo'[s], req'[s].room, DOMAIN users')
  <2>1. pc[s] \in {"emplace", "fillGame"} =>
          OfRoom(todo[s], req[s].room, DOMAIN users)
    BY <1>2, <1>3 DEF MatchInv, OwnMatch, OwnStages
  <2> QED
    BY <2>1, RoomKept DEF StepOf, SameElsewhere
<1> QED
  BY <1>1, <1>2, <1>3, <1>13, <1>14, <1>15, <1>16, <1>17, <1>18
     DEF OwnMatch, StepOf

LEMMA ZeroIsNoMatch == ASSUME TablesInv PROVE 0 \notin DOMAIN matches
BY LenProperties DEF TablesInv, TypeOK

(* No GAME_START was about m, and the game of a new one is filled.         *)
LEMMA GamesFitAfter ==
  ASSUME TablesInv, MatchInv, NEW t \in Threads, NEW m, StepOf(t, m),
         \A e : started' = Append(started, e) /\ m \notin mixedUp' =>
                  /\ m \in DOMAIN games'
                  /\ IsFilled(e, games'[m], DOMAIN users')
  PROVE  GamesFit'
<1>1. /\ m \notin mixedUp' => \A i \in DOMAIN started : started[i].game # m
      /\ DOMAIN games' \ mixedUp' \subseteq DOMAIN matches'
  <2>1. /\ DOMAIN games \ mixedUp \subseteq DOMAIN matches
        /\ \A i \in DOMAIN started : started[i].game \notin mixedUp =>
                                       started[i].game \in DOMAIN games
    BY DEF MatchInv, GamesFit
  <2>2. CASE m \notin DOMAIN matches /\ UNCHANGED <<games, started>>
    BY <2>1, <2>2 DEF StepOf
  <2>3. CASE pc[t] \in OwnStages /\ m = row[t]
    BY <2>1, <2>3 DEF StepOf, MatchInv, OwnMatch, GamesOnlyOf
  <2> QED
    BY <2>2, <2>3 DEF StepOf
<1>2. PICK old : old = started /\ IsSequence(old)
  BY DEF MatchInv, GamesFit
<1>3. ASSUME NEW i \in DOMAIN old, old[i].game \notin mixedUp'
      PROVE  /\ \A j \in DOMAIN old : i # j => old[i].game # old[j].game
             /\ old[i].game # m
             /\ old[i].game \in DOMAIN games'
             /\ IsFilled(old[i], games'[old[i].game], DOMAIN users')
  <2>1. PICK s : s = old[i]
    OBVIOUS
  <2>2. /\ \A j \in DOMAIN old : i # j => s.game # old[j].game
        /\ s.game \in DOMAIN games
        /\ IsFilled(s, games[s.game], DOMAIN users)
    BY <2>1, <1>2, <1>3 DEF MatchInv, GamesFit, StepOf
  <2>3. s.game # m
    BY <2>1, <1>1, <1>2, <1>3
  <2>4. s.game \in DOMAIN games' /\ games'[s.game] = games[s.game]
    BY <2>2, <2>3 DEF StepOf, GamesOnlyOf
  <2>5. IsFilled(s, games'[s.game], DOMAIN users')
    BY <2>2, <2>4, RoomKept DEF IsFilled, StepOf
  <2> QED
    BY <2>1, <2>2, <2>3, <2>4, <2>5
<1>4. CASE started' = started
  BY <1>1, <1>2, <1>3, <1>4 DEF GamesFit
<1>5. CASE started' # started
  <2>1. PICK e : e.game = m /\ started' = Append(old, e)
    BY <1>2, <1>5 DEF StepOf, AnswersOnlyOf
  <2>2. PICK one : one = e
    OBVIOUS
  <2>3. /\ IsSequence(Append(old, one))
        /\ \E last : /\ DOMAIN Append(old, one) = DOMAIN old \cup {last}
                     /\ last \notin DOMAIN old
                     /\ \A i \in DOMAIN old : Append(old, one)[i] = old[i]
                     /\ Append(old, one)[last] = one
    <3>1. IsSequence(old)
      BY <1>2
    <3> QED
      BY ONLY <3>1, AnswerAdded
  <2>4. PICK new : new = started'
    OBVIOUS
  <2>5. PICK last : /\ DOMAIN new = DOMAIN old \cup {last}
                    /\ last \notin DOMAIN old
                    /\ \A i \in DOMAIN old : new[i] = old[i]
                    /\ new[last] = one
    BY <2>1, <2>2, <2>3, <2>4
  <2>6. one.game \notin mixedUp' =>
          /\ one.game \in DOMAIN games'
          /\ IsFilled(one, games'[one.game], DOMAIN users')
    BY <2>1, <2>2, <1>2
  <2>7. ASSUME NEW i \in DOMAIN new, new[i].game \notin mixedUp'
        PROVE  /\ \A j \in DOMAIN new : i # j => new[i].game # new[j].game
               /\ new[i].game \in DOMAIN games'
               /\ IsFilled(new[i], games'[new[i].game], DOMAIN users')
    <3>1. CASE i = last
      BY <3>1, <2>1, <2>2, <2>5, <2>6, <2>7, <1>1, <1>2
    <3>2. CASE i \in DOMAIN old
      BY <3>2, <2>1, <2>2, <2>5, <2>7, <1>3
    <3> QED
      BY <3>1, <3>2, <2>5
  <2> QED
    BY <2>1, <2>2, <2>3, <2>4, <2>7, <1>1 DEF GamesFit
<1> QED
  BY <1>4, <1>5

LEMMA StepKeeps ==
  ASSUME TablesInv, MatchInv, NEW t \in Threads, NEW m, StepOf(t, m),
         OwnMatch(t)',
         \A e : started' = Append(started, e) /\ m \notin mixedUp' =>
                  /\ m \in DOMAIN games'
                  /\ IsFilled(e, games'[m], DOMAIN users')
  PROVE  MatchInv'
<1>1. \A s \in Threads \ {t} : OwnMatch(s)'
  BY OthersKeepTheirs
<1>2. GamesFit'
  BY GamesFitAfter
<1> QED
  BY <1>1, <1>2 DEF MatchInv

(* No step appends nothing.                                                *)
LEMMA NothingAdded ==
  ASSUME MatchInv, UNCHANGED started
  PROVE  \A e : started' # Append(started, e)
<1> SUFFICES ASSUME NEW e, started' = Append(started, e) PROVE FALSE
  OBVIOUS
<1>1. PICK old : old = started /\ IsSequence(old)
  BY DEF MatchInv, GamesFit
<1>2. PICK one : one = e
  OBVIOUS
<1>3. \E last : /\ DOMAIN Append(old, one) = DOMAIN old \cup {last}
                /\ last \notin DOMAIN old
                /\ \A i \in DOMAIN old : Append(old, one)[i] = old[i]
                /\ Append(old, one)[last] = one
  <2>1. IsSequence(old)
    BY <1>1
  <2> QED
    BY ONLY <2>1, AnswerAdded
<1>4. PICK new : new = Append(old, one)
  OBVIOUS
<1>5. DOMAIN new # DOMAIN old
  BY <1>3, <1>4
<1> QED
  BY <1>1, <1>2, <1>4, <1>5

(* A step of thread t with no match of its own, before or after.           *)
LEMMA QuietStep ==
  ASSUME TablesInv, MatchInv, NEW t \in Threads,
         UNCHANGED <<matches, matchPlayers, matchQuestions, games, started,
                     mixedUp>>,
         DOMAIN users \subseteq DOMAIN users',
         pc'[t] \notin OwnStages, SameElsewhere(t)
  PROVE  MatchInv'
<1>1. StepOf(t, 0)
  BY ZeroIsNoMatch DEF StepOf, RowsOnlyOf, GamesOnlyOf, AnswersOnlyOf
<1>2. OwnMatch(t)'
  BY DEF OwnMatch
<1> QED
  BY <1>1, <1>2, NothingAdded, StepKeeps

(* A step of thread t on its own match, before GAME_START.                 *)
LEMMA OwnStep ==
  ASSUME TablesInv, MatchInv, NEW t \in Threads, pc[t] \in OwnStages,
         UNCHANGED <<users, matches, started, mixedUp>>, row'[t] = row[t],
         SameElsewhere(t), RowsOnlyOf(row[t]), GamesOnlyOf(row[t]),
         row[t] \notin mixedUp =>
           /\ row'[t] \in DOMAIN games' <=> pc'[t] = "fillGame"
           /\ StoredSoFar(pc'[t], row'[t], RoomPlayers[req'[t].room], todo'[t],
                          matchPlayers', matchQuestions',
                          games'[row'[t]].questions)
           /\ pc'[t] \in {"emplace", "fillGame"} =>
                OfRoom(todo'[t], req'[t].room, DOMAIN users')
  PROVE  MatchInv'
<1>1. StepOf(t, row[t])
  BY DEF StepOf, AnswersOnlyOf
<1>2. OwnMatch(t)'
  <2> SUFFICES ASSUME row[t] \notin mixedUp PROVE OwnMatch(t)'
    BY DEF OwnMatch
  <2>1. /\ row[t] \in DOMAIN matches
        /\ \A s \in Threads \ {t} : pc[s] \in OwnStages => row[s] # row[t]
        /\ \A i \in DOMAIN started : started[i].game # row[t]
    BY DEF MatchInv, OwnMatch
  <2>2. /\ row'[t] \in DOMAIN matches'
        /\ \A s \in Threads \ {t} : pc'[s] \in OwnStages => row'[s] # row'[t]
        /\ \A i \in DOMAIN started' : started'[i].game # row'[t]
    BY <2>1 DEF SameElsewhere
  <2> QED
    BY <2>2 DEF OwnMatch
<1> QED
  BY <1>1, <1>2, NothingAdded, StepKeeps

(* Answers: the thread has no match any more, or never had one.            *)
LEMMA AnswerQuietly ==
  ASSUME TablesInv, MatchInv, NEW t \in Threads, Answer(t),
         UNCHANGED <<users, matches, matchPlayers, matchQuestions, games,
                     started, mixedUp>>
  PROVE  MatchInv'
<1>1. pc'[t] \notin OwnStages /\ SameElsewhere(t)
  BY DEF Answer, Goto, TablesInv, ThreadTypes, OwnStages, SameElsewhere
<1> QED
  BY <1>1, QuietStep

LEMMA AccountStepKeepsMatches ==
  ASSUME TablesInv, MatchInv, NEW t \in Threads, Account(t) \/ StartMatch(t)
  PROVE  MatchInv'
<1>1. UNCHANGED <<matches, matchPlayers, matchQuestions, games, started, mixedUp>>
  BY DEF Account, Register, FindByUsername, CreateUser, LastUserRow, LogIn,
         HasActiveSession, CreateSession, LogOut, ResetPassword,
         GetUserIdByToken, FindById, UpdatePassword, StartMatch, Serve, dbVars,
         historyVars
<1>2. DOMAIN users \subseteq DOMAIN users'
  <2>1. users \in Seq(AccountRows)
    BY DEF TablesInv, TypeOK, AccountRows
  <2>2. CASE CreateUser(t)
    <3>1. CASE users' = users
      BY <3>1
    <3>2. CASE users' # users
      <4>1. /\ users' = Append(users, NewUser(t))
            /\ pc[t] = "createUser"
        BY <2>2, <3>2 DEF CreateUser
      <4>2. NewUser(t) \in AccountRows
        BY <4>1 DEF TablesInv, StageFits, RegisterStages, NewUser, AccountRows,
                    Registering
      <4> QED
        BY <2>1, <4>1, <4>2, RowAdded
    <3> QED
      BY <3>1, <3>2
  <2>3. CASE UpdatePassword(t)
    BY <2>1, <2>3 DEF UpdatePassword
  <2>4. CASE users' = users
    BY <2>4
  <2> QED
    BY <2>2, <2>3, <2>4
       DEF Account, Register, FindByUsername, LastUserRow, LogIn,
           HasActiveSession, CreateSession, LogOut, ResetPassword,
           GetUserIdByToken, FindById, StartMatch, Serve, dbVars
<1>3. SameElsewhere(t)
  BY DEF Account, Register, FindByUsername, CreateUser, LastUserRow, LogIn,
         HasActiveSession, CreateSession, LogOut, ResetPassword,
         GetUserIdByToken, FindById, UpdatePassword, StartMatch, Serve, Answer,
         Goto, TablesInv, ThreadTypes, SameElsewhere
<1>4. pc'[t] \notin OwnStages
  BY DEF Account, Register, FindByUsername, CreateUser, LastUserRow, LogIn,
         HasActiveSession, CreateSession, LogOut, ResetPassword,
         GetUserIdByToken, FindById, UpdatePassword, StartMatch, Serve, Answer,
         Goto, Idle, TablesInv, ThreadTypes, OwnStages
<1> QED
  BY <1>1, <1>2, <1>3, <1>4, QuietStep

(* The id of a new match is that of no other, and no row refers to it.     *)
LEMMA InsertMatchKeeps ==
  ASSUME TablesInv, MatchInv, NEW t \in Threads, InsertMatch(t)
  PROVE  MatchInv'
<1>1. CASE RoomPlayers[req[t].room] = <<>> \/ req[t].room \notin StoredRooms
  <2>1. /\ Answer(t)
        /\ UNCHANGED <<users, matches, matchPlayers, matchQuestions, games,
                       started, mixedUp>>
    BY <1>1 DEF InsertMatch, historyVars
  <2> QED
    BY <2>1, AnswerQuietly
<1>2. CASE ~ (RoomPlayers[req[t].room] = <<>> \/ req[t].room \notin StoredRooms)
  <2>1. /\ matches' = Append(matches, req[t].room)
        /\ req[t].room \in StoredRooms
        /\ row' = [row EXCEPT ![t] = Len(matches')]
        /\ pc' = [pc EXCEPT ![t] = "lastMatchRow"]
        /\ UNCHANGED <<req, todo, users, matchPlayers, matchQuestions, games,
                       started, mixedUp>>
    BY <1>2 DEF InsertMatch, Goto, historyVars
  <2>2. PICK new : /\ new = Len(matches')
                   /\ new \notin DOMAIN matches
                   /\ DOMAIN matches' = DOMAIN matches \cup {new}
    BY <2>1, RowAdded DEF TablesInv, TypeOK
  <2>3. /\ row'[t] = new /\ pc'[t] = "lastMatchRow"
        /\ SameElsewhere(t)
    BY <2>1, <2>2 DEF TablesInv, ThreadTypes, SameElsewhere
  <2>4. StepOf(t, new)
    BY <2>1, <2>2, <2>3
       DEF StepOf, RowsOnlyOf, GamesOnlyOf, AnswersOnlyOf
  <2>5. OwnMatch(t)'
    <3> SUFFICES ASSUME new \notin mixedUp PROVE OwnMatch(t)'
      BY <2>1, <2>3 DEF OwnMatch
    <3>1. NoRows(matchPlayers', new) /\ NoRows(matchQuestions', new)
      BY <2>1, <2>2 DEF NoRows, TablesInv, TypeOK
    <3>2. StoredSoFar(pc'[t], row'[t], RoomPlayers[req'[t].room], todo'[t],
                      matchPlayers', matchQuestions', games'[new].questions)
      BY <3>1, <2>3 DEF StoredSoFar
    <3>3. new \in DOMAIN matches' /\ new \notin DOMAIN games'
      BY <2>1, <2>2 DEF MatchInv, GamesFit
    <3>4. \A i \in DOMAIN started' : started'[i].game # new
      BY <2>1, <3>3 DEF MatchInv, GamesFit
    <3>5. \A s \in Threads \ {t} : pc'[s] \in OwnStages => row'[s] # new
      BY <2>2, <2>3 DEF MatchInv, OwnMatch, SameElsewhere
    <3> QED
      BY <3>2, <3>3, <3>4, <3>5, <2>3 DEF OwnMatch
  <2> QED
    BY <2>1, <2>4, <2>5, NothingAdded, StepKeeps
<1> QED
  BY <1>1, <1>2

(* The id read is the thread's own, or it is mixed up with it.             *)
LEMMA LastMatchRowKeeps ==
  ASSUME TablesInv, MatchInv, NEW t \in Threads, LastMatchRow(t)
  PROVE  MatchInv'
<1>1. /\ pc[t] = "lastMatchRow"
      /\ row' = [row EXCEPT ![t] = lastRow]
      /\ mixedUp' = mixedUp \cup (IF lastRow = row[t] THEN {}
                                    ELSE {lastRow, row[t]})
      /\ todo' = [todo EXCEPT ![t] = RoomPlayers[req[t].room]]
      /\ pc' = [pc EXCEPT ![t] = "insertPlayers"]
      /\ UNCHANGED <<users, matches, matchPlayers, matchQuestions, games,
                     started, req>>
  BY DEF LastMatchRow, Goto, dbVars
<1>2. /\ pc'[t] = "insertPlayers" /\ req'[t] = req[t]
      /\ row'[t] = lastRow /\ todo'[t] = RoomPlayers[req[t].room]
      /\ SameElsewhere(t)
  BY <1>1 DEF TablesInv, ThreadTypes, SameElsewhere
<1>3. RowsOnlyOf(row[t]) /\ GamesOnlyOf(row[t])
  BY <1>1 DEF RowsOnlyOf, GamesOnlyOf
<1>4. CASE lastRow # row[t]
  <2>1. lastRow \in mixedUp' /\ mixedUp \subseteq mixedUp'
    BY <1>1, <1>4
  <2>2. StepOf(t, row[t])
    BY <1>1, <1>2, <1>3, <2>1 DEF StepOf, AnswersOnlyOf, OwnStages
  <2>3. OwnMatch(t)'
    BY <1>2, <2>1 DEF OwnMatch
  <2> QED
    BY <1>1, <2>2, <2>3, NothingAdded, StepKeeps
<1>5. CASE lastRow = row[t]
  <2>1. mixedUp' = mixedUp /\ row'[t] = row[t]
    BY <1>1, <1>2, <1>5
  <2>2. PICK players \in Seq(Nat) : players = RoomPlayers[req[t].room]
    BY <1>1, TablesAssumption DEF TablesInv, StageFits, MatchStages, Starting
  <2>3. ASSUME row[t] \notin mixedUp
        PROVE  /\ row'[t] \notin DOMAIN games'
               /\ StoredSoFar("insertPlayers", row[t], players, players,
                              matchPlayers, matchQuestions,
                              games'[row'[t]].questions)
    <3>1. /\ NoRows(matchPlayers, row[t]) /\ NoRows(matchQuestions, row[t])
          /\ row[t] \notin DOMAIN games
      BY <1>1, <2>3 DEF MatchInv, OwnMatch, OwnStages, StoredSoFar
    <3>2. Left(players, players, Len(players)) /\ Len(players) - Len(players) = 0
      <4>1. Len(players) \in Nat
        BY LenProperties
      <4>2. \A i \in 1 .. Len(players) : Len(players) - Len(players) + i = i
        BY <4>1
      <4> QED
        BY <4>1, <4>2 DEF Left
    <3>3. PlayersIn(matchPlayers, row[t], players, 0)
      <4>1. PICK f \in [1 .. 0 -> DOMAIN matchPlayers] :
              Listing(matchPlayers, row[t], f, 0)
        BY <3>1, ListingNone
      <4>2. PICK place : place = [a \in 1 .. 0 |-> a]
        OBVIOUS
      <4>3. Picks(place, players, 0, 0)
        BY <4>2 DEF Picks
      <4>4. 0 \in 0 .. 0 /\ \A n \in 1 .. 0 : FALSE
        OBVIOUS
      <4> QED
        BY <4>1, <4>2, <4>3, <4>4 DEF PlayersIn
    <3> QED
      BY <1>1, <2>1, <3>1, <3>2, <3>3 DEF StoredSoFar
  <2> QED
    BY <1>1, <1>2, <1>3, <2>1, <2>2, <2>3, OwnStep DEF OwnStages
<1> QED
  BY <1>4, <1>5

LEMMA InsertPlayerKeeps ==
  ASSUME TablesInv, MatchInv, NEW t \in Threads, InsertPlayer(t)
  PROVE  MatchInv'
<1>1. PICK e : e = [match |-> row[t], user |-> Head(todo[t]),
                    rank |-> Len(RoomPlayers[req[t].room]) - Len(todo[t]) + 1]
  OBVIOUS
<1>2. /\ pc[t] = "insertPlayers" /\ todo[t] # <<>>
      /\ matchPlayers' =
           IF row[t] \in DOMAIN matches /\ Head(todo[t]) \in DOMAIN users
           THEN Append(matchPlayers, e) ELSE matchPlayers
      /\ todo' = [todo EXCEPT ![t] = Tail(todo[t])]
      /\ UNCHANGED <<users, matches, matchQuestions, games, started, mixedUp,
                     pc, req, row>>
  BY <1>1 DEF InsertPlayer, InsertInto, historyVars
<1>3. PICK players \in Seq(Nat), rest \in Seq(Nat) :
        players = RoomPlayers[req[t].room] /\ rest = todo[t]
  BY <1>2, TablesAssumption DEF TablesInv, StageFits, MatchStages, Starting
<1>4. PICK m \in Nat : m = row[t]
  BY DEF TablesInv, ThreadTypes
<1>5. e \in PlayerRows /\ e.match = m /\ e.user = Head(rest)
      /\ e.rank = Len(players) - Len(rest) + 1
  <2>1. Head(rest) \in Nat
    BY <1>2, <1>3
  <2>2. Len(players) - Len(rest) + 1 \in Int
    BY LenProperties
  <2> QED
    BY <2>1, <2>2, <1>1, <1>3, <1>4 DEF PlayerRows
<1>6. /\ todo'[t] = Tail(rest) /\ row'[t] = m /\ SameElsewhere(t)
  BY <1>2, <1>3, <1>4 DEF TablesInv, ThreadTypes, SameElsewhere
<1>7. RowsOnlyOf(m) /\ GamesOnlyOf(m)
  BY <1>2, <1>5 DEF RowsOnlyOf, GamesOnlyOf
<1>8. ASSUME m \notin mixedUp
      PROVE  /\ m \notin DOMAIN games
             /\ StoredSoFar("insertPlayers", m, players, Tail(rest),
                            matchPlayers', matchQuestions, games[m].questions)
  <2>1. /\ m \in DOMAIN matches /\ m \notin DOMAIN games
        /\ StoredSoFar("insertPlayers", m, players, rest, matchPlayers,
                       matchQuestions, games[m].questions)
    BY <1>2, <1>3, <1>4, <1>8 DEF MatchInv, OwnMatch, OwnStages
  <2>2. matchPlayers \in Seq(PlayerRows) /\ rest # <<>>
    BY <1>2, <1>3 DEF TablesInv, RowTypes
  <2>3. CASE Head(rest) \in DOMAIN users
    <3>1. matchPlayers' = Append(matchPlayers, e)
      BY <1>2, <1>3, <1>4, <2>1, <2>3
    <3>2. StoredSoFar("insertPlayers", m, players, Tail(rest),
                      Append(matchPlayers, e), matchQuestions,
                      games[m].questions)
      BY <2>1, <2>2, <1>5, PlayerStored
    <3> QED
      BY <3>1, <3>2, <2>1
  <2>4. CASE Head(rest) \notin DOMAIN users
    <3>1. matchPlayers' = matchPlayers
      BY <1>2, <1>3, <2>4
    <3>2. DOMAIN FirstUsers \subseteq DOMAIN users
      BY TablesAssumption, LenProperties DEF TablesInv, RowTypes, TypeOK
    <3>3. Head(rest) \notin DOMAIN FirstUsers
      BY <2>4, <3>2
    <3>4. StoredSoFar("insertPlayers", m, players, Tail(rest), matchPlayers,
                      matchQuestions, games[m].questions)
      BY <2>1, <2>2, <3>3, PlayerSkipped
    <3> QED
      BY <3>1, <3>4, <2>1
  <2> QED
    BY <2>3, <2>4
<1>9. m \notin mixedUp =>
        /\ m \notin DOMAIN games'
        /\ StoredSoFar(pc'[t], row'[t], RoomPlayers[req'[t].room], todo'[t],
                       matchPlayers', matchQuestions', games'[row'[t]].questions)
  BY <1>2, <1>3, <1>6, <1>8
<1> QED
  BY <1>2, <1>4, <1>6, <1>7, <1>9, OwnStep DEF OwnStages

LEMMA SelectQuestionsKeeps ==
  ASSUME TablesInv, MatchInv, NEW t \in Threads, SelectQuestions(t)
  PROVE  MatchInv'
<1>1. PICK selected \in Selections :
        /\ pc[t] = "insertPlayers" /\ todo[t] = <<>>
        /\ todo' = [todo EXCEPT ![t] = selected]
        /\ pc' = [pc EXCEPT ![t] = "insertQuestions"]
        /\ UNCHANGED <<users, matches, matchPlayers, matchQuestions, games,
                       started, mixedUp, req, row>>
  BY DEF SelectQuestions, Selections, Goto, dbVars, historyVars
<1>2. /\ pc'[t] = "insertQuestions" /\ todo'[t] = selected /\ row'[t] = row[t]
      /\ SameElsewhere(t)
  BY <1>1 DEF TablesInv, ThreadTypes, SameElsewhere
<1>3. PICK players \in Seq(Nat) : players = RoomPlayers[req[t].room]
  BY <1>1, TablesAssumption DEF TablesInv, StageFits, MatchStages, Starting
<1>4. ASSUME row[t] \notin mixedUp
      PROVE  /\ row[t] \notin DOMAIN games
             /\ \A filled : StoredSoFar("insertQuestions", row[t], players,
                                        selected, matchPlayers, matchQuestions,
                                        filled)
  <2>1. /\ row[t] \notin DOMAIN games
        /\ StoredSoFar("insertPlayers", row[t], players, <<>>, matchPlayers,
                       matchQuestions, games[row[t]].questions)
    BY <1>1, <1>3, <1>4 DEF MatchInv, OwnMatch, OwnStages
  <2>2. PlayersIn(matchPlayers, row[t], players, Len(players))
        /\ NoRows(matchQuestions, row[t])
    <3>1. Len(players) - Len(<<>>) = Len(players)
      BY LenProperties
    <3> QED
      BY <3>1, <2>1 DEF StoredSoFar
  <2>3. Len(selected) = Chosen /\ Left(selected, selected, Chosen)
    <3>1. Len(selected) = Chosen
      BY ChosenNat DEF Selections
    <3>2. \A i \in 1 .. Chosen : Chosen - Chosen + i = i
      BY ChosenNat
    <3> QED
      BY <3>1, <3>2, ChosenNat DEF Left
  <2>4. QuestionsIn(matchQuestions, row[t], selected, Chosen - Len(selected))
    <3>1. PICK f \in [1 .. 0 -> DOMAIN matchQuestions] :
            Listing(matchQuestions, row[t], f, 0)
      BY <2>2, ListingNone
    <3>2. \A n \in 1 .. 0 : FALSE
      OBVIOUS
    <3>3. QuestionsIn(matchQuestions, row[t], selected, 0)
      BY <3>1, <3>2 DEF QuestionsIn
    <3>4. Chosen - Len(selected) = 0
      BY <2>3, ChosenNat
    <3> QED
      BY <3>3, <3>4
  <2> QED
    BY <2>1, <2>2, <2>3, <2>4 DEF StoredSoFar
<1>5. row[t] \notin mixedUp =>
        /\ row'[t] \notin DOMAIN games'
        /\ StoredSoFar(pc'[t], row'[t], RoomPlayers[req'[t].room], todo'[t],
                       matchPlayers', matchQuestions', games'[row'[t]].questions)
  BY <1>1, <1>2, <1>3, <1>4
<1>6. RowsOnlyOf(row[t]) /\ GamesOnlyOf(row[t])
  BY <1>1 DEF RowsOnlyOf, GamesOnlyOf
<1> QED
  BY <1>1, <1>2, <1>5, <1>6, OwnStep DEF OwnStages

LEMMA InsertQuestionKeeps ==
  ASSUME TablesInv, MatchInv, NEW t \in Threads, InsertQuestion(t)
  PROVE  MatchInv'
<1>1. PICK e : e = [match |-> row[t], question |-> Head(todo[t]),
                    round |-> ((Chosen - Len(todo[t])) \div PerRound) + 1,
                    order |-> ((Chosen - Len(todo[t])) % PerRound) + 1]
  OBVIOUS
<1>2. /\ pc[t] = "insertQuestions" /\ todo[t] # <<>>
      /\ matchQuestions' = IF row[t] \in DOMAIN matches
                           THEN Append(matchQuestions, e) ELSE matchQuestions
      /\ todo' = [todo EXCEPT ![t] = Tail(todo[t])]
      /\ UNCHANGED <<users, matches, matchPlayers, games, started, mixedUp, pc,
                     req, row>>
  BY <1>1 DEF InsertQuestion, InsertInto, historyVars
<1>3. PICK players : players = RoomPlayers[req[t].room]
  OBVIOUS
<1>4. PICK rest \in Seq(Questions) : rest = todo[t]
  BY <1>2 DEF TablesInv, StageFits
<1>5. PICK m \in Nat : m = row[t]
  BY DEF TablesInv, ThreadTypes
<1>6. e \in QuestionRows /\ e.match = m /\ e.question = Head(rest)
      /\ e.round = ((Chosen - Len(rest)) \div PerRound) + 1
      /\ e.order = ((Chosen - Len(rest)) % PerRound) + 1
  <2>1. Head(rest) \in Questions
    BY <1>2, <1>4
  <2>2. Chosen - Len(rest) \in Int
    BY ChosenNat, LenProperties
  <2>3. /\ ((Chosen - Len(rest)) \div PerRound) + 1 \in Int
        /\ ((Chosen - Len(rest)) % PerRound) + 1 \in Int
    BY <2>2, TablesAssumption
  <2> QED
    BY <2>1, <2>3, <1>1, <1>4, <1>5 DEF QuestionRows
<1>7. todo'[t] = Tail(rest) /\ row'[t] = m /\ SameElsewhere(t)
  BY <1>2, <1>4, <1>5 DEF TablesInv, ThreadTypes, SameElsewhere
<1>8. RowsOnlyOf(m) /\ GamesOnlyOf(m)
  BY <1>2, <1>6 DEF RowsOnlyOf, GamesOnlyOf
<1>9. ASSUME m \notin mixedUp
      PROVE  /\ m \notin DOMAIN games
             /\ StoredSoFar("insertQuestions", m, players, Tail(rest),
                            matchPlayers, matchQuestions', games[m].questions)
  <2>1. /\ m \in DOMAIN matches /\ m \notin DOMAIN games
        /\ StoredSoFar("insertQuestions", m, players, rest, matchPlayers,
                       matchQuestions, games[m].questions)
    BY <1>2, <1>3, <1>4, <1>5, <1>9 DEF MatchInv, OwnMatch, OwnStages
  <2>2. matchQuestions \in Seq(QuestionRows) /\ rest # <<>>
    BY <1>2, <1>4 DEF TablesInv, RowTypes
  <2>3. StoredSoFar("insertQuestions", m, players, Tail(rest), matchPlayers,
                    Append(matchQuestions, e), games[m].questions)
    BY <2>1, <2>2, <1>6, QuestionStored
  <2>4. matchQuestions' = Append(matchQuestions, e)
    BY <1>2, <1>5, <2>1
  <2> QED
    BY <2>1, <2>3, <2>4
<1>10. m \notin mixedUp =>
         /\ m \notin DOMAIN games'
         /\ StoredSoFar(pc'[t], row'[t], RoomPlayers[req'[t].room], todo'[t],
                        matchPlayers', matchQuestions',
                        games'[row'[t]].questions)
  BY <1>2, <1>3, <1>7, <1>9
<1> QED
  BY <1>2, <1>5, <1>7, <1>8, <1>10, OwnStep DEF OwnStages

LEMMA GetPlayersKeeps ==
  ASSUME TablesInv, MatchInv, NEW t \in Threads, GetPlayers(t)
  PROVE  MatchInv'
<1>1. /\ pc[t] = "insertQuestions" /\ todo[t] = <<>>
      /\ todo' = [todo EXCEPT ![t] = getPlayersForMatch(row[t])]
      /\ pc' = [pc EXCEPT ![t] = "emplace"]
      /\ UNCHANGED <<users, matches, matchPlayers, matchQuestions, games,
                     started, mixedUp, req, row>>
  BY DEF GetPlayers, Goto, dbVars, historyVars
<1>2. PICK room \in Rooms : room = req[t].room
  BY <1>1 DEF TablesInv, StageFits, MatchStages, Starting
<1>3. /\ pc'[t] = "emplace" /\ todo'[t] = getPlayersForMatch(row[t])
      /\ row'[t] = row[t] /\ SameElsewhere(t)
  BY <1>1 DEF TablesInv, ThreadTypes, SameElsewhere
<1>4. ASSUME row[t] \notin mixedUp
      PROVE  /\ row[t] \notin DOMAIN games
             /\ AreOfRoom(getPlayersForMatch(row[t]), room)
             /\ \A rest, filled :
                  StoredSoFar("emplace", row[t], RoomPlayers[room], rest,
                              matchPlayers, matchQuestions, filled)
  <2>1. /\ row[t] \notin DOMAIN games
        /\ StoredSoFar("insertQuestions", row[t], RoomPlayers[room], <<>>,
                       matchPlayers, matchQuestions, games[row[t]].questions)
    BY <1>1, <1>2, <1>4 DEF MatchInv, OwnMatch, OwnStages
  <2>2. AreOfRoom(getPlayersForMatch(row[t]), room)
    BY <2>1, PlayersRead DEF StoredSoFar
  <2>3. PICK selected \in Selections :
          QuestionsIn(matchQuestions, row[t], selected, Chosen - Len(<<>>))
    BY <2>1 DEF StoredSoFar
  <2>4. Chosen - Len(<<>>) = Chosen
    BY ChosenNat
  <2> QED
    BY <2>1, <2>2, <2>3, <2>4 DEF StoredSoFar
<1>5. row[t] \notin mixedUp =>
        /\ row'[t] \notin DOMAIN games'
        /\ StoredSoFar(pc'[t], row'[t], RoomPlayers[req'[t].room], todo'[t],
                       matchPlayers', matchQuestions', games'[row'[t]].questions)
        /\ OfRoom(todo'[t], req'[t].room, DOMAIN users')
  BY <1>1, <1>2, <1>3, <1>4 DEF AreOfRoom, OfRoom
<1>6. RowsOnlyOf(row[t]) /\ GamesOnlyOf(row[t])
  BY <1>1 DEF RowsOnlyOf, GamesOnlyOf
<1> QED
  BY <1>1, <1>3, <1>5, <1>6, OwnStep DEF OwnStages

LEMMA AskedQuestions ==
  ASSUME NEW selected \in Selections, NEW r \in 1 .. 3
  PROVE  /\ InRound(r) \in Nat
         /\ Asked(selected, r) \in Seq(Questions)
         /\ Len(Asked(selected, r)) = InRound(r)
         /\ DOMAIN Asked(selected, r) = 1 .. InRound(r)
         /\ \A n \in 1 .. InRound(r) :
              /\ Asked(selected, r)[n] = selected[PerRound * (r - 1) + n]
              /\ PerRound * (r - 1) + n \in 1 .. Chosen
              /\ n <= PerRound
<1>1. PICK before \in Nat : before = PerRound * (r - 1)
  <2>1. PerRound \in Nat /\ r - 1 \in Nat
    BY TablesAssumption
  <2> QED
    BY <2>1
<1>2. PICK k \in Nat : k = Chosen
  BY ChosenNat
<1>3. PICK many : /\ many = InRound(r)
                  /\ many = IF k <= before THEN 0
                            ELSE IF k - before < PerRound THEN k - before
                            ELSE PerRound
  BY <1>1, <1>2 DEF InRound
<1>4. PerRound \in Nat /\ PerRound > 0
  BY TablesAssumption
<1>5. many \in Nat /\ \A n \in 1 .. many : /\ before + n \in 1 .. k
                                           /\ n <= PerRound
  BY <1>3, <1>4
<1>6. PICK asked : /\ asked = Asked(selected, r)
                   /\ asked = [n \in 1 .. many |-> selected[before + n]]
  BY <1>1, <1>3 DEF Asked
<1>7. asked \in [1 .. many -> Questions]
  BY <1>2, <1>5, <1>6 DEF Selections
<1>8. asked \in Seq(Questions) /\ Len(asked) = many
  BY <1>5, <1>7, LenProperties
<1> QED
  BY <1>1, <1>2, <1>3, <1>5, <1>6, <1>8

LEMMA FilledMore ==
  ASSUME NEW selected \in Selections, NEW filled, Filled(filled, selected),
         NEW r \in 1 .. 3, Len(filled) + 1 = r, NEW asked,
         asked = Asked(selected, r)
  PROVE  /\ Filled(Append(filled, asked), selected)
         /\ Len(Append(filled, asked)) = r
<1>1. filled \in Seq(Seq(Questions)) /\ asked \in Seq(Questions)
  BY AskedQuestions DEF Filled
<1>2. /\ Append(filled, asked) \in Seq(Seq(Questions))
      /\ Len(filled) \in Nat
      /\ Len(Append(filled, asked)) = Len(filled) + 1
      /\ \A i \in 1 .. Len(filled) : Append(filled, asked)[i] = filled[i]
      /\ Append(filled, asked)[Len(filled) + 1] = asked
  <2> DEFINE S == Seq(Questions)
  <2>1. filled \in Seq(S) /\ asked \in S
    BY <1>1
  <2> HIDE DEF S
  <2>2. /\ Append(filled, asked) \in Seq(S)
        /\ Len(filled) \in Nat /\ DOMAIN filled = 1 .. Len(filled)
        /\ Len(Append(filled, asked)) = Len(filled) + 1
        /\ \A i \in DOMAIN filled : Append(filled, asked)[i] = filled[i]
        /\ Append(filled, asked)[Len(filled) + 1] = asked
    BY <2>1, RowAdded, LenProperties
  <2> QED
    BY <2>2 DEF S
<1>3. ASSUME NEW i \in 1 .. Len(filled) + 1
      PROVE  Append(filled, asked)[i] = Asked(selected, i)
  <2>1. CASE i = Len(filled) + 1
    BY <2>1, <1>2
  <2>2. CASE i \in 1 .. Len(filled)
    BY <2>2, <1>2 DEF Filled
  <2> QED
    BY <2>1, <2>2, <1>2
<1> QED
  BY <1>2, <1>3 DEF Filled

LEMMA AddedOnce ==
  ASSUME NEW s, IsSequence(s), NEW one, NEW other,
         Append(s, one) = Append(s, other)
  PROVE  one = other
<1>1. PICK longer : longer = Append(s, one)
  OBVIOUS
<1>2. PICK last : /\ DOMAIN longer = DOMAIN s \cup {last} /\ last \notin DOMAIN s
                  /\ longer[last] = one
  BY <1>1, AnswerAdded
<1>3. PICK end : /\ DOMAIN longer = DOMAIN s \cup {end} /\ end \notin DOMAIN s
                 /\ longer[end] = other
  BY <1>1, AnswerAdded
<1> QED
  BY <1>2, <1>3

LEMMA EmplaceKeeps ==
  ASSUME TablesInv, MatchInv, NEW t \in Threads, Emplace(t)
  PROVE  MatchInv'
<1>1. PICK m \in Nat : m = row[t]
  BY DEF TablesInv, ThreadTypes
<1>2. /\ pc[t] = "emplace"
      /\ UNCHANGED <<users, matches, matchPlayers, matchQuestions, mixedUp>>
  BY DEF Emplace, GameStart, dbVars, historyVars
<1>3. RowsOnlyOf(m)
  BY <1>2 DEF RowsOnlyOf
<1>4. CASE m \in DOMAIN games
  <2>1. m \in mixedUp
    BY <1>1, <1>2, <1>4 DEF MatchInv, OwnMatch, OwnStages
  <2>2. /\ games' = games
        /\ started' = Append(started, [room |-> req[t].room, game |-> m,
                                       players |-> todo[t]])
        /\ Answer(t)
    BY <1>1, <1>4 DEF Emplace, GameStart
  <2>3. GamesOnlyOf(m) /\ AnswersOnlyOf(m)
    <3>1. PICK e : e = [room |-> req[t].room, game |-> m, players |-> todo[t]]
      OBVIOUS
    <3>2. e.game = m /\ started' = Append(started, e)
      BY <2>2, <3>1
    <3> QED
      BY <2>2, <3>2 DEF GamesOnlyOf, AnswersOnlyOf
  <2>4. pc'[t] \notin OwnStages /\ SameElsewhere(t)
    BY <2>2 DEF Answer, Goto, TablesInv, ThreadTypes, OwnStages, SameElsewhere
  <2>5. StepOf(t, m)
    BY <1>1, <1>2, <1>3, <2>3, <2>4 DEF StepOf, OwnStages
  <2>6. OwnMatch(t)'
    BY <2>4 DEF OwnMatch
  <2> QED
    BY <1>2, <2>1, <2>5, <2>6, StepKeeps
<1>5. CASE m \notin DOMAIN games
  <2>1. PICK game : game = [players |-> <<>>, questions |-> <<>>]
    OBVIOUS
  <2>2. /\ games' = [k \in DOMAIN games \cup {m} |->
                       IF k = m THEN game ELSE games[k]]
        /\ pc' = [pc EXCEPT ![t] = "fillGame"]
        /\ UNCHANGED <<req, row, todo, started>>
    BY <1>1, <1>5, <2>1 DEF Emplace, Goto, historyVars
  <2>3. GamesOnlyOf(m) /\ m \in DOMAIN games' /\ games'[m].questions = <<>>
    BY <2>1, <2>2 DEF GamesOnlyOf
  <2>4. pc'[t] = "fillGame" /\ row'[t] = m /\ SameElsewhere(t)
    BY <1>1, <2>2 DEF TablesInv, ThreadTypes, SameElsewhere
  <2>5. ASSUME m \notin mixedUp
        PROVE  /\ StoredSoFar("fillGame", m, RoomPlayers[req[t].room], todo[t],
                              matchPlayers, matchQuestions, <<>>)
               /\ OfRoom(todo[t], req[t].room, DOMAIN users)
    <3>1. /\ StoredSoFar("emplace", m, RoomPlayers[req[t].room], todo[t],
                         matchPlayers, matchQuestions, games[m].questions)
          /\ OfRoom(todo[t], req[t].room, DOMAIN users)
      BY <1>1, <1>2, <2>5 DEF MatchInv, OwnMatch, OwnStages
    <3>2. PICK selected \in Selections :
            QuestionsIn(matchQuestions, m, selected, Chosen)
      BY <3>1 DEF StoredSoFar
    <3>3. Filled(<<>>, selected) /\ Len(<<>>) < 3
      BY EmptySeq DEF Filled
    <3> QED
      BY <3>1, <3>2, <3>3 DEF StoredSoFar
  <2>6. m \notin mixedUp =>
          /\ StoredSoFar(pc'[t], row'[t], RoomPlayers[req'[t].room], todo'[t],
                         matchPlayers', matchQuestions',
                         games'[row'[t]].questions)
          /\ OfRoom(todo'[t], req'[t].room, DOMAIN users')
    BY <1>2, <2>2, <2>3, <2>4, <2>5
  <2> QED
    BY <1>1, <1>2, <1>3, <2>2, <2>3, <2>4, <2>6, OwnStep DEF OwnStages
<1> QED
  BY <1>4, <1>5

LEMMA FillGameKeeps ==
  ASSUME TablesInv, MatchInv, NEW t \in Threads, FillGame(t)
  PROVE  MatchInv'
<1>1. PICK m \in Nat : m = row[t]
  BY DEF TablesInv, ThreadTypes
<1>2. PICK filled, asked :
        /\ filled = games[m].questions
        /\ asked = getQuestionsForMatch(m, Len(filled) + 1)
  OBVIOUS
<1>3. PICK game : game = [players |-> todo[t],
                          questions |-> Append(filled, asked)]
  OBVIOUS
<1>4. /\ pc[t] = "fillGame"
      /\ games' = [games EXCEPT ![m] = game]
      /\ UNCHANGED <<users, matches, matchPlayers, matchQuestions, mixedUp>>
      /\ IF Len(filled) + 1 = 3 THEN GameStart(t)
                                ELSE UNCHANGED <<pc, req, row, todo, started>>
  BY <1>1, <1>2, <1>3
     DEF FillGame, GameStart, dbVars, threadVars, historyVars
<1>5. RowsOnlyOf(m) /\ GamesOnlyOf(m)
  BY <1>4 DEF RowsOnlyOf, GamesOnlyOf
<1>6. ASSUME m \notin mixedUp
      PROVE  /\ m \in DOMAIN games' /\ games'[m] = game
             /\ OfRoom(todo[t], req[t].room, DOMAIN users)
             /\ \E selected \in Selections :
                  /\ QuestionsIn(matchQuestions, m, selected, Chosen)
                  /\ Filled(game.questions, selected)
             /\ Len(game.questions) = Len(filled) + 1
             /\ Len(filled) + 1 \in 1 .. 3
  <2>1. /\ m \in DOMAIN games
        /\ StoredSoFar("fillGame", m, RoomPlayers[req[t].room], todo[t],
                       matchPlayers, matchQuestions, filled)
        /\ OfRoom(todo[t], req[t].room, DOMAIN users)
    BY <1>1, <1>2, <1>4, <1>6 DEF MatchInv, OwnMatch, OwnStages
  <2>2. PICK selected \in Selections :
          /\ QuestionsIn(matchQuestions, m, selected, Chosen)
          /\ Filled(filled, selected)
          /\ Len(filled) < 3
    BY <2>1 DEF StoredSoFar
  <2>3. Len(filled) + 1 \in 1 .. 3
    BY <2>2, LenProperties DEF Filled
  <2>4. PICK r \in 1 .. 3 : r = Len(filled) + 1
    BY <2>3
  <2>5. asked = Asked(selected, r)
    BY <1>2, <2>2, <2>4, QuestionsRead
  <2>6. /\ Filled(Append(filled, asked), selected)
        /\ Len(Append(filled, asked)) = r
    BY <2>2, <2>4, <2>5, FilledMore
  <2> QED
    BY <1>3, <1>4, <2>1, <2>2, <2>4, <2>6
<1>7. CASE Len(filled) + 1 = 3
  <2>1. PICK answer : answer = [room |-> req[t].room, game |-> m,
                                players |-> todo[t]]
    OBVIOUS
  <2>2. Answer(t) /\ started' = Append(started, answer) /\ answer.game = m
    BY <1>1, <1>4, <1>7, <2>1 DEF GameStart
  <2>3. pc'[t] \notin OwnStages /\ SameElsewhere(t)
    BY <2>2 DEF Answer, Goto, TablesInv, ThreadTypes, OwnStages, SameElsewhere
  <2>4. StepOf(t, m)
    BY <1>1, <1>4, <1>5, <2>2, <2>3 DEF StepOf, AnswersOnlyOf, OwnStages
  <2>5. OwnMatch(t)'
    BY <2>3 DEF OwnMatch
  <2>6. ASSUME NEW e, started' = Append(started, e), m \notin mixedUp'
        PROVE  m \in DOMAIN games' /\ IsFilled(e, games'[m], DOMAIN users')
    <3>1. PICK old : old = started /\ IsSequence(old)
      BY DEF MatchInv, GamesFit
    <3>2. PICK one : one = e
      OBVIOUS
    <3>3. one = answer
      <4>1. Append(old, one) = Append(old, answer)
        BY <2>2, <2>6, <3>1, <3>2
      <4>2. IsSequence(old)
        BY <3>1
      <4> QED
        BY ONLY <4>1, <4>2, AddedOnce
    <3>4. IsFilled(answer, game, DOMAIN users)
      BY <1>3, <1>4, <1>6, <1>7, <2>1, <2>6 DEF IsFilled
    <3> QED
      BY <1>4, <1>6, <2>6, <3>2, <3>3, <3>4
  <2> QED
    BY <2>4, <2>5, <2>6, StepKeeps
<1>8. CASE Len(filled) + 1 # 3
  <2>1. UNCHANGED <<pc, req, row, todo, started>>
    BY <1>4, <1>8
  <2>2. SameElsewhere(t)
    BY <2>1 DEF SameElsewhere
  <2>3. ASSUME m \notin mixedUp
        PROVE  /\ m \in DOMAIN games'
               /\ StoredSoFar(pc[t], m, RoomPlayers[req[t].room], todo[t],
                              matchPlayers, matchQuestions, games'[m].questions)
               /\ OfRoom(todo[t], req[t].room, DOMAIN users)
    <3>1. Len(game.questions) < 3
      BY <1>6, <1>8, <2>3
    <3> QED
      BY <1>4, <1>6, <2>3, <3>1 DEF StoredSoFar
  <2>4. m \notin mixedUp =>
          /\ m \in DOMAIN games'
          /\ StoredSoFar(pc'[t], row'[t], RoomPlayers[req'[t].room], todo'[t],
                         matchPlayers', matchQuestions',
                         games'[row'[t]].questions)
          /\ OfRoom(todo'[t], req'[t].room, DOMAIN users')
    BY <1>1, <1>4, <2>1, <2>3
  <2> QED
    BY <1>1, <1>4, <1>5, <2>1, <2>2, <2>4, OwnStep DEF OwnStages
<1> QED
  BY <1>7, <1>8

LEMMA MatchesInit == Init => MatchInv
<1> SUFFICES ASSUME Init PROVE MatchInv
  OBVIOUS
<1>1. GamesFit
  BY EmptySeq DEF Init, GamesFit, IsSequence
<1>2. \A t \in Threads : OwnMatch(t)
  BY DEF Init, OwnMatch, OwnStages
<1> QED
  BY <1>1, <1>2 DEF MatchInv

LEMMA MatchesStep == TablesInv /\ MatchInv /\ [Next]_vars => MatchInv'
<1> SUFFICES ASSUME TablesInv, MatchInv, [Next]_vars PROVE MatchInv'
  OBVIOUS
<1>1. CASE UNCHANGED vars
  <2>1. UNCHANGED <<users, matches, matchPlayers, matchQuestions, games,
                    started, mixedUp, pc, req, row, todo>>
    BY <1>1 DEF vars, dbVars, threadVars, historyVars
  <2>2. \A t \in Threads : OwnMatch(t)'
    BY <2>1 DEF MatchInv, OwnMatch
  <2>3. GamesFit'
    BY <2>1 DEF MatchInv, GamesFit
  <2> QED
    BY <2>2, <2>3 DEF MatchInv
<1>2. CASE Next
  BY <1>2, AccountStepKeepsMatches, InsertMatchKeeps, LastMatchRowKeeps,
     InsertPlayerKeeps, SelectQuestionsKeeps, InsertQuestionKeeps,
     GetPlayersKeeps, EmplaceKeeps, FillGameKeeps DEF Next, Match
<1> QED
  BY <1>1, <1>2

(* No two questions of a game that is filled are the same.                 *)
LEMMA AskedOnce ==
  ASSUME NEW selected \in Selections, NEW q \in 1 .. 3, NEW r \in 1 .. 3,
         NEW a \in 1 .. InRound(q), NEW b \in 1 .. InRound(r),
         Asked(selected, q)[a] = Asked(selected, r)[b]
  PROVE  q = r /\ a = b
<1>1. PICK x \in 1 .. Chosen, y \in 1 .. Chosen :
        /\ x = PerRound * (q - 1) + a
        /\ y = PerRound * (r - 1) + b
  BY AskedQuestions
<1>2. selected[x] = selected[y]
  BY <1>1, AskedQuestions
<1>3. PerRound * (q - 1) + a = PerRound * (r - 1) + b
  BY <1>1, <1>2 DEF Selections
<1>4. /\ PerRound \in Nat /\ PerRound > 0
      /\ a \in 1 .. PerRound /\ b \in 1 .. PerRound
  BY AskedQuestions, TablesAssumption
<1>5. /\ PerRound * (1 - 1) = 0 /\ PerRound * (2 - 1) = PerRound
      /\ PerRound * (3 - 1) = PerRound + PerRound
  BY <1>4
<1>6. q \in {1, 2, 3} /\ r \in {1, 2, 3}
  OBVIOUS
<1> QED
  BY <1>3, <1>4, <1>5, <1>6

(* Every GAME_START about a match whose id no thread has mixed up is about *)
(* a game of its own, which has exactly the players of the room who have   *)
(* accounts, in the order they joined in, and no question twice            *)
(* (GameService::startMatch, MatchDAO::createMatch), however the INSERTs   *)
(* of many threads alternate on the one connection and whatever else they  *)
(* have mixed up.                                                          *)
THEOREM MatchesAreTheirRooms == Spec => []MatchIsItsRoom
<1>1. MatchInv => MatchIsItsRoom
  <2> SUFFICES ASSUME GamesFit, NEW i \in DOMAIN started,
                      started[i].game \notin mixedUp
               PROVE  IsItsRoom(i)
    BY DEF MatchInv, MatchIsItsRoom
  <2>1. PICK s, game : s = started[i] /\ game = games[s.game]
    OBVIOUS
  <2>2. /\ \A j \in DOMAIN started : i # j => s.game # started[j].game
        /\ IsFilled(s, game, DOMAIN users)
    BY <2>1 DEF GamesFit
  <2>3. PICK selected \in Selections : Filled(game.questions, selected)
    BY <2>2 DEF IsFilled
  <2>4. /\ AreOfRoom(s.players, s.room)
        /\ game.players = s.players
        /\ Len(game.questions) = 3
    BY <2>2 DEF IsFilled, OfRoom, AreOfRoom
  <2>5. \A r \in 1 .. 3 : game.questions[r] = Asked(selected, r)
    BY <2>3, <2>4 DEF Filled
  <2> DEFINE asked == {a \in (1 .. 3) \X (1 .. Chosen) :
                         a[2] \in DOMAIN game.questions[a[1]]}
  <2>6. ASSUME NEW a \in asked, NEW b \in asked,
               game.questions[a[1]][a[2]] = game.questions[b[1]][b[2]]
        PROVE  a = b
    <3>1. ASSUME NEW c \in asked
          PROVE  /\ c[1] \in 1 .. 3 /\ c[2] \in 1 .. InRound(c[1])
                 /\ c = <<c[1], c[2]>>
      <4>1. /\ c \in (1 .. 3) \X (1 .. Chosen)
            /\ c[2] \in DOMAIN game.questions[c[1]]
        OBVIOUS
      <4>2. c[1] \in 1 .. 3 /\ c = <<c[1], c[2]>>
        BY <4>1
      <4>3. DOMAIN game.questions[c[1]] = 1 .. InRound(c[1])
        BY <4>2, <2>5, AskedQuestions
      <4> QED
        BY <4>1, <4>2, <4>3
    <3>2. /\ a[1] \in 1 .. 3 /\ a[2] \in 1 .. InRound(a[1])
          /\ b[1] \in 1 .. 3 /\ b[2] \in 1 .. InRound(b[1])
          /\ a = <<a[1], a[2]>> /\ b = <<b[1], b[2]>>
      BY <3>1
    <3>3. Asked(selected, a[1])[a[2]] = Asked(selected, b[1])[b[2]]
      BY <3>2, <2>5, <2>6
    <3>4. a[1] = b[1] /\ a[2] = b[2]
      BY <3>2, <3>3, AskedOnce
    <3> QED
      BY <3>2, <3>4
  <2>7. \A r \in 1 .. 3 : Len(game.questions[r]) = InRound(r)
    BY <2>5, AskedQuestions
  <2> QED
    BY <2>1, <2>2, <2>4, <2>6, <2>7 DEF IsItsRoom
<1> QED
  BY <1>1, TablesInit, TablesStep, MatchesInit, MatchesStep, PTL DEF Spec
=============================================================================
