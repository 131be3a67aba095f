# Formal models of the VuaTiengViet game server

VuaTiengViet is a quiz game: a C++ server (`server/`) with a SQLite database and
a console client (`client/`). The server runs one detached thread per
connection, plus one timer thread per request for a rematch. This directory
holds TLA+ models of the parts of the server that keep state, the TLC
configurations that check them, and proofs that TLAPS checks.

Paths below are relative to the root of the repository, `src/server/` being
written as `server/`.

## 1. Inventory

| Component | State it keeps | Operations | Hard behaviour |
|---|---|---|---|
| Connections: `core/Server`, `core/ClientHandler` | `clients`, `user_map` (under `clients_mutex`), per handler `user_id` | accept, read a request, answer, broadcast, disconnect and clean up | cleanup of an old connection races a reconnect of its user; handlers are deleted while the map may point to them; sends block under a mutex |
| Login: `services/UserService`, `database/UserDAO` | tables `Users` (failures, lock) and `Sessions` | LOGIN, LOGOUT, REGISTER, RESET_PASSWORD | each request is up to seven statements and nothing holds them together; locks expire; rows outlive a crash |
| Friends: `services/FriendService`, `database/FriendDAO` | table `Friends` | send, accept, reject, list | check-then-insert, two-statement accept, answers to stale lists |
| Game: `services/GameService` | `gamesMap` of `GameState` | START_MATCH, ROUND1_ANSWER | look-up without a lock, then a mutex per game; rounds, ties, end of the match |
| Storing a match: `services/MatchService`, `database/MatchDAO` | tables `Match`, `MatchPlayers`, `MatchQuestions` | createMatch | many statements on one shared connection, last row id, foreign key to `Rooms` |
| Rooms: `services/RoomService` | `roomTable`, `NEXT_ROOM_ID` | CREATE_ROOM, JOIN_ROOM | id taken outside the mutex, unknown ids, double joins |
| Matchmaking: `services/MatchmakingService` | queue, `NEXT_MATCH_ID` | FIND_MATCH | double entries, users who left |
| Rematch: `services/RematchService` | who accepted, per room; sleeping timers | ask, accept, deny, timeout | asks that cross, late accepts, timers that are never cancelled |
| Wire format: `core/MassageParser.cpp`, `client/ClientSocket.h` | none | build, parse | no escaping, no framing |
| Dispatcher, Crypto, QuestionDAO, DB, models | the SQLite handle | look-ups | none of their own |
| Console client: `client/main.cpp` | its token | menus | decides which requests can arrive in which order |

How they interact: a handler's thread calls the dispatcher, which calls one
service, which calls the DAOs; back in `ClientHandler::run` the answer's command
decides whether `user_map` changes (LOGIN_OK, LOGOUT_OK) and whether it is
broadcast (rooms, rematches, matches). `FriendService::listFriends` and
`RematchService`'s timers call back into `Server`. Threads share the database
connection, the static tables of the services, and `user_map`; each has its own
mutex or none.

What would make each component correct: one session per user, and none that
nobody removes; a user is online exactly while logged in; the limit on failed
logins works under concurrency; friendships are mutual, wanted and lasting; a
question waits for its players, and a match ends with a rightful winner; a
rematch starts only by consent, and nobody waits for an answer for ever; a match is
stored for its room and nobody else's; an account keeps the password its owner
knows; requests are carried out once, in order, and answered; broadcasts reach
everybody in one order.

## 2. Modules

| Module | Models | Main correspondence |
|---|---|---|
| `UserSessions` | LOGIN, LOGOUT, the lock, connections and their cleanup | one action per SQL statement or `user_map` call; `pc[h]` is where the thread of handler `h` stands, named after the DAO call it is about to make |
| `LoginService` | what logging in promises, as an abstract specification | an account is held by one client; `UserSessions` implements it by the mapping `Taken` (who `hasActiveSession` finds), `Holds` (whose token is in which row), `Online` (the keys of `user_map`) |
| `UserSessionsProofs` | theorems about both | |
| `Friends` | the table `Friends` and its four commands | one action per statement of `FriendDAO`; `shown` is the list on a client's screen |
| `FriendsProofs` | theorems about it | |
| `Game` | one match | `EmplaceGame` and `FillGame` are what `startMatch` does with `gamesMap` once the match is stored; `FindGame` is the look-up there, `SubmitAnswer` everything under `gs.mtx`, split by outcome; `Tables` are the orders in which `std::sort` may leave the scores |
| `GameProofs` | theorems about it | |
| `Rooms` | creating and joining any rooms | `LoadNext` and `StoreNext` are the two halves of `NEXT_ROOM_ID++`, `InsertRoom` and `JoinRoom` the blocks under `room_mutex` with their answers; `roomTable` has the rooms that are there |
| `RoomsProofs` | theorems about it | |
| `Rematch` | joining one room, rematches, and the match that REMATCH_OK starts | `JoinRoom` is the block under `room_mutex`; `Ask`, `AcceptRematch`, `Deny`, `TimerFires` are the blocks under `rematch_mutex`; `GetPlayers` and `SendToUsers` the broadcast; `StartMatch` and `CreateMatch` what `run` goes on to |
| `RematchProofs` | theorems about it | |
| `SharedConnection` | REGISTER, RESET_PASSWORD, the check and the insert of LOGIN, START_MATCH | one action per SQL statement and one per `sqlite3_last_insert_rowid`; tables are sequences, `lastRow` is the row id the connection remembers, `pc[t]` the next statement of thread `t`; `Emplace` and `FillGame` put the game into `gamesMap` and fill it |
| `SharedConnectionProofs` | theorems about it | |
| `Delivery` | matchmaking, and how messages get out | `FindMatch` is the block under `queue_mutex`, `LockClients`, `SendToNext` and `Unlock` are `sendToUsers` send by send, `sendMessage` the answer to one client; `socket` is the buffer of a connection |
| `DeliveryProofs` | theorems about it | |
| `WireFormat` | `build`, `parse`, `parse_message` | operators on sequences of tokens, named after the functions and their parts |
| `Connection` | one client and the thread that serves it, over `WireFormat` | `Choose` is the menus of the client, `Serve` one turn of `run` (`readMessage`, `parse`, `handleCommand`, `build`, `sendMessage`), `Receive` is `receive_message` and the rest of the handler that called it |
| `ConnectionProofs` | theorems about it | |
| `MC*` | instances for TLC | symmetry sets, the order of players, texts, tables |

Definitions commented as "a slip for the checks" are not part of any
specification: each is an action or operator with a plausible mistake, put in
the place of the right one to see that a property notices it (`PROJECT.json`,
"mutants").

### Abstractions and premises

- **Atomic step.** SQLite is in its default serialized mode, so one prepared
  statement on the shared handle is one step; so is a block under a mutex. All
  else interleaves. SQLite errors (disk full, busy) are left out.
- **Clients** behave like `client/main.cpp`: one request at a time, LOGIN only
  without a token, LOGOUT with the token. `recv` returns one whole request, except
  in `Connection`, which is about just that. (`Delivery` also lets them send
  requests without waiting for answers; its commands are none of the console
  client's.)
- **`SharedAccounts`** says whether two clients may use one account together.
  The code knows nothing of it: it is a habit of the users (`UserTries`), and
  `RecvLogin` itself takes any LOGIN from anybody.
  Where it is FALSE a user starts on a new client only when the old client is
  gone and no LOGIN of theirs is still being served. The *cleanup* of the old
  connection may still be running: a killed client's user may be back before
  the server has noticed. Only a client killed with its LOGIN in flight has to
  be waited for. `TokenStaysValid`, `NoDanglingRegistration` and `ImplementsLogin` are
  promises to such users only; section 3 says how they fail for others.
- **Passwords** are right or wrong; with `MayMistype` FALSE only right ones come.
- **Time.** `locked_until` is kept as the time left, counted down by `Tick`.
  `lockUser` always stores a time, so `locked_until` is never NULL in a locked
  row, and the "permanent lock" branch of `isUserLocked` cannot be reached.
- **Crash** (`MayCrash`) drops all memory and all connections and keeps the
  tables; `main.cpp` and `schema.sql` clear nothing.
- **Tokens** are drawn from those in no use: the collision of two random
  256-bit tokens is left out.
- **Friends**: every account is used by one client, so a user stands for a
  thread. A restart may come at any step. Users answer the free-text prompt with
  any name, their own too. The history `strays` keeps the names that were typed
  without having been shown, because `acceptRequest` makes a friend of whoever is
  named (it inserts the reverse row without looking at the request).
- **Game** starts from a stored match; storing it is `SharedConnection`. In the
  repository as it is nothing fills the tables `Rooms` and `Questions`, and
  `Match.room_id` references `Rooms` with foreign keys on: without rows put there by
  other means `createMatch` fails and no game ever starts. Players know the state
  of the game; the code puts the next question only into the answer of the last
  player of a question.
  Everybody in the match may answer at any time and as often as they like, right or
  wrong, those who are out after round 1 too: `submitAnswer` does not ask. Only who
  is not in the match does not: the client gets `match_id` from GAME_START. (That it
  could go to the players of another match is the matter of `SharedConnection`.) For
  the same reason nobody looks the game up before GAME_START, while it is half filled.
  `std::sort` does not promise to keep the order of equal scores; for up to 16
  entries libstdc++ sorts by insertion and does keep it. `StableSize` is that number,
  and with more players a table may have its ties in any order.
  The match has no third round: the code ends it after round 2.
- **Rematch**: users are online; anybody may join, also twice, and ask, accept and deny
  at any time, in the room or not. Timers are untimed: each may fire at any time after
  its ask. Storing the match may fail or not. GAME_START goes to the players stored
  under the match id that was read; as that may be the id of another match, or of
  none (`SharedConnection` says when), they may be any users at all, and the history
  `lost` has those whose GAME_START went elsewhere.
- **SharedConnection**: the rooms, their players and the stored rooms and questions
  are constants; the instance has a room that a user has joined twice and that has an
  id of no account, an empty one and one that is not stored. Any number of clients use
  one account; a session is known by its user and its client, and a LOGOUT
  or a cleanup removes it, or all of its user. LOGIN begins at the check of the
  password: wrong ones change nothing here. A failed
  INSERT leaves the last row id as it was (SQLite). Friend requests insert on the
  same connection too; LOGIN and REGISTER stand for all inserts of other services.
  Passwords that are too short, and hashing, are left out.
- **Delivery**: all users are logged in when it starts; a room is its constant
  list of players. A socket takes `Buffer` messages before a send blocks. A send to
  a client that is gone is lost; that it may raise SIGPIPE is left out. The two
  positive answers to an accept, both broadcast, are one message.
- **WireFormat**: a text is a sequence of tokens: every character that a parser
  looks for or trims is a token of its own (`"SP"` is a space, `"SEMI"` a semicolon,
  `"NL"` a newline), any other run of characters is one.
  `LENGTH` is read by neither side and is a constant token.
- **Rooms**: `NEXT_ROOM_ID++` on a plain `int` by two threads at once is undefined;
  it is taken as what the loads and stores of the machine make of it. A client may
  join any id, also one that is created later: `createRoom` then empties that room.
- **Connection**: whether a well-formed request succeeds is a free choice (the
  other modules say when). Buffers are counted in tokens, so small that the longest
  requests and lists do not fit. A recv may end within a word (`Halved`); the two parts
  are taken for words that neither side looks for, so that half a word which happens
  to be another command or parameter is left out, and so is what a number cut short
  means, except that it is still a number. The client is that of `client/main.cpp`,
  which never sends the dispatcher's other six commands (`Others`); that none of them
  is typed or a name either is the assumption `OthersAssumption`, and with it their
  branches of `handleCommand` are never taken. No room is joined, so no broadcasts
  arrive.

## 3. Runs

| Run | Instance | Shows |
|---|---|---|
| `SharedAccounts` | 1 account, 2 devices, limit 2, lock term 1, fair threads | no session without a connection that removes it (`SessionHasOwner`), and every session drains when its clients leave (`SessionsDrain`); an account at the limit is locked or about to be (`ThresholdIsEnforced`), and gets there (`FailuresLock`); at most one failure per connection beyond the limit (`OvershootBounded`) |
| `SingleDevice` | 2 users, 3 handlers, 5 tokens, crashes | for users who go from client to client: the service is implemented (`ImplementsLogin`), no cleanup takes a newer session away (`TokenStaysValid`), `user_map` has no deleted handler (`NoDanglingRegistration`); and the rows that crashes leave do not add up with later ones (`SessionsDoNotPileUp`, which the theorem has for all users) |
| `Friends` | 3 users, 3 requests, 1 name typed that was not shown, restarts | consent, currency of lists, no lost request, lasting friendship |
| `Game` | 3 players, 4 questions, 2 per round, at most 2 right answers each, fair threads and players | bounds (`TypeOK`), waiting in round 1 (`FirstRoundWaits`); who is out passes a finalist only by points of round 2 (`FinalistsLead`), and wins only so (`WinnerIsEntitled`); the match ends (`MatchEnds`) |
| `Rooms` | 3 users, 5 requests | ids are given out again no more often than increments of `NEXT_ROOM_ID` overlapped (`ReusesAreOverlaps`); a room whose id was loaded once keeps its players (`PlacesHold`), whatever overlaps elsewhere |
| `Rematch` | 2 users, one of them in the room, 2 joins, 3 asks, fair threads | nothing but GAME_START goes outside the room (`TypeOK`); agreement is unanimous (`OkIsUnanimous`); who accepted or agreed hears what came of it (`AcceptIsAnswered`, `AgreementIsAnswered`); when joins cross everybody is told the size of the room (`EveryoneIsCounted`) |
| `SharedConnection` | 2 threads, 5 requests of which a START_MATCH counts for two, 3 names, 2 passwords, 3 rooms, 2 questions | rows refer to rows (`TypeOK`); one owner per name, and the password in force is the last one promised (`OneOwnerPerName`, `PasswordIsKnown`); a started match is that of its room if no thread mixed its id up (`MatchIsItsRoom`) |
| `Delivery` | 3 users, one may leave, 2 in the queue, 2 requests, 1 timer, buffers of 1, fair threads and readers | mutual exclusion and queue (`TypeOK`), one order of broadcasts (`SameOrder`), no message is stuck (`EveryMessageArrives`) |
| `WireFormat` | 3 requests, 1 short recv besides full buffers | of a whole text there arrives its command, what was typed up to semicolons and outer spaces, and what stands behind semicolons as parameters of its own (`RequestArrives`); it is answered in step (`AnswersMatch`); cut texts are carried out at most once and in order (`CarriedOutInOrder`), and nobody waits for good (`WaitIsServed`) |

Three runs end in a violation; each shows a disagreement between what a comment or
message of the code says and what the code does:

| Run | Property | What happens |
|---|---|---|
| `ReconnectOffline` | `LoggedInIsOnline` | the cleanup of the old connection unregisters a user who has just logged in again |
| `SecondRound` | `QuestionWaits` | answers of round 1 count for the questions of round 2 |
| `ErasedGame` | `UpdatesExistingGame` | a game is erased while another thread waits for its mutex |

Some more such disagreements have no run of their own, as a neighbouring property
says where they begin:

- rows of `Sessions` survive a crash of the server and `main.cpp` clears none, so after
  a restart their users are told "User is already logged in" (`UserService.cpp:88`)
  and have no command to remove the row. `LoginService` has this as `Restart`;
  `SessionHasOwner` is what a crash breaks;
- the timer of an agreed rematch still sends REMATCH_DENIED, as REMATCH_OK leaves the
  accepts in place (`RematchService.cpp:74` and `:116`);
- `unlockUser` may lift a lock that was set after the expired one was read
  (`UserDAO.cpp:293`);
- two friend requests that cross are both stored, although `FriendDAO.cpp:7` says
  "Check if request already exists": check and INSERT are two statements. `Friends`
  has such states, and its properties say that they do no further harm;
- two logins of one account that overlap both pass "Check for duplicate login"
  (`UserService.cpp:87`) and both get a session: `AtMostOneSession` fails at once with
  `SharedAccounts`. The cleanup of one client then removes the session of the other too
  (`ClientHandler.cpp:114`), and `TokenStaysValid` fails. What is left of the check is
  `SessionsDoNotPileUp`;
- two clients of one account can then reset its password at once: "Verify old
  password" (`UserService.cpp:178`) compares with a row read earlier, so the second
  UPDATE replaces a password that its client did not give. `PasswordIsKnown` says
  that the password in force is the last one confirmed;
- "Update status to accepted for the original request" (`FriendDAO.cpp:20`): there
  need be none. A name typed that was not shown makes a friend of somebody who never
  asked; that is the last case of `FriendshipIsConsented`;
- "select top 2 for next round (or 1 if round 2 -> winner)" (`GameService.cpp:130`):
  the winner need not be one of the two. A player who was out may go on answering,
  score and win; that is `late` in `WinnerIsEntitled`;
- "check if all active players answered" (`GameService.cpp:110`): a user who joined the
  room twice is in the list of players twice and in the set of answers once, so round
  1 waits for ever. `FirstRoundWaits` holds of such matches too, `MatchEnds` does not;
- "validate user in room" (`RematchService.cpp:60`) comes after the user was added to
  the accepts (line 56). An outsider's accept stays there, counts if the outsider
  joins, and makes a timer send REMATCH_DENIED. `OkIsUnanimous` holds all the same, as
  the outsider did accept;
- with two devices on one account, `user_map` can keep a pointer to a deleted
  handler: `NoDanglingRegistration` fails when `SharedAccounts` is TRUE and there are
  two users (a LOGOUT whose row another device's cleanup has removed comes back
  without `cleanup_user_map`, and the connection goes on as another user);
- a row id read after another thread's INSERT (`MatchDAO.cpp:20`) stores players and
  questions under another match, or under none. GAME_START then tells players of a
  match that is not "players list" of their room (`GameService.cpp:156`). `mixedUp` has
  the ids of these matches, and `MatchIsItsRoom` says that no others are touched;
- two increments of `NEXT_ROOM_ID` (`RoomService.cpp:11`) that overlap give one id to two
  creators, and the second insert empties the room; `ReusesAreOverlaps` says how often,
  and `PlacesHold` whose places are safe.

### Why the bounds are enough

- *Accounts and devices.* Threads meet only over the rows of one user, so one
  account with two devices has every race of two logins, and of a login with a
  cleanup; the theorems of section 4 say that more devices add nothing to the
  invariants. Two users are needed where a connection logs in as another user after
  its logout (`SingleDevice`). Handlers are reused after deletion, as addresses are.
- *Limit 2 and term 1* reach: below, at and beyond the limit, lock, expiry and
  unlock, and a second lock. The failures themselves are bounded by the model:
  that is `OvershootBounded`.
- *Tokens*: one per device; five in `SingleDevice`, where crashes leave rows.
- *Friends*: a pair has both directions, the third user is a bystander who is
  asked at the same time. `MaxAsked` and `MaxStrays` bound the histories: three pairs
  may have asked, and one name may be typed that was not shown, at any moment.
- *Game*: the order 2, 1, 3 of players differs from that of the user ids, ties
  occur at the cut and at the end. Two questions per round make "next question",
  "end of round" and "end of match" different steps. `MaxScore` lets a player who is
  out overtake both finalists. Ties in any order (more players than `StableSize`)
  are left to the theorems.
- *Rematch*: three asks (`MaxAsks`) may cross, and their timers fire in any order. With
  two joins (`MaxJoins`) one user is outside first and may join twice, or the
  one inside once more.
- *SharedConnection*: two threads suffice for any two statements of different
  requests to interleave. `MatchCost` makes a START_MATCH, with its many statements,
  count for two of the `MaxRequests`: five let two clients log in to one account and
  reset its password twice, or two matches be stored while somebody registers, or
  one while somebody registers, logs in and resets. One question per round, and
  one question too few, make "next round" and "no question left" happen.
- *Delivery*: with two users in the queue each request completes a match or starts
  the next queue, the same user may be in a match twice, and the one who leaves is
  in the queue and in the room. A buffer of one blocks as soon as a client does not
  read.
- *WireFormat*: one recv that returns less than it could, at every place of the
  text, besides those that are full; the two requests after it show what becomes of
  the rest. One typed text has an equals sign in it and a space in front, the other a
  semicolon with what reads as the parameter `password` behind it.

- *Rooms*: three clients and five requests reach three creators whose increments
  overlap, a store so late that it sets the counter back over ids given out since, and
  joins before and after the insert.

Symmetry is used in safety runs only. Deadlock is checked except in `Game`,
`Rematch`, `Rooms`, `SharedConnection`, `Delivery` and `WireFormat`: a match ends, a
room may fall silent, and the requests of the other four are bounded.

### Fairness

Threads of the server get weak fairness: the operating system schedules them,
they never wait for their own client except in `recv`, and their statements do
not wait for each other for ever. Where they may (`Delivery`) the wait is part of the
action's guard, so weak fairness promises nothing while a mutex is held or a buffer
is full; `EveryMessageArrives` then rests on clients that read (`Read` is fair there,
for those who are connected) and on every mutex being given back. Timer threads are threads. Clients get none, so
that users may stop at any time; the exception is `Game`'s players, who answer,
because `MatchEnds` is about matches whose active players do (no timeout in the
code ends a question). `Tick`, `Crash` and new requests are never forced.
`SharedConnection` and `WireFormat` check safety only and state no fairness;
`WaitIsServed` is the invariant form of a liveness property.

## 4. Proofs

`UserSessionsProofs` proves, for any sets of users, handlers and tokens, any
limit and any lock term:

- `TypeCorrect`: `Spec => []TypeOK`. `TypeOK` alone is not inductive: stages of a
  login use `req[h]` as a user, so `TypeInv` adds `LoginHasUser`. The bound of
  `lockLeft` comes from `lockUser` being the only statement that sets a time.
- `SessionsOwned`: `Spec => []SessionHasOwner` if the server does not crash. On
  top of the types it uses that a session is removed only together with, or
  before, the stage of its owner moves on: each action either keeps every owner
  at one of the owning stages or removes the rows of its user.
- `LimitEnforced`: `Spec => []ThresholdIsEnforced` if the server does not crash.
  Each failure is counted by a thread that reads the count afterwards; resets
  and unlocks only lower it, so the last thread to count cannot miss the limit.

Both are inductive relative to `TypeInv`. `NextTyped`, `NextOwned` and
`NextEnforced` have one step per action; the temporal steps are PTL.

Two more theorems have no premise at all and count threads, in finite sets that
`FiniteSetTheorems` compares:

- `OvershootIsBounded`: at most one failure per connection is counted beyond the
  limit. The threads that have passed the check of the lock and not yet counted
  their failure, and the failures counted, have a sum that never grows once the
  account is at its limit.
- `SessionsBounded` (`SessionsDoNotPileUp`), with any use of accounts and crashes
  anywhere: the sessions of a user and the threads about to create one (`Creating`)
  are together no more than the connections. `hasActiveSession` lets a login pass
  only when the user has no row; `createSession` trades a thread for a row; every
  other step only takes away (`PileShrinks`). So logins that cross may all succeed,
  but a row that a crash left behind keeps all later ones out.

The second half of the module proves what else the run `SingleDevice` checks, for any number of
accounts, connections and tokens and with crashes at any step, on the premise that
an account is used on one client at a time (`SharedAccounts` = FALSE, a habit of the
users that `UserTries` describes; with it TRUE they fail, see section 3):

- `TokensStay` (`TokenStaysValid`) and `NobodyDangles` (`NoDanglingRegistration`);
- `LoginImplemented` (`ImplementsLogin`): `UserSessions` implements `LoginService`.
  Initial states map to initial states, and each step maps to the step of the same
  name (`createSession` to a login, `deleteSession` and the cleanup's DELETE to
  leaving, the two calls on `user_map` to appearing and vanishing, `Crash` to a
  restart) or to a stutter.

All three follow from one inductive invariant, `SingleInv`. The argument: no two
LOGINs of a user are served at a time (`LoginsDiffer`), so the row that
`hasActiveSession` did not find is not there at `createSession` either, and the
row created stays until its own thread removes it (`RowsStay`). For the cleanup,
which removes *all* rows of its user, this needs that there is only one
(`AtMostOneSession`, a part of `SingleInv`) and that
tokens differ (`TokensDiffer`): another client logged in as the same user would
have the same row, hence the same token, hence be the same client. A logout then
always finds its user (`LogoutKnowsUser`), so a thread without a token knows no
user (`Anonymous`), and `user_map` points only to handlers of the user
(`MapMatches`), who unregister before they are deleted.

`FriendsProofs` proves, for any set of users, every property that the run
`Friends` checks, whatever names are typed. Its
properties are about an order of events, and none of them is inductive. The
invariant `IInv` adds to `TypeOK` and `ShownIsCurrent`:

- `NobodyAlone`: nobody has a request to themselves, and a thread inside a command
  has a user as its target, another one if it sends a request;
- `RowsAreWanted`: each row of the table has the request, or the request and its
  acceptance, behind it, or an accept of a name that was not shown (`Unseen`); so has
  the reverse row that a thread is about to insert;
- `InsertIsClear`: while a thread is between the check of `sendRequest` and its
  INSERT, its user has no row with the other one, except perhaps a request that
  crosses, or what an unseen accept inserts. This is what makes check-then-insert
  harmless for friendships;
- `CrossedRequests`: while both of two crossing requests wait the users are not
  friends, and once one has been accepted, what remains of the other is a request
  between users who are friends in both directions. This holds of a pair until one
  of the two answers the other unseen (`Strayed`).

What a statement does to the table is stated once per statement
(`InsertRequestEffect`, `InsertReverseEffect`, `AcceptRequestEffect`,
`RejectRequestEffect`) in terms of `Pend(a, b)` and `Acc(a, b)`: a request of `a`
to `b` waits, or is accepted. The invariance proof and `TableSteps`, from which
the three action properties follow, use only those four facts.

`RematchProofs` proves, for any set of users and any bounds on joins and asks,
`RoomCorrect` (`Spec => []TypeOK`: nobody outside the room waits, has agreed, or is
sent anything but a GAME_START) and `OkUnanimous` (`Spec => OkIsUnanimous`). The
invariant behind the second is `AcceptsAreCurrent`: whoever is in the set of accepts, from
inside the room or outside, has accepted since the last ask or denial. `OkNeedsAll`
shows that only an accept which found the set full leads to REMATCH_OK.

It also has `EveryoneCounted` (`EveryoneIsCounted`), for any finite set of
users. The number sent is the length of the list of players, double joins counted
twice (`size`). While a player has not been told of it, some ROOM_UPDATE with that
number is still to be sent to them (`CountIsUnderWay`), because a thread reads whom
to send to only after its own user has joined; and no number is larger
(`CountsAreBounded`).

`GameProofs` proves every safety property of the run `Game`, for any players in any
order of joining, any number of questions and any size of a round:

- `GameTyped` (`TypeOK`, with the index of the question within its round) and
  `FirstRoundComplete` (`FirstRoundWaits`) follow from one inductive invariant,
  `GameInv`. Its heart is `CountIsCurrent`: in round 1 the answers counted for the
  open question are those of users who have given one to it, and later questions
  have none yet. `submitAnswer` compares a number of answers with a number
  of players; that the two being equal means that everybody has answered is
  `FirstRoundCounts`, by the cardinality of subsets.
- `FinalistsStayAhead` (`FinalistsLead`) and `WinnersAreEntitled`
  (`WinnerIsEntitled`), with everybody answering as they like, also those who are
  out. They follow from `FinalInv` and from what the sort yields: a table lists
  everybody, in any order that puts nobody behind whom they should be ahead of
  (`Tables`, `TableListed`), so nobody else is ahead of its first two (`Finalists`) or
  of its first (`First`). Who is ahead stays ahead of all who do not score
  (`LeadKept`); hence a winner who neither was a finalist nor scored afterwards ties
  with a finalist, and by `Ahead` only in a table longer than `StableSize`
  (`EntitledWinner`).

`SharedConnectionProofs` proves, for any threads, names, rooms, questions and number
of requests:

- `RowsReferToRows` (`TypeOK`), from `TablesInv`: a thread serves a request of the kind
  its stage belongs to, and the questions it has still to insert are stored ones
  (`StageFits`); the players need not have accounts. Nothing in it depends on reading the right row id.
- `OneOwner` (`OneOwnerPerName`) and `PasswordsKnown` (`PasswordIsKnown`), from
  `AccountInv` on top of it, with any number of clients on one account. Names differ
  by the unique index (`NamesDiffer`). An account
  whose client has not been told of it is being created by one thread only, and has the
  password of its REGISTER or, if somebody else has logged in and reset it already,
  that of the last RESET_PASSWORD_OK (`NewAccount`, `OwnersAreStored`).

- `MatchesAreTheirRooms` (`MatchIsItsRoom`), from `MatchInv`, on top of `TablesInv`. It
  speaks of one match at a time, so that it stays true while other ids are mixed up. A
  thread in `createMatch` or `startMatch` whose id nobody mixed up has a match that no
  other thread works on and no GAME_START was about (`OwnMatch`), and what is stored
  for it is what its loops have inserted so far (`StoredSoFar`): the players of the
  room up to the one that is next, without some who had no account (`PlayersIn`,
  `Picks`), and the chosen questions likewise (`QuestionsIn`). `GamesFit` says the
  same of the games that GAME_STARTs were about. A step of a thread touches the rows
  and the game of its own row id only (`StepOf`), so that the other threads keep
  theirs (`OthersKeepTheirs`). What is read back is what was inserted: where the
  column of an ORDER BY grows along the rows, `Ordered` gives them in the order they
  were inserted in (`OrderedAlong`, `PlayersRead`, `QuestionsRead`), and the order
  number tells the round (`RoundOf`).

`DeliveryProofs` proves, for any users, rooms, first queues, buffers and numbers of
requests and firings:

- `DeliveryTyped` (`TypeOK`), from `Typed`, `AllMade` and `Owing`: who sends to many holds
  `clients_mutex`, a thread's message fits the stage it is at, and what lies in a
  socket is owed to its client.
- `OrderIsSame` (`SameOrder`), from `Ranked`: the broadcasts can be ranked such that what a
  client has read, followed by what lies in its socket, is in the order of the ranks. A
  message gets the next rank when its thread takes `clients_mutex`; as long as the
  thread holds it, nothing of a higher rank is sent to anybody, however long a full
  buffer keeps it waiting (`RankOfThreads`). That no two threads carry the same
  broadcast, so that no message is ranked twice, is the last part of `AllMade`; each
  is made once: a match id is given out under `queue_mutex`, and a firing of the timer
  sends one message.

`RoomsProofs` proves `ReusesCounted` (`ReusesAreOverlaps`) and `JoinersKeepTheirPlaces`
(`PlacesHold`) for any clients and number of requests, whatever increments of
`NEXT_ROOM_ID` overlap. A store that comes late sets the counter back, and every id from
there on that has been loaded (`From`, `Many`) is a reuse still to come; `Counted`
says that the overlaps so far pay for the reuses there were and for those, but for one
that the pending store is about to undo. An id loaded once is in one place only, in
one thread or in one created room (`IdsDrawn`), so no other insert meets that room and
nobody's place in it is lost.

`ConnectionProofs` proves, for any texts, buffers, and numbers of requests and of short
recvs:

- `WaitingIsServed` (`WaitIsServed`), from `Streams`: what is in the streams consists of
  `Words` (what `build` puts into a message, names of parameters, what the server says,
  what users type) and, on the way to the server, of `Commands`. That `parse` makes no
  token that was not in the text, and so that the client's token is a text again, goes
  through all operators of `WireFormat` (`ParseTyped`, `BuildTyped`). `Join` is defined by
  recursion over the pieces; that it is defined, and what it yields, is shown by the
  least number of pieces for which it would fail (`LeastNat`, `JoinSteps`).
- `CarriedInOrder` (`CarriedOutInOrder`), from `OrderInv`, on the premise
  `NoCommandTyped`: no text typed, and no name, has the name of a command among its
  tokens. Then the text of a request has its command in one place (`CommandPlace`), and
  a command that the server carries out was in the piece its recv took
  (`KnownWasSent`). The invariant is `Following`: the commands still in the stream are,
  in order, those of requests behind all that were carried out. Without the premise
  the property fails: if a recv ends before and the next after a password `LOGIN`, the
  server takes the password for a command of the old format.
- `RequestsArrive` (`RequestArrives`) and `AnswersMatchRequests` (`AnswersMatch`), from
  `TurnsInv`: as long as nothing is cut, the two take turns. While the client waits,
  either the whole text of its request is in the stream to the server, or the whole
  text of the answer is in the stream back; otherwise both are empty (`Turns`). A recv
  then takes a whole text (`TookAll`), so both theorems rest on what `parse` and
  `parse_message` make of the text of `build`. `Split` picks its ends from a set with
  CHOOSE; lemmas describe it once by the places between which its pieces lie (`Ends`,
  `Between`). The text of `build` has
  its lines at known places (`Laid`), so its head and its body are found (`HeadRead`,
  `CommandRead`, `BodyRead`). Each field of the body is a piece of its own, except that
  a value with semicolons goes on in pieces that set no parameter; this gives
  `MessageRead`. The answer, whose texts have no semicolons, comes back unchanged.

  `RequestArrives` is exact: what arrives are the parameters sent and those that stand
  behind a semicolon in some value (`Inserted`), and no others; and each parameter not
  among the latter arrives up to its first semicolon, trimmed. `RestOf` parts a value
  at that semicolon, and `BodyRead` says what `parse` reads from both parts (`KeptHas`,
  `NothingRead`).

  The premise is `PlainlyTyped`. A typed text is one line (`getline`) of any tokens, names of
  parameters and semicolons among them. Names have no semicolon and no spaces around
  them, because the server got them from `parse`. `KeyOrder`, the order of `std::map`,
  lists every name of a parameter. The run checks the same with a text that has
  `;password=` in it.

Model-checked only: liveness (`SessionsDrain`, `FailuresLock`, `AcceptIsAnswered`,
`AgreementIsAnswered`, `MatchEnds`, `EveryMessageArrives`), which the provers cannot
show, and what the runs that expect a violation show.

## 5. Plan

All components of section 1 that keep state have a model. What is left, the most
useful first:

1. *Several rooms*: the broadcasts and the rematches of `Rematch` for the many rooms
   of `Rooms`, with joins of more than one room by one user.
2. *One composition* of `Rematch`, `SharedConnection` and `Game`, from the first join to
   the winner. Today they share their interfaces: the agreement starts a match,
   the stored match is the game's first state.
3. LOGOUT and RESET_PASSWORD by `user_id`, for clients other than the console client.

## 6. Not modelled

- `Crypto`, `QuestionDAO::findById`, the models and the stubs in `server/protocol`
  keep no state that several actors change. `GameService::forfeitMatch` is empty;
  `QuestionDAO::createQuestion`, `Server::sendToUser` and `RoomService::getPlayerCount`
  have no caller.
- `normalize` and the comparison of answers are one free Boolean: an answer is checked
  against the question id the client sends, not against the question the game is at.
- The dispatcher is a table from commands to services; `Connection` has it for the
  commands of the console client.
- Exceptions of `std::stoi` on fields that are no numbers, SIGPIPE, errors of SQLite and
  of sockets, `validateCredentials` and hashing, console output.
- The effects of undefined behaviour (use of an erased game, a dangling handler) are left
  out; the properties about them say whether the code gets there.
