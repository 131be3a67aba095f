----------------------------- MODULE Connection -----------------------------
(***************************************************************************)
(* One client of client/main.cpp and the thread that serves it, as far as  *)
(* the texts between them go.  The client sends one request and takes what *)
(* its next recv returns for the answer; the server takes what each of its *)
(* recv returns for one request and answers it.  A connection is a stream: *)
(* a recv returns some of what has been sent, at most a buffer of it, and  *)
(* may end within a word.                                                  *)
(*                                                                         *)
(* Whether a request succeeds is the matter of other modules and a free    *)
(* choice here.  No room is joined, so there are no broadcasts.            *)
(***************************************************************************)
EXTENDS WireFormat

CONSTANTS
  Typed,         \* what a user may type for a name or a password
  Names,         \* names of accounts, and lists of them
  ServerBuffer,  \* size of the buffer of ClientHandler::readMessage
  ClientBuffer,  \* size of the buffer of ClientSocket::receive_message
  MaxCuts,       \* bound: how many recvs return less than they could
  MaxRequests    \* bound: how many requests the client sends

ASSUME BuffersAssumption ==
  /\ ServerBuffer \in Nat \ {0}
  /\ ClientBuffer \in Nat \ {0}
  /\ MaxCuts \in Nat
  /\ MaxRequests \in Nat

ASSUME TextsAssumption == Typed \cup Names \subseteq Seq(STRING)

(* The commands of the dispatcher that the console client never sends: the *)
(* rooms, matches and rematches of other modules.  As no text typed is one *)
(* of them, none ever stands where a command is read.                      *)
Others == {"CREATE_ROOM", "JOIN_ROOM", "FIND_MATCH", "ROUND1_ANSWER",
           "START_MATCH", "REMATCH"}

ASSUME OthersAssumption ==
  \A v \in Typed \cup Names : \A i \in DOMAIN v : v[i] \notin Others

VARIABLES
  toServer,  \* what is sent to the server and not yet read
  toClient,  \* what is sent to the client and not yet read
  client,    \* where the client stands
  token,     \* current_token
  request,   \* the message the client sent last
  served,    \* the message the server parsed last
  response,  \* its answer
  got,       \* the message the client parsed last
  asked,     \* history: the commands sent
  done,      \* history: the known commands parsed, in order
  cuts       \* history: how many recvs have left something behind

vars == <<toServer, toClient, client, token, request, served, response, got,
          asked, done, cuts>>

(* "waiting": in receive_message; "requests": at the list of pending       *)
(* requests; "listing": about to fetch it again; "gone": terminated.       *)
Stages == {"menu", "waiting", "requests", "listing", "gone"}

-----------------------------------------------------------------------------
(* What the client sends                                                   *)

Param(key, value) == [k \in {<<key>>} |-> value]
Both(p, q) ==
  [k \in DOMAIN p \cup DOMAIN q |-> IF k \in DOMAIN p THEN p[k] ELSE q[k]]
Request(command, params) == [command |-> <<command>>, params |-> params]
TokenParam == Param("token", token)

Credentials == {Both(Param("username", n), Param("password", p))
                  : n, p \in Typed}
Login == {Request("LOGIN", c) : c \in Credentials}
Register == {Request("REGISTER", c) : c \in Credentials}
Logout == Request("LOGOUT", TokenParam)
ResetPassword ==
  {Request("RESET_PASSWORD",
           Both(TokenParam, Both(Param("old_password", o),
                                 Param("new_password", n))))
     : o, n \in Typed}
AddFriend == {Request("SEND_FRIEND_REQUEST",
                      Both(TokenParam, Param("target_username", n)))
                : n \in Typed \ {<<>>, <<"0">>}}
ViewFriends == Request("LIST_FRIENDS", TokenParam)
ListRequests == Request("LIST_PENDING_REQUESTS", TokenParam)
ReplyTo(command) ==
  {Request(command, Both(TokenParam, Param("from_username", n)))
     : n \in Typed \ {<<>>, <<"0">>}}

AuthMenu == Login \cup Register
MainMenu == AddFriend \cup {ViewFriends, ListRequests, Logout}
              \cup ResetPassword
RequestList == ReplyTo("ACCEPT_FRIEND_REQUEST")
                 \cup ReplyTo("REJECT_FRIEND_REQUEST")

-----------------------------------------------------------------------------
(* What the server answers                                                 *)

(* The parameters each service asks for before anything else.              *)
Required ==
  [LOGIN |-> {"username", "password"},
   REGISTER |-> {"username", "password"},
   LOGOUT |-> {"token"},
   RESET_PASSWORD |-> {"token", "old_password", "new_password"},
   SEND_FRIEND_REQUEST |-> {"token", "target_username"},
   ACCEPT_FRIEND_REQUEST |-> {"token", "from_username"},
   REJECT_FRIEND_REQUEST |-> {"token", "from_username"},
   LIST_FRIENDS |-> {"token"},
   LIST_PENDING_REQUESTS |-> {"token"}]

Known(m) == Len(m.command) = 1 /\ m.command[1] \in DOMAIN Required

Error == Request("ERROR", Both(Param("error_code", <<"code">>),
                               Param("error_msg", <<"some", "SP", "text">>)))
UnknownCommand == Request("ERR", Param("msg", <<"UnknownCommand">>))

List(command, count, names) ==
  {Request(command, Both(Param(count, <<"0">>), Param(names, <<>>)))}
    \cup {Request(command, Both(Param(count, <<"1">>), Param(names, n)))
            : n \in Names}

Successes(m) ==
  LET user == Param("user_id", <<"1">>)
      hex == Param("token", <<"hex">>)
      Echo(command, id, key) ==
        {Request(command, Both(id, Param(key, n)))
           : n \in {m.params[<<key>>]} \cap Names}
  IN  CASE m.command = <<"LOGIN">> ->
             {Request("LOGIN_OK", Both(user, hex))}
        [] m.command = <<"REGISTER">> -> {Request("REGISTER_OK", user)}
        [] m.command = <<"LOGOUT">> ->
             {Request("LOGOUT_OK", hex),
              Request("LOGOUT_OK",
                      Both(Both(user, hex),
                           Param("cleanup_user_map", <<"true">>)))}
        [] m.command = <<"RESET_PASSWORD">> ->
             {Request("RESET_PASSWORD_OK", user)}
        [] m.command = <<"SEND_FRIEND_REQUEST">> ->
             Echo("FRIEND_REQUEST_SENT", Param("target_user_id", <<"1">>),
                  "target_username")
        [] m.command = <<"ACCEPT_FRIEND_REQUEST">> ->
             Echo("FRIEND_REQUEST_ACCEPTED", Param("from_user_id", <<"1">>),
                  "from_username")
        [] m.command = <<"REJECT_FRIEND_REQUEST">> ->
             Echo("FRIEND_REQUEST_REJECTED", << >>, "from_username")
        [] m.command = <<"LIST_FRIENDS">> ->
             List("FRIENDS_LIST", "friend_count", "friends")
        [] m.command = <<"LIST_PENDING_REQUESTS">> ->
             List("PENDING_REQUESTS", "request_count", "requests")

(* A slip for the checks: nothing is answered to an unknown command.       *)
SilentOnUnknown(m) ==
  IF ~ Known(m)
  THEN {NoMessage}
  ELSE IF \E k \in Required[m.command[1]] : <<k>> \notin DOMAIN m.params
  THEN {Error}
  ELSE {Error} \cup Successes(m)

(* The dispatcher and, behind it, the services, for what is none of the    *)
(* other commands.                                                         *)
handleCommand(m) ==
  IF ~ Known(m)
  THEN {UnknownCommand}
  ELSE IF \E k \in Required[m.command[1]] : <<k>> \notin DOMAIN m.params
  THEN {Error}
  ELSE {Error} \cup Successes(m)

-----------------------------------------------------------------------------
Init ==
  /\ toServer = <<>>
  /\ toClient = <<>>
  /\ client = "menu"
  /\ token = <<>>
  /\ request = NoMessage
  /\ served = NoMessage
  /\ response = NoMessage
  /\ got = NoMessage
  /\ asked = <<>>
  /\ done = <<>>
  /\ cuts = 0

(* How much one recv may return of what has been sent.                     *)
Amounts(stream, buffer) ==
  LET most == Min({Len(stream), buffer})
  IN  IF cuts < MaxCuts THEN 1 .. most ELSE {most} \ {0}

(* The stream with its n-th word in two.  Neither part is a word that any  *)
(* parser or handler looks for.                                            *)
Halved(stream, n) ==
  Before(stream, n) \o <<"part", "part">> \o After(stream, n)

(* Tokens of one character.                                                *)
Single == {"SEMI", "SP", "NL", "FF", ":", "=", "0"}

(* The stream as a recv of n tokens finds it: it may end within the last.  *)
AsFound(stream, n) ==
  {stream} \cup IF cuts < MaxCuts /\ stream[n] \notin Single
               THEN {Halved(stream, n)} ELSE {}

Cut(n, stream) == cuts' = IF n = Len(stream) THEN cuts ELSE cuts + 1

(* A slip for the checks: a text that was not read to its end is read      *)
(* again from its beginning.                                               *)
UnreadAgain(stream, n) == IF n = Len(stream) THEN <<>> ELSE stream

(* What the next recv will find.                                           *)
Unread(stream, n) == After(stream, n)

Send(m) ==
  /\ Len(asked) < MaxRequests
  /\ toServer' = toServer \o build(m)
  /\ request' = m
  /\ client' = "waiting"
  /\ asked' = Append(asked, m.command)
  /\ UNCHANGED <<toClient, token, served, response, got, done, cuts>>

(* The user chooses from the menu or the list shown.                       *)
Choose ==
  \/ client = "menu" /\ token = <<>> /\ \E m \in AuthMenu : Send(m)
  \/ client = "menu" /\ token # <<>> /\ \E m \in MainMenu : Send(m)
  \/ client = "requests" /\ \E m \in RequestList : Send(m)
  \/ client \in {"requests", "listing"} /\ Send(ListRequests)

Leave ==
  /\ \/ client = "requests" /\ client' = "menu"
     \/ client = "menu" /\ token = <<>> /\ client' = "gone"
  /\ UNCHANGED <<toServer, toClient, token, request, served, response, got,
                 asked, done, cuts>>

(* readMessage, parse, handleCommand, build and sendMessage.               *)
Serve ==
  \E n \in Amounts(toServer, ServerBuffer) :
  \E stream \in AsFound(toServer, n) :
    LET m == parse(SubSeq(stream, 1, n)) IN
    /\ toServer' = Unread(stream, n)
    /\ served' = m
    /\ done' = IF Known(m) THEN Append(done, m.command) ELSE done
    /\ \E r \in handleCommand(m) :
         /\ response' = r
         /\ toClient' = IF r = NoMessage THEN toClient
                        ELSE toClient \o build(r)
    /\ Cut(n, stream)
    /\ UNCHANGED <<client, token, request, got, asked>>

(* What a handler of the client makes of an answer: where it goes on, and  *)
(* the token it holds then.  A count that is no number ends the client;    *)
(* what is left of a number that is cut is a number.                       *)
Value(m, key) ==
  IF <<key>> \in DOMAIN m.params THEN m.params[<<key>>] ELSE <<>>

Goes(m) ==
  LET command == request.command[1]
      Counted(count) ==
        Value(m, count) # <<>> /\ Head(Value(m, count)) \in {"0", "1", "part"}
      Shown == Counted("request_count")
  IN  CASE command = "LIST_FRIENDS" /\ m.command = <<"FRIENDS_LIST">> ->
             IF Counted("friend_count") THEN {"menu"} ELSE {"gone"}
        [] command = "LIST_PENDING_REQUESTS" ->
             IF m.command = <<"PENDING_REQUESTS">>
             THEN IF ~ Shown THEN {"gone"}
                  ELSE IF Head(Value(m, "request_count")) = "0"
                       THEN {"menu", "listing"} ELSE {"requests"}
             ELSE IF m.command = <<"ERROR">> THEN {"menu"} ELSE {"listing"}
        [] command \in {"ACCEPT_FRIEND_REQUEST", "REJECT_FRIEND_REQUEST"} ->
             {"listing"}
        [] OTHER -> {"menu"}

TokenAfter(m) ==
  IF request.command = <<"LOGIN">> /\ m.command = <<"LOGIN_OK">>
  THEN Value(m, "token")
  ELSE IF request.command = <<"LOGOUT">> /\ m.command = <<"LOGOUT_OK">>
  THEN <<>>
  ELSE token

(* receive_message, and the handler that waits in it.                      *)
Receive ==
  /\ client = "waiting"
  /\ \E n \in Amounts(toClient, ClientBuffer) :
     \E stream \in AsFound(toClient, n) :
       LET m == parse_message(SubSeq(stream, 1, n)) IN
       /\ toClient' = Unread(stream, n)
       /\ got' = m
       /\ client' \in Goes(m)
       /\ token' = TokenAfter(m)
       /\ Cut(n, stream)
  /\ UNCHANGED <<toServer, request, served, response, asked, done>>

Next == Choose \/ Leave \/ Serve \/ Receive

Spec == Init /\ [][Next]_vars

-----------------------------------------------------------------------------
(* What a value becomes on the way: it is cut at its first semicolon, and  *)
(* the spaces around it are lost.                                          *)
Arrives(value) == trim(Split(value, {"SEMI"})[1], IsSpace)

(* What stands behind that semicolon is read as parameters of its own:     *)
(* those that the values of a request set besides what they were typed for.*)
Rest(value) ==
  IF Find(value, "SEMI") = 0 THEN <<>> ELSE After(value, Find(value, "SEMI"))
Inserted(params) ==
  UNION {DOMAIN ReadFrom(Rest(params[k]), IsSpace) : k \in DOMAIN params}

(* As long as every recv takes a whole text: a request arrives with its    *)
(* command, its parameters and those inserted in its values, and with no   *)
(* others; each value is the one typed, cut and trimmed, but for a         *)
(* parameter that is inserted too.                                         *)
RequestArrives ==
  cuts = 0 /\ request # NoMessage /\ toServer = <<>> =>
    /\ served.command = request.command
    /\ DOMAIN served.params
         = DOMAIN request.params \cup Inserted(request.params)
    /\ \A k \in DOMAIN request.params \ Inserted(request.params) :
         served.params[k] = Arrives(request.params[k])

(* As long as every recv takes a whole text: what the client reads after a *)
(* request is exactly the answer to it, and one its handler knows, so that *)
(* "Unexpected response" is not printed; nothing is left in the stream.    *)
ExpectedAnswer ==
  [LOGIN |-> "LOGIN_OK", REGISTER |-> "REGISTER_OK", LOGOUT |-> "LOGOUT_OK",
   RESET_PASSWORD |-> "RESET_PASSWORD_OK",
   SEND_FRIEND_REQUEST |-> "FRIEND_REQUEST_SENT",
   ACCEPT_FRIEND_REQUEST |-> "FRIEND_REQUEST_ACCEPTED",
   REJECT_FRIEND_REQUEST |-> "FRIEND_REQUEST_REJECTED",
   LIST_FRIENDS |-> "FRIENDS_LIST",
   LIST_PENDING_REQUESTS |-> "PENDING_REQUESTS"]

AnswersMatch ==
  cuts = 0 /\ client # "waiting" /\ request # NoMessage =>
    /\ got = response
    /\ got.command[1] \in {"ERROR", ExpectedAnswer[request.command[1]]}
    /\ toClient = <<>>

(* However the stream is cut into recvs, a request is carried out at most  *)
(* once and in the order of sending: the rest of one, glued to the next,   *)
(* may take that one with it but is never taken for a command again.       *)
CarriedOutInOrder ==
  \E at \in [DOMAIN done -> DOMAIN asked] :
    /\ \A i \in DOMAIN done : done[i] = asked[at[i]]
    /\ \A i, j \in DOMAIN done : i < j => at[i] < at[j]

(* However the stream is cut, a client that waits is owed something: what  *)
(* is in the stream reaches it, or makes the server answer.  Nobody waits  *)
(* for the other for good.                                                 *)
WaitIsServed == client = "waiting" => toServer # <<>> \/ toClient # <<>>
=============================================================================
