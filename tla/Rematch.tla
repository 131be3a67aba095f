------------------------------ MODULE Rematch -------------------------------
(***************************************************************************)
(* The players of one room: joining it, agreeing on a rematch and starting *)
(* it.  RoomService and RematchService, and what ClientHandler::run makes  *)
(* of their answers: it broadcasts them, and goes on from REMATCH_OK to    *)
(* start a match.                                                          *)
(*                                                                         *)
(* The set of those who accepted is shared by the threads of the players   *)
(* and by the timer threads, one started by each "ask".  "accept", "deny"  *)
(* and a timer hold rematch_mutex from end to end, so each is one action;  *)
(* the answer of a command is broadcast later, by run, in two steps that   *)
(* hold no common lock: who is in the room is read, then they are sent to. *)
(*                                                                         *)
(* The users have accounts and are online (Server::sendToUsers skips who   *)
(* is not) and no command takes one out of a room.  A timer may fire at    *)
(* any time after its ask: nothing but those 10 seconds orders it with     *)
(* what players do.  Anybody may send any of the commands at any time, in  *)
(* the room or not, asked or not, and join twice.                          *)
(***************************************************************************)
EXTENDS Naturals, FiniteSets

CONSTANTS
  Users,
  FirstPlayers,  \* those in the room from the start; others may join
  MaxJoins,      \* bound: how many times somebody joins
  MaxAsks        \* bound: how many times somebody asks for a rematch

ASSUME PlayersAssumption ==
  /\ IsFiniteSet(Users)
  /\ FirstPlayers \subseteq Users
ASSUME BoundsAssumption == MaxJoins \in Nat /\ MaxAsks \in Nat

VARIABLES
  players,  \* who is in Room::players
  size,     \* Room::players.size(), with those who are in it twice
  accepts,  \* rematchAccepts[roomId], {} also where the map has no key
  timers,   \* how many timer threads sleep
  asks,     \* how many asks there have been
  pc,       \* of each player's thread: in recv, or where in its broadcast
  out,      \* the answer its thread is to broadcast, "none" if there is none
  count,    \* the size of the room in its ROOM_UPDATE
  targets,  \* whom it is to be sent to, once read
  reply,    \* history: what each replied since the last ask, denial or timeout
  waiting,  \* history: who accepted and has not heard of the rematch since
  agreed,   \* history: who heard REMATCH_OK and not yet what came of it
  lost,     \* history: whose GAME_START went to the players of another match
  heard     \* history: the largest size of the room each was told of

roomVars == <<players, size>>
threadVars == <<pc, out, count, targets>>
clientVars == <<reply, waiting, agreed, lost, heard>>
vars == <<roomVars, accepts, timers, asks, threadVars, clientVars>>

Stages == {"recv", "getPlayers", "sendToUsers", "startMatch", "createMatch"}
Answers == {"ROOM_UPDATE", "REMATCH_ASK", "REMATCH_OK", "REMATCH_DENIED",
            "GAME_START", "ERR"}

Init ==
  /\ players = FirstPlayers
  /\ size = Cardinality(FirstPlayers)
  /\ accepts = {}
  /\ timers = 0
  /\ asks = 0
  /\ pc = [u \in Users |-> "recv"]
  /\ out = [u \in Users |-> "none"]
  /\ count = [u \in Users |-> 0]
  /\ targets = [u \in Users |-> {}]
  /\ reply = [u \in Users |-> "none"]
  /\ waiting = {}
  /\ agreed = {}
  /\ lost = {}
  /\ heard = [u \in Users |->
                IF u \in FirstPlayers THEN Cardinality(FirstPlayers) ELSE 0]

-----------------------------------------------------------------------------
Broadcast(u, answer) ==
  /\ pc' = [pc EXCEPT ![u] = "getPlayers"]
  /\ out' = [out EXCEPT ![u] = answer]
  /\ UNCHANGED targets

(* RoomService::joinRoom, whoever is in the room.  The size in its         *)
(* ROOM_UPDATE is that at the time of joining.                             *)
JoinRoom(u) ==
  /\ pc[u] = "recv"
  /\ size - Cardinality(FirstPlayers) < MaxJoins
  /\ players' = players \cup {u}
  /\ size' = size + 1
  /\ count' = [count EXCEPT ![u] = size']
  /\ Broadcast(u, "ROOM_UPDATE")
  /\ UNCHANGED <<accepts, timers, asks, clientVars>>

(* "ask" by a player: the accepts so far are dropped, a timer is started.  *)
Ask(u) ==
  /\ pc[u] = "recv"
  /\ u \in players
  /\ asks < MaxAsks
  /\ accepts' = {}
  /\ timers' = timers + 1
  /\ asks' = asks + 1
  /\ reply' = [v \in Users |-> "none"]
  /\ waiting' = waiting \ {u}
  /\ Broadcast(u, "REMATCH_ASK")
  /\ UNCHANGED <<roomVars, count, agreed, lost, heard>>

(* "accept": the user is added to accepts first.  Who is not in the room   *)
(* is answered ERR, and stays in the set.  When all players have accepted, *)
(* the answer is REMATCH_OK and accepts stays as it is; otherwise it is    *)
(* REMATCH_ACCEPTED, which only informs.                                   *)
AcceptRematch(u) ==
  /\ pc[u] = "recv"
  /\ accepts' = accepts \cup {u}
  /\ reply' = [reply EXCEPT ![u] = "accept"]
  /\ \/ /\ u \notin players
        /\ UNCHANGED <<threadVars, waiting>>
     \/ /\ u \in players
        /\ waiting' = waiting \cup {u}
        /\ IF players \subseteq accepts'
             THEN Broadcast(u, "REMATCH_OK") /\ UNCHANGED count
             ELSE UNCHANGED threadVars
  /\ UNCHANGED <<roomVars, timers, asks, agreed, lost, heard>>

(* A slip for the checks: a denial takes back only what its sender said.   *)
DenyAlone(u) ==
  /\ pc[u] = "recv"
  /\ accepts' = accepts \ {u}
  /\ Broadcast(u, "REMATCH_DENIED")
  /\ reply' = [v \in Users |-> "none"]
  /\ waiting' = waiting \ {u}
  /\ UNCHANGED <<roomVars, timers, asks, count, agreed, lost, heard>>

(* "deny", by anybody: everybody has to accept again.                      *)
Deny(u) ==
  /\ pc[u] = "recv"
  /\ accepts' = {}
  /\ Broadcast(u, "REMATCH_DENIED")
  /\ reply' = [v \in Users |-> "none"]
  /\ waiting' = waiting \ {u}
  /\ UNCHANGED <<roomVars, timers, asks, count, agreed, lost, heard>>

(* A slip for the checks: whoever is in another room is sent to as well.   *)
GetPlayersOfAllRooms(u) ==
  /\ pc[u] = "getPlayers"
  /\ targets' = [targets EXCEPT ![u] =
                   IF out[u] = "REMATCH_ASK" THEN Users \ {u} ELSE Users]
  /\ pc' = [pc EXCEPT ![u] = "sendToUsers"]
  /\ UNCHANGED <<roomVars, accepts, timers, asks, out, count, clientVars>>

(* A slip for the checks: no answer is sent back to who caused it.         *)
GetOtherPlayers(u) ==
  /\ pc[u] = "getPlayers"
  /\ targets' = [targets EXCEPT ![u] = players \ {u}]
  /\ pc' = [pc EXCEPT ![u] = "sendToUsers"]
  /\ UNCHANGED <<roomVars, accepts, timers, asks, out, count, clientVars>>

(* run asks RoomService::getPlayers whom to send the answer to ...         *)
GetPlayers(u) ==
  /\ pc[u] = "getPlayers"
  /\ targets' = [targets EXCEPT ![u] =
                   IF out[u] = "REMATCH_ASK" THEN players \ {u} ELSE players]
  /\ pc' = [pc EXCEPT ![u] = "sendToUsers"]
  /\ UNCHANGED <<roomVars, accepts, timers, asks, out, count, clientVars>>

(* What the clients know once they have got the answer.                    *)
Hear(u) ==
  /\ waiting' = IF out[u] = "ROOM_UPDATE" THEN waiting
                ELSE waiting \ targets[u]
  /\ agreed' = CASE out[u] = "REMATCH_OK" -> agreed \cup targets[u]
                 [] out[u] \in {"GAME_START", "ERR"} -> agreed \ targets[u]
                 [] OTHER -> agreed
  /\ lost' = IF out[u] = "REMATCH_OK" THEN lost \ targets[u] ELSE lost
  /\ heard' = [v \in Users |->
                 IF /\ out[u] = "ROOM_UPDATE"
                    /\ v \in targets[u]
                    /\ count[u] > heard[v]
                   THEN count[u] ELSE heard[v]]
  /\ UNCHANGED reply

(* ... and sends it.  After REMATCH_OK it goes on with START_MATCH.        *)
SendToUsers(u) ==
  /\ pc[u] = "sendToUsers"
  /\ Hear(u)
  /\ pc' = [pc EXCEPT ![u] = IF out[u] = "REMATCH_OK" THEN "startMatch"
                             ELSE "recv"]
  /\ out' = [out EXCEPT ![u] = "none"]
  /\ targets' = [targets EXCEPT ![u] = {}]
  /\ count' = [count EXCEPT ![u] = 0]
  /\ UNCHANGED <<roomVars, accepts, timers, asks>>

(* MatchService::createMatchFromRoom reads who is in the room now ...      *)
StartMatch(u) ==
  /\ pc[u] = "startMatch"
  /\ targets' = [targets EXCEPT ![u] = players]
  /\ pc' = [pc EXCEPT ![u] = "createMatch"]
  /\ UNCHANGED <<roomVars, accepts, timers, asks, out, count, clientVars>>

(* A slip for the checks: a match that cannot be stored is not reported.   *)
CreateMatchQuietly(u) ==
  /\ pc[u] = "createMatch"
  /\ \/ /\ out' = [out EXCEPT ![u] = "GAME_START"]
        /\ pc' = [pc EXCEPT ![u] = "sendToUsers"]
        /\ UNCHANGED targets
     \/ /\ pc' = [pc EXCEPT ![u] = "recv"]
        /\ targets' = [targets EXCEPT ![u] = {}]
        /\ UNCHANGED out
  /\ UNCHANGED <<roomVars, accepts, timers, asks, count, clientVars>>

(* ... and MatchDAO::createMatch stores a match for them, and GAME_START   *)
(* goes to the players stored for the id it has read; or it cannot, and    *)
(* whoever is in the room by then is sent the ERR.  As the id is that of   *)
(* the last row of a connection that all threads share, it may be that of  *)
(* another match, or of none, whose players may be anybody.                *)
CreateMatch(u) ==
  /\ pc[u] = "createMatch"
  /\ \/ \E stored \in SUBSET Users :
          /\ out' = [out EXCEPT ![u] = "GAME_START"]
          /\ pc' = [pc EXCEPT ![u] = "sendToUsers"]
          /\ targets' = [targets EXCEPT ![u] = stored]
          /\ lost' = lost \cup (targets[u] \ stored)
     \/ Broadcast(u, "ERR") /\ UNCHANGED lost
  /\ UNCHANGED <<roomVars, accepts, timers, asks, count, reply, waiting,
                 agreed, heard>>

(* A slip for the checks: the denial is recorded but not sent.             *)
TimerFiresSilently ==
  /\ timers > 0
  /\ timers' = timers - 1
  /\ accepts' = {}
  /\ reply' = [v \in Users |-> "none"]
  /\ UNCHANGED <<roomVars, asks, threadVars, waiting, agreed, lost, heard>>

(* A timer ends its sleep.  Unless nobody has accepted, all players are    *)
(* told REMATCH_DENIED, before it releases rematch_mutex.                  *)
TimerFires ==
  /\ timers > 0
  /\ timers' = timers - 1
  /\ accepts' = {}
  /\ reply' = [v \in Users |-> "none"]
  /\ waiting' = IF accepts = {} THEN waiting ELSE waiting \ players
  /\ UNCHANGED <<roomVars, asks, threadVars, agreed, lost, heard>>

ThreadStep(u) ==
  GetPlayers(u) \/ SendToUsers(u) \/ StartMatch(u) \/ CreateMatch(u)

Next ==
  \/ \E u \in Users : \/ ThreadStep(u)
                      \/ JoinRoom(u) \/ Ask(u) \/ AcceptRematch(u) \/ Deny(u)
  \/ TimerFires

Spec == Init /\ [][Next]_vars

(* Every thread, those of the timers too, is scheduled; no player is made  *)
(* to ask or to reply.                                                     *)
FairSpec ==
  Spec /\ WF_vars(TimerFires) /\ \A u \in Users : WF_vars(ThreadStep(u))

-----------------------------------------------------------------------------
(* Properties                                                              *)

(* The types of the variables, and who can be where: anybody may be among  *)
(* those who accepted, but nothing except GAME_START is sent to, and       *)
(* nobody waits or has agreed, outside the room.                           *)
TypeOK ==
  /\ players \subseteq Users
  /\ size \in Nat
  /\ accepts \subseteq Users
  /\ timers \in 0..asks
  /\ asks \in 0..MaxAsks
  /\ pc \in [Users -> Stages]
  /\ out \in [Users -> Answers \cup {"none"}]
  /\ count \in [Users -> Nat]
  /\ targets \in [Users -> SUBSET Users]
  /\ \A u \in Users :
       pc[u] \notin {"getPlayers", "sendToUsers"} => out[u] = "none"
  /\ \A u \in Users : out[u] # "GAME_START" => targets[u] \subseteq players
  /\ reply \in [Users -> {"none", "accept"}]
  /\ waiting \subseteq players
  /\ agreed \subseteq players
  /\ lost \subseteq Users
  /\ heard \in [Users -> Nat]

(* "if all players accepted, produce REMATCH_OK": it is decided only when  *)
(* each player in the room, those who joined meanwhile too, has accepted   *)
(* since the last ask, denial or timeout was carried out; no accept left   *)
(* from before takes the place of one.  (One that was sent in reply to an  *)
(* earlier ask and carried out after a later one counts for that.)         *)
OkIsUnanimous ==
  [][\A u \in Users :
       out[u] = "none" /\ out'[u] = "REMATCH_OK"
         => \A v \in players : reply'[v] = "accept"]_vars

(* A player whose accept is recorded while a timer still runs hears of the *)
(* rematch again (agreed, denied, timed out or asked anew), whatever asks  *)
(* and denials cross it.                                                   *)
AcceptIsAnswered ==
  \A u \in Users : (u \in waiting /\ timers > 0) ~> u \notin waiting

(* Whoever is told REMATCH_OK is told what came of it, GAME_START or the   *)
(* ERR, although the players are read anew to create the match and once    *)
(* more to report that it failed, while others join, ask and deny; unless  *)
(* a GAME_START since went to the players of another match.                *)
AgreementIsAnswered ==
  \A u \in Users : u \in agreed ~> u \notin agreed \/ u \in lost

(* When several join at a time their ROOM_UPDATEs cross, each with the     *)
(* size at its joining, and may arrive in another order.  Once all are     *)
(* sent, every player in the room has been told the size it has, those who *)
(* joined while earlier ones were being sent too.                          *)
EveryoneIsCounted ==
  (\A u \in Users : out[u] # "ROOM_UPDATE")
    => \A v \in players : heard[v] = size
=============================================================================
