------------------------------ MODULE Delivery ------------------------------
(***************************************************************************)
(* How messages get to the clients: MatchmakingService, whose MATCH_FOUND  *)
(* goes to several users, the timers of RematchService, and the sends of   *)
(* Server and ClientHandler, which block while the receiver's buffer is    *)
(* full.  Server::sendToUsers holds clients_mutex over all of its sends; a *)
(* timer holds rematch_mutex around that as well.  An answer that is not   *)
(* for many is sent by the thread of its request, without a mutex.         *)
(*                                                                         *)
(* All users are logged in at first and in the room of the timers.  Their  *)
(* clients need not wait for an answer before they ask again.  Some may    *)
(* disconnect, at any time; what is sent to a connection whose client is   *)
(* gone is lost.  That such a send may also end the server (SIGPIPE) is    *)
(* left out.                                                               *)
(***************************************************************************)
EXTENDS Naturals, SequencesExt

CONSTANTS
  Users,
  FirstQueue, \* the queue at first, of users who have been told to wait
  Leavers,    \* those of them who may disconnect
  Timer,      \* the timer thread
  Room,       \* the players of the room it is for, as a sequence
  NoThread,
  Buffer,     \* how many messages a socket takes before send blocks
  MaxAsks,    \* bound: how many requests there are
  MaxTimers   \* bound: how often the timer fires

ASSUME DeliveryAssumption ==
  /\ FirstQueue \in Seq(Users) /\ Len(FirstQueue) < 3
  /\ Leavers \subseteq Users
  /\ Timer \notin Users
  /\ NoThread \notin Users \cup {Timer}
  /\ Room \in Seq(Users) /\ ToSet(Room) = Users
  /\ Buffer \in Nat \ {0}
  /\ MaxAsks \in Nat /\ MaxTimers \in Nat

Threads == Users \cup {Timer}

VARIABLES
  queue,         \* queuePlayers
  nextMatch,     \* NEXT_MATCH_ID
  clientsMutex,  \* the thread that holds it
  rematchMutex,
  online,        \* the keys of user_map
  pc,            \* where each thread stands
  message,       \* what it is to send
  targets,       \* to whom, still
  socket,        \* what has been sent to each client and not yet read
  connected,     \* is the client still there?
  asks, fired,   \* how many requests and firings there have been
  heard,         \* history: the broadcasts each client has read, in order
  owed           \* history: what each is still to be sent or to read

vars == <<queue, nextMatch, clientsMutex, rematchMutex, online, pc, message,
          targets, socket, connected, asks, fired, heard, owed>>
mutexes == <<clientsMutex, rematchMutex>>
clients == <<socket, connected, heard>>

NoMessage == <<"none", 0>>
Broadcasts == {"MATCH_FOUND", "REMATCH_ACCEPTED", "REMATCH_DENIED"}

Init ==
  /\ queue = FirstQueue
  /\ nextMatch = 1
  /\ clientsMutex = NoThread
  /\ rematchMutex = NoThread
  /\ online = Users
  /\ pc = [t \in Threads |-> "idle"]
  /\ message = [t \in Threads |-> NoMessage]
  /\ targets = [t \in Threads |-> <<>>]
  /\ socket = [u \in Users |-> <<>>]
  /\ connected = [u \in Users |-> TRUE]
  /\ asks = 0
  /\ fired = 0
  /\ heard = [u \in Users |-> <<>>]
  /\ owed = [u \in Users |-> {}]

-----------------------------------------------------------------------------
(* A thread has something to send: to many, under clients_mutex, or to its *)
(* own client.                                                             *)
Broadcast(t, m, to) ==
  /\ pc' = [pc EXCEPT ![t] = "lockClients"]
  /\ message' = [message EXCEPT ![t] = m]
  /\ targets' = [targets EXCEPT ![t] = to]
  /\ owed' = [u \in Users |-> IF Contains(to, u) THEN owed[u] \cup {m}
                                                 ELSE owed[u]]

Answer(u, m) ==
  /\ pc' = [pc EXCEPT ![u] = "answer"]
  /\ message' = [message EXCEPT ![u] = m]
  /\ owed' = [owed EXCEPT ![u] = @ \cup {m}]
  /\ UNCHANGED targets

Asking(u) ==
  /\ pc[u] = "idle"
  /\ connected[u]
  /\ asks < MaxAsks
  /\ asks' = asks + 1

(* FIND_MATCH: the user is put at the end of the queue, even if in it      *)
(* already.  Three are taken off its front for a match.                    *)
FindMatch(u) ==
  /\ Asking(u)
  /\ LET waiting == Append(queue, u) IN
     IF Len(waiting) >= 3
     THEN /\ queue' = SubSeq(waiting, 4, Len(waiting))
          /\ nextMatch' = nextMatch + 1
          /\ Broadcast(u, <<"MATCH_FOUND", nextMatch>>, SubSeq(waiting, 1, 3))
     ELSE /\ queue' = waiting
          /\ Answer(u, <<"FIND_MATCH_WAIT", asks'>>)
          /\ UNCHANGED nextMatch
  /\ UNCHANGED <<mutexes, online, clients, fired>>

(* REMATCH with "accept": it waits for rematch_mutex, which it then holds  *)
(* for this step only.  Its answer, here called REMATCH_ACCEPTED also      *)
(* where it is REMATCH_OK, goes to all players of the room.                *)
AskRematch(u) ==
  /\ Asking(u)
  /\ pc' = [pc EXCEPT ![u] = "lockRematch"]
  /\ message' = [message EXCEPT ![u] = <<"REMATCH_ACCEPTED", asks'>>]
  /\ owed' = [owed EXCEPT ![u] = @ \cup {message'[u]}]
  /\ UNCHANGED <<queue, nextMatch, mutexes, online, targets, clients, fired>>

AcceptRematch(u) ==
  /\ pc[u] = "lockRematch"
  /\ rematchMutex = NoThread
  /\ Broadcast(u, message[u], Room)
  /\ UNCHANGED <<queue, nextMatch, mutexes, online, clients, asks, fired>>

(* A timer wakes up and finds accepts: it broadcasts REMATCH_DENIED with   *)
(* rematch_mutex held.                                                     *)
TimerFires ==
  /\ pc[Timer] = "idle"
  /\ rematchMutex = NoThread
  /\ fired < MaxTimers
  /\ fired' = fired + 1
  /\ rematchMutex' = Timer
  /\ Broadcast(Timer, <<"REMATCH_DENIED", fired'>>, Room)
  /\ UNCHANGED <<queue, nextMatch, clientsMutex, online, clients, asks>>

-----------------------------------------------------------------------------
(* Sending                                                                 *)

(* send: it blocks while the buffer of a client that is there is full.     *)
Send(u, m) ==
  /\ connected[u] => Len(socket[u]) < Buffer
  /\ socket' = [socket EXCEPT ![u] = IF connected[u] THEN Append(@, m) ELSE @]

sendMessage(u) ==
  /\ pc[u] = "answer"
  /\ Send(u, message[u])
  /\ pc' = [pc EXCEPT ![u] = "idle"]
  /\ message' = [message EXCEPT ![u] = NoMessage]
  /\ UNCHANGED <<queue, nextMatch, mutexes, online, targets, connected, asks,
                 fired, heard, owed>>

(* A slip for the checks: clients_mutex is not taken.                      *)
LockNothing(t) ==
  /\ pc[t] = "lockClients"
  /\ pc' = [pc EXCEPT ![t] = "sendToUsers"]
  /\ UNCHANGED <<queue, nextMatch, mutexes, online, message,
                 targets, clients, asks, fired, owed>>

LockClients(t) ==
  /\ pc[t] = "lockClients"
  /\ clientsMutex = NoThread
  /\ clientsMutex' = t
  /\ pc' = [pc EXCEPT ![t] = "sendToUsers"]
  /\ UNCHANGED <<queue, nextMatch, rematchMutex, online, message, targets,
                 clients, asks, fired, owed>>

(* The next of the users is sent to if user_map has it.                    *)
SendToNext(t) ==
  /\ pc[t] = "sendToUsers"
  /\ targets[t] # <<>>
  /\ IF Head(targets[t]) \in online
       THEN Send(Head(targets[t]), message[t])
       ELSE UNCHANGED socket
  /\ targets' = [targets EXCEPT ![t] = Tail(@)]
  /\ UNCHANGED <<queue, nextMatch, mutexes, online, pc, message, connected,
                 asks, fired, heard, owed>>

(* A slip for the checks: a timer keeps rematch_mutex.                     *)
UnlockClientsOnly(t) ==
  /\ pc[t] = "sendToUsers"
  /\ targets[t] = <<>>
  /\ clientsMutex' = NoThread
  /\ pc' = [pc EXCEPT ![t] = "idle"]
  /\ message' = [message EXCEPT ![t] = NoMessage]
  /\ UNCHANGED <<queue, nextMatch, rematchMutex, online, targets, clients,
                 asks, fired, owed>>

(* All are sent to: the mutex, and that of a timer, are given back.        *)
Unlock(t) ==
  /\ pc[t] = "sendToUsers"
  /\ targets[t] = <<>>
  /\ clientsMutex' = NoThread
  /\ rematchMutex' = IF t = Timer THEN NoThread ELSE rematchMutex
  /\ pc' = [pc EXCEPT ![t] = "idle"]
  /\ message' = [message EXCEPT ![t] = NoMessage]
  /\ UNCHANGED <<queue, nextMatch, online, targets, clients, asks, fired,
                 owed>>

-----------------------------------------------------------------------------
(* Clients                                                                 *)

Read(u) ==
  /\ connected[u]
  /\ socket[u] # <<>>
  /\ heard' = [heard EXCEPT ![u] = IF Head(socket[u])[1] \in Broadcasts
                                   THEN Append(@, Head(socket[u])) ELSE @]
  /\ owed' = [owed EXCEPT ![u] = @ \ {Head(socket[u])}]
  /\ socket' = [socket EXCEPT ![u] = Tail(@)]
  /\ UNCHANGED <<queue, nextMatch, mutexes, online, pc, message, targets,
                 connected, asks, fired>>

Disconnect(u) ==
  /\ u \in Leavers
  /\ connected[u]
  /\ connected' = [connected EXCEPT ![u] = FALSE]
  /\ socket' = [socket EXCEPT ![u] = <<>>]
  /\ UNCHANGED <<queue, nextMatch, mutexes, online, pc, message, targets, asks,
                 fired, heard, owed>>

(* unregisterUser, once the thread has served what it was at.  The queue   *)
(* is not looked at.                                                       *)
unregisterUser(u) ==
  /\ pc[u] = "idle"
  /\ ~ connected[u]
  /\ u \in online
  /\ clientsMutex = NoThread
  /\ online' = online \ {u}
  /\ UNCHANGED <<queue, nextMatch, mutexes, pc, message, targets, clients,
                 asks, fired, owed>>

-----------------------------------------------------------------------------
Sending(t) == LockClients(t) \/ SendToNext(t) \/ Unlock(t)
Handler(u) ==
  AcceptRematch(u) \/ sendMessage(u) \/ Sending(u) \/ unregisterUser(u)

Next ==
  \/ \E u \in Users : \/ FindMatch(u) \/ AskRematch(u) \/ Handler(u)
                      \/ Read(u) \/ Disconnect(u)
  \/ TimerFires
  \/ Sending(Timer)

Spec == Init /\ [][Next]_vars

(* Threads go on where they can, and clients that are there read what they *)
(* are sent.  A mutex is given to some thread that waits for it; as there  *)
(* are finitely many requests, all get it in the end.                      *)
FairSpec ==
  /\ Spec
  /\ \A u \in Users : WF_vars(Handler(u)) /\ WF_vars(Read(u))
  /\ WF_vars(Sending(Timer))

-----------------------------------------------------------------------------
(* In particular a queue never holds a whole match, clients_mutex is held  *)
(* exactly by who sends to many, and nothing is sent that is not owed.     *)
TypeOK ==
  /\ queue \in Seq(Users) /\ Len(queue) < 3
  /\ \A t \in Threads : pc[t] = "sendToUsers" <=> clientsMutex = t
  /\ rematchMutex \in {Timer, NoThread}
  /\ \A u \in Users : /\ Len(socket[u]) <= Buffer
                      /\ ToSet(socket[u]) \subseteq owed[u] \cup ToSet(heard[u])

(* Whatever two users are both sent to many at once reaches them in the    *)
(* same order, though it comes from different threads (sendToUsers).       *)
SameOrder ==
  \A u, v \in Users :
    \A i, j \in DOMAIN heard[u] : \A k, n \in DOMAIN heard[v] :
      /\ i < j /\ heard[u][i] # heard[u][j]
      /\ heard[u][i] = heard[v][n] /\ heard[u][j] = heard[v][k]
      => n < k

(* A user who is owed a message, of those who were matched and of those    *)
(* who asked, reads it in the end, or is gone: no thread waits for ever    *)
(* for a mutex or a buffer as long as those who are there read.            *)
EveryMessageArrives ==
  \A u \in Users : connected[u] /\ owed[u] # {} ~> ~ connected[u] \/ owed[u] = {}
=============================================================================
