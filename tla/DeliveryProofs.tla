--------------------------- MODULE DeliveryProofs ---------------------------
(***************************************************************************)
(* Theorems about Delivery, for any users, room, queue at first, buffers   *)
(* and numbers of requests and timers.                                     *)
(***************************************************************************)
EXTENDS Delivery, SequenceTheorems, TLAPS

Kinds == Broadcasts \cup {"FIND_MATCH_WAIT"}
Messages == Kinds \X Nat
ToMany == Broadcasts \X Nat

Sorts ==
  /\ queue \in Seq(Users) /\ Len(queue) < 3
  /\ nextMatch \in Nat
  /\ clientsMutex \in Threads \cup {NoThread}
  /\ rematchMutex \in {Timer, NoThread}
  /\ online \subseteq Users
  /\ pc \in [Threads -> {"idle", "answer", "lockRematch", "lockClients",
                         "sendToUsers"}]
  /\ message \in [Threads -> Messages \cup {NoMessage}]
  /\ targets \in [Threads -> Seq(Users)]
  /\ socket \in [Users -> Seq(Messages)]
  /\ connected \in [Users -> BOOLEAN]
  /\ asks \in Nat /\ fired \in Nat
  /\ heard \in [Users -> Seq(Messages)]
  /\ owed \in [Users -> SUBSET Messages]

(* What a thread is to send goes with where it stands.                     *)
StageFits ==
  /\ \A t \in Threads :
       pc[t] \in {"lockRematch", "lockClients", "sendToUsers"}
         => message[t] \in ToMany
  /\ \A u \in Users : pc[u] = "answer" => message[u][1] = "FIND_MATCH_WAIT"
                                          /\ message[u] \in Messages

(* clients_mutex is held exactly by who sends to many.                     *)
MutexHeld == \A t \in Threads : pc[t] = "sendToUsers" <=> clientsMutex = t

BuffersHold == \A u \in Users : Len(socket[u]) <= Buffer

(* The sorts, the mutex and the buffers together are inductive.            *)
Typed == Sorts /\ StageFits /\ MutexHeld /\ BuffersHold

-----------------------------------------------------------------------------
(* Sequences.                                                              *)

LEMMA Appended ==
  ASSUME NEW S, NEW s \in Seq(S), NEW e \in S
  PROVE  /\ Append(s, e) \in Seq(S)
         /\ Len(Append(s, e)) = Len(s) + 1
         /\ DOMAIN Append(s, e) = 1 .. Len(s) + 1
         /\ \A i \in 1 .. Len(s) : Append(s, e)[i] = s[i]
         /\ Append(s, e)[Len(s) + 1] = e
         /\ ToSet(Append(s, e)) = ToSet(s) \cup {e}
<1>1. /\ Append(s, e) \in Seq(S)
      /\ Len(Append(s, e)) = Len(s) + 1
      /\ DOMAIN Append(s, e) = 1 .. Len(s) + 1
      /\ \A i \in 1 .. Len(s) : Append(s, e)[i] = s[i]
      /\ Append(s, e)[Len(s) + 1] = e
  OBVIOUS
<1>2. DOMAIN s = 1 .. Len(s) /\ Len(s) \in Nat
  OBVIOUS
<1> HIDE DEF ToSet
<1>3. ASSUME NEW x PROVE x \in ToSet(Append(s, e)) <=> x \in ToSet(s) \cup {e}
  BY <1>1, <1>2 DEF ToSet
<1> QED
  BY <1>1, <1>3

LEMMA Taken ==
  ASSUME NEW S, NEW s \in Seq(S), s # <<>>
  PROVE  /\ Head(s) \in S /\ Head(s) = s[1] /\ Head(s) \in ToSet(s)
         /\ Tail(s) \in Seq(S)
         /\ Len(s) \in Nat /\ Len(s) >= 1
         /\ Len(Tail(s)) = Len(s) - 1
         /\ DOMAIN Tail(s) = 1 .. Len(s) - 1
         /\ \A i \in 1 .. Len(s) - 1 : Tail(s)[i] = s[i + 1]
         /\ ToSet(Tail(s)) \subseteq ToSet(s)
<1>1. /\ Head(s) \in S /\ Head(s) = s[1]
      /\ Tail(s) \in Seq(S)
      /\ Len(s) \in Nat /\ Len(s) >= 1
      /\ Len(Tail(s)) = Len(s) - 1
      /\ DOMAIN Tail(s) = 1 .. Len(s) - 1
      /\ \A i \in 1 .. Len(s) - 1 : Tail(s)[i] = s[i + 1]
      /\ DOMAIN s = 1 .. Len(s)
  BY HeadTailProperties, EmptySeq
<1>2. Head(s) \in ToSet(s) /\ ToSet(Tail(s)) \subseteq ToSet(s)
  BY <1>1 DEF ToSet
<1> QED
  BY <1>1, <1>2

LEMMA Elements ==
  ASSUME NEW S, NEW s \in Seq(S)
  PROVE  /\ ToSet(s) \subseteq S
         /\ \A e : Contains(s, e) <=> e \in ToSet(s)
         /\ \A e \in ToSet(s) : \E i \in 1 .. Len(s) : s[i] = e
         /\ \A i \in DOMAIN s : s[i] \in ToSet(s)
         /\ DOMAIN s = 1 .. Len(s) /\ Len(s) \in Nat
BY DEF ToSet, Contains

LEMMA None == ToSet(<<>>) = {} /\ Len(<<>>) = 0 /\ DOMAIN <<>> = {}
BY DEF ToSet

-----------------------------------------------------------------------------
(* The types.                                                              *)

LEMMA Kindly == /\ \A k, n : k \in Kinds /\ n \in Nat => <<k, n>> \in Messages
                /\ NoMessage \notin Messages
                /\ ToMany \subseteq Messages
BY DEF Messages, Kinds, Broadcasts, ToMany, NoMessage

LEMMA InitTyped == Init => Typed
<1> SUFFICES ASSUME Init PROVE Typed
  OBVIOUS
<1>1. <<>> \in Seq(Users) /\ <<>> \in Seq(Messages)
  OBVIOUS
<1>2. Sorts
  BY <1>1, DeliveryAssumption DEF Init, Sorts, Threads
<1>3. StageFits /\ MutexHeld
  BY DeliveryAssumption DEF Init, StageFits, MutexHeld, Threads
<1>4. BuffersHold
  BY None, DeliveryAssumption DEF Init, BuffersHold
<1> QED
  BY <1>2, <1>3, <1>4 DEF Typed

(* What Broadcast does to the sorts of what it changes.                    *)
LEMMA BroadcastTyped ==
  ASSUME Typed, NEW t \in Threads, NEW m \in ToMany, NEW to \in Seq(Users),
         Broadcast(t, m, to)
  PROVE  /\ pc' = [pc EXCEPT ![t] = "lockClients"]
         /\ message' = [message EXCEPT ![t] = m]
         /\ targets' = [targets EXCEPT ![t] = to]
         /\ message' \in [Threads -> Messages \cup {NoMessage}]
         /\ targets' \in [Threads -> Seq(Users)]
         /\ owed' \in [Users -> SUBSET Messages]
         /\ \A u \in Users : owed[u] \subseteq owed'[u]
         /\ \A u \in ToSet(to) : m \in owed'[u]
<1>1. \A u \in Users : /\ owed'[u] = IF u \in ToSet(to) THEN owed[u] \cup {m}
                                                        ELSE owed[u]
                       /\ owed[u] \subseteq Messages
  BY Elements DEF Broadcast, Typed, Sorts
<1>2. owed' \in [Users -> SUBSET Messages]
  BY <1>1, Kindly DEF Broadcast
<1>3. ToSet(to) \subseteq Users
  BY Elements
<1> QED
  BY <1>1, <1>2, <1>3, Kindly DEF Broadcast, Typed, Sorts

(* What a send does: the message is appended where there is room, or lost. *)
LEMMA SendEffect ==
  ASSUME Typed, NEW u \in Users, NEW m \in Messages, Send(u, m)
  PROVE  /\ socket' \in [Users -> Seq(Messages)]
         /\ \A v \in Users : v # u => socket'[v] = socket[v]
         /\ socket'[u] \in {socket[u], Append(socket[u], m)}
         /\ \A v \in Users : Len(socket'[v]) <= Buffer
<1> USE DEF Typed, Sorts, Send
<1>1. CASE connected[u]
  <2>1. /\ socket' = [socket EXCEPT ![u] = Append(socket[u], m)]
        /\ Len(socket[u]) < Buffer
    BY <1>1
  <2>2. /\ Append(socket[u], m) \in Seq(Messages)
        /\ Len(Append(socket[u], m)) = Len(socket[u]) + 1
        /\ Len(socket[u]) \in Nat
    BY Appended, Elements
  <2> QED
    BY <2>1, <2>2, DeliveryAssumption DEF BuffersHold
<1>2. CASE ~ connected[u]
  BY <1>2 DEF BuffersHold
<1> QED
  BY <1>1, <1>2

LEMMA FindMatchTyped ==
  ASSUME Typed, NEW u \in Users, FindMatch(u) PROVE Typed'
<1> DEFINE waiting == Append(queue, u)
<1> USE DEF FindMatch, Asking, mutexes, clients
<1>1. /\ waiting \in Seq(Users) /\ Len(waiting) = Len(queue) + 1
      /\ Len(queue) \in Nat /\ Len(queue) < 3
  BY Appended, Elements DEF Typed, Sorts
<1>2. u \in Threads /\ asks' = asks + 1 /\ asks' \in Nat /\ pc[u] = "idle"
  BY DEF Threads, Typed, Sorts
<1>3. CASE Len(waiting) >= 3
  <2>1. Len(waiting) = 3
    BY <1>1, <1>3
  <2>2. queue' = <<>> /\ nextMatch' = nextMatch + 1
    BY <2>1, <1>1, SubSeqEmpty
  <2>3. SubSeq(waiting, 1, 3) \in Seq(Users)
    <3>1. SubSeq(waiting, 1, Len(waiting)) = waiting
      BY <1>1, SubSeqFull
    <3> HIDE DEF waiting
    <3> QED
      BY <3>1, <2>1, <1>1
  <2>4. Broadcast(u, <<"MATCH_FOUND", nextMatch>>, SubSeq(waiting, 1, 3))
    BY <2>1
  <2>5. <<"MATCH_FOUND", nextMatch>> \in ToMany
    BY DEF ToMany, Broadcasts, Typed, Sorts
  <2>6. /\ pc' = [pc EXCEPT ![u] = "lockClients"]
        /\ message' = [message EXCEPT ![u] = <<"MATCH_FOUND", nextMatch>>]
        /\ message' \in [Threads -> Messages \cup {NoMessage}]
        /\ targets' \in [Threads -> Seq(Users)]
        /\ owed' \in [Users -> SUBSET Messages]
    BY <2>3, <2>4, <2>5, <1>2, BroadcastTyped
  <2>7. Sorts'
    BY <2>2, <2>6, <1>2, None, EmptySeq DEF Typed, Sorts
  <2>8. StageFits'
    <3> HIDE DEF FindMatch, Asking
    <3> QED
      BY <2>5, <2>6, <1>2 DEF Typed, Sorts, StageFits
  <2>9. MutexHeld' /\ BuffersHold'
    BY <2>6, <1>2 DEF Typed, Sorts, MutexHeld, BuffersHold
  <2> QED
    BY <2>7, <2>8, <2>9 DEF Typed
<1>4. CASE ~ (Len(waiting) >= 3)
  <2>1. /\ queue' = waiting /\ nextMatch' = nextMatch
        /\ Answer(u, <<"FIND_MATCH_WAIT", asks'>>)
    BY <1>4
  <2>2. <<"FIND_MATCH_WAIT", asks'>> \in Messages
    BY <1>2, Kindly DEF Kinds
  <2>3. /\ pc' = [pc EXCEPT ![u] = "answer"]
        /\ message' = [message EXCEPT ![u] = <<"FIND_MATCH_WAIT", asks'>>]
        /\ owed' = [owed EXCEPT ![u] = @ \cup {<<"FIND_MATCH_WAIT", asks'>>}]
        /\ UNCHANGED <<targets, clientsMutex, rematchMutex, online, socket,
                       connected, heard, fired>>
    BY <2>1 DEF Answer
  <2> HIDE DEF waiting, FindMatch, Asking
  <2>6. Sorts'
    <3>1. message' \in [Threads -> Messages \cup {NoMessage}]
      BY <2>2, <2>3, <1>2 DEF Typed, Sorts
    <3>2. owed' \in [Users -> SUBSET Messages]
      BY <2>2, <2>3 DEF Typed, Sorts
    <3>3. pc' \in [Threads -> {"idle", "answer", "lockRematch",
                               "lockClients", "sendToUsers"}]
      BY <2>3, <1>2 DEF Typed, Sorts
    <3> QED
      BY <2>1, <2>3, <1>1, <1>2, <1>4, <3>1, <3>2, <3>3 DEF Typed, Sorts
  <2>4. StageFits'
    BY <2>2, <2>3, <1>2 DEF Typed, Sorts, StageFits, Threads
  <2>5. MutexHeld' /\ BuffersHold'
    BY <2>3, <1>2 DEF Typed, Sorts, MutexHeld, BuffersHold
  <2> QED
    BY <2>6, <2>4, <2>5 DEF Typed
<1> QED
  BY <1>3, <1>4

LEMMA AskTyped ==
  ASSUME Typed, NEW u \in Users, AskRematch(u) PROVE Typed'
<1> USE DEF AskRematch, Asking, mutexes, clients
<1>1. u \in Threads /\ asks' = asks + 1 /\ asks' \in Nat
  BY DEF Threads, Typed, Sorts
<1>2. <<"REMATCH_ACCEPTED", asks'>> \in ToMany
  BY <1>1 DEF ToMany, Broadcasts
<1>3. Sorts'
  <2>1. message' = [message EXCEPT ![u] = <<"REMATCH_ACCEPTED", asks'>>]
    OBVIOUS
  <2>2. message' \in [Threads -> Messages \cup {NoMessage}]
    BY <2>1, <1>1, <1>2, Kindly DEF Typed, Sorts
  <2>3. message'[u] \in Messages
    BY <2>1, <1>1, <1>2, Kindly DEF Typed, Sorts
  <2>4. owed' \in [Users -> SUBSET Messages]
    BY <2>3 DEF Typed, Sorts
  <2> QED
    BY <2>2, <2>4, <1>1 DEF Typed, Sorts
<1>4. StageFits'
  BY <1>1, <1>2 DEF Typed, Sorts, StageFits
<1>5. MutexHeld' /\ BuffersHold'
  BY <1>1 DEF Typed, Sorts, MutexHeld, BuffersHold
<1> QED
  BY <1>3, <1>4, <1>5 DEF Typed

LEMMA AcceptTyped ==
  ASSUME Typed, NEW u \in Users, AcceptRematch(u) PROVE Typed'
<1> USE DEF AcceptRematch, mutexes, clients
<1>1. u \in Threads
  BY DEF Threads
<1>2. message[u] \in ToMany
  BY <1>1 DEF Typed, StageFits
<1>3. /\ pc' = [pc EXCEPT ![u] = "lockClients"]
      /\ message' = [message EXCEPT ![u] = message[u]]
      /\ message' \in [Threads -> Messages \cup {NoMessage}]
      /\ targets' \in [Threads -> Seq(Users)]
      /\ owed' \in [Users -> SUBSET Messages]
  BY <1>1, <1>2, BroadcastTyped, DeliveryAssumption
<1>4. Sorts'
  BY <1>3, <1>1 DEF Typed, Sorts
<1>5. StageFits' /\ MutexHeld' /\ BuffersHold'
  BY <1>3, <1>1, <1>2 DEF Typed, Sorts, StageFits, MutexHeld, BuffersHold
<1> QED
  BY <1>4, <1>5 DEF Typed

LEMMA TimerTyped ==
  ASSUME Typed, TimerFires PROVE Typed'
<1> USE DEF TimerFires, clients
<1>1. Timer \in Threads /\ fired' = fired + 1 /\ fired' \in Nat
  BY DEF Threads, Typed, Sorts
<1>2. <<"REMATCH_DENIED", fired'>> \in ToMany
  BY <1>1 DEF ToMany, Broadcasts
<1>3. /\ pc' = [pc EXCEPT ![Timer] = "lockClients"]
      /\ message' = [message EXCEPT ![Timer] = <<"REMATCH_DENIED", fired'>>]
      /\ message' \in [Threads -> Messages \cup {NoMessage}]
      /\ targets' \in [Threads -> Seq(Users)]
      /\ owed' \in [Users -> SUBSET Messages]
  BY <1>1, <1>2, BroadcastTyped, DeliveryAssumption
<1>4. Sorts'
  BY <1>3, <1>1 DEF Typed, Sorts
<1>5. StageFits' /\ MutexHeld' /\ BuffersHold'
  BY <1>3, <1>1, <1>2, DeliveryAssumption
     DEF Typed, Sorts, StageFits, MutexHeld, BuffersHold
<1> QED
  BY <1>4, <1>5 DEF Typed

LEMMA AnswerSentTyped ==
  ASSUME Typed, NEW u \in Users, sendMessage(u) PROVE Typed'
<1> USE DEF sendMessage, mutexes
<1>1. u \in Threads /\ message[u] \in Messages
  BY DEF Threads, Typed, StageFits
<1>2. /\ socket' \in [Users -> Seq(Messages)]
      /\ \A v \in Users : Len(socket'[v]) <= Buffer
  BY <1>1, SendEffect
<1>3. Sorts'
  BY <1>1, <1>2 DEF Typed, Sorts
<1>4. StageFits' /\ MutexHeld' /\ BuffersHold'
  BY <1>1, <1>2 DEF Typed, Sorts, StageFits, MutexHeld, BuffersHold
<1> QED
  BY <1>3, <1>4 DEF Typed

LEMMA SendingTyped ==
  ASSUME Typed, NEW t \in Threads, Sending(t) PROVE Typed'
<1>1. CASE LockClients(t)
  BY <1>1, DeliveryAssumption
     DEF LockClients, clients, Typed, Sorts, StageFits, MutexHeld, BuffersHold,
         Threads
<1>2. CASE SendToNext(t)
  <2> USE <1>2 DEF SendToNext, mutexes
  <2>1. /\ Head(targets[t]) \in Users /\ Tail(targets[t]) \in Seq(Users)
        /\ message[t] \in Messages
    BY Taken, Kindly DEF Typed, Sorts, StageFits
  <2>2. /\ socket' \in [Users -> Seq(Messages)]
        /\ \A v \in Users : Len(socket'[v]) <= Buffer
    BY <2>1, SendEffect DEF Typed, Sorts, BuffersHold
  <2>3. Sorts'
    BY <2>1, <2>2 DEF Typed, Sorts
  <2>4. StageFits' /\ MutexHeld' /\ BuffersHold'
    BY <2>1, <2>2 DEF Typed, Sorts, StageFits, MutexHeld, BuffersHold
  <2> QED
    BY <2>3, <2>4 DEF Typed
<1>3. CASE Unlock(t)
  <2> USE <1>3 DEF Unlock, clients
  <2>1. Sorts'
    BY DEF Typed, Sorts
  <2>2. MutexHeld'
    BY DeliveryAssumption DEF Typed, Sorts, MutexHeld, Threads
  <2>3. StageFits' /\ BuffersHold'
    BY DEF Typed, Sorts, StageFits, BuffersHold, Threads
  <2> QED
    BY <2>1, <2>2, <2>3 DEF Typed
<1> QED
  BY <1>1, <1>2, <1>3 DEF Sending

LEMMA ClientTyped ==
  ASSUME Typed, NEW u \in Users, Read(u) \/ Disconnect(u) \/ unregisterUser(u)
  PROVE  Typed'
<1>1. CASE Read(u)
  <2> USE <1>1 DEF Read, mutexes
  <2>1. /\ Head(socket[u]) \in Messages /\ Tail(socket[u]) \in Seq(Messages)
        /\ Len(Tail(socket[u])) = Len(socket[u]) - 1 /\ Len(socket[u]) \in Nat
    BY Taken DEF Typed, Sorts
  <2>2. Append(heard[u], Head(socket[u])) \in Seq(Messages)
    BY <2>1, Appended DEF Typed, Sorts
  <2>3. heard'[u] \in Seq(Messages)
    BY <2>2 DEF Typed, Sorts
  <2>4. Sorts'
    BY <2>1, <2>3 DEF Typed, Sorts
  <2>5. BuffersHold'
    BY <2>1, DeliveryAssumption DEF Typed, Sorts, BuffersHold
  <2>6. StageFits' /\ MutexHeld'
    BY DEF Typed, Sorts, StageFits, MutexHeld
  <2> QED
    BY <2>4, <2>5, <2>6 DEF Typed
<1>2. CASE Disconnect(u)
  BY <1>2, None, EmptySeq, DeliveryAssumption
     DEF Disconnect, mutexes, Typed, Sorts, StageFits, MutexHeld, BuffersHold
<1>3. CASE unregisterUser(u)
  BY <1>3
     DEF unregisterUser, mutexes, clients, Typed, Sorts, StageFits, MutexHeld,
         BuffersHold
<1> QED
  BY <1>1, <1>2, <1>3

LEMMA NextTyped == Typed /\ [Next]_vars => Typed'
<1> SUFFICES ASSUME Typed, [Next]_vars PROVE Typed'
  OBVIOUS
<1>1. CASE UNCHANGED vars
  BY <1>1 DEF vars, mutexes, clients, Typed, Sorts, StageFits, MutexHeld,
              BuffersHold
<1>2. CASE Next
  BY <1>2, FindMatchTyped, AskTyped, AcceptTyped, TimerTyped, AnswerSentTyped,
     SendingTyped, ClientTyped DEF Next, Handler, Threads
<1> QED
  BY <1>1, <1>2

-----------------------------------------------------------------------------
(* Ids: every message is numbered once.                                    *)

(* The messages that have been made: their numbers have been given.        *)
Made ==
  {m \in Messages \cup {NoMessage} :
     /\ m[1] = "MATCH_FOUND" => m[2] < nextMatch
     /\ m[1] = "REMATCH_DENIED" => m[2] <= fired
     /\ m[1] \in {"REMATCH_ACCEPTED", "FIND_MATCH_WAIT"} => m[2] <= asks}

BroadcastStages == {"lockRematch", "lockClients", "sendToUsers"}

(* Messages under way have been made, and no two threads have one to many. *)
AllMade ==
  /\ \A t \in Threads : message[t] \in Made
  /\ \A u \in Users : ToSet(socket[u]) \subseteq Made
  /\ \A s, t \in Threads :
       pc[s] \in BroadcastStages /\ pc[t] \in BroadcastStages
       /\ message[s] = message[t] => s = t

(* What is sent is owed, or has been read; an answer is there once.        *)
Pending(u) == owed[u] \cup ToSet(heard[u])

Owing ==
  /\ \A u \in Users : ToSet(socket[u]) \subseteq Pending(u)
  /\ \A t \in Threads :
       pc[t] \in {"lockClients", "sendToUsers"}
         => \A u \in ToSet(targets[t]) : message[t] \in Pending(u)
  /\ \A u \in Users :
       pc[u] = "answer" => /\ message[u] \in owed[u]
                           /\ message[u] \notin ToSet(socket[u])
  /\ \A u \in Users : \A i, j \in DOMAIN socket[u] :
       i # j /\ socket[u][i] = socket[u][j] => socket[u][i][1] \in Broadcasts

LEMMA MadeStays ==
  ASSUME Typed,
         nextMatch' \in Nat, nextMatch' >= nextMatch,
         asks' \in Nat, asks' >= asks, fired' \in Nat, fired' >= fired
  PROVE  Made \subseteq Made'
<1> SUFFICES ASSUME NEW m \in Messages \cup {NoMessage}, m \in Made
             PROVE  m \in Made'
  BY DEF Made
<1>1. m[2] \in Nat
  BY DEF Messages, NoMessage
<1> QED
  BY <1>1 DEF Made, Typed, Sorts

(* A broadcast of a message that no other thread has.                      *)
LEMMA BroadcastMade ==
  ASSUME Typed, AllMade, NEW t \in Threads, NEW m \in ToMany,
         NEW to \in Seq(Users), Broadcast(t, m, to),
         socket' = socket, Made \subseteq Made', m \in Made',
         \A s \in Threads : s # t /\ pc[s] \in BroadcastStages
                              => message[s] # m
  PROVE  AllMade'
<1>1. /\ pc' = [pc EXCEPT ![t] = "lockClients"]
      /\ message' = [message EXCEPT ![t] = m]
  BY BroadcastTyped
<1>2. \A s \in Threads : message'[s] \in Made'
  BY <1>1 DEF AllMade, Typed, Sorts
<1>3. \A u \in Users : ToSet(socket'[u]) \subseteq Made'
  BY DEF AllMade
<1>4. \A r, s \in Threads :
        pc'[r] \in BroadcastStages /\ pc'[s] \in BroadcastStages
        /\ message'[r] = message'[s] => r = s
  BY <1>1 DEF AllMade, Typed, Sorts, BroadcastStages
<1> QED
  BY <1>2, <1>3, <1>4 DEF AllMade

LEMMA BroadcastOwing ==
  ASSUME Typed, Owing, NEW t \in Threads, NEW m \in ToMany,
         NEW to \in Seq(Users), Broadcast(t, m, to),
         socket' = socket, heard' = heard
  PROVE  Owing'
<1>1. /\ pc' = [pc EXCEPT ![t] = "lockClients"]
      /\ message' = [message EXCEPT ![t] = m]
      /\ targets' = [targets EXCEPT ![t] = to]
      /\ \A u \in Users : owed[u] \subseteq owed'[u]
      /\ \A u \in ToSet(to) : m \in owed'[u]
  BY BroadcastTyped
<1>2. \A u \in Users : Pending(u) \subseteq Pending(u)'
  BY <1>1 DEF Pending
<1>3. \A u \in ToSet(to) : m \in Pending(u)'
  BY <1>1 DEF Pending
<1>4. \A u \in Users : ToSet(socket'[u]) \subseteq Pending(u)'
  BY <1>2 DEF Owing
<1>5. \A s \in Threads :
        pc'[s] \in {"lockClients", "sendToUsers"}
          => \A u \in ToSet(targets'[s]) : message'[s] \in Pending(u)'
  <2>1. \A s \in Threads : ToSet(targets[s]) \subseteq Users
    BY Elements DEF Typed, Sorts
  <2> QED
    BY <2>1, <1>1, <1>2, <1>3 DEF Owing, Typed, Sorts
<1>6. \A u \in Users :
        pc'[u] = "answer" => /\ message'[u] \in owed'[u]
                             /\ message'[u] \notin ToSet(socket'[u])
  BY <1>1 DEF Owing, Typed, Sorts, Threads
<1> QED
  BY <1>4, <1>5, <1>6 DEF Owing, Pending

-----------------------------------------------------------------------------
(* Ranks: the order in which threads got clients_mutex.                    *)

(* What has been sent to many is in one order for all: by rank.  A message *)
(* gets its rank when its thread gets clients_mutex, and only messages     *)
(* that have one are sent; so the highest is that of the thread that is    *)
(* sending.                                                                *)
InOrder(rank, u) ==
  /\ \A i \in DOMAIN heard[u] : /\ heard[u][i] \in ToMany
                                /\ rank[heard[u][i]] # 0
  /\ \A m \in ToSet(socket[u]) \cap ToMany : rank[m] # 0
  /\ \A i, j \in DOMAIN heard[u] :
       i <= j => rank[heard[u][i]] <= rank[heard[u][j]]
  /\ \A i \in DOMAIN heard[u] : \A m \in ToSet(socket[u]) \cap ToMany :
       rank[heard[u][i]] <= rank[m]
  /\ \A i, j \in DOMAIN socket[u] :
       /\ i <= j /\ socket[u][i] \in ToMany /\ socket[u][j] \in ToMany
       => rank[socket[u][i]] <= rank[socket[u][j]]

RankOfThreads(rank, top) ==
  \A t \in Threads :
    /\ pc[t] \in {"lockRematch", "lockClients"} => rank[message[t]] = 0
    /\ pc[t] = "sendToUsers" => rank[message[t]] = top /\ top # 0

RankedBy(rank, top) ==
  /\ \A m \in Messages : rank[m] <= top
  /\ \A m \in Messages : rank[m] # 0 => m \in Made
  /\ \A m, k \in Messages : rank[m] = rank[k] /\ rank[m] # 0 => m = k
  /\ RankOfThreads(rank, top)
  /\ \A u \in Users : InOrder(rank, u)

Ranked == \E rank \in [Messages -> Nat], top \in Nat : RankedBy(rank, top)

(* The inductive invariant.                                                *)
Inv == Typed /\ AllMade /\ Owing /\ Ranked

LEMMA InitInv == Init => Inv
<1> SUFFICES ASSUME Init PROVE Inv
  OBVIOUS
<1>1. Typed
  BY InitTyped
<1>2. AllMade
  <2>1. NoMessage \in Made
    BY DEF Made, NoMessage
  <2> QED
    BY <2>1, None DEF Init, AllMade, BroadcastStages
<1>3. Owing
  BY None DEF Init, Owing, Threads
<1>4. Ranked
  <2> DEFINE rank == [m \in Messages |-> 0]
  <2>1. rank \in [Messages -> Nat] /\ \A m \in Messages : rank[m] = 0
    OBVIOUS
  <2>2. \A u \in Users : InOrder(rank, u)
    BY None DEF InOrder, Init
  <2>3. RankOfThreads(rank, 0)
    BY DEF RankOfThreads, Init
  <2> HIDE DEF rank
  <2>4. RankedBy(rank, 0)
    BY <2>1, <2>2, <2>3 DEF RankedBy
  <2> QED
    BY <2>1, <2>4 DEF Ranked
<1> QED
  BY <1>1, <1>2, <1>3, <1>4 DEF Inv

(* Ranks stay where nothing is sent or read, and those who come to wait    *)
(* for a mutex have a new message.                                         *)
LEMMA RanksStay ==
  ASSUME Ranked, Made \subseteq Made', socket' = socket, heard' = heard,
         \A t \in Threads :
           /\ pc'[t] \in {"lockRematch", "lockClients"} =>
                message'[t] \in Messages
                /\ \/ message'[t] \notin Made
                   \/ /\ message'[t] = message[t]
                      /\ pc[t] \in {"lockRematch", "lockClients"}
           /\ pc'[t] = "sendToUsers" =>
                pc[t] = "sendToUsers" /\ message'[t] = message[t]
  PROVE  Ranked'
<1>1. PICK rank \in [Messages -> Nat], top \in Nat : RankedBy(rank, top)
  BY DEF Ranked
<1>2. RankOfThreads(rank, top)'
  BY <1>1 DEF RankedBy, RankOfThreads
<1>3. \A u \in Users : InOrder(rank, u)'
  BY <1>1 DEF RankedBy, InOrder
<1>4. RankedBy(rank, top)'
  BY <1>1, <1>2, <1>3 DEF RankedBy
<1> QED
  BY <1>4 DEF Ranked

LEMMA FindMatchInv ==
  ASSUME Inv, NEW u \in Users, FindMatch(u) PROVE AllMade' /\ Owing' /\ Ranked'
<1> DEFINE waiting == Append(queue, u)
<1>1. /\ waiting \in Seq(Users) /\ Len(waiting) = Len(queue) + 1
      /\ Len(queue) \in Nat /\ Len(queue) < 3
  BY Appended, Elements DEF Inv, Typed, Sorts
<1>2. /\ u \in Threads /\ asks' = asks + 1 /\ asks' \in Nat /\ asks' >= asks
      /\ pc[u] = "idle" /\ fired' = fired /\ fired' \in Nat /\ fired' >= fired
      /\ socket' = socket /\ heard' = heard
  BY DEF Threads, Inv, Typed, Sorts, FindMatch, Asking, clients
<1>3. CASE Len(waiting) >= 3
  <2> DEFINE m == <<"MATCH_FOUND", nextMatch>>
  <2>1. Len(waiting) = 3
    BY <1>1, <1>3
  <2>2. SubSeq(waiting, 1, 3) = waiting
    BY <2>1, <1>1, SubSeqFull
  <2>3. nextMatch' = nextMatch + 1 /\ Broadcast(u, m, waiting)
    <3>1. nextMatch' = nextMatch + 1 /\ Broadcast(u, m, SubSeq(waiting, 1, 3))
      BY <2>1 DEF FindMatch
    <3> QED
      BY <3>1, <2>2 DEF Broadcast
  <2>4. m \in ToMany
    BY DEF ToMany, Broadcasts, Inv, Typed, Sorts
  <2>5. nextMatch' \in Nat /\ nextMatch' >= nextMatch
    BY <2>3 DEF Inv, Typed, Sorts
  <2>6. Made \subseteq Made'
    BY <2>5, <1>2, MadeStays DEF Inv
  <2>7. m \in Made' /\ m \notin Made
    BY <2>3, <2>4, Kindly DEF Made, Inv, Typed, Sorts
  <2> HIDE DEF m, waiting
  <2>8. AllMade' /\ Owing'
    BY <2>3, <2>4, <2>6, <2>7, <1>1, <1>2, BroadcastMade, BroadcastOwing
       DEF Inv, AllMade
  <2>9. /\ pc' = [pc EXCEPT ![u] = "lockClients"]
        /\ message' = [message EXCEPT ![u] = m]
    BY <2>3 DEF Broadcast
  <2>10. Ranked'
    BY <2>9, <2>4, <2>6, <2>7, <1>2, Kindly, RanksStay
       DEF Inv, Typed, Sorts, StageFits
  <2> QED
    BY <2>8, <2>10
<1>4. CASE ~ (Len(waiting) >= 3)
  <2> DEFINE m == <<"FIND_MATCH_WAIT", asks'>>
  <2>1. /\ pc' = [pc EXCEPT ![u] = "answer"]
        /\ message' = [message EXCEPT ![u] = m]
        /\ owed' = [owed EXCEPT ![u] = @ \cup {m}]
        /\ targets' = targets /\ nextMatch' = nextMatch
    BY <1>4 DEF FindMatch, Answer
  <2>2. Made \subseteq Made'
    BY <2>1, <1>2, MadeStays DEF Inv, Typed, Sorts
  <2>3. m \in Messages
    BY <1>2, Kindly DEF Kinds
  <2>4. m \in Made' /\ m \notin Made
    BY <2>3, <1>2 DEF Made, Inv, Typed, Sorts
  <2> HIDE DEF m, waiting
  <2>5. AllMade'
    BY <2>1, <2>2, <2>4, <1>2 DEF Inv, Typed, Sorts, AllMade, BroadcastStages
  <2>6. \A v \in Users : Pending(v) \subseteq Pending(v)' /\ owed[v] \subseteq owed'[v]
    BY <2>1, <1>2 DEF Pending, Inv, Typed, Sorts
  <2>7. Owing'
    <3>1. \A v \in Users : ToSet(socket'[v]) \subseteq Pending(v)'
      BY <2>6, <1>2 DEF Inv, Owing
    <3>2. \A s \in Threads :
            pc'[s] \in {"lockClients", "sendToUsers"}
              => \A v \in ToSet(targets'[s]) : message'[s] \in Pending(v)'
      <4>1. \A s \in Threads : ToSet(targets[s]) \subseteq Users
        BY Elements DEF Inv, Typed, Sorts
      <4> QED
        BY <4>1, <2>1, <2>6, <1>2 DEF Inv, Owing, Typed, Sorts
    <3>3. \A v \in Users :
            pc'[v] = "answer" => /\ message'[v] \in owed'[v]
                                 /\ message'[v] \notin ToSet(socket'[v])
      <4>1. m \notin ToSet(socket[u])
        BY <2>4 DEF Inv, AllMade
      <4> QED
        BY <4>1, <2>1, <2>6, <1>2 DEF Inv, Owing, Typed, Sorts, Threads
    <3> QED
      BY <3>1, <3>2, <3>3, <1>2 DEF Inv, Owing
  <2>8. Ranked'
    BY <2>1, <2>2, <1>2, Kindly, RanksStay
       DEF Inv, Typed, Sorts, StageFits
  <2> QED
    BY <2>5, <2>7, <2>8
<1> QED
  BY <1>3, <1>4

LEMMA AskInv ==
  ASSUME Inv, NEW u \in Users, AskRematch(u)
  PROVE  AllMade' /\ Owing' /\ Ranked'
<1> DEFINE m == <<"REMATCH_ACCEPTED", asks'>>
<1>1. /\ u \in Threads /\ asks' = asks + 1 /\ asks' \in Nat /\ asks' >= asks
      /\ pc[u] = "idle"
      /\ UNCHANGED <<fired, nextMatch, targets, socket, heard>>
      /\ pc' = [pc EXCEPT ![u] = "lockRematch"]
      /\ message' = [message EXCEPT ![u] = m]
      /\ owed' = [owed EXCEPT ![u] = @ \cup {message'[u]}]
  BY DEF Threads, Inv, Typed, Sorts, AskRematch, Asking, clients
<1>2. Made \subseteq Made'
  BY <1>1, MadeStays DEF Inv, Typed, Sorts
<1>3. m \in ToMany
  BY <1>1 DEF ToMany, Broadcasts
<1>4. m \in Made' /\ m \notin Made
  BY <1>3, <1>1, Kindly DEF Made, Inv, Typed, Sorts
<1> HIDE DEF m
<1>5. AllMade'
  BY <1>1, <1>2, <1>4 DEF Inv, Typed, Sorts, AllMade, BroadcastStages
<1>6. \A v \in Users :
        Pending(v) \subseteq Pending(v)' /\ owed[v] \subseteq owed'[v]
  BY <1>1 DEF Pending, Inv, Typed, Sorts
<1>7. Owing'
  <2>1. \A s \in Threads : ToSet(targets[s]) \subseteq Users
    BY Elements DEF Inv, Typed, Sorts
  <2>2. \A s \in Threads :
          pc'[s] \in {"lockClients", "sendToUsers"}
            => \A v \in ToSet(targets'[s]) : message'[s] \in Pending(v)'
    BY <2>1, <1>1, <1>6 DEF Inv, Owing, Typed, Sorts
  <2>3. \A v \in Users :
          pc'[v] = "answer" => /\ message'[v] \in owed'[v]
                               /\ message'[v] \notin ToSet(socket'[v])
    BY <1>1, <1>6 DEF Inv, Owing, Typed, Sorts, Threads
  <2> QED
    BY <2>2, <2>3, <1>1, <1>6 DEF Inv, Owing
<1>8. Ranked'
  BY <1>1, <1>2, <1>3, <1>4, Kindly, RanksStay
     DEF Inv, Typed, Sorts, StageFits
<1> QED
  BY <1>5, <1>7, <1>8

LEMMA AcceptInv ==
  ASSUME Inv, NEW u \in Users, AcceptRematch(u)
  PROVE  AllMade' /\ Owing' /\ Ranked'
<1>1. /\ u \in Threads /\ pc[u] = "lockRematch"
      /\ UNCHANGED <<asks, fired, nextMatch, socket, heard>>
      /\ Broadcast(u, message[u], Room)
  BY DEF Threads, AcceptRematch, clients
<1>2. message[u] \in ToMany /\ Room \in Seq(Users)
  BY <1>1, DeliveryAssumption DEF Inv, Typed, StageFits
<1>3. Made \subseteq Made' /\ message[u] \in Made'
  BY <1>1, MadeStays DEF Inv, Typed, Sorts, AllMade
<1>4. AllMade' /\ Owing'
  BY <1>1, <1>2, <1>3, BroadcastMade, BroadcastOwing
     DEF Inv, AllMade, BroadcastStages
<1>5. /\ pc' = [pc EXCEPT ![u] = "lockClients"]
      /\ message' = [message EXCEPT ![u] = message[u]]
  BY <1>1 DEF Broadcast
<1>6. Ranked'
  BY <1>1, <1>2, <1>3, <1>5, Kindly, RanksStay
     DEF Inv, Typed, Sorts, StageFits
<1> QED
  BY <1>4, <1>6

LEMMA TimerInv ==
  ASSUME Inv, TimerFires PROVE AllMade' /\ Owing' /\ Ranked'
<1> DEFINE m == <<"REMATCH_DENIED", fired'>>
<1>1. /\ Timer \in Threads /\ pc[Timer] = "idle"
      /\ fired' = fired + 1 /\ fired' \in Nat /\ fired' >= fired
      /\ UNCHANGED <<asks, nextMatch, socket, heard>>
      /\ Broadcast(Timer, m, Room)
  BY DEF Threads, TimerFires, clients, Inv, Typed, Sorts
<1>2. m \in ToMany /\ Room \in Seq(Users)
  BY <1>1, DeliveryAssumption DEF ToMany, Broadcasts
<1>3. Made \subseteq Made'
  BY <1>1, MadeStays DEF Inv, Typed, Sorts
<1>4. m \in Made' /\ m \notin Made
  BY <1>1, <1>2, Kindly DEF Made, Inv, Typed, Sorts
<1> HIDE DEF m
<1>5. AllMade' /\ Owing'
  BY <1>1, <1>2, <1>3, <1>4, BroadcastMade, BroadcastOwing
     DEF Inv, AllMade
<1>6. /\ pc' = [pc EXCEPT ![Timer] = "lockClients"]
      /\ message' = [message EXCEPT ![Timer] = m]
  BY <1>1 DEF Broadcast
<1>7. Ranked'
  BY <1>1, <1>2, <1>3, <1>4, <1>6, Kindly, RanksStay
     DEF Inv, Typed, Sorts, StageFits
<1> QED
  BY <1>5, <1>7

(* An answer is no broadcast: it changes no order.                         *)
LEMMA AnswerSentInv ==
  ASSUME Inv, NEW u \in Users, sendMessage(u)
  PROVE  AllMade' /\ Owing' /\ Ranked'
<1>1. /\ u \in Threads /\ pc[u] = "answer" /\ message[u] \in Messages
      /\ message[u][1] = "FIND_MATCH_WAIT"
      /\ message[u] \notin ToMany
      /\ UNCHANGED <<asks, fired, nextMatch, heard, owed, targets>>
      /\ pc' = [pc EXCEPT ![u] = "idle"]
      /\ message' = [message EXCEPT ![u] = NoMessage]
      /\ Send(u, message[u])
  BY DEF Threads, sendMessage, Inv, Typed, StageFits, ToMany, Broadcasts
<1>2. /\ socket' \in [Users -> Seq(Messages)]
      /\ \A v \in Users : v # u => socket'[v] = socket[v]
      /\ socket'[u] \in {socket[u], Append(socket[u], message[u])}
  BY <1>1, SendEffect DEF Inv
<1>3. socket[u] \in Seq(Messages) /\ Len(socket[u]) \in Nat
      /\ DOMAIN socket[u] = 1 .. Len(socket[u])
  BY Elements DEF Inv, Typed, Sorts
<1>4. \A v \in Users : \/ ToSet(socket'[v]) = ToSet(socket[v])
                        \/ /\ v = u
                           /\ ToSet(socket'[v])
                                = ToSet(socket[v]) \cup {message[u]}
  <2>1. ToSet(Append(socket[u], message[u]))
          = ToSet(socket[u]) \cup {message[u]}
    BY <1>1, <1>3, Appended
  <2>2. CASE socket'[u] = socket[u]
    BY <2>2, <1>2
  <2>3. CASE socket'[u] = Append(socket[u], message[u])
    BY <2>1, <2>3, <1>2
  <2> QED
    BY <2>2, <2>3, <1>2
<1>5. Made' = Made /\ NoMessage \in Made
  BY <1>1 DEF Made, NoMessage
<1>6. AllMade'
  <2>1. \A t \in Threads : message'[t] \in Made'
    BY <1>1, <1>5 DEF Inv, Typed, Sorts, AllMade
  <2>2. \A v \in Users : ToSet(socket'[v]) \subseteq Made'
    BY <1>1, <1>4, <1>5 DEF Inv, AllMade
  <2>3. \A r, t \in Threads :
          pc'[r] \in BroadcastStages /\ pc'[t] \in BroadcastStages
          /\ message'[r] = message'[t] => r = t
    BY <1>1 DEF Inv, Typed, Sorts, AllMade, BroadcastStages
  <2> QED
    BY <2>1, <2>2, <2>3 DEF AllMade
<1>7. Owing'
  <2>1. \A v \in Users : Pending(v)' = Pending(v)
    BY <1>1 DEF Pending
  <2>2. \A v \in Users : ToSet(socket'[v]) \subseteq Pending(v)'
    <3>1. message[u] \in Pending(u)
      BY <1>1 DEF Inv, Owing, Pending
    <3> QED
      BY <2>1, <3>1, <1>4 DEF Inv, Owing
  <2>3. \A s \in Threads :
          pc'[s] \in {"lockClients", "sendToUsers"}
            => \A v \in ToSet(targets'[s]) : message'[s] \in Pending(v)'
    <3>1. \A s \in Threads : ToSet(targets[s]) \subseteq Users
      BY Elements DEF Inv, Typed, Sorts
    <3> QED
      BY <3>1, <2>1, <1>1 DEF Inv, Owing, Typed, Sorts
  <2>4. \A v \in Users :
          pc'[v] = "answer" => /\ message'[v] \in owed'[v]
                               /\ message'[v] \notin ToSet(socket'[v])
    BY <1>1, <1>2 DEF Inv, Owing, Typed, Sorts, Threads
  <2>5. \A v \in Users : \A i, j \in DOMAIN socket'[v] :
          i # j /\ socket'[v][i] = socket'[v][j]
            => socket'[v][i][1] \in Broadcasts
    <3>1. CASE socket'[u] = socket[u]
      BY <3>1, <1>2 DEF Inv, Owing
    <3>2. CASE socket'[u] = Append(socket[u], message[u])
      <4>1. \A i \in 1 .. Len(socket[u]) : socket[u][i] # message[u]
        BY <1>1, <1>3, Elements DEF Inv, Owing
      <4>2. /\ DOMAIN socket'[u] = 1 .. Len(socket[u]) + 1
            /\ \A i \in 1 .. Len(socket[u]) : socket'[u][i] = socket[u][i]
            /\ socket'[u][Len(socket[u]) + 1] = message[u]
        BY <3>2, <1>1, <1>3, Appended
      <4>3. \A i, j \in DOMAIN socket'[u] :
              i # j /\ socket'[u][i] = socket'[u][j]
                => socket'[u][i][1] \in Broadcasts
        BY <4>1, <4>2, <1>3 DEF Inv, Owing
      <4> QED
        BY <4>3, <1>2 DEF Inv, Owing
    <3> QED
      BY <3>1, <3>2, <1>2
  <2> QED
    BY <2>2, <2>3, <2>4, <2>5 DEF Owing
<1>8. Ranked'
  <2>1. PICK rank \in [Messages -> Nat], top \in Nat : RankedBy(rank, top)
    BY DEF Inv, Ranked
  <2>2. RankOfThreads(rank, top)'
    BY <2>1, <1>1 DEF RankedBy, RankOfThreads, Inv, Typed, Sorts
  <2>3. ASSUME NEW v \in Users PROVE InOrder(rank, v)'
    <3>0. InOrder(rank, v)
      BY <2>1 DEF RankedBy
    <3>1. CASE socket'[v] = socket[v]
      BY <3>0, <3>1, <1>1 DEF InOrder
    <3>2. CASE v = u /\ socket'[u] = Append(socket[u], message[u])
      <4>1. /\ DOMAIN socket'[u] = 1 .. Len(socket[u]) + 1
            /\ \A i \in 1 .. Len(socket[u]) : socket'[u][i] = socket[u][i]
            /\ socket'[u][Len(socket[u]) + 1] = message[u]
        BY <3>2, <1>1, <1>3, Appended
      <4>2. ToSet(socket'[u]) \cap ToMany = ToSet(socket[u]) \cap ToMany
        BY <3>2, <1>1, <1>3, Appended
      <4> QED
        BY <4>1, <4>2, <3>0, <3>2, <1>1, <1>3 DEF InOrder
    <3> QED
      BY <3>1, <3>2, <1>2
  <2>4. RankedBy(rank, top)'
    BY <2>1, <2>2, <2>3, <1>5 DEF RankedBy
  <2> QED
    BY <2>4 DEF Ranked
<1> QED
  BY <1>6, <1>7, <1>8

(* Who gets the mutex: its message gets the next rank.                     *)
LEMMA LockInv ==
  ASSUME Inv, NEW t \in Threads, LockClients(t)
  PROVE  AllMade' /\ Owing' /\ Ranked'
<1>1. /\ pc[t] = "lockClients" /\ clientsMutex = NoThread
      /\ pc' = [pc EXCEPT ![t] = "sendToUsers"]
      /\ UNCHANGED <<asks, fired, nextMatch, heard, owed, targets, message,
                     socket>>
  BY DEF LockClients, clients
<1>2. Made' = Made
  BY <1>1 DEF Made
<1>3. AllMade'
  BY <1>1, <1>2 DEF Inv, Typed, Sorts, AllMade, BroadcastStages
<1>4. Owing'
  <2>1. \A v \in Users : Pending(v)' = Pending(v)
    BY <1>1 DEF Pending
  <2>2. \A s \in Threads :
          pc'[s] \in {"lockClients", "sendToUsers"}
            => \A v \in ToSet(targets'[s]) : message'[s] \in Pending(v)'
    <3>1. \A s \in Threads : ToSet(targets[s]) \subseteq Users
      BY Elements DEF Inv, Typed, Sorts
    <3> QED
      BY <3>1, <2>1, <1>1 DEF Inv, Owing, Typed, Sorts
  <2> QED
    BY <2>1, <2>2, <1>1 DEF Inv, Owing, Typed, Sorts, Threads
<1>5. Ranked'
  <2>1. PICK rank \in [Messages -> Nat], top \in Nat : RankedBy(rank, top)
    BY DEF Inv, Ranked
  <2>2. PICK m \in Messages : m = message[t] /\ rank[m] = 0 /\ m \in Made
    BY <2>1, <1>1, Kindly
       DEF Inv, Typed, StageFits, RankedBy, RankOfThreads, AllMade
  <2>3. PICK next \in [Messages -> Nat] :
          next[m] = top + 1 /\ \A k \in Messages : k # m => next[k] = rank[k]
    <3> WITNESS [rank EXCEPT ![m] = top + 1] \in [Messages -> Nat]
    <3> QED
      OBVIOUS
  <2>4. \A s \in Threads : pc[s] # "sendToUsers"
    BY <1>1, DeliveryAssumption DEF Inv, Typed, MutexHeld, Threads
  <2>5. \A s \in Threads : s # t /\ pc[s] \in {"lockRematch", "lockClients"}
          => message[s] # m /\ message[s] \in Messages /\ rank[message[s]] = 0
    BY <2>1, <2>2, <1>1, Kindly
       DEF Inv, Typed, StageFits, AllMade, BroadcastStages, RankedBy,
           RankOfThreads
  <2>6. RankOfThreads(next, top + 1)'
    BY <2>2, <2>3, <2>4, <2>5, <1>1
       DEF RankOfThreads, Inv, Typed, Sorts
  <2>7. \A k \in Messages : rank[k] <= top /\ rank[k] \in Nat
    BY <2>1 DEF RankedBy
  <2>8. ASSUME NEW v \in Users PROVE InOrder(next, v)'
    <3>0. InOrder(rank, v)
      BY <2>1 DEF RankedBy
    <3>1. \A i \in DOMAIN heard[v] : /\ heard[v][i] \in Messages
                                     /\ heard[v][i] # m
      BY <3>0, <2>2, Kindly DEF InOrder
    <3>2. \A k \in ToSet(socket[v]) \cap ToMany : k \in Messages /\ k # m
      BY <3>0, <2>2, Kindly DEF InOrder
    <3>3. \A i \in DOMAIN socket[v] : socket[v][i] \in ToSet(socket[v])
      BY Elements DEF Inv, Typed, Sorts
    <3> QED
      BY <3>0, <3>1, <3>2, <3>3, <2>3, <1>1 DEF InOrder
  <2>9. \A k \in Messages : /\ next[k] <= top + 1
                            /\ next[k] # 0 => k \in Made'
    BY <2>1, <2>2, <2>3, <2>7, <1>2 DEF RankedBy
  <2>10. \A k, n \in Messages : next[k] = next[n] /\ next[k] # 0 => k = n
    <3>1. \A k \in Messages : k # m => next[k] # next[m]
      <4> SUFFICES ASSUME NEW k \in Messages, k # m PROVE next[k] # next[m]
        OBVIOUS
      <4>1. next[k] \in Nat /\ next[k] <= top
        BY <2>3, <2>7
      <4> QED
        BY <4>1, <2>3
    <3>2. \A k, n \in Messages : rank[k] = rank[n] /\ rank[k] # 0 => k = n
      BY <2>1 DEF RankedBy
    <3> QED
      BY <3>1, <3>2, <2>3
  <2>11. RankedBy(next, top + 1)'
    BY <2>6, <2>8, <2>9, <2>10 DEF RankedBy
  <2> QED
    BY <2>3, <2>11 DEF Ranked
<1> QED
  BY <1>3, <1>4, <1>5

(* Who has the mutex sends a message of the highest rank.                  *)
LEMMA SendInv ==
  ASSUME Inv, NEW t \in Threads, SendToNext(t)
  PROVE  AllMade' /\ Owing' /\ Ranked'
<1> DEFINE u == Head(targets[t])
           m == message[t]
<1>1. /\ pc[t] = "sendToUsers" /\ targets[t] # <<>>
      /\ u \in online => Send(u, m)
      /\ u \notin online => socket' = socket
      /\ targets' = [targets EXCEPT ![t] = Tail(targets[t])]
      /\ UNCHANGED <<asks, fired, nextMatch, heard, owed, message, pc>>
  BY DEF SendToNext
<1>2. /\ m \in ToMany /\ m \in Messages /\ m \in Made
      /\ u \in Users /\ u \in ToSet(targets[t])
      /\ ToSet(Tail(targets[t])) \subseteq ToSet(targets[t])
  BY <1>1, Taken, Kindly DEF Inv, Typed, Sorts, StageFits, AllMade
<1> HIDE DEF u, m
<1>3. /\ socket' \in [Users -> Seq(Messages)]
      /\ \A v \in Users : v # u => socket'[v] = socket[v]
      /\ socket'[u] \in {socket[u], Append(socket[u], m)}
  <2>1. CASE u \in online
    BY <2>1, <1>1, <1>2, SendEffect DEF Inv
  <2>2. CASE u \notin online
    BY <2>2, <1>1, <1>2 DEF Inv, Typed, Sorts
  <2> QED
    BY <2>1, <2>2
<1>4. socket[u] \in Seq(Messages) /\ Len(socket[u]) \in Nat
      /\ DOMAIN socket[u] = 1 .. Len(socket[u])
  BY <1>2, Elements DEF Inv, Typed, Sorts
<1>5. CASE socket'[u] = Append(socket[u], m)
  <2>0. /\ DOMAIN socket'[u] = 1 .. Len(socket[u]) + 1
        /\ \A i \in 1 .. Len(socket[u]) : socket'[u][i] = socket[u][i]
        /\ socket'[u][Len(socket[u]) + 1] = m
        /\ ToSet(socket'[u]) = ToSet(socket[u]) \cup {m}
    BY <1>5, <1>2, <1>4, Appended
  <2>1. \A v \in Users :
          ToSet(socket'[v]) \subseteq ToSet(socket[v]) \cup {m}
    BY <2>0, <1>3
  <2>2. Made' = Made
    BY <1>1 DEF Made
  <2>3. AllMade'
    BY <2>1, <2>2, <1>1, <1>2 DEF Inv, AllMade
  <2>4. \A v \in Users : Pending(v)' = Pending(v)
    BY <1>1 DEF Pending
  <2>5. m \in Pending(u)
    BY <1>1, <1>2 DEF Inv, Owing, m
  <2>6. Owing'
    <3>1. \A v \in Users : ToSet(socket'[v]) \subseteq Pending(v)'
      BY <2>0, <2>4, <2>5, <1>3 DEF Inv, Owing
    <3>2. \A s \in Threads :
            pc'[s] \in {"lockClients", "sendToUsers"}
              => \A v \in ToSet(targets'[s]) : message'[s] \in Pending(v)'
      <4>1. \A s \in Threads : ToSet(targets[s]) \subseteq Users
        BY Elements DEF Inv, Typed, Sorts
      <4>2. \A s \in Threads : ToSet(targets'[s]) \subseteq ToSet(targets[s])
        BY <1>1, <1>2 DEF Inv, Typed, Sorts
      <4> QED
        BY <4>1, <4>2, <2>4, <1>1 DEF Inv, Owing
    <3>3. \A v \in Users :
            pc'[v] = "answer" => /\ message'[v] \in owed'[v]
                                 /\ message'[v] \notin ToSet(socket'[v])
      <4>1. \A v \in Users : pc[v] = "answer" => message[v] # m
        BY <1>2 DEF Inv, Typed, StageFits, ToMany, Broadcasts
      <4> QED
        BY <4>1, <2>1, <1>1 DEF Inv, Owing
    <3>4. \A i, j \in DOMAIN socket'[u] :
            i # j /\ socket'[u][i] = socket'[u][j]
              => socket'[u][i][1] \in Broadcasts
      <4>1. m[1] \in Broadcasts
        BY <1>2 DEF ToMany
      <4>2. \A i, j \in DOMAIN socket[u] :
              i # j /\ socket[u][i] = socket[u][j]
                => socket[u][i][1] \in Broadcasts
        BY <1>2 DEF Inv, Owing
      <4> QED
        BY <4>1, <4>2, <2>0, <1>4
    <3> QED
      BY <3>1, <3>2, <3>3, <3>4, <1>3 DEF Inv, Owing
  <2>7. Ranked'
    <3>1. PICK rank \in [Messages -> Nat], top \in Nat : RankedBy(rank, top)
      BY DEF Inv, Ranked
    <3>2. RankOfThreads(rank, top)'
      BY <3>1, <1>1 DEF RankedBy, RankOfThreads
    <3>3. /\ rank[m] = top /\ top # 0
          /\ \A k \in Messages : rank[k] \in Nat /\ rank[k] <= top
      BY <3>1, <1>1 DEF RankedBy, RankOfThreads, m
    <3>4. ASSUME NEW v \in Users PROVE InOrder(rank, v)'
      <4>0. InOrder(rank, v)
        BY <3>1 DEF RankedBy
      <4>1. CASE v # u
        BY <4>0, <4>1, <1>1, <1>3 DEF InOrder
      <4>2. CASE v = u
        <5>1. heard' = heard /\ \A i \in DOMAIN heard[u] :
                                  /\ heard[u][i] \in Messages
                                  /\ heard[u][i] \in ToMany
                                  /\ rank[heard[u][i]] # 0
          BY <4>0, <4>2, <1>1, Kindly DEF InOrder
        <5>2. \A i \in 1 .. Len(socket[u]) : socket[u][i] \in Messages
          BY <1>4
        <5>3. \A k \in ToSet(socket'[u]) \cap ToMany : rank[k] # 0
          BY <4>0, <4>2, <3>3, <2>0 DEF InOrder
        <5>4. \A i, j \in DOMAIN heard[u] :
                i <= j => rank[heard[u][i]] <= rank[heard[u][j]]
          BY <4>0, <4>2 DEF InOrder
        <5>5. \A i \in DOMAIN heard[u] :
                \A k \in ToSet(socket'[u]) \cap ToMany :
                  rank[heard[u][i]] <= rank[k]
          BY <5>1, <4>0, <4>2, <3>3, <2>0 DEF InOrder
        <5>6. ASSUME NEW i \in DOMAIN socket'[u], NEW j \in DOMAIN socket'[u],
                     i <= j, socket'[u][i] \in ToMany,
                     socket'[u][j] \in ToMany
              PROVE  rank[socket'[u][i]] <= rank[socket'[u][j]]
          <6>1. i \in 1 .. Len(socket[u]) + 1 /\ j \in 1 .. Len(socket[u]) + 1
            BY <2>0, <5>6
          <6>2. CASE j = Len(socket[u]) + 1
            BY <6>1, <6>2, <5>2, <3>3, <2>0, <1>2, <1>4
          <6>3. CASE j # Len(socket[u]) + 1
            <7>1. i \in 1 .. Len(socket[u]) /\ j \in 1 .. Len(socket[u])
              BY <6>1, <6>3, <5>6, <1>4
            <7> QED
              BY <7>1, <5>6, <4>0, <4>2, <2>0, <1>4 DEF InOrder
          <6> QED
            BY <6>2, <6>3
        <5> QED
          BY <5>1, <5>3, <5>4, <5>5, <5>6, <4>2 DEF InOrder
      <4> QED
        BY <4>1, <4>2
    <3>5. RankedBy(rank, top)'
      BY <3>1, <3>2, <3>4, <2>2 DEF RankedBy
    <3> QED
      BY <3>5 DEF Ranked
  <2> QED
    BY <2>3, <2>6, <2>7
<1>6. CASE socket'[u] = socket[u]
  <2>1. \A v \in Users : socket'[v] = socket[v]
    BY <1>3, <1>6
  <2>2. Made' = Made
    BY <1>1 DEF Made
  <2>3. AllMade'
    BY <2>1, <2>2, <1>1 DEF Inv, AllMade
  <2>4. \A v \in Users : Pending(v)' = Pending(v)
    BY <1>1 DEF Pending
  <2>5. Owing'
    <3>1. \A s \in Threads : ToSet(targets[s]) \subseteq Users
      BY Elements DEF Inv, Typed, Sorts
    <3>2. \A s \in Threads : ToSet(targets'[s]) \subseteq ToSet(targets[s])
      BY <1>1, <1>2 DEF Inv, Typed, Sorts
    <3> QED
      BY <3>1, <3>2, <2>1, <2>4, <1>1 DEF Inv, Owing
  <2>6. Ranked'
    <3>1. PICK rank \in [Messages -> Nat], top \in Nat : RankedBy(rank, top)
      BY DEF Inv, Ranked
    <3>2. RankedBy(rank, top)'
      BY <3>1, <2>1, <2>2, <1>1 DEF RankedBy, RankOfThreads, InOrder
    <3> QED
      BY <3>2 DEF Ranked
  <2> QED
    BY <2>3, <2>5, <2>6
<1> QED
  BY <1>3, <1>5, <1>6
(* Both mutexes are given back: nothing is sent or read.                   *)
LEMMA UnlockInv ==
  ASSUME Inv, NEW t \in Threads, Unlock(t)
  PROVE  AllMade' /\ Owing' /\ Ranked'
<1>1. /\ UNCHANGED <<asks, fired, nextMatch, heard, owed, targets, socket>>
      /\ pc' = [pc EXCEPT ![t] = "idle"]
      /\ message' = [message EXCEPT ![t] = NoMessage]
  BY DEF Unlock, clients
<1>2. Made' = Made /\ NoMessage \in Made
  BY <1>1 DEF Made, NoMessage
<1>3. AllMade'
  BY <1>1, <1>2 DEF Inv, Typed, Sorts, AllMade, BroadcastStages
<1>4. Owing'
  BY <1>1 DEF Inv, Typed, Sorts, Owing, Pending, Threads
<1>5. \A s \in Threads :
        /\ pc'[s] \in {"lockRematch", "lockClients"} =>
             /\ message'[s] \in Messages
             /\ message'[s] = message[s]
             /\ pc[s] \in {"lockRematch", "lockClients"}
        /\ pc'[s] = "sendToUsers" =>
             pc[s] = "sendToUsers" /\ message'[s] = message[s]
  BY <1>1, Kindly DEF Inv, Typed, Sorts, StageFits
<1>6. Ranked'
  BY <1>1, <1>2, <1>5, RanksStay DEF Inv
<1> QED
  BY <1>3, <1>4, <1>6

(* A client reads the first of what it has been sent, whose rank is the    *)
(* lowest of them.                                                         *)
LEMMA ReadInv ==
  ASSUME Inv, NEW u \in Users, Read(u)
  PROVE  AllMade' /\ Owing' /\ Ranked'
<1>0. PICK m \in Messages : m = Head(socket[u])
  BY Taken DEF Inv, Typed, Sorts, Read
<1>1. /\ socket[u] # <<>>
      /\ heard' = [heard EXCEPT ![u] = IF m[1] \in Broadcasts
                                       THEN Append(@, m) ELSE @]
      /\ owed' = [owed EXCEPT ![u] = @ \ {m}]
      /\ socket' = [socket EXCEPT ![u] = Tail(@)]
      /\ UNCHANGED <<asks, fired, nextMatch, message, pc, targets>>
  BY <1>0 DEF Read
<1>2. /\ m = socket[u][1] /\ m \in ToSet(socket[u])
      /\ m[1] \in Broadcasts <=> m \in ToMany
      /\ Len(socket[u]) \in Nat /\ Len(socket[u]) >= 1
      /\ DOMAIN socket[u] = 1 .. Len(socket[u])
  BY <1>0, <1>1, Taken, Elements
     DEF Inv, Typed, Sorts, ToMany, Messages
<1>3. /\ \A v \in Users : v # u => /\ socket'[v] = socket[v]
                                   /\ heard'[v] = heard[v]
                                   /\ owed'[v] = owed[v]
      /\ owed'[u] = owed[u] \ {m}
      /\ DOMAIN socket'[u] = 1 .. Len(socket[u]) - 1
      /\ \A i \in 1 .. Len(socket[u]) - 1 : socket'[u][i] = socket[u][i + 1]
      /\ ToSet(socket'[u]) \subseteq ToSet(socket[u])
  BY <1>1, Taken DEF Inv, Typed, Sorts
<1>4. m \in ToMany =>
        /\ DOMAIN heard[u] = 1 .. Len(heard[u]) /\ Len(heard[u]) \in Nat
        /\ DOMAIN heard'[u] = 1 .. Len(heard[u]) + 1
        /\ \A i \in 1 .. Len(heard[u]) : heard'[u][i] = heard[u][i]
        /\ heard'[u][Len(heard[u]) + 1] = m
        /\ ToSet(heard'[u]) = ToSet(heard[u]) \cup {m}
  <2> SUFFICES ASSUME m \in ToMany
               PROVE  /\ DOMAIN heard[u] = 1 .. Len(heard[u])
                      /\ Len(heard[u]) \in Nat
                      /\ DOMAIN heard'[u] = 1 .. Len(heard[u]) + 1
                      /\ \A i \in 1 .. Len(heard[u]) :
                           heard'[u][i] = heard[u][i]
                      /\ heard'[u][Len(heard[u]) + 1] = m
                      /\ ToSet(heard'[u]) = ToSet(heard[u]) \cup {m}
    OBVIOUS
  <2>1. /\ heard[u] \in Seq(Messages) /\ Len(heard[u]) \in Nat
        /\ DOMAIN heard[u] = 1 .. Len(heard[u])
        /\ heard'[u] = Append(heard[u], m)
    BY <1>1, <1>2, Elements DEF Inv, Typed, Sorts
  <2> QED
    BY <2>1, Appended
<1>5. m \notin ToMany => heard'[u] = heard[u]
  BY <1>1, <1>2 DEF Inv, Typed, Sorts
<1>6. Made' = Made
  BY <1>1 DEF Made
<1>7. AllMade'
  BY <1>1, <1>3, <1>6 DEF Inv, AllMade
<1>8. \A v \in Users : \A e \in Pending(v) :
        v # u \/ e # m \/ m \in ToMany => e \in Pending(v)'
  BY <1>3, <1>4, <1>5 DEF Pending
<1>9. Owing'
  <2>1. ASSUME NEW e \in ToSet(socket'[u]) PROVE e \in Pending(u)'
    <3>1. PICK i \in 1 .. Len(socket[u]) - 1 : e = socket[u][i + 1]
      BY <1>3 DEF ToSet
    <3>2. i + 1 \in DOMAIN socket[u] /\ 1 \in DOMAIN socket[u] /\ i + 1 # 1
      BY <1>2
    <3>3. e = m => m \in ToMany
      BY <3>1, <3>2, <1>2 DEF Inv, Owing
    <3> QED
      BY <3>3, <1>3, <1>8 DEF Inv, Owing
  <2>2. \A v \in Users : ToSet(socket'[v]) \subseteq Pending(v)'
    BY <2>1, <1>3, <1>8 DEF Inv, Owing
  <2>3. \A s \in Threads :
          pc'[s] \in {"lockClients", "sendToUsers"}
            => \A v \in ToSet(targets'[s]) : message'[s] \in Pending(v)'
    <3>1. \A s \in Threads : ToSet(targets[s]) \subseteq Users
      BY Elements DEF Inv, Typed, Sorts
    <3>2. \A s \in Threads :
            pc[s] \in {"lockClients", "sendToUsers"} => message[s] \in ToMany
      BY DEF Inv, Typed, StageFits
    <3> QED
      BY <3>1, <3>2, <1>1, <1>8 DEF Inv, Owing
  <2>4. \A v \in Users :
          pc'[v] = "answer" => /\ message'[v] \in owed'[v]
                               /\ message'[v] \notin ToSet(socket'[v])
    BY <1>1, <1>2, <1>3 DEF Inv, Owing
  <2>5. \A v \in Users : \A i, j \in DOMAIN socket'[v] :
          i # j /\ socket'[v][i] = socket'[v][j]
            => socket'[v][i][1] \in Broadcasts
    <3>1. ASSUME NEW i \in DOMAIN socket'[u], NEW j \in DOMAIN socket'[u],
                 i # j, socket'[u][i] = socket'[u][j]
          PROVE  socket'[u][i][1] \in Broadcasts
      <4>1. /\ i + 1 \in DOMAIN socket[u] /\ j + 1 \in DOMAIN socket[u]
            /\ i + 1 # j + 1
            /\ socket'[u][i] = socket[u][i + 1]
            /\ socket'[u][j] = socket[u][j + 1]
        BY <3>1, <1>2, <1>3
      <4> QED
        BY <4>1, <3>1 DEF Inv, Owing
    <3>2. ASSUME NEW v \in Users, v # u, NEW i \in DOMAIN socket'[v],
                 NEW j \in DOMAIN socket'[v],
                 i # j, socket'[v][i] = socket'[v][j]
          PROVE  socket'[v][i][1] \in Broadcasts
      BY <3>2, <1>3 DEF Inv, Owing
    <3> QED
      BY <3>1, <3>2
  <2> QED
    BY <2>2, <2>3, <2>4, <2>5 DEF Owing
<1>10. Ranked'
  <2>1. PICK rank \in [Messages -> Nat], top \in Nat : RankedBy(rank, top)
    BY DEF Inv, Ranked
  <2>2. RankOfThreads(rank, top)'
    BY <2>1, <1>1 DEF RankedBy, RankOfThreads
  <2>3. ASSUME NEW v \in Users, v # u PROVE InOrder(rank, v)'
    BY <2>1, <2>3, <1>3 DEF RankedBy, InOrder
  <2>4. InOrder(rank, u)'
    <3>0. InOrder(rank, u)
      BY <2>1 DEF RankedBy
    <3>1. \A k \in ToSet(socket'[u]) \cap ToMany : rank[k] # 0
      BY <3>0, <1>3 DEF InOrder
    <3>2. ASSUME NEW i \in DOMAIN socket'[u], NEW j \in DOMAIN socket'[u],
                 i <= j, socket'[u][i] \in ToMany, socket'[u][j] \in ToMany
          PROVE  rank[socket'[u][i]] <= rank[socket'[u][j]]
      <4>1. /\ i + 1 \in DOMAIN socket[u] /\ j + 1 \in DOMAIN socket[u]
            /\ i + 1 <= j + 1
            /\ socket'[u][i] = socket[u][i + 1]
            /\ socket'[u][j] = socket[u][j + 1]
        BY <3>2, <1>2, <1>3
      <4> QED
        BY <4>1, <3>2, <3>0 DEF InOrder
    <3>3. CASE m \notin ToMany
      BY <3>3, <3>0, <3>1, <3>2, <1>3, <1>5 DEF InOrder
    <3>4. CASE m \in ToMany
      <4>1. /\ rank[m] # 0 /\ rank[m] \in Nat
            /\ \A i \in DOMAIN heard[u] : rank[heard[u][i]] <= rank[m]
        BY <3>0, <3>4, <1>2 DEF InOrder
      <4>2. \A k \in ToSet(socket'[u]) \cap ToMany : rank[m] <= rank[k]
        <5> SUFFICES ASSUME NEW k \in ToSet(socket'[u]) \cap ToMany
                     PROVE  rank[m] <= rank[k]
          OBVIOUS
        <5>1. PICK i \in 1 .. Len(socket[u]) - 1 : k = socket[u][i + 1]
          BY <1>3 DEF ToSet
        <5>2. i + 1 \in DOMAIN socket[u] /\ 1 \in DOMAIN socket[u] /\ 1 <= i + 1
          BY <1>2
        <5> QED
          BY <5>1, <5>2, <3>0, <3>4, <1>2 DEF InOrder
      <4>3. \A i \in DOMAIN heard'[u] : /\ heard'[u][i] \in ToMany
                                        /\ rank[heard'[u][i]] # 0
        BY <4>1, <3>0, <3>4, <1>4 DEF InOrder
      <4>4. \A i \in DOMAIN heard'[u] : rank[heard'[u][i]] <= rank[m]
        BY <4>1, <3>4, <1>4
      <4>5. ASSUME NEW i \in DOMAIN heard'[u], NEW j \in DOMAIN heard'[u],
                   i <= j
            PROVE  rank[heard'[u][i]] <= rank[heard'[u][j]]
        <5>1. CASE j = Len(heard[u]) + 1
          BY <5>1, <4>4, <3>4, <1>4
        <5>2. CASE j # Len(heard[u]) + 1
          <6>1. i \in DOMAIN heard[u] /\ j \in DOMAIN heard[u]
            BY <5>2, <4>5, <3>4, <1>4
          <6>2. heard'[u][i] = heard[u][i] /\ heard'[u][j] = heard[u][j]
            BY <6>1, <3>4, <1>4
          <6> QED
            BY <6>1, <6>2, <4>5, <3>0 DEF InOrder
        <5> QED
          BY <5>1, <5>2
      <4>6. \A i \in DOMAIN heard'[u] :
              \A k \in ToSet(socket'[u]) \cap ToMany :
                rank[heard'[u][i]] <= rank[k]
        <5>1. \A i \in DOMAIN heard'[u] : rank[heard'[u][i]] \in Nat
          BY <4>3, Kindly
        <5>2. \A k \in ToSet(socket'[u]) \cap ToMany : rank[k] \in Nat
          BY Kindly
        <5> QED
          BY <5>1, <5>2, <4>1, <4>2, <4>4
      <4> QED
        BY <3>1, <3>2, <4>3, <4>5, <4>6 DEF InOrder
    <3> QED
      BY <3>3, <3>4
  <2>5. RankedBy(rank, top)'
    BY <2>1, <2>2, <2>3, <2>4, <1>6 DEF RankedBy
  <2> QED
    BY <2>5 DEF Ranked
<1> QED
  BY <1>7, <1>9, <1>10

(* What was sent to a client that has gone is lost.                        *)
LEMMA GoneInv ==
  ASSUME Inv, NEW u \in Users, Disconnect(u) \/ unregisterUser(u)
  PROVE  AllMade' /\ Owing' /\ Ranked'
<1>1. /\ UNCHANGED <<asks, fired, nextMatch, message, pc, targets, heard, owed>>
      /\ \A v \in Users : socket'[v] = socket[v] \/ socket'[v] = <<>>
  BY DEF Disconnect, unregisterUser, clients, Inv, Typed, Sorts
<1>2. Made' = Made /\ \A v \in Users : Pending(v)' = Pending(v)
  BY <1>1 DEF Made, Pending
<1>3. AllMade'
  BY <1>1, <1>2, None DEF Inv, AllMade
<1>4. Owing'
  <2>1. \A s \in Threads : ToSet(targets[s]) \subseteq Users
    BY Elements DEF Inv, Typed, Sorts
  <2>2. \A v \in Users : /\ ToSet(socket'[v]) \subseteq ToSet(socket[v])
                         /\ DOMAIN socket'[v] \subseteq DOMAIN socket[v]
                         /\ \A i \in DOMAIN socket'[v] :
                              socket'[v][i] = socket[v][i]
    BY <1>1, None
  <2>3. \A v \in Users : ToSet(socket'[v]) \subseteq Pending(v)'
    BY <2>2, <1>2 DEF Inv, Owing
  <2>4. \A s \in Threads :
          pc'[s] \in {"lockClients", "sendToUsers"}
            => \A v \in ToSet(targets'[s]) : message'[s] \in Pending(v)'
    BY <2>1, <1>1, <1>2 DEF Inv, Owing
  <2>5. \A v \in Users :
          pc'[v] = "answer" => /\ message'[v] \in owed'[v]
                               /\ message'[v] \notin ToSet(socket'[v])
    BY <2>2, <1>1 DEF Inv, Owing
  <2>6. \A v \in Users : \A i, j \in DOMAIN socket'[v] :
          i # j /\ socket'[v][i] = socket'[v][j]
            => socket'[v][i][1] \in Broadcasts
    BY <2>2 DEF Inv, Owing
  <2> QED
    BY <2>3, <2>4, <2>5, <2>6 DEF Owing
<1>5. Ranked'
  <2>1. PICK rank \in [Messages -> Nat], top \in Nat : RankedBy(rank, top)
    BY DEF Inv, Ranked
  <2>2. ASSUME NEW v \in Users PROVE InOrder(rank, v)'
    <3>1. CASE socket'[v] = socket[v]
      BY <3>1, <2>1, <1>1 DEF RankedBy, InOrder
    <3>2. CASE socket'[v] = <<>>
      BY <3>2, <2>1, <1>1, None DEF RankedBy, InOrder
    <3> QED
      BY <3>1, <3>2, <1>1
  <2>3. RankedBy(rank, top)'
    BY <2>1, <2>2, <1>1, <1>2 DEF RankedBy, RankOfThreads
  <2> QED
    BY <2>3 DEF Ranked
<1> QED
  BY <1>3, <1>4, <1>5

LEMMA NextInv == Inv /\ [Next]_vars => Inv'
<1> SUFFICES ASSUME Inv, [Next]_vars PROVE Inv'
  OBVIOUS
<1>1. Typed'
  BY NextTyped DEF Inv
<1>2. CASE UNCHANGED vars
  <2>1. UNCHANGED <<asks, fired, nextMatch, message, pc, targets, heard, owed,
                    socket>>
    BY <1>2 DEF vars
  <2>2. Made' = Made /\ \A v \in Users : Pending(v)' = Pending(v)
    BY <2>1 DEF Made, Pending
  <2>3. AllMade'
    BY <2>1, <2>2 DEF Inv, AllMade
  <2>4. Owing'
    BY <2>1 DEF Inv, Owing, Pending
  <2>5. Ranked'
    BY <2>1, <2>2 DEF Inv, Ranked, RankedBy, RankOfThreads, InOrder
  <2> QED
    BY <1>1, <2>3, <2>4, <2>5 DEF Inv
<1>3. CASE Next
  <2>1. AllMade' /\ Owing' /\ Ranked'
    BY <1>3, FindMatchInv, AskInv, AcceptInv, TimerInv, AnswerSentInv, LockInv,
       SendInv, UnlockInv, ReadInv, GoneInv
       DEF Next, Handler, Sending, Threads
  <2> QED
    BY <1>1, <2>1 DEF Inv
<1> QED
  BY <1>2, <1>3

LEMMA SpecInv == Spec => []Inv
BY InitInv, NextInv, PTL DEF Spec

-----------------------------------------------------------------------------
(* The queue never keeps a whole match (MatchmakingService::handle),       *)
(* clients_mutex is held exactly by the thread that is sending to many     *)
(* (Server::sendToUsers), no buffer takes more than it has room for, and a *)
(* client is sent nothing but what it is owed.                             *)
THEOREM DeliveryTyped == Spec => []TypeOK
<1>1. Inv => TypeOK
  BY DEF Inv, Typed, Sorts, MutexHeld, BuffersHold, Owing, Pending, TypeOK
<1> QED
  BY <1>1, SpecInv, PTL

(* Two broadcasts that two users both read reach them in the same order,   *)
(* from whichever threads they come and however long a send blocks:        *)
(* Server::sendToUsers keeps clients_mutex over all of its sends.          *)
THEOREM OrderIsSame == Spec => []SameOrder
<1>1. Inv => SameOrder
  <2> SUFFICES ASSUME Inv, NEW u \in Users, NEW v \in Users,
                      NEW i \in DOMAIN heard[u], NEW j \in DOMAIN heard[u],
                      NEW k \in DOMAIN heard[v], NEW n \in DOMAIN heard[v],
                      i < j, heard[u][i] # heard[u][j],
                      heard[u][i] = heard[v][n], heard[u][j] = heard[v][k],
                      ~ (n < k)
               PROVE  FALSE
    BY DEF SameOrder
  <2>1. PICK rank \in [Messages -> Nat], top \in Nat : RankedBy(rank, top)
    BY DEF Inv, Ranked
  <2>2. i \in Nat /\ j \in Nat /\ k \in Nat /\ n \in Nat
    <3>1. \A w \in Users : \A e \in DOMAIN heard[w] : e \in Nat
      <4> SUFFICES ASSUME NEW w \in Users
                   PROVE  \A e \in DOMAIN heard[w] : e \in Nat
        OBVIOUS
      <4>1. DOMAIN heard[w] = 1 .. Len(heard[w]) /\ Len(heard[w]) \in Nat
        BY Elements DEF Inv, Typed, Sorts
      <4> QED
        BY <4>1
    <3> QED
      BY <3>1
  <2>3. /\ rank[heard[u][i]] <= rank[heard[u][j]]
        /\ rank[heard[v][k]] <= rank[heard[v][n]]
        /\ rank[heard[u][i]] # 0
        /\ heard[u][i] \in Messages /\ heard[u][j] \in Messages
    BY <2>1, <2>2, Kindly DEF RankedBy, InOrder
  <2>4. rank[heard[u][i]] = rank[heard[u][j]]
    BY <2>3
  <2> QED
    BY <2>1, <2>3, <2>4 DEF RankedBy
<1> QED
  BY <1>1, SpecInv, PTL
=============================================================================
