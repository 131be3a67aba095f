--------------------------- MODULE RematchProofs ----------------------------
(* Theorems about Rematch, for any room and any number of asks.            *)
EXTENDS Rematch, FiniteSetTheorems, TLAPS

(* Nobody is in the set of those who accepted but by an accept of theirs   *)
(* that no ask, denial or timeout has overruled since.                     *)
AcceptsAreCurrent == \A v \in accepts : reply[v] = "accept"

IInv == TypeOK /\ AcceptsAreCurrent

(* Each player was told how many there are, or some thread is about to say *)
(* so: it reads the players only after its own user has joined.            *)
CountIsUnderWay ==
  \A v \in players :
    \/ heard[v] = size
    \/ \E w \in Users : /\ out[w] = "ROOM_UPDATE"
                        /\ count[w] = size
                        /\ \/ pc[w] = "getPlayers"
                           \/ pc[w] = "sendToUsers" /\ v \in targets[w]

(* No number that was sent or is being sent exceeds that of the players.   *)
CountsAreBounded ==
  /\ \A v \in Users : heard[v] <= size
  /\ \A w \in Users : count[w] <= size

-----------------------------------------------------------------------------
(* The initial state satisfies the inductive invariant.                    *)
LEMMA InitInductive == Init => IInv
<1>1. Cardinality(FirstPlayers) \in Nat
  BY PlayersAssumption, FS_Subset, FS_CardinalityType
<1> QED
  BY <1>1, PlayersAssumption, BoundsAssumption
     DEF Init, IInv, TypeOK, AcceptsAreCurrent, Stages

(* Every step keeps the types of the variables, and those who wait or      *)
(* agreed, and the targets of all but GAME_START, within the room.         *)
LEMMA NextTyped == TypeOK /\ [Next]_vars => TypeOK'
<1> SUFFICES ASSUME TypeOK, [Next]_vars PROVE TypeOK'
  OBVIOUS
<1> USE DEF TypeOK, Answers, Stages, roomVars, threadVars, clientVars
<1>1. CASE UNCHANGED vars
  BY <1>1 DEF vars
<1>2. ASSUME NEW u \in Users, JoinRoom(u) PROVE TypeOK'
  BY <1>2 DEF JoinRoom, Broadcast
<1>3. ASSUME NEW u \in Users, Ask(u) PROVE TypeOK'
  BY <1>3, BoundsAssumption DEF Ask, Broadcast
<1>4. ASSUME NEW u \in Users, AcceptRematch(u) PROVE TypeOK'
  BY <1>4 DEF AcceptRematch, Broadcast
<1>5. ASSUME NEW u \in Users, Deny(u) PROVE TypeOK'
  BY <1>5 DEF Deny, Broadcast
<1>6. ASSUME NEW u \in Users, GetPlayers(u) PROVE TypeOK'
  BY <1>6 DEF GetPlayers
<1>7. ASSUME NEW u \in Users, SendToUsers(u) PROVE TypeOK'
  BY <1>7 DEF SendToUsers, Hear
<1>8. ASSUME NEW u \in Users, StartMatch(u) PROVE TypeOK'
  BY <1>8 DEF StartMatch
<1>9. ASSUME NEW u \in Users, CreateMatch(u) PROVE TypeOK'
  <2>1. ASSUME NEW stored \in SUBSET Users,
               pc[u] = "createMatch",
               out' = [out EXCEPT ![u] = "GAME_START"],
               pc' = [pc EXCEPT ![u] = "sendToUsers"],
               targets' = [targets EXCEPT ![u] = stored],
               lost' = lost \cup (targets[u] \ stored),
               UNCHANGED <<roomVars, accepts, timers, asks, count, reply,
                           waiting, agreed, heard>>
        PROVE  TypeOK'
    <3>1. targets[u] \subseteq Users
      OBVIOUS
    <3>2. targets' \in [Users -> SUBSET Users] /\ lost' \subseteq Users
      BY <2>1, <3>1
    <3> QED
      BY <2>1, <3>2
  <2>2. CASE pc[u] = "createMatch" /\ Broadcast(u, "ERR") /\ UNCHANGED lost
    BY <1>9, <2>2 DEF CreateMatch, Broadcast
  <2> QED
    BY <1>9, <2>1, <2>2 DEF CreateMatch
<1>10. CASE TimerFires
  BY <1>10, BoundsAssumption DEF TimerFires
<1> QED
  BY <1>1, <1>2, <1>3, <1>4, <1>5, <1>6, <1>7, <1>8, <1>9, <1>10
     DEF Next, ThreadStep

(* Every step keeps accepts current: what an ask or a denial does to the   *)
(* replies it does to the set as well.                                     *)
LEMMA NextCurrent ==
  TypeOK /\ AcceptsAreCurrent /\ [Next]_vars => AcceptsAreCurrent'
<1> SUFFICES ASSUME TypeOK, AcceptsAreCurrent, [Next]_vars
             PROVE AcceptsAreCurrent'
  OBVIOUS
<1> USE DEF AcceptsAreCurrent
<1>1. CASE UNCHANGED vars
  BY <1>1 DEF vars, clientVars
<1>2. ASSUME NEW u \in Users, JoinRoom(u) PROVE AcceptsAreCurrent'
  BY <1>2 DEF JoinRoom, clientVars
<1>3. ASSUME NEW u \in Users, Ask(u) PROVE AcceptsAreCurrent'
  BY <1>3 DEF Ask
<1>4. ASSUME NEW u \in Users, AcceptRematch(u) PROVE AcceptsAreCurrent'
  BY <1>4 DEF AcceptRematch, TypeOK
<1>5. ASSUME NEW u \in Users, Deny(u) PROVE AcceptsAreCurrent'
  BY <1>5 DEF Deny
<1>6. ASSUME NEW u \in Users, ThreadStep(u) PROVE AcceptsAreCurrent'
  BY <1>6
     DEF ThreadStep, GetPlayers, SendToUsers, Hear, StartMatch, CreateMatch,
         clientVars
<1>7. CASE TimerFires
  BY <1>7 DEF TimerFires
<1> QED
  BY <1>1, <1>2, <1>3, <1>4, <1>5, <1>6, <1>7 DEF Next

(* A thread comes to broadcast REMATCH_OK only in an accept, and that one  *)
(* has found every player in the set.                                      *)
LEMMA OkNeedsAll ==
  ASSUME IInv, IInv', Next, NEW u \in Users,
         out[u] = "none", out'[u] = "REMATCH_OK"
  PROVE  players \subseteq accepts' /\ accepts' \subseteq Users
<1> USE DEF IInv, TypeOK
<1>1. ASSUME NEW v \in Users, AcceptRematch(v)
      PROVE  players \subseteq accepts'
  BY <1>1 DEF AcceptRematch, Broadcast, threadVars
<1>2. ASSUME NEW v \in Users, Ask(v) \/ Deny(v) PROVE FALSE
  BY <1>2 DEF Ask, Deny, Broadcast
<1>3. ASSUME NEW v \in Users, JoinRoom(v) \/ ThreadStep(v) PROVE FALSE
  BY <1>3
     DEF JoinRoom, Broadcast, ThreadStep, GetPlayers, SendToUsers, StartMatch,
         CreateMatch, threadVars
<1>4. CASE TimerFires
  BY <1>4 DEF TimerFires, threadVars
<1> QED
  BY <1>1, <1>2, <1>3, <1>4 DEF Next

(* The size of a room only grows.                                          *)
LEMMA NextBounded ==
  TypeOK /\ CountsAreBounded /\ [Next]_vars => CountsAreBounded'
<1> SUFFICES ASSUME TypeOK, CountsAreBounded, [Next]_vars
             PROVE  CountsAreBounded'
  OBVIOUS
<1> USE DEF TypeOK, CountsAreBounded, roomVars, threadVars, clientVars
<1>1. ASSUME NEW u \in Users, JoinRoom(u) PROVE CountsAreBounded'
  <2>1. size \in Nat /\ size' = size + 1
    BY <1>1 DEF JoinRoom
  <2>2. /\ heard' = heard
        /\ count' = [count EXCEPT ![u] = size']
    BY <1>1 DEF JoinRoom
  <2> HIDE DEF CountsAreBounded
  <2>3. \A v \in Users : heard'[v] <= size'
    BY <2>1, <2>2 DEF CountsAreBounded
  <2>4. \A w \in Users : count'[w] <= size'
    BY <2>1, <2>2 DEF CountsAreBounded
  <2> QED
    BY <2>3, <2>4 DEF CountsAreBounded
<1>2. ASSUME NEW u \in Users, SendToUsers(u) PROVE CountsAreBounded'
  BY <1>2 DEF SendToUsers, Hear
<1>3. ASSUME size' = size, heard' = heard, count' = count
      PROVE  CountsAreBounded'
  BY <1>3
<1>4. ASSUME NEW u \in Users, Ask(u) \/ AcceptRematch(u) \/ Deny(u)
      PROVE  CountsAreBounded'
  BY <1>3, <1>4 DEF Ask, AcceptRematch, Deny
<1>5. ASSUME NEW u \in Users, GetPlayers(u) \/ StartMatch(u) \/ CreateMatch(u)
      PROVE  CountsAreBounded'
  BY <1>3, <1>5 DEF GetPlayers, StartMatch, CreateMatch
<1>6. CASE TimerFires \/ UNCHANGED vars
  BY <1>3, <1>6 DEF TimerFires, vars
<1> QED
  BY <1>1, <1>2, <1>4, <1>5, <1>6 DEF Next, ThreadStep

(* Every step keeps the latest count under way to who has not got it.      *)
LEMMA NextUnderWay ==
  ASSUME TypeOK, CountsAreBounded, CountIsUnderWay, [Next]_vars
  PROVE  CountIsUnderWay'
<1> USE DEF TypeOK, roomVars, threadVars, clientVars
<1>1. ASSUME NEW u \in Users, JoinRoom(u) PROVE CountIsUnderWay'
  BY <1>1 DEF JoinRoom, Broadcast, CountIsUnderWay
<1>2. ASSUME NEW u \in Users, SendToUsers(u) PROVE CountIsUnderWay'
  <2> SUFFICES ASSUME NEW v \in players
               PROVE  \/ heard'[v] = size
                      \/ \E w \in Users :
                           /\ out'[w] = "ROOM_UPDATE"
                           /\ count'[w] = size
                           /\ \/ pc'[w] = "getPlayers"
                              \/ pc'[w] = "sendToUsers" /\ v \in targets'[w]
    BY <1>2 DEF SendToUsers, CountIsUnderWay
  <2>1. size \in Nat
    OBVIOUS
  <2>2. heard[v] <= size /\ count[u] <= size
    BY DEF CountsAreBounded
  <2>3. CASE heard[v] = size
    BY <1>2, <2>1, <2>2, <2>3 DEF SendToUsers, Hear
  <2>4. ASSUME NEW w \in Users, out[w] = "ROOM_UPDATE",
               count[w] = size,
               \/ pc[w] = "getPlayers"
               \/ pc[w] = "sendToUsers" /\ v \in targets[w]
        PROVE  \/ heard'[v] = size
               \/ /\ out'[w] = "ROOM_UPDATE"
                  /\ count'[w] = size
                  /\ \/ pc'[w] = "getPlayers"
                     \/ pc'[w] = "sendToUsers" /\ v \in targets'[w]
    <3>1. CASE w = u
      <4>1. v \in targets[u] /\ count[u] = size
        BY <1>2, <2>4, <3>1 DEF SendToUsers
      <4> QED
        BY <1>2, <2>1, <2>2, <2>4, <3>1, <4>1 DEF SendToUsers, Hear
    <3>2. CASE w # u
      BY <1>2, <2>4, <3>2 DEF SendToUsers
    <3> QED
      BY <3>1, <3>2
  <2> QED
    BY <2>3, <2>4 DEF CountIsUnderWay
<1>3. ASSUME NEW u \in Users,
             \/ Ask(u) \/ AcceptRematch(u) \/ Deny(u)
             \/ GetPlayers(u) \/ StartMatch(u) \/ CreateMatch(u)
      PROVE  CountIsUnderWay'
  <2> USE DEF CountIsUnderWay
  <2>1. CASE Ask(u) \/ AcceptRematch(u) \/ Deny(u)
    <3>1. /\ pc[u] = "recv" /\ roomVars' = roomVars /\ heard' = heard
          /\ count' = count /\ targets' = targets
          /\ \A w \in Users \ {u} : out'[w] = out[w] /\ pc'[w] = pc[w]
      BY <2>1 DEF Ask, AcceptRematch, Deny, Broadcast
    <3> QED
      BY <3>1
  <2>2. CASE GetPlayers(u)
    BY <2>2 DEF GetPlayers
  <2>3. CASE StartMatch(u)
    BY <2>3 DEF StartMatch
  <2>4. CASE CreateMatch(u)
    BY <2>4 DEF CreateMatch, Broadcast
  <2> QED
    BY <1>3, <2>1, <2>2, <2>3, <2>4
<1>4. CASE TimerFires \/ UNCHANGED vars
  BY <1>4 DEF TimerFires, vars, CountIsUnderWay
<1> QED
  BY <1>1, <1>2, <1>3, <1>4 DEF Next, ThreadStep

-----------------------------------------------------------------------------
(* Variables keep their types; nobody outside the room waits, has agreed,  *)
(* or is sent anything but a GAME_START.                                   *)
THEOREM RoomCorrect == Spec => []TypeOK
<1>1. Init => TypeOK
  BY InitInductive DEF IInv
<1> QED
  BY <1>1, NextTyped, PTL DEF Spec

(* RematchService decides on REMATCH_OK only when each player in the room  *)
(* has accepted since the last ask, denial or timeout.                     *)
THEOREM OkUnanimous == Spec => OkIsUnanimous
<1> DEFINE A == \A u \in Users :
                  out[u] = "none" /\ out'[u] = "REMATCH_OK"
                    => \A v \in players : reply'[v] = "accept"
<1>1. IInv /\ [Next]_vars => IInv'
  BY NextTyped, NextCurrent DEF IInv
<1>2. IInv /\ IInv' /\ [Next]_vars => [A]_vars
  <2> SUFFICES ASSUME IInv, IInv', Next,
                      NEW u \in Users,
                      out[u] = "none", out'[u] = "REMATCH_OK",
                      NEW v \in players
               PROVE  reply'[v] = "accept"
    OBVIOUS
  <2>1. v \in accepts'
    BY OkNeedsAll
  <2> QED
    BY <2>1 DEF IInv, AcceptsAreCurrent
<1>3. Spec => [][A]_vars
  BY InitInductive, <1>1, <1>2, PTL DEF Spec
<1> QED
  BY <1>3 DEF OkIsUnanimous

(* joinRoom and the broadcasts of ROOM_UPDATE: although the counts cross,  *)
(* nobody in the room is left without the last one.                        *)
THEOREM EveryoneCounted == Spec => []EveryoneIsCounted
<1>1. Init => CountsAreBounded /\ CountIsUnderWay
  <2>1. Cardinality(FirstPlayers) \in Nat
    BY PlayersAssumption, FS_Subset, FS_CardinalityType
  <2> QED
    BY <2>1, PlayersAssumption DEF Init, CountsAreBounded, CountIsUnderWay
<1>2. CountIsUnderWay => EveryoneIsCounted
  BY DEF CountIsUnderWay, EveryoneIsCounted
<1>3. TypeOK /\ CountsAreBounded /\ CountIsUnderWay /\ [Next]_vars
        => CountIsUnderWay'
  BY NextUnderWay
<1>4. Init => TypeOK
  BY InitInductive DEF IInv
<1> QED
  BY <1>1, <1>2, <1>3, <1>4, NextTyped, NextBounded, PTL DEF Spec
=============================================================================
