----------------------------- MODULE RoomsProofs -----------------------------
(***************************************************************************)
(* Proofs about Rooms: createRoom reuses ids no more often than increments *)
(* of NEXT_ROOM_ID overlap, and who joins a room keeps their place in it   *)
(* if the id of the room was given out once.                               *)
(***************************************************************************)
EXTENDS Rooms, SequenceTheorems, FiniteSetTheorems, TLAPS

(* Types, and that no id is larger than the number of requests.            *)
TypeOK ==
  /\ NEXT_ROOM_ID \in 1 .. MaxRequests + 1
  /\ DOMAIN roomTable \subseteq Ids
  /\ \A r \in DOMAIN roomTable : roomTable[r] \in Seq(Users)
  /\ pc \in [Users -> {"recv", "store", "insert"}]
  /\ roomId \in [Users -> Nat]
  /\ \A u \in Users : pc[u] # "recv" => roomId[u] \in Ids
  /\ requests \in 0 .. MaxRequests
  /\ created \subseteq Ids \X Users
  /\ places \subseteq Users \X Ids \X (Nat \ {0})
  /\ draws \in [Ids -> Nat]
  /\ creations \in Nat
  /\ overlaps \in Nat

(* An id that a createRoom holds comes from a request of its own.          *)
IdsBounded ==
  /\ NEXT_ROOM_ID <= requests + 1
  /\ \A u \in Users : roomId[u] <= requests

(* A createRoom and a ROOM_CREATED have an id that was loaded, and one     *)
(* that was loaded once is in one place only.                              *)
Drawn(r) == draws[r] > 0
Once(r) == draws[r] = 1

IdsDrawn ==
  /\ \A u \in Users : pc[u] # "recv" => Drawn(roomId[u])
  /\ \A r \in Ids, v \in Users : <<r, v>> \in created => Drawn(r)
  /\ \A u, v \in Users :
       /\ pc[u] # "recv" /\ pc[v] # "recv"
       /\ roomId[u] = roomId[v] /\ Once(roomId[u])
       => u = v
  /\ \A u, v \in Users :
       pc[u] # "recv" /\ Once(roomId[u]) => <<roomId[u], v>> \notin created

(* The ids from x on that have been loaded.                                *)
From(x) == {r \in Ids : draws[r] > 0 /\ r >= x}
Many(x) == Cardinality(From(x))

Storing == \E u \in Users : pc[u] = "store"

(* What the counter is about to be set back to, or is at, may be followed  *)
(* by ids loaded already: each of them is a reuse still to come.  The      *)
(* overlaps so far pay for the reuses there were and for those to come,    *)
(* but for one that the pending store itself is about to undo.             *)
Counted ==
  /\ \A u \in Users :
       pc[u] = "store" =>
         creations + Many(roomId[u] + 1) <= Many(1) + overlaps
  /\ creations + Many(NEXT_ROOM_ID) <=
       Many(1) + overlaps + (IF Storing THEN 1 ELSE 0)

PlacesOfCreated == \A p \in places : IsCreated(p[2])

Inv ==
  /\ TypeOK
  /\ IdsBounded
  /\ IdsDrawn
  /\ Counted
  /\ PlacesOfCreated
  /\ PlacesHold

LEMMA ManyIsNat == \A x : IsFiniteSet(From(x)) /\ Many(x) \in Nat
<1> SUFFICES ASSUME NEW x PROVE IsFiniteSet(From(x)) /\ Many(x) \in Nat
  OBVIOUS
<1>1. IsFiniteSet(Ids)
  BY RoomsAssumption, FS_Interval DEF Ids
<1>2. From(x) \in SUBSET Ids
  BY DEF From
<1> QED BY <1>1, <1>2, FS_Subset, FS_CardinalityType DEF Many

(* What one more load of r does to the counts.                             *)
LEMMA ManyStep ==
  ASSUME TypeOK, NEW r \in Ids,
         draws' = [draws EXCEPT ![r] = @ + 1], NEW x \in Nat
  PROVE  Many(x)' = IF x <= r /\ draws[r] = 0 THEN Many(x) + 1 ELSE Many(x)
<1>0. /\ draws \in [Ids -> Nat] /\ r \in Nat
      /\ draws'[r] = draws[r] + 1
      /\ \A q \in Ids : q # r => draws'[q] = draws[q]
  BY DEF TypeOK, Ids
<1>1. IsFiniteSet(From(x)) /\ Many(x) \in Nat
  BY ManyIsNat
<1>2. CASE x <= r /\ draws[r] = 0
  <2>1. From(x)' = From(x) \cup {r} /\ r \notin From(x)
    BY <1>0, <1>2 DEF From, Ids
  <2> HIDE DEF From
  <2>2. Cardinality(From(x) \cup {r}) = Cardinality(From(x)) + 1
    BY <2>1, <1>1, FS_AddElement
  <2> QED BY <2>1, <2>2, <1>2 DEF Many
<1>3. CASE ~ (x <= r /\ draws[r] = 0)
  <2>1. From(x)' = From(x)
    BY <1>0, <1>3 DEF From, Ids
  <2> QED BY <2>1, <1>3 DEF Many
<1> QED BY <1>2, <1>3

(* The ids from r on are r, if it has been loaded, and those after it.     *)
LEMMA ManyNext ==
  ASSUME TypeOK, NEW r \in Ids
  PROVE  Many(r) = IF draws[r] = 0 THEN Many(r + 1) ELSE Many(r + 1) + 1
<1>0. draws \in [Ids -> Nat] /\ r \in Nat
  BY DEF TypeOK, Ids
<1>1. IsFiniteSet(From(r + 1)) /\ Many(r + 1) \in Nat
  BY ManyIsNat
<1>2. CASE draws[r] # 0
  <2>1. From(r) = From(r + 1) \cup {r} /\ r \notin From(r + 1)
    BY <1>0, <1>2 DEF From, Ids
  <2> HIDE DEF From
  <2>2. Cardinality(From(r + 1) \cup {r}) = Cardinality(From(r + 1)) + 1
    BY <2>1, <1>1, FS_AddElement
  <2> QED BY <2>1, <2>2, <1>2 DEF Many
<1>3. CASE draws[r] = 0
  <2>1. From(r) = From(r + 1)
    BY <1>0, <1>3 DEF From, Ids
  <2> QED BY <2>1, <1>3 DEF Many
<1> QED BY <1>2, <1>3

LEMMA InitInv == Init => Inv
<1> SUFFICES ASSUME Init PROVE Inv
  OBVIOUS
<1> USE RoomsAssumption DEF Init
<1>1. TypeOK
  <2>1. DOMAIN roomTable = {}
    OBVIOUS
  <2>2. /\ pc \in [Users -> {"recv", "store", "insert"}]
        /\ roomId \in [Users -> Nat]
        /\ \A u \in Users : pc[u] = "recv"
    OBVIOUS
  <2>3. created = {} /\ places = {} /\ creations = 0 /\ overlaps = 0
    OBVIOUS
  <2>4. NEXT_ROOM_ID \in 1 .. MaxRequests + 1 /\ requests \in 0 .. MaxRequests
    OBVIOUS
  <2>5. draws \in [Ids -> Nat]
    OBVIOUS
  <2> QED BY ONLY <2>1, <2>2, <2>3, <2>4, <2>5 DEF TypeOK
<1>2. IdsBounded
  BY DEF IdsBounded
<1>3. IdsDrawn /\ PlacesOfCreated /\ PlacesHold
  BY DEF IdsDrawn, PlacesOfCreated, PlacesHold
<1>4. Counted
  <2>1. From(1) = {}
    BY DEF From
  <2>2. Many(1) = 0
    BY <2>1, FS_EmptySet DEF Many
  <2> QED BY <2>2 DEF Counted, Storing
<1> QED BY <1>1, <1>2, <1>3, <1>4 DEF Inv

LEMMA LoadStep ==
  ASSUME Inv, NEW u \in Users, LoadNext(u) PROVE Inv'
<1> USE DEF LoadNext, Ask
<1>0. NEXT_ROOM_ID \in Ids
  BY RoomsAssumption DEF Inv, TypeOK, Ids, IdsBounded
<1>1. TypeOK'
  <2>1. /\ draws' \in [Ids -> Nat] /\ creations' \in Nat /\ overlaps' \in Nat
    BY <1>0 DEF Inv, TypeOK
  <2> QED BY <2>1, RoomsAssumption DEF Inv, TypeOK, Ids, IdsBounded
<1>2. IdsBounded'
  BY RoomsAssumption DEF Inv, TypeOK, Ids, IdsBounded
<1>3. IdsDrawn'
  <2>1. draws \in [Ids -> Nat] /\ draws'[NEXT_ROOM_ID] = draws[NEXT_ROOM_ID] + 1
        /\ \A r \in Ids : r # NEXT_ROOM_ID => draws'[r] = draws[r]
    BY <1>0 DEF Inv, TypeOK
  <2> QED BY <1>0, <2>1 DEF Inv, TypeOK, IdsDrawn, Drawn, Once
<1>4. Counted'
  <2> DEFINE N == NEXT_ROOM_ID
             new == IF draws[N] = 0 THEN 1 ELSE 0
  <2>0. N \in Nat /\ N >= 1 /\ creations \in Nat /\ overlaps \in Nat
        /\ draws[N] \in Nat /\ new \in {0, 1}
    BY <1>0 DEF Inv, TypeOK, Ids
  <2>1. \A x \in Nat : /\ Many(x) \in Nat
                       /\ Many(x)' \in Nat
                       /\ Many(x)' = IF x <= N THEN Many(x) + new
                                               ELSE Many(x)
    <3> SUFFICES ASSUME NEW x \in Nat
                 PROVE  /\ Many(x) \in Nat
                        /\ Many(x)' \in Nat
                        /\ Many(x)' = IF x <= N THEN Many(x) + new
                                                ELSE Many(x)
      OBVIOUS
    <3>1. Many(x) \in Nat
      BY ManyIsNat
    <3>2. Many(x)' = IF x <= N /\ draws[N] = 0 THEN Many(x) + 1 ELSE Many(x)
      BY <1>0, ManyStep DEF Inv
    <3> QED BY <3>1, <3>2, <2>0
  <2>2. Many(N) = Many(N + 1) + (1 - new) /\ Many(N + 1) \in Nat
    BY <1>0, <2>0, ManyNext, ManyIsNat DEF Inv
  <2> HIDE DEF new
  <2>3. Storing' /\ creations' = creations + 1 /\ NEXT_ROOM_ID' = N
        /\ overlaps' = overlaps + (IF Storing THEN 1 ELSE 0)
    BY <2>0 DEF Storing, Inv, TypeOK
  <2>4. Many(N + 1)' = Many(N + 1) /\ Many(N)' = Many(N) + new
        /\ Many(1)' = Many(1) + new /\ Many(1) \in Nat /\ Many(N) \in Nat
    BY <2>0, <2>1
  <2>5. creations + Many(N) <=
          Many(1) + overlaps + (IF Storing THEN 1 ELSE 0)
    BY DEF Inv, Counted
  <2>6. creations' + Many(N + 1)' <= Many(1)' + overlaps'
    BY <2>0, <2>2, <2>3, <2>4, <2>5
  <2>7. creations' + Many(N)' <= Many(1)' + overlaps' + 1
    BY <2>0, <2>2, <2>3, <2>4, <2>5
  <2>8. ASSUME NEW v \in Users, pc'[v] = "store"
        PROVE  creations' + Many(roomId[v] + 1)' <= Many(1)' + overlaps'
    <3>1. CASE v = u
      <4>1. roomId'[v] = N
        BY <3>1 DEF Inv, TypeOK
      <4>2. Many(roomId[v] + 1)' = Many(N + 1)'
        BY <4>1, <2>3 DEF Many, From
      <4> QED BY <4>2, <2>6
    <3>2. CASE v # u
      <4>1. pc[v] = "store" /\ roomId'[v] = roomId[v] /\ roomId[v] \in Nat
        BY <2>8, <3>2 DEF Inv, TypeOK
      <4>0. PICK x : x = roomId[v] + 1
        OBVIOUS
      <4>2. x \in Nat /\ Storing
        BY <4>0, <4>1 DEF Storing
      <4>3. creations + Many(x) <= Many(1) + overlaps
        BY <4>0, <4>1 DEF Inv, Counted
      <4>4. Many(x)' <= Many(x) + new /\ Many(x) \in Nat /\ Many(x)' \in Nat
        BY <4>2, <2>1, <2>0
      <4>5. creations' + Many(x)' <= Many(1)' + overlaps'
        BY <4>2, <4>3, <4>4, <2>0, <2>3, <2>4
      <4>6. Many(roomId[v] + 1)' = Many(x)'
        BY <4>0, <4>1 DEF Many, From
      <4> QED BY <4>5, <4>6
    <3> QED BY <3>1, <3>2
  <2>9. creations' + Many(NEXT_ROOM_ID)' <=
          Many(1)' + overlaps' + (IF Storing' THEN 1 ELSE 0)
    <3>1. Many(NEXT_ROOM_ID)' = Many(N)'
      BY <2>3
    <3> QED BY <2>7, <2>3, <3>1
  <2> QED BY <2>8, <2>9 DEF Counted
<1>5. PlacesOfCreated'
  BY DEF Inv, PlacesOfCreated, IsCreated
<1>6. PlacesHold'
  <2> SUFFICES ASSUME NEW p \in places, draws'[p[2]] = 1
               PROVE  /\ p[3] <= Len(Players(p[2]))
                      /\ Players(p[2])[p[3]] = p[1]
    BY DEF PlacesHold, Players
  <2>1. p[2] \in Ids /\ draws[p[2]] > 0 /\ draws \in [Ids -> Nat]
    BY DEF Inv, TypeOK, PlacesOfCreated, IsCreated, IdsDrawn, Drawn
  <2>2. draws[p[2]] = 1
    BY <2>1, <1>0
  <2> QED BY <2>2 DEF Inv, PlacesHold
<1> QED BY <1>1, <1>2, <1>3, <1>4, <1>5, <1>6 DEF Inv

(* Nothing but a load changes the counts.                                  *)
LEMMA SameMany == UNCHANGED history => \A x : Many(x)' = Many(x)
  BY DEF history, Many, From

LEMMA StoreStep ==
  ASSUME Inv, NEW u \in Users, StoreNext(u) PROVE Inv'
<1> USE DEF StoreNext, history
<1>1. TypeOK'
  BY RoomsAssumption DEF Inv, TypeOK, Ids, IdsBounded
<1>2. IdsBounded'
  BY RoomsAssumption DEF Inv, TypeOK, Ids, IdsBounded
<1>3. IdsDrawn'
  BY DEF Inv, TypeOK, IdsDrawn, Drawn, Once
<1>4. Counted'
  <2>1. \A x : Many(x)' = Many(x) /\ Many(x) \in Nat
    BY SameMany, ManyIsNat
  <2>2. NEXT_ROOM_ID' = roomId[u] + 1 /\ creations' = creations
        /\ overlaps' = overlaps /\ roomId' = roomId
    OBVIOUS
  <2>3. \A v \in Users : pc'[v] = "store" => pc[v] = "store"
    BY DEF Inv, TypeOK
  <2>4. creations + Many(roomId[u] + 1) <= Many(1) + overlaps
    BY DEF Inv, Counted
  <2>5. creations \in Nat /\ overlaps \in Nat
    BY DEF Inv, TypeOK
  <2>6. creations' + Many(NEXT_ROOM_ID)' <=
          Many(1)' + overlaps' + (IF Storing' THEN 1 ELSE 0)
    <3>1. Many(NEXT_ROOM_ID)' = Many(roomId[u] + 1)
      BY <2>1, <2>2
    <3> DEFINE m == Many(roomId[u] + 1)
               k == Many(1)
    <3>2. m \in Nat /\ k \in Nat /\ creations + m <= k + overlaps
      BY <2>1, <2>4
    <3> HIDE DEF m, k
    <3>3. creations + m <= k + overlaps + (IF Storing' THEN 1 ELSE 0)
      BY <3>2, <2>5
    <3> QED BY <3>1, <3>3, <2>1, <2>2 DEF m, k
  <2>7. ASSUME NEW v \in Users, pc'[v] = "store"
        PROVE  creations' + Many(roomId[v] + 1)' <= Many(1)' + overlaps'
    <3>1. creations + Many(roomId[v] + 1) <= Many(1) + overlaps
      BY <2>3, <2>7 DEF Inv, Counted
    <3>2. Many(roomId[v] + 1)' = Many(roomId[v] + 1)
      BY <2>2 DEF Many, From
    <3> QED BY <3>1, <3>2, <2>1, <2>2
  <2> QED BY <2>6, <2>7 DEF Counted
<1>5. PlacesOfCreated'
  BY DEF Inv, PlacesOfCreated, IsCreated
<1>6. PlacesHold'
  BY DEF Inv, PlacesHold, Players
<1> QED BY <1>1, <1>2, <1>3, <1>4, <1>5, <1>6 DEF Inv

LEMMA InsertStep ==
  ASSUME Inv, NEW u \in Users, InsertRoom(u) PROVE Inv'
<1> USE DEF InsertRoom, history
<1>0. roomId[u] \in Ids
  BY DEF Inv, TypeOK
<1>1. TypeOK'
  BY <1>0, RoomsAssumption DEF Inv, TypeOK, Ids
<1>2. IdsBounded'
  BY RoomsAssumption DEF Inv, TypeOK, IdsBounded
<1>3. IdsDrawn'
  BY <1>0, RoomsAssumption DEF Inv, TypeOK, IdsDrawn, Ids, Drawn, Once
<1>4. Counted'
  <2>1. \A x : Many(x)' = Many(x)
    BY SameMany
  <2>2. \A v \in Users : pc'[v] = "store" <=> pc[v] = "store"
    BY DEF Inv, TypeOK
  <2>3. \A v \in Users : pc[v] = "store" => roomId'[v] = roomId[v]
    BY DEF Inv, TypeOK
  <2> QED BY <2>1, <2>2, <2>3 DEF Inv, Counted, Storing
<1>5. PlacesOfCreated'
  BY DEF Inv, PlacesOfCreated, IsCreated
<1>6. PlacesHold'
  <2> SUFFICES ASSUME NEW p \in places, draws[p[2]] = 1
               PROVE Players(p[2])' = Players(p[2])
    BY DEF Inv, PlacesHold
  <2>1. p[2] # roomId[u]
    BY DEF Inv, IdsDrawn, Once, PlacesOfCreated, IsCreated
  <2> QED BY <2>1 DEF Players
<1> QED BY <1>1, <1>2, <1>3, <1>4, <1>5, <1>6 DEF Inv

LEMMA JoinStep ==
  ASSUME Inv, NEW u \in Users, NEW r \in Ids, JoinRoom(u, r) PROVE Inv'
<1> USE DEF JoinRoom, Ask, history
<1>1. \A s \in Ids : Players(s) \in Seq(Users)
  BY DEF Inv, TypeOK, Players
<1>2. /\ Players(r)' = Append(Players(r), u)
      /\ \A s : s # r => Players(s)' = Players(s)
  BY DEF Players
<1>3. TypeOK'
  <2>1. \A s \in DOMAIN roomTable' : roomTable'[s] \in Seq(Users)
    BY <1>1 DEF Inv, TypeOK
  <2>2. <<u, r, Len(Players(r)) + 1>> \in Users \X Ids \X (Nat \ {0})
    BY <1>1
  <2>3. DOMAIN roomTable' \subseteq Ids
    BY DEF Inv, TypeOK
  <2>4. places' \subseteq Users \X Ids \X (Nat \ {0})
    <3>1. places' \subseteq places \cup {<<u, r, Len(Players(r)) + 1>>}
      OBVIOUS
    <3> QED BY <3>1, <2>2 DEF Inv, TypeOK
  <2>5. requests' \in 0 .. MaxRequests
    BY RoomsAssumption DEF Inv, TypeOK
  <2> QED BY <2>1, <2>3, <2>4, <2>5 DEF Inv, TypeOK
<1>4. IdsBounded'
  BY RoomsAssumption DEF Inv, TypeOK, IdsBounded, Ids
<1>5. IdsDrawn'
  BY DEF Inv, IdsDrawn, Drawn, Once
<1>6. Counted'
  BY SameMany DEF Inv, Counted, Storing
<1>7. PlacesOfCreated'
  <2>1. CASE IsCreated(r)
    BY <2>1 DEF Inv, PlacesOfCreated, IsCreated
  <2>2. CASE ~ IsCreated(r)
    BY <2>2 DEF Inv, PlacesOfCreated, IsCreated
  <2> QED BY <2>1, <2>2
<1>8. PlacesHold'
  <2> SUFFICES ASSUME NEW p \in places', draws[p[2]] = 1
               PROVE /\ p[3] <= Len(Players(p[2])')
                     /\ Players(p[2])'[p[3]] = p[1]
    BY DEF PlacesHold
  <2>1. CASE p \in places
    <3>1. p[2] \in Ids /\ p[3] \in Nat \ {0} /\ p[3] <= Len(Players(p[2]))
          /\ Players(p[2])[p[3]] = p[1]
      BY <2>1 DEF Inv, TypeOK, PlacesHold
    <3>2. CASE p[2] = r
      <4>1. p[3] \in 1 .. Len(Players(r))
        BY <3>2, <3>1, <2>1 DEF Inv, TypeOK, PlacesHold
      <4> QED BY <4>1, <3>1, <3>2, <1>1, <1>2
    <3>3. CASE p[2] # r
      BY <3>1, <3>3, <1>2
    <3> QED BY <3>2, <3>3
  <2>2. CASE p = <<u, r, Len(Players(r)) + 1>>
    BY <2>2, <1>1, <1>2
  <2> QED BY <2>1, <2>2
<1> QED BY <1>3, <1>4, <1>5, <1>6, <1>7, <1>8 DEF Inv

LEMMA NextInv == Inv /\ [Next]_vars => Inv'
<1> SUFFICES ASSUME Inv, [Next]_vars PROVE Inv'
  OBVIOUS
<1>1. CASE Next
  BY <1>1, LoadStep, StoreStep, InsertStep, JoinStep DEF Next
<1>2. CASE UNCHANGED vars
  BY <1>2 DEF vars, history, Inv, TypeOK, IdsBounded, IdsDrawn, Drawn,
     Once, Counted, Storing, Many, From, PlacesOfCreated, PlacesHold, Players,
     IsCreated
<1> QED BY <1>1, <1>2

LEMMA SpecInv == Spec => []Inv
  BY InitInv, NextInv, PTL DEF Spec

(* createRoom gives out an id again no more often than a thread loaded     *)
(* NEXT_ROOM_ID while another had still to store it, in every execution.   *)
THEOREM ReusesCounted == Spec => []ReusesAreOverlaps
<1>1. Inv => ReusesAreOverlaps
  <2> SUFFICES ASSUME Inv PROVE ReusesAreOverlaps
    OBVIOUS
  <2>1. {r \in Ids : draws[r] > 0} = From(1)
    BY DEF From, Ids
  <2> DEFINE k == Cardinality({r \in Ids : draws[r] > 0})
  <2>2. k = Many(1) /\ k \in Nat /\ creations \in Nat /\ overlaps \in Nat
    BY <2>1, ManyIsNat DEF Many, Inv, TypeOK
  <2>3. creations <= k + overlaps
    <3>1. CASE Storing
      <4>1. PICK u \in Users : pc[u] = "store"
        BY <3>1 DEF Storing
      <4>2. creations + Many(roomId[u] + 1) <= Many(1) + overlaps
        BY <4>1 DEF Inv, Counted
      <4>3. Many(roomId[u] + 1) \in Nat
        BY ManyIsNat
      <4> HIDE DEF k
      <4> QED BY <4>2, <4>3, <2>2
    <3>2. CASE ~ Storing
      <4>1. creations + Many(NEXT_ROOM_ID) <= Many(1) + overlaps + 0
        BY <3>2 DEF Inv, Counted
      <4>2. Many(NEXT_ROOM_ID) \in Nat
        BY ManyIsNat
      <4> HIDE DEF k
      <4> QED BY <4>1, <4>2, <2>2
    <3> QED BY <3>1, <3>2
  <2> QED BY <2>3 DEF ReusesAreOverlaps
<1> QED BY <1>1, SpecInv, PTL

(* The count a joiner of a created room was told stays their place in it,  *)
(* whatever increments overlap, if the id of that room was given out once. *)
THEOREM JoinersKeepTheirPlaces == Spec => []PlacesHold
<1>1. Inv => PlacesHold
  BY DEF Inv
<1> QED BY <1>1, SpecInv, PTL
=============================================================================
