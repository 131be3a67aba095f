-------------------------------- MODULE Rooms --------------------------------
(***************************************************************************)
(* The rooms of RoomService: createRoom and joinRoom, called by the        *)
(* threads of several clients for any number of rooms.  (What happens in   *)
(* one room goes on in Rematch.)                                           *)
(*                                                                         *)
(* createRoom takes its id from NEXT_ROOM_ID before it takes room_mutex.   *)
(* NEXT_ROOM_ID is a plain int, so its increment is a load and a store,    *)
(* and two threads may do both at once; that is undefined in C++, and here *)
(* it is what the loads and stores of the machine make of it: two rooms    *)
(* may get one id, and a late store may set the counter back.              *)
(*                                                                         *)
(* joinRoom looks nothing up: a room that is not there is made by the [].  *)
(***************************************************************************)
EXTENDS Naturals, Sequences, FiniteSets

CONSTANTS
  Users,        \* a client, and the thread that serves it
  MaxRequests   \* bound: how many requests are sent

ASSUME RoomsAssumption == MaxRequests \in Nat

VARIABLES
  NEXT_ROOM_ID,
  roomTable,  \* the players of each room, in the order of joining
  pc,         \* "recv", or what createRoom does next: "store", "insert"
  roomId,     \* the id that createRoom has loaded, 0 in "recv"
  requests,   \* how many requests have been sent
  created,    \* history: the ids that ROOM_CREATED has told, and to whom
  places,     \* history: joins of created rooms, with the count of ROOM_UPDATE
  draws,      \* history: by how many createRoom each id has been loaded
  creations,  \* history: how many createRoom have loaded an id
  overlaps    \* history: how many of them while another had not stored yet

history == <<draws, creations, overlaps>>
vars == <<NEXT_ROOM_ID, roomTable, pc, roomId, requests, created, places,
          history>>

Ids == 1 .. MaxRequests

Init ==
  /\ NEXT_ROOM_ID = 1
  /\ roomTable = [r \in {} |-> <<>>]
  /\ pc = [u \in Users |-> "recv"]
  /\ roomId = [u \in Users |-> 0]
  /\ requests = 0
  /\ created = {}
  /\ places = {}
  /\ draws = [r \in Ids |-> 0]
  /\ creations = 0
  /\ overlaps = 0

Ask(u) ==
  /\ pc[u] = "recv"
  /\ requests < MaxRequests
  /\ requests' = requests + 1

(* CREATE_ROOM: room.roomId = NEXT_ROOM_ID++, the load and the store.      *)
LoadNext(u) ==
  /\ Ask(u)
  /\ pc' = [pc EXCEPT ![u] = "store"]
  /\ roomId' = [roomId EXCEPT ![u] = NEXT_ROOM_ID]
  /\ draws' = [draws EXCEPT ![NEXT_ROOM_ID] = @ + 1]
  /\ creations' = creations + 1
  /\ overlaps' = IF \E v \in Users : pc[v] = "store" THEN overlaps + 1
                                                     ELSE overlaps
  /\ UNCHANGED <<NEXT_ROOM_ID, roomTable, created, places>>

(* Two slips for the checks: the id is not advanced; the client is told    *)
(* the id before the room is in the table.                                 *)
StoreSame(u) ==
  /\ pc[u] = "store"
  /\ NEXT_ROOM_ID' = roomId[u]
  /\ pc' = [pc EXCEPT ![u] = "insert"]
  /\ UNCHANGED <<roomTable, roomId, requests, created, places, history>>

StoreAndTell(u) ==
  /\ pc[u] = "store"
  /\ NEXT_ROOM_ID' = roomId[u] + 1
  /\ pc' = [pc EXCEPT ![u] = "insert"]
  /\ created' = created \cup {<<roomId[u], u>>}
  /\ UNCHANGED <<roomTable, roomId, requests, places, history>>

StoreNext(u) ==
  /\ pc[u] = "store"
  /\ NEXT_ROOM_ID' = roomId[u] + 1
  /\ pc' = [pc EXCEPT ![u] = "insert"]
  /\ UNCHANGED <<roomTable, roomId, requests, created, places, history>>

(* roomTable[room.roomId] = room, an empty room whatever was there before, *)
(* and ROOM_CREATED.                                                       *)
InsertRoom(u) ==
  /\ pc[u] = "insert"
  /\ roomTable' = [r \in DOMAIN roomTable \cup {roomId[u]} |->
                     IF r = roomId[u] THEN <<>> ELSE roomTable[r]]
  /\ created' = created \cup {<<roomId[u], u>>}
  /\ pc' = [pc EXCEPT ![u] = "recv"]
  /\ roomId' = [roomId EXCEPT ![u] = 0]
  /\ UNCHANGED <<NEXT_ROOM_ID, requests, places, history>>

Players(r) == IF r \in DOMAIN roomTable THEN roomTable[r] ELSE <<>>
IsCreated(r) == \E u \in Users : <<r, u>> \in created

(* JOIN_ROOM of any room, be it created or not.                            *)
JoinRoom(u, r) ==
  /\ Ask(u)
  /\ roomTable' = [s \in DOMAIN roomTable \cup {r} |->
                     IF s = r THEN Append(Players(r), u) ELSE roomTable[s]]
  /\ places' = IF IsCreated(r)
               THEN places \cup {<<u, r, Len(Players(r)) + 1>>}
               ELSE places
  /\ UNCHANGED <<NEXT_ROOM_ID, pc, roomId, created, history>>

Next ==
  \E u \in Users :
    \/ LoadNext(u) \/ StoreNext(u) \/ InsertRoom(u)
    \/ \E r \in Ids : JoinRoom(u, r)

Spec == Init /\ [][Next]_vars

-----------------------------------------------------------------------------
(* Properties                                                              *)

(* How often createRoom gives out an id that it has given out before: not  *)
(* more often than it loaded NEXT_ROOM_ID while another increment of it    *)
(* was under way.  A late store sets the counter back, over ids that have  *)
(* been given out since; still one overlap costs one id, not all of them.  *)
ReusesAreOverlaps ==
  creations <= Cardinality({r \in Ids : draws[r] > 0}) + overlaps

(* Who joins a room that has been created keeps their place in it, the     *)
(* count they were told, unless its id was loaded by another createRoom    *)
(* too, before or after: no createRoom empties the room again, whatever    *)
(* overlaps elsewhere, and whoever joins the room too early.               *)
PlacesHold ==
  \A p \in places : draws[p[2]] = 1 => /\ p[3] <= Len(Players(p[2]))
                                       /\ Players(p[2])[p[3]] = p[1]
=============================================================================
