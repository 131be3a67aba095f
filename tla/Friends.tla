------------------------------ MODULE Friends -------------------------------
(***************************************************************************)
(* Friend requests: the table Friends and the threads that serve the       *)
(* commands SEND_, ACCEPT_ and REJECT_FRIEND_REQUEST and                   *)
(* LIST_PENDING_REQUESTS.                                                  *)
(*                                                                         *)
(* Each statement of FriendDAO runs alone (DB::exec and DB::queryInt hold  *)
(* g_db_mutex), but a request takes several of them and the threads of     *)
(* different users interleave between any two.  An account is used by one  *)
(* client at a time, so a user stands for the thread of its connection.    *)
(* A row has an identity in the database, yet every statement here treats  *)
(* equal rows alike, so the table is the set of its rows.                  *)
(*                                                                         *)
(* Users are logged in: an invalid token is refused before anything is     *)
(* read or written, and so is an unknown name or a request to oneself.     *)
(***************************************************************************)
EXTENDS Naturals, FiniteSets

CONSTANTS
  Users,
  NoUser,
  MaxAsked,  \* bound on the pairs <<a, b>> of which a asks b
  MaxStrays  \* bound on the answers to names that were not shown

ASSUME UserAssumption ==
  NoUser \notin Users /\ MaxAsked \in Nat /\ MaxStrays \in Nat

VARIABLES
  rows,    \* table Friends
  pc,      \* where the thread of each user stands; "idle": in recv
  other,   \* the other user of the request being served
  shown,   \* whose requests the client's screen shows, since its last answer
  asked,   \* history: <<a, b>> when a request of a to b was ever stored
  agreed,  \* history: <<b, a>> when b ever accepted the name a
  strays   \* history: <<b, a>> when b answered a without being shown it

vars == <<rows, pc, other, shown, asked, agreed, strays>>

Row(a, b, s) == [from |-> a, to |-> b, status |-> s]
Rows == [from : Users, to : Users, status : {"pending", "accepted"}]

-----------------------------------------------------------------------------
(* What the statements of FriendDAO read                                   *)

(* A slip for the checks: only the request in the same direction counts.   *)
RequestExistsOneWay(a, b) == \E r \in rows : r.from = a /\ r.to = b

RequestExists(a, b) ==
  \E r \in rows : \/ r.from = a /\ r.to = b
                  \/ r.from = b /\ r.to = a

(* A slip for the checks: the requests the user sent, not those received.  *)
PendingRequestsSent(u) == {v \in Users : Row(u, v, "pending") \in rows}

PendingRequests(u) == {v \in Users : Row(v, u, "pending") \in rows}

AcceptedFriends(u) ==
  {v \in Users : \/ Row(u, v, "accepted") \in rows
                 \/ Row(v, u, "accepted") \in rows}

-----------------------------------------------------------------------------
Init ==
  /\ rows = {}
  /\ pc = [u \in Users |-> "idle"]
  /\ other = [u \in Users |-> NoUser]
  /\ shown = [u \in Users |-> {}]
  /\ asked = {}
  /\ agreed = {}
  /\ strays = {}

Goto(u, stage, v) ==
  /\ pc' = [pc EXCEPT ![u] = stage]
  /\ other' = [other EXCEPT ![u] = v]

(* sendFriendRequest asks requestExists: REQUEST_EXISTS, or go on.         *)
SendFriendRequest(u, v) ==
  /\ pc[u] = "idle"
  /\ u # v
  /\ <<u, v>> \in asked \/ Cardinality(asked) < MaxAsked
  /\ ~RequestExists(u, v)
  /\ Goto(u, "sendRequest", v)
  /\ UNCHANGED <<rows, shown, asked, agreed, strays>>

(* FriendDAO::sendRequest asks it again: REQUEST_FAILED, or go on.         *)
SendRequest(u) ==
  /\ pc[u] = "sendRequest"
  /\ IF RequestExists(u, other[u])
       THEN Goto(u, "idle", NoUser)
       ELSE Goto(u, "insert", other[u])
  /\ UNCHANGED <<rows, shown, asked, agreed, strays>>

(* ... and inserts the request.                                            *)
InsertRequest(u) ==
  /\ pc[u] = "insert"
  /\ rows' = rows \cup {Row(u, other[u], "pending")}
  /\ asked' = asked \cup {<<u, other[u]>>}
  /\ Goto(u, "idle", NoUser)
  /\ UNCHANGED <<shown, agreed, strays>>

(* listPendingRequests; the client shows the list and asks for a name.     *)
ListPendingRequests(u) ==
  /\ pc[u] = "idle"
  /\ shown' = [shown EXCEPT ![u] = PendingRequests(u)]
  /\ UNCHANGED <<rows, pc, other, asked, agreed, strays>>

(* The user of u types the name v.  The client asks for one only when it   *)
(* shows some request, and takes any text; a name nobody has is refused.   *)
TypeName(u, v) ==
  /\ pc[u] = "idle"
  /\ shown[u] # {}
  /\ shown' = [shown EXCEPT ![u] = {}]
  /\ v \notin shown[u] => Cardinality(strays) < MaxStrays
  /\ strays' = IF v \in shown[u] THEN strays ELSE strays \cup {<<u, v>>}

(* acceptRequest: the UPDATE, whether or not it finds a row.               *)
AcceptRequest(u, v) ==
  /\ TypeName(u, v)
  /\ rows' = {r \in rows : ~(r.from = v /\ r.to = u)}
               \cup {Row(v, u, "accepted") : r \in
                       {x \in rows : x.from = v /\ x.to = u}}
  /\ agreed' = agreed \cup {<<u, v>>}
  /\ Goto(u, "insertReverse", v)
  /\ UNCHANGED asked

(* A slip for the checks: the request is forgotten before it is used.      *)
InsertReverseLate(u) ==
  /\ pc[u] = "insertReverse"
  /\ Goto(u, "idle", NoUser)
  /\ rows' = rows \cup {Row(u, other'[u], "accepted")}
  /\ UNCHANGED <<shown, asked, agreed, strays>>

(* ... then the INSERT OR IGNORE of the reverse row; no constraint of the  *)
(* table makes it ignore anything.                                         *)
InsertReverse(u) ==
  /\ pc[u] = "insertReverse"
  /\ rows' = rows \cup {Row(u, other[u], "accepted")}
  /\ Goto(u, "idle", NoUser)
  /\ UNCHANGED <<shown, asked, agreed, strays>>

(* A slip for the checks: the rows of both directions are deleted.         *)
RejectBothWays(u, v) ==
  /\ TypeName(u, v)
  /\ rows' = {r \in rows : {r.from, r.to} # {u, v}}
  /\ UNCHANGED <<pc, other, asked, agreed>>

(* rejectRequest: the DELETE, whatever the status of the row.              *)
RejectRequest(u, v) ==
  /\ TypeName(u, v)
  /\ rows' = {r \in rows : ~(r.from = v /\ r.to = u)}
  /\ UNCHANGED <<pc, other, asked, agreed>>

(* The server dies and is started again, and the users log in again; the   *)
(* table is as it was.                                                     *)
Restart ==
  /\ pc' = [u \in Users |-> "idle"]
  /\ other' = [u \in Users |-> NoUser]
  /\ shown' = [u \in Users |-> {}]
  /\ UNCHANGED <<rows, asked, agreed, strays>>

ThreadStep(u) == SendRequest(u) \/ InsertRequest(u) \/ InsertReverse(u)

Command(u) ==
  \/ ListPendingRequests(u)
  \/ \E v \in Users : \/ SendFriendRequest(u, v)
                      \/ AcceptRequest(u, v)
                      \/ RejectRequest(u, v)

Next == (\E u \in Users : ThreadStep(u) \/ Command(u)) \/ Restart

Spec == Init /\ [][Next]_vars

-----------------------------------------------------------------------------
(* Properties                                                              *)

TypeOK ==
  /\ rows \subseteq Rows
  /\ pc \in [Users -> {"idle", "sendRequest", "insert", "insertReverse"}]
  /\ other \in [Users -> Users \cup {NoUser}]
  /\ shown \in [Users -> SUBSET Users]
  /\ asked \subseteq Users \X Users
  /\ agreed \subseteq Users \X Users
  /\ strays \subseteq Users \X Users

AcceptedUnshown(u, v) == <<u, v>> \in agreed \cap strays

(* A pair is listed as friends only if one of them stored a request and    *)
(* the other accepted it, or if one of them accepted the other's name      *)
(* without having been shown it: acceptRequest makes a friend of whoever   *)
(* is named, and never looks at the request.  Nothing else does, whatever  *)
(* requests, answers and restarts cross.                                   *)
FriendshipIsConsented ==
  \A u \in Users : \A v \in AcceptedFriends(u) :
    \/ <<u, v>> \in asked /\ <<v, u>> \in agreed
    \/ <<v, u>> \in asked /\ <<u, v>> \in agreed
    \/ AcceptedUnshown(u, v) \/ AcceptedUnshown(v, u)

(* The list on a user's screen is never stale: every request it shows is   *)
(* still waiting when the user answers one, since neither the senders nor  *)
(* an answer to a request that crossed it withdraws one.                   *)
ShownIsCurrent == \A u \in Users : shown[u] \subseteq PendingRequests(u)

(* A request is not lost: it stops being pending only when its receiver    *)
(* answers a list, which shows the request or is older than it.            *)
RequestAwaitsReceiver ==
  [][\A u, v \in Users :
       v \in PendingRequests(u) /\ v \notin PendingRequests(u)'
         => /\ shown[u] # {}
            /\ v \in shown[u] \/ <<u, v>> \in strays']_vars

(* Friends are not asked again: no request is stored between two users who *)
(* are friends by then, even if the server died between the two statements *)
(* of acceptRequest and only one of the two rows says that they are.  Only *)
(* who was accepted before asking, unseen, may ask a friend.               *)
FriendsAreNotAsked ==
  [][\A u, v \in Users :
       u \notin PendingRequests(v) /\ u \in PendingRequests(v)'
         => v \notin AcceptedFriends(u) \/ AcceptedUnshown(v, u)]_vars

(* Friends stay friends: rejecting the second of two requests that crossed *)
(* does not undo the friendship the first one made.  It takes the answer   *)
(* to a name that was not shown.                                           *)
FriendshipLasts ==
  [][\A u, v \in Users :
       v \in AcceptedFriends(u) /\ v \notin AcceptedFriends(u)'
         => {<<u, v>>, <<v, u>>} \cap strays' # {}]_vars
=============================================================================
