---------------------------- MODULE LoginService ----------------------------
(***************************************************************************)
(* What logging in promises, without the statements that do it: an account *)
(* is like a lock that one client at a time can hold.  A login takes it,   *)
(* a logout or a disconnect gives it back, and only the client that holds  *)
(* it can be shown online for it.  When the server dies the accounts stay  *)
(* taken, and no client holds them any more.                               *)
(***************************************************************************)
CONSTANTS
  Users,
  Clients

VARIABLES
  taken,   \* the accounts nobody can log in to
  holds,   \* the pairs <<user, client>> of those logged in
  online   \* the users that friends see online and broadcasts reach

vars == <<taken, holds, online>>

Init ==
  /\ taken = {}
  /\ holds = {}
  /\ online = {}

LogIn(u, c) ==
  /\ u \notin taken
  /\ \A v \in Users : <<v, c>> \notin holds
  /\ taken' = taken \cup {u}
  /\ holds' = holds \cup {<<u, c>>}
  /\ UNCHANGED online

Leave(u, c) ==
  /\ <<u, c>> \in holds
  /\ taken' = taken \ {u}
  /\ holds' = holds \ {<<u, c>>}
  /\ UNCHANGED online

Appear(u, c) ==
  /\ <<u, c>> \in holds
  /\ online' = online \cup {u}
  /\ UNCHANGED <<taken, holds>>

(* A user may be shown offline early: see LoggedInIsOnline.                *)
Vanish(u) ==
  /\ online' = online \ {u}
  /\ UNCHANGED <<taken, holds>>

Restart ==
  /\ holds' = {}
  /\ online' = {}
  /\ UNCHANGED taken

Next ==
  \/ \E u \in Users, c \in Clients : LogIn(u, c) \/ Leave(u, c) \/ Appear(u, c)
  \/ \E u \in Users : Vanish(u)
  \/ Restart

Spec == Init /\ [][Next]_vars
=============================================================================
