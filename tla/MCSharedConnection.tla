------------------------ MODULE MCSharedConnection -------------------------
(* The instance of SharedConnection that TLC checks: two accounts and a    *)
(* name that is free; a stored room in which user 2 has joined twice and   *)
(* somebody with an id that only a registration makes an account, an empty *)
(* room, and one that is not stored.                                       *)
EXTENDS SharedConnection, TLC

MCFirstUsers == <<[name |-> "an", password |-> "p1"],
                  [name |-> "bo", password |-> "p2"]>>

MCRoomPlayers == << <<2, 3, 2>>, <<>>, <<1>> >>

Symmetry == Permutations(Threads)
=============================================================================
