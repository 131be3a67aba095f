------------------------------- MODULE MCGame -------------------------------
(* The instance of Game that TLC checks: users 1 to 3 in a room.           *)
EXTENDS Game

MCJoined == <<2, 1, 3>>
=============================================================================
