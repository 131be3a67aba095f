------------------------------- MODULE MCRooms -------------------------------
(* The instance of Rooms that TLC checks.                                  *)
EXTENDS Rooms, TLC

Symmetry == Permutations(Users)
=============================================================================
