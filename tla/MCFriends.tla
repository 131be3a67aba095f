----------------------------- MODULE MCFriends ------------------------------
(* The instance of Friends that TLC checks; users are interchangeable.     *)
EXTENDS Friends, TLC

Symmetry == Permutations(Users)
=============================================================================
