--------------------------- MODULE MCUserSessions ---------------------------
(* The instances of UserSessions that TLC checks: accounts, addresses and  *)
(* tokens are model values, and any two of a kind are interchangeable.     *)
EXTENDS UserSessions, TLC

Symmetry ==
  Permutations(Users) \cup Permutations(Handlers) \cup Permutations(Tokens)
=============================================================================
