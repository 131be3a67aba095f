----------------------------- MODULE MCRematch ------------------------------
(* The instance of Rematch that TLC checks: a room with one player, and    *)
(* another user, who may send any command before and after joining.        *)
EXTENDS Rematch, TLC
=============================================================================
