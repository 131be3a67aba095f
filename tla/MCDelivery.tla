----------------------------- MODULE MCDelivery -----------------------------
(* The instance of Delivery that TLC checks: three users, all in the room  *)
(* of the timer, and two of them waiting for a match already.              *)
EXTENDS Delivery

CONSTANTS u1, u2, u3

MCRoom == <<u3, u1, u2>>
MCFirstQueue == <<u2, u3>>
=============================================================================
