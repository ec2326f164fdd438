----------------------------- MODULE MCCircles -----------------------------
(* A Circle of up to three: its creator, a second client and a third party. *)
EXTENDS Circles

CONSTANTS ada, bob, cyd, op1
=============================================================================
