----------------------------- MODULE MCIdentity -----------------------------
(* One phone number, two devices, two challenges, two concurrent requests. *)
EXTENDS Identity

CONSTANTS p1, d1, d2, o1, o2, h1, h2
=============================================================================
