-------------------------- MODULE MCDeliveryQueue --------------------------
(***************************************************************************)
(* Small instances of DeliveryQueue for TLC.                               *)
(***************************************************************************)
EXTENDS DeliveryQueueLog

CONSTANTS m1, m2

\* Account 1 sends every message.
OneSender == [m \in Messages |-> 1]
=============================================================================
