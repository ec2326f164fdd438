---------------------------- MODULE MCPushOutbox ----------------------------
(* One or two accounts, two push tokens and two dispatchers. *)
EXTENDS PushOutbox

CONSTANTS a1, a2, t1, t2, w1, w2, e1, e2, p, c
=============================================================================
