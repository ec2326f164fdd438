---------------------------- MODULE MCRedaction ----------------------------
(***************************************************************************)
(* Instances of Redaction for TLC.                                         *)
(***************************************************************************)
EXTENDS DeletionFeed

CONSTANTS m1, t1, Pager

MCOrder == <<Peer, Me>>
=============================================================================
