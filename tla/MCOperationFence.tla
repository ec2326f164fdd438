-------------------------- MODULE MCOperationFence --------------------------
(* One chat message and one Circle profile, and an object id that uploads of *)
(* both may name.                                                            *)
EXTENDS OperationFence

CONSTANTS chat, profile, hi, avatar, o1

MCOpOf == [v \in Envelopes |-> IF v = avatar THEN profile ELSE chat]
MCMetadata == {avatar} \cap Envelopes
MCOffersShared == {<<o1, chat>>, <<o1, profile>>}
MCOffersOne == {<<o1, chat>>}
=============================================================================
