---------------------------- MODULE DeletionFeed ----------------------------
(***************************************************************************)
(* Deletion for everyone beside the queues of the relay: the state of      *)
(* Redaction under names that DeliveryQueue does not use, its assumption,  *)
(* its specification, and what it promises.                                *)
(***************************************************************************)
CONSTANTS Mine, Theirs, Me, Peer, Order, Workers, Inbox, PageSize, Archives,
          MaxPhones, MaxFaults, Nobody

VARIABLES events, log, open, feedHolder, feed, phone, madeOn, outbox, received,
          opened, archive, deletion, tombs, seen, inbox, backup, sending, call,
          worker, restore, faults

Del == INSTANCE Redaction WITH holder <- feedHolder, history <- received

ASSUME FeedAssumption == Del!RedactionBounds

FeedSpec == Del!Spec
FeedFairSpec == Del!FairSpec

\* What the phone was told is deleted is neither received nor sent again
\* (inbox-sync.ts, durable.rs).
StaysDeleted == Del!StaysDeleted

\* The phone gives up an own message only when the server has redacted it, and
\* a restore imports nothing redacted before it began
\* (private-message-deletion.ts, history-backup.ts).
ServerDecides == Del!ServerDecides

\* A begun deletion is settled, and a redaction reaches the phone it concerns
\* (redactions.go, redaction-sync.ts).
DeletionsEnd == Del!DeletionsEnd
=============================================================================
