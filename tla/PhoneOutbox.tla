---------------------------- MODULE PhoneOutbox ----------------------------
(***************************************************************************)
(* How a phone gets its messages to the relay: the queue of account-sender *)
(* that sends, reconciles and recovers one at a time, the encryption of a   *)
(* draft for the peer's keys of the moment, the uploads and status          *)
(* questions of the outbox, and the recovery of a Circle profile that may   *)
(* have to be given up.  Each action is one answer awaited by the running    *)
(* job; the answers and the jobs are lost, and the audience of a message     *)
(* and the keys of the peer change meanwhile.                               *)
(***************************************************************************)
EXTENDS Naturals, Sequences, FiniteSets

CONSTANTS MaxDrafts,    \* operations, in the order in which the outbox lists them
          Profiles,     \* those that are Circle profiles: bound to an epoch
          MaxEpoch,     \* epochs of the Circle
          MaxKeys,      \* installations of the peer
          MaxLine,      \* jobs of the user waiting behind the running one
          MaxFaults     \* lost answers and restarts of the app

Drafts == 1..MaxDrafts
OutboxBatch == 10       \* records that one reconciliation looks at

VARIABLES world,      \* at the relay: the Circle's epoch, the peer's keys
          relay,      \* what the relay holds of each operation
          given,      \* one-time keys of the peer given out: [id, for, keys]
          pin,        \* the peer as the phone knows it: [keys, revision, pending]
          ratchet,    \* revision of the pin that the session belongs to, or 0
          row,        \* the phone's outbox: [status, revision, keys, epoch]
          line,       \* the jobs queued behind the running one
          job,        \* the running job: [kind, of, at, context, list, tried]
          turn,       \* the outbox record the next reconciliation starts with
          mishaps

phone == <<pin, ratchet, row>>
outboxVars == <<world, relay, given, pin, ratchet, row, line, job, turn, mishaps>>

NoJob == [kind |-> "none", of |-> 0, at |-> "idle", context |-> [epoch |-> 0, keys |-> 0],
          list |-> <<>>, tried |-> 0]
NoRow == [status |-> "none", revision |-> 0, keys |-> 0, epoch |-> 0]
NoPin == [keys |-> 0, revision |-> 0, pending |-> 0]
Job(kind, d) == [NoJob EXCEPT !.kind = kind, !.of = d, !.at = "start"]

-----------------------------------------------------------------------------
(* The durable state of the crypto module.                                  *)

Trusted == pin.revision # 0 /\ pin.pending = 0
Retriable(d) == row[d].status \in {"queued", "sent", "delivered"} /\ Trusted /\ row[d].revision = pin.revision

\* The pin after the relay's keys of the peer have been seen.
Observed(keys) ==
    IF pin.revision = 0 THEN [keys |-> keys, revision |-> 1, pending |-> 0]
    ELSE IF keys # pin.keys THEN [pin EXCEPT !.pending = keys]
    ELSE pin

\* A receipt only ever moves a row forward.
Confirmed(d, status) ==
    [row EXCEPT ![d].status = IF @ = "delivered" THEN @ ELSE status]

Open == {d \in Drafts : row[d].status \in {"queued", "sent"}}
Undelivered == [i \in 1..Cardinality(Open) |-> CHOOSE d \in Open : Cardinality({e \in Open : e < d}) = i - 1]

-----------------------------------------------------------------------------
(* The relay.                                                               *)

Accepts(d) ==
    /\ row[d].keys = world.keys
    /\ d \in Profiles => row[d].epoch = world.epoch

\* Mutant: each attempt asks for a key under an identifier of its own.
AllocationFresh(d) == [of |-> d, attempt |-> mishaps]
AllocationID(d) == [of |-> d, attempt |-> 0]

Allocation(d) == {key \in given : key.id = AllocationID(d)}

-----------------------------------------------------------------------------
(* The queue: one job at a time, whatever became of the one before.          *)

Enqueue(kind, d) ==
    /\ kind = "reconcile" \/ Len(line) < MaxLine
    /\ ~\E i \in 1..Len(line) : line[i].kind = kind /\ line[i].of = d
    /\ line' = Append(line, Job(kind, d))

Send(d) ==
    /\ row[d].status # "retired" /\ Enqueue("send", d)
    /\ UNCHANGED <<world, relay, given, phone, job, turn, mishaps>>

Recover(d) ==
    /\ d \in Profiles /\ row[d].status = "queued" /\ Enqueue("recover", d)
    /\ UNCHANGED <<world, relay, given, phone, job, turn, mishaps>>

\* A synchronization whose inbox page went well goes on to the outbox and waits for
\* it; one whose inbox throws never comes this far.
Reconcile ==
    /\ job.kind # "reconcile" /\ Enqueue("reconcile", 0)
    /\ UNCHANGED <<world, relay, given, phone, job, turn, mishaps>>

StartJob ==
    /\ job = NoJob /\ line # <<>>
    /\ job' = Head(line) /\ line' = Tail(line)
    /\ UNCHANGED <<world, relay, given, phone, turn, mishaps>>

At(kind, step) == job.kind = kind /\ job.at = step
Step(step) == job' = [job EXCEPT !.at = step]
EndJob == job' = NoJob

\* An answer does not arrive, and the job gives up.
Unanswered ==
    /\ mishaps < MaxFaults /\ mishaps' = mishaps + 1
    /\ EndJob

-----------------------------------------------------------------------------
(* sendMessage.                                                             *)

\* The bytes of a draft that was encrypted before are sent as they are.
SendSaved ==
    /\ At("send", "start")
    /\ IF row[job.of].status = "none" THEN Step("context")
       ELSE IF Retriable(job.of) THEN Step("upload")
       ELSE EndJob
    /\ UNCHANGED <<world, relay, given, phone, line, turn, mishaps>>

\* A profile is for the epoch its editor showed, which may have passed.
SendContext ==
    /\ At("send", "context")
    /\ \/ /\ \E shown \in 1..world.epoch :
                job' = IF job.of \in Profiles /\ shown # world.epoch THEN NoJob
                       ELSE [job EXCEPT !.at = "peer", !.context = world]
          /\ mishaps' = mishaps
       \/ Unanswered
    /\ UNCHANGED <<world, relay, given, phone, line, turn>>

SendPeer ==
    /\ At("send", "peer")
    /\ pin' = Observed(job.context.keys)
    /\ IF pin'.pending # 0 THEN EndJob
       ELSE IF ratchet = pin'.revision THEN Step("save")
       ELSE Step("allocate")
    /\ UNCHANGED <<world, relay, given, ratchet, row, line, turn, mishaps>>

\* The relay answers a repeated allocation with the key it gave before.
SendAllocate ==
    LET before == Allocation(job.of)
        refused == \E key \in before : key.keys # world.keys
    IN
    /\ At("send", "allocate")
    /\ \/ /\ mishaps < MaxFaults
          /\ EndJob /\ mishaps' = mishaps + 1 /\ ratchet' = ratchet
       \/ /\ IF refused \/ job.context.keys # world.keys
             THEN EndJob /\ ratchet' = ratchet
             ELSE Step("save") /\ ratchet' = pin.revision
          /\ mishaps' = mishaps
    /\ given' = IF refused THEN given
                ELSE given \cup {[id |-> AllocationID(job.of), for |-> job.of, keys |-> world.keys]}
    /\ UNCHANGED <<world, relay, pin, row, line, turn>>

SendSave ==
    /\ At("send", "save")
    /\ IF Trusted /\ ratchet = pin.revision
       THEN /\ row' = [row EXCEPT ![job.of] = [status |-> "queued", revision |-> pin.revision,
                                               keys |-> pin.keys, epoch |-> job.context.epoch]]
            /\ Step("upload")
       ELSE EndJob /\ row' = row
    /\ UNCHANGED <<world, relay, given, pin, ratchet, line, turn, mishaps>>

-----------------------------------------------------------------------------
(* The upload of a row, by its sender or by the reconciliation.              *)

Received(d) == IF relay[d] = "none" /\ Accepts(d) THEN "sent" ELSE relay[d]

Onward == IF job.kind = "send" THEN EndJob
          ELSE job' = [job EXCEPT !.at = "next", !.of = 0]

Upload ==
    /\ job.kind \in {"send", "reconcile"} /\ job.at = "upload"
    /\ relay' = [relay EXCEPT ![job.of] = Received(job.of)]
    /\ \/ /\ Received(job.of) \in {"sent", "delivered"}
          /\ row' = Confirmed(job.of, IF row[job.of].status = "delivered" THEN "delivered" ELSE "sent")
          /\ Onward /\ mishaps' = mishaps
       \/ /\ Received(job.of) \notin {"sent", "delivered"}
          /\ EndJob /\ UNCHANGED <<row, mishaps>>
       \/ Unanswered /\ row' = row
    /\ UNCHANGED <<world, given, pin, ratchet, line, turn>>

\* The request is lost before it reaches the relay.
LoseUpload ==
    /\ job.kind \in {"send", "reconcile"} /\ job.at = "upload"
    /\ Unanswered
    /\ UNCHANGED <<world, relay, given, phone, line, turn>>

-----------------------------------------------------------------------------
(* refresh: the records that were not delivered when it began, from where the *)
(* last reconciliation stopped; the first that fails ends it.                 *)

ListOutbox ==
    /\ At("reconcile", "start")
    /\ job' = [job EXCEPT !.at = "next", !.list = Undelivered]
    /\ UNCHANGED <<world, relay, given, phone, line, turn, mishaps>>

\* The place in the list is left before the record is tried.
Passed == (turn + 1) % Len(job.list)
\* Mutant: it is left only when the record needed no upload.
PassedAfter ==
    IF row[job.list[(turn % Len(job.list)) + 1]].status = "queued" THEN turn ELSE (turn + 1) % Len(job.list)

NextRecord(place) ==
    LET d == job.list[(turn % Len(job.list)) + 1]
    IN
    /\ turn' = place
    /\ IF row[d].status = "sent" THEN job' = [job EXCEPT !.at = "status", !.of = d, !.tried = @ + 1]
       ELSE IF Retriable(d) THEN job' = [job EXCEPT !.at = "upload", !.of = d, !.tried = @ + 1]
       ELSE EndJob

Untried == job.tried < OutboxBatch /\ job.tried < Len(job.list)

\* Mutant: see PassedAfter.
RetryInPlace ==
    /\ At("reconcile", "next")
    /\ IF Untried THEN NextRecord(PassedAfter) ELSE EndJob /\ turn' = turn
    /\ UNCHANGED <<world, relay, given, phone, line, mishaps>>

RetryNext ==
    /\ At("reconcile", "next")
    /\ IF Untried THEN NextRecord(Passed) ELSE EndJob /\ turn' = turn
    /\ UNCHANGED <<world, relay, given, phone, line, mishaps>>

AskStatus ==
    /\ At("reconcile", "status")
    /\ \/ /\ row' = Confirmed(job.of, relay[job.of])
          /\ Onward /\ mishaps' = mishaps
       \/ Unanswered /\ row' = row
    /\ UNCHANGED <<world, relay, given, pin, ratchet, line, turn>>

-----------------------------------------------------------------------------
(* recoverProfileUpdate: the relay decides whether the profile is out.       *)

RecoverDraft ==
    /\ At("recover", "start")
    /\ IF row[job.of].status \in {"none", "retired"} THEN EndJob ELSE Step("cancel")
    /\ UNCHANGED <<world, relay, given, phone, line, turn, mishaps>>

RecoverCancel ==
    /\ At("recover", "cancel")
    /\ relay' = [relay EXCEPT ![job.of] = IF @ = "none" THEN "cancelled" ELSE @]
    /\ \/ /\ row' = IF relay'[job.of] = "cancelled" THEN [row EXCEPT ![job.of].status = "retired"]
                    ELSE Confirmed(job.of, "sent")
          /\ EndJob /\ mishaps' = mishaps
       \/ Unanswered /\ row' = row
    /\ UNCHANGED <<world, given, pin, ratchet, line, turn>>

-----------------------------------------------------------------------------
(* What happens around the phone.                                           *)

Deliver(d) ==
    /\ relay[d] = "sent" /\ relay' = [relay EXCEPT ![d] = "delivered"]
    /\ UNCHANGED <<world, given, phone, line, job, turn, mishaps>>

EpochMoves ==
    /\ world.epoch < MaxEpoch /\ world' = [world EXCEPT !.epoch = @ + 1]
    /\ UNCHANGED <<relay, given, phone, line, job, turn, mishaps>>

PeerReinstalls ==
    /\ world.keys < MaxKeys /\ world' = [world EXCEPT !.keys = @ + 1]
    /\ UNCHANGED <<relay, given, phone, line, job, turn, mishaps>>

\* The user accepts the peer's new keys; the old session goes.
Acknowledge ==
    /\ pin.pending # 0
    /\ pin' = [keys |-> pin.pending, revision |-> pin.revision + 1, pending |-> 0]
    /\ ratchet' = 0
    /\ UNCHANGED <<world, relay, given, row, line, job, turn, mishaps>>

Restart ==
    /\ job # NoJob /\ mishaps < MaxFaults /\ mishaps' = mishaps + 1
    /\ job' = NoJob /\ line' = <<>> /\ turn' = 0
    /\ UNCHANGED <<world, relay, given, phone>>

OutboxInit ==
    /\ world = [epoch |-> 1, keys |-> 1]
    /\ relay = [d \in Drafts |-> "none"] /\ row = [d \in Drafts |-> NoRow]
    /\ given = {} /\ pin = NoPin /\ ratchet = 0
    /\ line = <<>> /\ job = NoJob /\ turn = 0 /\ mishaps = 0

Working ==
    \/ StartJob
    \/ SendSaved \/ SendContext \/ SendPeer \/ SendAllocate \/ SendSave
    \/ Upload \/ ListOutbox \/ RetryNext \/ AskStatus
    \/ RecoverDraft \/ RecoverCancel

OutboxNext ==
    \/ \E d \in Drafts : Send(d) \/ Recover(d) \/ Deliver(d)
    \/ Reconcile \/ Working \/ LoseUpload
    \/ EpochMoves \/ PeerReinstalls \/ Acknowledge \/ Restart

\* A job that began goes on: a request ends within 15 s.  That the outbox is
\* reconciled is not taken for granted.
OutboxFairness == WF_outboxVars(Working)
OutboxSpec == OutboxInit /\ [][OutboxNext]_outboxVars
OutboxFairSpec == OutboxSpec /\ OutboxFairness

-----------------------------------------------------------------------------
OutboxTypeOK ==
    /\ world \in [epoch : 1..MaxEpoch, keys : 1..MaxKeys]
    /\ relay \in [Drafts -> {"none", "sent", "delivered", "cancelled"}]
    /\ \A d \in Drafts : row[d].status \in {"none", "queued", "sent", "delivered", "retired"}
    /\ pin.keys \in 0..MaxKeys /\ pin.pending \in 0..MaxKeys /\ ratchet \in 0..pin.revision
    /\ Len(line) <= MaxLine + 1 /\ turn \in 0..MaxDrafts /\ mishaps \in 0..MaxFaults

(* However often a message is tried, across lost answers and restarts, it   *)
(* costs the peer one of its one-time keys; and the phone tells its user     *)
(* only what the relay has decided: sent and delivered messages are there,   *)
(* a profile that was given up never will be.                                *)
OneKeyPerMessage == \A d \in Drafts : Cardinality({key \in given : key.for = d}) <= 1

OutboxTells ==
    \A d \in Drafts :
        /\ row[d].status = "sent" => relay[d] \in {"sent", "delivered"}
        /\ row[d].status = "delivered" => relay[d] = "delivered"
        /\ row[d].status = "retired" => relay[d] = "cancelled"

OutboxTrue == OneKeyPerMessage /\ OutboxTells

\* The inbox lets the outbox have its turn again and again.
InboxGoesOn == []<><<Reconcile>>_outboxVars

(* While synchronizations get past the inbox, a queued message reaches the    *)
(* relay, whatever happens to the others of the outbox, unless its audience    *)
(* has changed or its peer's keys have.                                       *)
OutboxTurns ==
    InboxGoesOn =>
        \A d \in Drafts :
            row[d].status = "queued" ~> \/ row[d].status # "queued"
                                        \/ ~Accepts(d) \/ ~Retriable(d) \/ relay[d] = "cancelled"
=============================================================================
