------------------------------- MODULE Moments -------------------------------
(***************************************************************************)
(* The Moments of one Circle on the phones of its members: posting, copying   *)
(* a message into Moments, reacting and deleting, all of them encrypted       *)
(* messages of the current epoch.  The screen and the photo editor of a phone *)
(* each have a publisher of their own over one sender.  What a phone shows    *)
(* is computed from the messages it knows: its own in the order in which it   *)
(* queued them, those of others in the order in which they arrived.           *)
(***************************************************************************)
EXTENDS Naturals, Sequences, FiniteSets, FiniteSetsExt, SequencesExt

CONSTANTS MaxMembers, MaxEpoch, MaxOps, MaxLost,
          Editors     \* the members that may open the photo editor

Members == 1..MaxMembers
Publishers(m) == IF m \in Editors THEN {"screen", "editor"} ELSE {"screen"}

VARIABLES epoch,      \* of the Circle, at the relay
          ops,        \* messages, as queued: [by, kind, of, active, epoch, status]
          relay,      \* those the relay has accepted, in order
          got,        \* how many of these each phone has received
          job,        \* what each publisher is doing: [at, what]
          lost

momentVars == <<epoch, ops, relay, got, job, lost>>

Ops == DOMAIN ops
Message(m, kind, of, active) ==
    [by |-> m, kind |-> kind, of |-> of, active |-> active, epoch |-> epoch, status |-> "queued"]
NoMessage == [by |-> 0, kind |-> "none", of |-> 0, active |-> FALSE, epoch |-> 0, status |-> "none"]
Free == [at |-> "idle", what |-> NoMessage]

-----------------------------------------------------------------------------
(* What a phone shows.                                                      *)

Knows(m, i) == ops[i].by = m \/ \E n \in 1..got[m] : relay[n] = i

\* Sequences are given out by the phone itself: when it queues, or receives.
Order(m, i) == IF ops[i].by = m THEN i ELSE CHOOSE n \in 1..got[m] : relay[n] = i

\* Mutant: a deletion is applied to what is in the history before it.
HidesLater(m, d, i) == /\ ops[d].kind = "deletion" /\ ops[d].of = i /\ ops[d].by = ops[i].by
                       /\ ops[d].epoch = ops[i].epoch /\ Order(m, d) > Order(m, i)
\* Only its author deletes a Moment, wherever the deletion stands in the history.
Hides(m, d, i) == /\ ops[d].kind = "deletion" /\ ops[d].of = i /\ ops[d].by = ops[i].by
                  /\ ops[d].epoch = ops[i].epoch

Timeline(m) == {i \in Ops : /\ ops[i].kind = "moment" /\ Knows(m, i)
                            /\ ~\E d \in Ops : Knows(m, d) /\ Hides(m, d, i)}

\* The last reaction of a member, by the order of the phone that looks.
Reactions(m, by, i) == {r \in Ops : /\ ops[r].kind = "reaction" /\ ops[r].of = i /\ ops[r].by = by
                                    /\ ops[r].epoch = ops[i].epoch /\ Knows(m, r)}
Reacted(m, by, i) == \E r \in Reactions(m, by, i) :
    ops[r].active /\ \A s \in Reactions(m, by, i) : Order(m, s) <= Order(m, r)

-----------------------------------------------------------------------------
(* A publisher: each has its jobs one at a time.                             *)

Queued(m) == {i \in Ops : ops[i].by = m /\ ops[i].status = "queued"}
\* A Moment that is queued is retried before another is posted.
PendingMoments(m) == {i \in Queued(m) : ops[i].kind = "moment"}

Begin(m, p, message) ==
    /\ job[m][p] = Free /\ Len(ops) < MaxOps
    /\ job' = [job EXCEPT ![m][p] = [at |-> "send", what |-> message]]
    /\ UNCHANGED <<epoch, ops, relay, got, lost>>

\* Posted from the screen, copied from a message, or posted with a photo.
Publish(m, p) == PendingMoments(m) = {} /\ Begin(m, p, Message(m, "moment", 0, FALSE))

Accessible(m, i) == i \in Timeline(m) /\ ops[i].epoch = epoch

\* The same emoji again takes it back.
React(m, i) == Accessible(m, i) /\ Begin(m, "screen", Message(m, "reaction", i, ~Reacted(m, m, i)))

Delete(m, i) == Accessible(m, i) /\ ops[i].by = m /\ Begin(m, "screen", Message(m, "deletion", i, FALSE))

Retry(m) ==
    /\ job[m]["screen"] = Free /\ Cardinality(PendingMoments(m)) = 1
    /\ job' = [job EXCEPT ![m]["screen"] = [at |-> "upload", what |-> [NoMessage EXCEPT !.of = Max(PendingMoments(m))]]]
    /\ UNCHANGED <<epoch, ops, relay, got, lost>>

-----------------------------------------------------------------------------
(* The sender: one message of the phone at a time.                          *)

Sending(m) == \E p \in Publishers(m) : job[m][p].at = "upload"

\* The message is for the epoch that the publisher saw, or it is not sent.
Encrypt(m, p) ==
    /\ job[m][p].at = "send" /\ ~Sending(m)
    /\ IF job[m][p].what.epoch = epoch /\ Len(ops) < MaxOps
       THEN /\ ops' = Append(ops, job[m][p].what)
            /\ job' = [job EXCEPT ![m][p] = [at |-> "upload", what |-> [NoMessage EXCEPT !.of = Len(ops) + 1]]]
       ELSE job' = [job EXCEPT ![m][p] = Free] /\ UNCHANGED ops
    /\ UNCHANGED <<epoch, relay, got, lost>>

\* An operation is accepted once, in the epoch it was made for.
Accepts(i) == Contains(relay, i) \/ ops[i].epoch = epoch
Accepted(i) == IF Contains(relay, i) THEN relay ELSE Append(relay, i)
Confirmed(i) == [ops EXCEPT ![i].status = "sent"]

Upload(m, p) ==
    LET i == job[m][p].what.of
    IN /\ job[m][p].at = "upload" /\ job' = [job EXCEPT ![m][p] = Free]
       /\ IF Accepts(i) THEN relay' = Accepted(i) /\ ops' = Confirmed(i) ELSE UNCHANGED <<relay, ops>>
       /\ UNCHANGED <<epoch, got, lost>>

\* The message or its answer is lost: it stays queued.
Unanswered(m, p) ==
    LET i == job[m][p].what.of
    IN /\ job[m][p].at = "upload" /\ lost < MaxLost /\ lost' = lost + 1
       /\ job' = [job EXCEPT ![m][p] = Free]
       /\ \/ UNCHANGED relay
          \/ Accepts(i) /\ relay' = Accepted(i)
       /\ UNCHANGED <<epoch, ops, got>>

\* The outbox's synchronizer goes round, and starts anywhere.
Worker(m) ==
    \E i \in Queued(m) :
        /\ ~Sending(m) /\ Accepts(i) /\ relay' = Accepted(i) /\ ops' = Confirmed(i)
        /\ UNCHANGED <<epoch, got, job, lost>>

Receive(m) ==
    /\ got[m] < Len(relay) /\ got' = [got EXCEPT ![m] = @ + 1]
    /\ UNCHANGED <<epoch, ops, relay, job, lost>>

\* Somebody joins or leaves.
NextEpoch ==
    /\ epoch < MaxEpoch /\ epoch' = epoch + 1
    /\ UNCHANGED <<ops, relay, got, job, lost>>

MomentInit ==
    /\ epoch = 1 /\ ops = <<>> /\ relay = <<>> /\ got = [m \in Members |-> 0]
    /\ job = [m \in Members |-> [p \in Publishers(m) |-> Free]] /\ lost = 0

MomentNext ==
    \/ \E m \in Members : \/ \E p \in Publishers(m) : Publish(m, p) \/ Encrypt(m, p) \/ Upload(m, p) \/ Unanswered(m, p)
                          \/ \E i \in Ops : React(m, i) \/ Delete(m, i)
                          \/ Retry(m) \/ Worker(m) \/ Receive(m)
    \/ NextEpoch

\* Running jobs end, the outbox's synchronizer and the inbox go on.
MomentFairness ==
    \A m \in Members : /\ \A p \in Publishers(m) : WF_momentVars(Encrypt(m, p) \/ Upload(m, p))
                       /\ WF_momentVars(Worker(m)) /\ WF_momentVars(Receive(m))

MomentSpec == MomentInit /\ [][MomentNext]_momentVars
MomentFairSpec == MomentSpec /\ MomentFairness

-----------------------------------------------------------------------------
\* Types of the state.
MomentTypeOK ==
    /\ epoch \in 1..MaxEpoch /\ Len(ops) <= MaxOps /\ \A i \in Ops : ops[i].status \in {"queued", "sent"}
    /\ \A n \in DOMAIN relay : relay[n] \in Ops
    /\ \A m \in Members : got[m] \in 0..Len(relay)

\* Two phones that have sent what they queued and received what the relay holds.
Level(a, b) == /\ \A m \in {a, b} : Queued(m) = {} /\ got[m] = Len(relay)

\* Phones that are level show the same Moments, in whatever order messages and
\* their repetitions reached the relay: a deletion counts that comes first.
TimelinesAgree == \A a, b \in Members : Level(a, b) => Timeline(a) = Timeline(b)

\* And the same reactions: "a sender's latest active reaction replaces their
\* prior choice; an inactive event removes it" (circle-moments.md).
ReactionsAgree == \A a, b \in Members : Level(a, b) =>
    \A i \in Timeline(a), by \in {a, b} : Reacted(a, by, i) = Reacted(b, by, i)

\* A message that was queued reaches every phone, unless its epoch has passed.
MomentsArrive == \A i \in 1..MaxOps :
    i \in Ops ~> (i \in Ops /\ (ops[i].epoch < epoch \/ \A m \in Members : Knows(m, i)))

=============================================================================
