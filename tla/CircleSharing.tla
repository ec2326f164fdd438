---------------------------- MODULE CircleSharing ----------------------------
(***************************************************************************)
(* The admin's phone and its Circle: the saved creation that makes it, sends *)
(* its first profile and invites, the details controller that edits the      *)
(* profile and shares it again with each new audience, the picture that is    *)
(* encrypted anew for each epoch, and the selection of friends to invite.     *)
(* Every await may lose its answer, the app may die, and members come and go. *)
(***************************************************************************)
EXTENDS Naturals, FiniteSets, FiniteSetsExt

CONSTANTS Peers, Invitees, MaxEpoch, MaxUpdates, MaxMishaps

VARIABLES circle,    \* the service: [made, closed, epoch, revision, members, invited, shown]
          relay,     \* what it holds of each profile operation: none, committed, fenced
          creation,  \* the saved creation: [saved, known, sent, done, left]
          maker,     \* where the running creation is: [at, guests: whom it has yet to ask]
          outbox,    \* profiles of the phone: [status, revision, epoch, picture]
          job,       \* the details controller: [kind, at, epoch, revision, picture, of]
          refresh,   \* the picture being encrypted anew: [epoch, revision]
          picks,     \* friends selected to be invited
          seen,      \* the latest profile in each peer's history
          updates, mishaps

sharingVars == <<circle, relay, creation, maker, outbox, job, refresh, picks, seen, updates, mishaps>>

FirstOp == 1
Ops == DOMAIN outbox
NoCreation == [saved |-> FALSE, known |-> FALSE, sent |-> FALSE, done |-> FALSE]
NoJob == [kind |-> "none", at |-> "idle", epoch |-> 0, revision |-> 0, picture |-> 0, of |-> 0]
NoRefresh == [epoch |-> 0, revision |-> 0]
Mishap == mishaps < MaxMishaps /\ mishaps' = mishaps + 1
Goes(at) == job' = [job EXCEPT !.at = at]
Rests == [at |-> "idle", guests |-> {}]
Makes(at) == maker' = [at |-> at, guests |-> {}]

\* Of the phone's history: the profile that was accepted last, and the one that waits.
Sent == {o \in Ops : outbox[o].status = "sent"}
Own == Max({outbox[o].revision : o \in Sent} \cup {0})
OwnPicture == IF Own = 0 THEN 0 ELSE outbox[CHOOSE o \in Sent : outbox[o].revision = Own].picture
Pending == {o \in Ops : outbox[o].status = "queued"}

-----------------------------------------------------------------------------
(* The relay: the audience of now, and the revision after the last one.      *)

Accepts(o) == ~circle.closed /\ relay[o] = "none"
                  /\ outbox[o].epoch = circle.epoch /\ outbox[o].revision = circle.revision + 1
Commit(o) ==
    /\ relay' = [relay EXCEPT ![o] = "committed"]
    /\ circle' = [circle EXCEPT !.revision = outbox[o].revision,
                                !.shown = [epoch |-> outbox[o].epoch, picture |-> outbox[o].picture]]
    /\ seen' = [p \in Peers |-> IF p \in circle.members THEN outbox[o].revision ELSE seen[p]]

\* An accepted picture needs no upload of its own any more.
Committed(rows) == IF \E o \in DOMAIN rows : rows[o].status = "sent" /\ rows[o].picture = refresh.epoch
                                              /\ rows[o].revision > refresh.revision
                   THEN NoRefresh ELSE refresh
Confirm(o) == /\ outbox' = [outbox EXCEPT ![o].status = "sent"]
              /\ refresh' = Committed([outbox EXCEPT ![o].status = "sent"])

\* An answer arrives, or is lost whatever became of the request.
Upload(o) ==
    \/ Accepts(o) /\ Commit(o) /\ Confirm(o) /\ UNCHANGED mishaps
    \/ relay[o] = "committed" /\ Confirm(o) /\ UNCHANGED <<circle, relay, seen, mishaps>>
Lost(o) ==
    /\ UNCHANGED <<outbox, refresh>> /\ Mishap
    /\ \/ Accepts(o) /\ Commit(o)
       \/ UNCHANGED <<circle, relay, seen>>
Refused(o) == ~Accepts(o) /\ relay[o] # "committed" /\ UNCHANGED <<circle, relay, seen, outbox, refresh, mishaps>>

Queue(o, revision, picture) ==
    /\ outbox' = [i \in Ops \cup {o} |-> IF i = o THEN [status |-> "queued", revision |-> revision,
                                                      epoch |-> circle.epoch, picture |-> picture]
                                       ELSE outbox[i]]
    /\ relay' = [i \in Ops \cup {o} |-> IF i = o THEN "none" ELSE relay[i]]

-----------------------------------------------------------------------------
(* Creation.                                                                *)

\* A new file is sealed and read back before the pointer names it: the record
\* before or the new one survives.
SaveCreation(record) == creation' = record
\* Mutant: the creation is saved with the answer, not before the request.
StartUnsaved == Makes("create") /\ UNCHANGED creation
Start == Makes("create") /\ SaveCreation([NoCreation EXCEPT !.saved = TRUE])
StartCreation ==
    /\ maker.at = "idle" /\ ~creation.saved /\ circle.revision = 0 /\ ~circle.closed /\ Start
    /\ UNCHANGED <<circle, relay, outbox, job, refresh, picks, seen, updates, mishaps>>

Resume ==
    /\ maker.at = "idle" /\ creation.saved /\ ~creation.done
    /\ Makes(IF ~creation.known THEN "create" ELSE IF ~creation.sent THEN "send" ELSE "invite")
    /\ UNCHANGED <<circle, relay, creation, outbox, job, refresh, picks, seen, updates, mishaps>>

\* The same operation makes the same Circle, however often it is asked for.
CreateCircle ==
    /\ maker.at = "create"
    /\ circle' = [circle EXCEPT !.made = TRUE]
    /\ \/ ~circle.closed /\ SaveCreation([creation EXCEPT !.known = TRUE]) /\ Makes("send") /\ UNCHANGED mishaps
       \/ circle.closed /\ Makes("idle") /\ UNCHANGED <<creation, mishaps>>
       \/ Makes("idle") /\ Mishap /\ UNCHANGED creation
    /\ UNCHANGED <<relay, outbox, job, refresh, picks, seen, updates>>

QueueFirst ==
    /\ maker.at = "send" /\ FirstOp \notin Ops
    /\ IF circle.closed THEN Makes("idle") /\ UNCHANGED <<outbox, relay>>
       ELSE Queue(FirstOp, 1, 0) /\ UNCHANGED maker
    /\ UNCHANGED <<circle, creation, job, refresh, picks, seen, updates, mishaps>>

SendFirst ==
    /\ maker.at = "send" /\ FirstOp \in Ops
    /\ \/ Upload(FirstOp) /\ Makes("invite") /\ SaveCreation([creation EXCEPT !.sent = TRUE])
       \/ (Lost(FirstOp) \/ Refused(FirstOp)) /\ Makes("idle") /\ UNCHANGED creation
    /\ UNCHANGED <<job, picks, updates>>

\* Who is a member already is skipped; who joins afterwards is not, and is refused.
Invites(p) == circle' = [circle EXCEPT !.invited = @ \cup {p}]
ReadMembers ==
    /\ maker.at = "invite"
    /\ \/ ~circle.closed /\ maker' = [at |-> "ask", guests |-> Invitees \ circle.members] /\ UNCHANGED mishaps
       \/ circle.closed /\ Makes("idle") /\ UNCHANGED mishaps
       \/ Mishap /\ Makes("idle")
    /\ UNCHANGED <<circle, relay, creation, outbox, job, refresh, picks, seen, updates>>

InviteGuest ==
    /\ maker.at = "ask"
    /\ \E p \in maker.guests :
         LET allowed == ~circle.closed /\ p \notin circle.members
         IN \/ allowed /\ Invites(p) /\ maker' = [at |-> "ask", guests |-> maker.guests \ {p}] /\ UNCHANGED mishaps
            \/ ~allowed /\ Makes("idle") /\ UNCHANGED <<circle, mishaps>>
            \/ Mishap /\ Makes("idle") /\ ((allowed /\ Invites(p)) \/ UNCHANGED circle)
    /\ UNCHANGED <<relay, creation, outbox, job, refresh, picks, seen, updates>>

\* The creation is done when all were asked.
InvitationsDone ==
    /\ maker.at = "ask" /\ maker.guests = {} /\ Makes("idle")
    /\ SaveCreation([creation EXCEPT !.done = TRUE])
    /\ UNCHANGED <<circle, relay, outbox, job, refresh, picks, seen, updates, mishaps>>

FinishWithoutInvitations ==
    /\ maker.at = "idle" /\ creation.sent /\ ~creation.done
    /\ SaveCreation([creation EXCEPT !.done = TRUE])
    /\ UNCHANGED <<circle, relay, maker, outbox, job, refresh, picks, seen, updates, mishaps>>

AcknowledgeCreation ==
    /\ maker.at = "idle" /\ creation.done /\ creation' = NoCreation
    /\ UNCHANGED <<circle, relay, maker, outbox, job, refresh, picks, seen, updates, mishaps>>

-----------------------------------------------------------------------------
(* The details controller: one job at a time.                                *)

Begin(kind) == /\ job = NoJob /\ circle.made
               /\ job' = [NoJob EXCEPT !.kind = kind, !.at = "details"]
Maintain == Begin("share") /\ UNCHANGED <<circle, relay, creation, maker, outbox, refresh, picks, seen, updates, mishaps>>
Edit(kind) ==
    /\ Begin(kind) /\ updates < MaxUpdates /\ updates' = updates + 1
    /\ UNCHANGED <<circle, relay, creation, maker, outbox, refresh, picks, seen, mishaps>>

LoadDetails ==
    /\ job.at = "details"
    /\ job' = IF circle.closed THEN NoJob ELSE [job EXCEPT !.at = "context", !.epoch = circle.epoch]
    /\ UNCHANGED <<circle, relay, creation, maker, outbox, refresh, picks, seen, updates, mishaps>>

CanEdit == Pending = {} /\ Own # 0 /\ Own = circle.revision
SharedAt(epoch) == \E o \in Sent : outbox[o].revision = Own /\ outbox[o].epoch = epoch
Publish(pictures) == \E p \in pictures :
    job' = [job EXCEPT !.revision = circle.revision, !.picture = p,
                       !.at = IF p = 0 \/ p = job.epoch THEN "send" ELSE "rebind"]

\* Mutant: what was shared once is not shared again.
ShareOnce == ~CanEdit \/ Own > 0
ShareIdle == ~CanEdit \/ SharedAt(job.epoch)
\* An update takes no picture, keeps the one there is, or has one uploaded for this epoch.
Project ==
    /\ job.at = "context" /\ refresh' = Committed(outbox)
    /\ CASE circle.closed \/ circle.epoch # job.epoch -> job' = NoJob
         [] Pending # {} -> job' = IF job.kind = "update" THEN NoJob
                                   ELSE [job EXCEPT !.of = CHOOSE o \in Pending : TRUE,
                                                    !.at = IF job.kind = "recover" THEN "cancel" ELSE "upload"]
         [] job.kind \in {"retry", "recover"} -> job' = NoJob
         [] job.kind = "share" -> IF ShareIdle THEN job' = NoJob ELSE Publish({OwnPicture})
         [] OTHER -> IF CanEdit THEN Publish({0, OwnPicture, job.epoch}) ELSE job' = NoJob
    /\ UNCHANGED <<circle, relay, creation, maker, outbox, picks, seen, updates, mishaps>>

\* One picture is prepared at a time: one for another epoch or revision is not replaced.
Rebind ==
    /\ job.at = "rebind"
    /\ IF refresh # NoRefresh /\ refresh # [epoch |-> job.epoch, revision |-> job.revision]
       THEN job' = NoJob /\ UNCHANGED <<refresh, mishaps>>
       ELSE /\ refresh' = [epoch |-> job.epoch, revision |-> job.revision]
            /\ \/ circle.epoch = job.epoch /\ UNCHANGED mishaps
                    /\ job' = [job EXCEPT !.picture = job.epoch, !.at = "send"]
               \/ circle.epoch # job.epoch /\ job' = NoJob /\ UNCHANGED mishaps
               \/ Mishap /\ job' = NoJob
    /\ UNCHANGED <<circle, relay, creation, maker, outbox, picks, seen, updates>>

\* Mutant: the epoch of the picture is not compared with the audience's.
ExpectedAny(picture) == TRUE
Expected(picture) == picture = 0 \/ picture = circle.epoch
\* Encrypted for the audience of now, and kept until the relay has answered.
Write ==
    /\ job.at = "send"
    /\ IF circle.closed \/ ~Expected(job.picture) THEN job' = NoJob /\ UNCHANGED <<outbox, relay>>
       ELSE LET o == Cardinality(Ops) + 1
            IN Queue(o, job.revision + 1, job.picture) /\ job' = [job EXCEPT !.of = o, !.at = "upload"]
    /\ UNCHANGED <<circle, creation, maker, refresh, picks, seen, updates, mishaps>>

UploadProfile ==
    /\ job.at = "upload" /\ (Upload(job.of) \/ Lost(job.of) \/ Refused(job.of))
    /\ job' = NoJob
    /\ UNCHANGED <<creation, maker, picks, updates>>

\* The upload made for a picture goes with the profile that was given up.
Cancelled(o) ==
    IF refresh = [epoch |-> outbox[o].picture, revision |-> outbox[o].revision - 1] THEN NoRefresh ELSE refresh

\* Given up, unless the relay has it: a fence keeps it out from then on.
CancelProfile ==
    /\ job.at = "cancel" /\ job' = NoJob
    /\ LET o == job.of IN
       IF relay[o] = "committed" THEN Confirm(o) /\ UNCHANGED <<relay, mishaps>>
       ELSE /\ relay' = [relay EXCEPT ![o] = "fenced"]
            /\ \/ /\ outbox' = [outbox EXCEPT ![o].status = "cancelled"] /\ UNCHANGED mishaps
                  /\ refresh' = Cancelled(o)
               \/ Mishap /\ UNCHANGED <<outbox, refresh>>
    /\ UNCHANGED <<circle, creation, maker, picks, seen, updates>>

-----------------------------------------------------------------------------
(* Inviting, and the members.                                               *)

Toggle(p) ==
    /\ circle.made /\ p \notin picks \cup circle.members \cup circle.invited /\ picks' = picks \cup {p}
    /\ UNCHANGED <<circle, relay, creation, maker, outbox, job, refresh, seen, updates, mishaps>>

\* Who has joined meanwhile is left out; each is taken off the list as he is asked.
InviteNext ==
    \E p \in picks :
        /\ picks' = IF circle.closed THEN picks ELSE picks \ {p}
        /\ circle' = IF circle.closed \/ p \in circle.members THEN circle ELSE [circle EXCEPT !.invited = @ \cup {p}]
        /\ ~circle.closed
        /\ UNCHANGED <<relay, creation, maker, outbox, job, refresh, seen, updates, mishaps>>

Epoch(members, invited) ==
    /\ circle.epoch < MaxEpoch /\ ~circle.closed
    /\ circle' = [circle EXCEPT !.epoch = @ + 1, !.members = members, !.invited = invited]
    /\ UNCHANGED <<relay, creation, maker, outbox, job, refresh, picks, seen, updates, mishaps>>
Join(p) == p \in circle.invited /\ Epoch(circle.members \cup {p}, circle.invited \ {p})
Leave(p) == p \in circle.members /\ Epoch(circle.members \ {p}, circle.invited)

\* The admin, alone in it, leaves.
Close ==
    /\ circle.made /\ ~circle.closed /\ circle.members = {}
    /\ circle' = [circle EXCEPT !.closed = TRUE, !.invited = {}]
    /\ UNCHANGED <<relay, creation, maker, outbox, job, refresh, picks, seen, updates, mishaps>>

Crash ==
    /\ Mishap /\ (maker.at # "idle" \/ job # NoJob)
    /\ Makes("idle") /\ job' = NoJob /\ picks' = {}
    /\ UNCHANGED <<circle, relay, creation, outbox, refresh, seen, updates>>

SharingInit ==
    /\ circle = [made |-> FALSE, closed |-> FALSE, epoch |-> 1, revision |-> 0, members |-> {}, invited |-> {},
                 shown |-> [epoch |-> 0, picture |-> 0]]
    /\ outbox = [o \in {} |-> 0] /\ relay = [o \in {} |-> "none"] /\ creation = NoCreation /\ maker = Rests
    /\ job = NoJob /\ refresh = NoRefresh /\ picks = {} /\ seen = [p \in Peers |-> 0]
    /\ updates = 0 /\ mishaps = 0

CreationStep == StartCreation \/ Resume \/ CreateCircle \/ QueueFirst \/ SendFirst
                \/ ReadMembers \/ InviteGuest \/ InvitationsDone \/ FinishWithoutInvitations \/ AcknowledgeCreation
JobStep == LoadDetails \/ Project \/ Rebind \/ Write \/ UploadProfile \/ CancelProfile
SharingNext == \/ CreationStep \/ JobStep \/ Maintain \/ InviteNext \/ Close \/ Crash
               \/ \E kind \in {"update", "retry", "recover"} : Edit(kind)
               \/ \E p \in Peers : Toggle(p) \/ Join(p) \/ Leave(p)

\* The foreground maintenance comes round again and its job goes on.
SharingFairness == WF_sharingVars(JobStep) /\ WF_sharingVars(Maintain)

SharingSpec == SharingInit /\ [][SharingNext]_sharingVars
SharingFairSpec == SharingSpec /\ SharingFairness
-----------------------------------------------------------------------------
SharingTypeOK == /\ circle.members \subseteq Peers /\ circle.epoch \in 1..MaxEpoch
                 /\ Cardinality(Pending) <= 1 /\ \A p \in Peers : seen[p] <= circle.revision

(* A Circle without a profile is one the phone still remembers to finish: no  *)
(* death of the app between two steps leaves one behind, to be made again.   *)
NoStrayCircle == (circle.made /\ circle.revision = 0) => creation.saved

(* The picture of a profile was encrypted for the very audience that gets it. *)
PictureForAudience == circle.shown.picture \in {0, circle.shown.epoch}

Stuck == \/ \E o \in Pending : ~Accepts(o) /\ relay[o] # "committed"
         \/ refresh # NoRefresh /\ refresh # [epoch |-> circle.epoch, revision |-> circle.revision]
         \/ circle.revision = 0
(* Whoever joins, however often the audience changes, gets the profile of the *)
(* Circle in the end, unless a profile or a picture of an earlier audience    *)
(* waits on the admin's phone for him to give it up.                         *)
JoinersSee == \A p \in Peers : p \in circle.members ~> (p \notin circle.members \/ seen[p] = circle.revision \/ Stuck)
=============================================================================
