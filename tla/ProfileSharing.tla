--------------------------- MODULE ProfileSharing ---------------------------
(***************************************************************************)
(* The owner's profile: kept in a vault of the phone, its photo in a store  *)
(* of its own, and shared as an encrypted event with each accepted friend   *)
(* and with the members of a Circle.  A save, a change of photo and a       *)
(* synchronisation are jobs that wait for one another; each step below ends *)
(* at an await.  Sends are lost, stores fail, the app is killed, and the    *)
(* owner signs in on another phone.                                         *)
(***************************************************************************)
EXTENDS Naturals, FiniteSets, FiniteSetsExt

CONSTANTS Friends,      \* accepted friendships
          Texts,        \* what a name and a status say
          Calls,        \* numbers of the jobs alive at a time
          MaxRevision,  \* of the profile, on one phone
          MaxEpoch,     \* of the Circle
          MaxPhones,    \* sign-ins
          MaxMishaps    \* lost sends, failed stores, kills, sign-ins, epochs

VARIABLES phone,        \* how many sign-ins there were
          vault,        \* the saved profile, NoProfile before the first
          photo,        \* whether the photo store holds one
          publication,  \* for each friend, the publication not confirmed yet
          outbox,       \* for each audience, the events encrypted: [profile, sent]
          received,     \* for each audience, the profiles it has received
          epoch,        \* of the Circle
          shown,        \* the snapshot of the profile screen
          jobs,         \* for each call, its job
          active,       \* the call that the next one waits for, or 0
          broken,       \* a save of the profile has failed
          mishaps

profileVars == <<phone, vault, photo, publication, outbox, received, epoch, shown, jobs, active, broken, mishaps>>
disk == <<vault, photo, publication>>
wire == <<outbox, received>>
work == <<jobs, active>>

Modes == {"none", "photo", "removed"}
Audiences == Friends \cup 1..MaxEpoch
NoProfile == [revision |-> 0, text |-> 0, mode |-> "none"]
\* A start that finds a photo its profile does not speak of makes one revision more.
Profiles == [revision : 1..(MaxRevision + MaxMishaps), text : Texts \cup {0}, mode : Modes]
NoJob == [kind |-> "none", at |-> "idle", after |-> 0, input |-> 0, profile |-> NoProfile,
          left |-> {}, of |-> 0, what |-> NoProfile, pending |-> FALSE]
Unloaded == [phase |-> "idle", profile |-> NoProfile, avatar |-> FALSE, photoError |-> FALSE,
             pending |-> FALSE, busy |-> FALSE]

Mishap == mishaps < MaxMishaps /\ mishaps' = mishaps + 1
Quiet == mishaps' = mishaps

\* The secure store replaces the profile, and the photo store its one photo, in a single write.
SaveProfile(profile) == vault' = profile
HoldPhoto(held) == photo' = held

-----------------------------------------------------------------------------
(* What a friend, or a member of the Circle, sees of the owner.             *)

Newest(profiles) == {p \in profiles : \A q \in profiles : q.revision <= p.revision}

\* selectPrivateProfile, selectCircleMemberProfile: one profile, none yet, or
\* several that are in conflict.
Selected(audience) == Newest(received[audience])

-----------------------------------------------------------------------------
(* Opening the profile.                                                     *)

Sent(audience) == {entry.profile : entry \in {e \in outbox[audience] : e.sent}}
SentToFriends == Newest(UNION {Sent(f) : f \in Friends})

\* What the phone sent, if it is newer than what it kept.
Kept(sent) ==
    IF \/ sent.revision > vault.revision
       \/ sent.revision = vault.revision /\ vault.mode = "none" /\ sent.mode # "none"
    THEN sent ELSE vault

Load ==
    LET sent == IF SentToFriends = {} THEN NoProfile ELSE CHOOSE p \in SentToFriends : TRUE
        kept == Kept(sent)
        profile == IF photo /\ kept.mode = "none"
                   THEN [kept EXCEPT !.revision = @ + 1, !.mode = "photo"] ELSE kept
    IN
    /\ shown.phase = "idle"
    /\ Cardinality(SentToFriends) <= 1
    /\ ~(vault.mode # "none" /\ sent.revision = vault.revision /\ sent.mode # vault.mode)
    /\ SaveProfile(profile)
    /\ shown' = [Unloaded EXCEPT !.phase = "ready", !.profile = profile, !.avatar = photo,
                                 !.photoError = profile.mode = "photo" /\ ~photo]
    /\ UNCHANGED <<phone, photo, publication, wire, epoch, work, broken, mishaps>>

-----------------------------------------------------------------------------
(* Jobs: each waits for the one that was active when it was called, so two  *)
(* that waited for the same one run together.                               *)

Called(s, job) == jobs' = [jobs EXCEPT ![s] = job] /\ active' = active
Started(s, job) == jobs' = [jobs EXCEPT ![s] = job] /\ active' = s
Step(s, at) == Called(s, [jobs[s] EXCEPT !.at = at])

\* The job is over and those that waited for it may start.
Over(s) ==
    /\ jobs' = [t \in Calls |-> IF t = s THEN NoJob
                                ELSE [jobs[t] EXCEPT !.after = IF @ = s THEN 0 ELSE @]]
    /\ active' = IF active = s THEN 0 ELSE active

\* The screen once the job has ended, with some friends still to be reached.
Ended(s, pending) ==
    [shown EXCEPT !.pending = pending, !.busy = IF jobs[s].kind = "sync" THEN @ ELSE FALSE]

Edits == {s \in Calls : jobs[s].kind \in {"save", "photo"}}

Call(s, kind, input) ==
    /\ shown.phase = "ready" /\ jobs[s] = NoJob
    /\ \A t \in Calls : t < s => jobs[t] # NoJob
    /\ kind = "photo" => shown.profile.text # 0
    /\ kind # "sync" => /\ shown.profile.revision < MaxRevision
                        /\ shown.profile.revision + Cardinality(Edits) <= MaxRevision
    /\ kind = "sync" => \A t \in Calls : jobs[t].kind # "sync"
    /\ ~\E t \in Calls : jobs[t].at = "wait" /\ jobs[t].after = 0
    /\ Called(s, [NoJob EXCEPT !.kind = kind, !.at = "wait", !.after = active, !.input = input])
    /\ UNCHANGED <<phone, disk, wire, epoch, shown, broken, mishaps>>

Save(s) == \E text \in Texts : Call(s, "save", text)
SetPhoto(s) == \E mode \in {"photo", "removed"} : Call(s, "photo", mode)
Sync(s) == Call(s, "sync", 0)

\* The profile that a job is about to write.
Edited(job) ==
    IF job.kind = "save"
    THEN [shown.profile EXCEPT !.revision = @ + 1, !.text = job.input]
    ELSE [shown.profile EXCEPT !.revision = @ + 1, !.mode = job.input]

\* Mutant: edits are taken for serialized, which two that waited together are not.
FreeAlways == TRUE
Free == ~shown.busy

Start(s) ==
    LET job == jobs[s] IN
    /\ job.at = "wait" /\ job.after = 0
    /\ IF job.kind = "sync" THEN
          /\ IF shown.profile.revision = 0 THEN Over(s)
             ELSE Started(s, [job EXCEPT !.at = "circle", !.profile = shown.profile])
          /\ shown' = shown
       ELSE IF ~Free \/ shown.profile.revision >= MaxRevision THEN
          Over(s) /\ shown' = shown
       ELSE
          /\ Started(s, [job EXCEPT !.at = "write", !.profile = Edited(job)])
          /\ shown' = [shown EXCEPT !.busy = TRUE, !.photoError = job.kind # "photo" /\ @]
    /\ UNCHANGED <<phone, disk, wire, epoch, broken, mishaps>>

Write(s) ==
    LET job == jobs[s] IN
    /\ job.at = "write"
    /\ \/ /\ SaveProfile(job.profile)
          /\ shown' = [shown EXCEPT !.profile = job.profile]
          /\ Step(s, IF job.kind = "save" THEN "circle" ELSE "photo")
          /\ broken' = broken /\ Quiet
       \/ /\ Mishap /\ broken' = TRUE
          /\ shown' = IF job.kind = "save" THEN [Ended(s, TRUE) EXCEPT !.profile = job.profile]
                      ELSE [Ended(s, TRUE) EXCEPT !.photoError = TRUE]
          /\ Over(s) /\ vault' = vault
    /\ UNCHANGED <<phone, photo, publication, wire, epoch>>

WritePhoto(s) ==
    LET job == jobs[s] IN
    /\ job.at = "photo"
    /\ \/ /\ HoldPhoto(job.input = "photo")
          /\ shown' = [shown EXCEPT !.avatar = photo', !.photoError = FALSE]
          /\ Step(s, "circle") /\ Quiet
       \/ /\ Mishap /\ photo' = photo
          /\ shown' = [Ended(s, TRUE) EXCEPT !.photoError = TRUE] /\ Over(s)
    /\ UNCHANGED <<phone, vault, publication, wire, epoch, broken>>

-----------------------------------------------------------------------------
(* Sending.                                                                 *)

\* One operation for each revision and audience: a repeated draft must be the same.
Operation(audience, profile) == {e \in outbox[audience] : e.profile.revision = profile.revision}

\* The sender refuses, loses the draft before or after it is encrypted, loses
\* the relay's answer, or confirms it.
Attempt(audience, profile, done, failed) ==
    LET entries == (outbox[audience] \ Operation(audience, profile))
        refused == \E e \in Operation(audience, profile) : e.profile # profile
        Becomes(sent) == [outbox EXCEPT ![audience] = entries \cup {[profile |-> profile, sent |-> sent]}]
        arrived == [received EXCEPT ![audience] = @ \cup {profile}]
    IN
    \/ /\ ~refused /\ done /\ Quiet
       /\ outbox' = Becomes(TRUE) /\ received' = arrived
    \/ /\ ~refused /\ failed /\ Mishap
       /\ \/ UNCHANGED wire
          \/ outbox' = Becomes(FALSE) /\ received' \in {received, arrived}
    \/ /\ refused /\ failed /\ Quiet
       /\ UNCHANGED wire

\* The outbox worker of the phone sends what is queued.
Reconcile(audience) ==
    \E e \in {x \in outbox[audience] : ~x.sent} :
       /\ audience \in Friends \/ audience = epoch
       /\ outbox' = [outbox EXCEPT ![audience] = (@ \ {e}) \cup {[e EXCEPT !.sent = TRUE]}]
       /\ received' = [received EXCEPT ![audience] = @ \cup {e.profile}]
       /\ UNCHANGED <<phone, disk, epoch, shown, work, broken, mishaps>>

-----------------------------------------------------------------------------
(* Sharing.                                                                 *)

\* With the Circle done, the friends are next, unless the photo is missing.
ToFriends(s, pending) ==
    LET job == jobs[s]
        blocked == shown.photoError \/ (job.profile.mode = "photo" /\ ~shown.avatar)
    IN
    IF blocked \/ job.profile.text = 0 THEN Over(s) /\ shown' = Ended(s, blocked \/ pending)
    ELSE Called(s, [job EXCEPT !.at = "friends", !.left = Friends, !.pending = pending]) /\ shown' = shown

ShareCircle(s) ==
    LET job == jobs[s]
        earlier == {e \in outbox[epoch] : e.profile.text # 0}
        exact == {e \in earlier : e.profile.revision = job.profile.revision}
        conflict == \E e \in exact : e.profile.text # job.profile.text
        newer == \E e \in earlier : e.sent /\ e.profile.revision >= job.profile.revision
        public == [job.profile EXCEPT !.mode = "none"]
    IN
    /\ job.at = "circle"
    /\ IF job.profile.text = 0 \/ conflict \/ newer
       THEN ToFriends(s, conflict /\ job.profile.text # 0) /\ Quiet /\ UNCHANGED wire
       ELSE Attempt(epoch, public, ToFriends(s, FALSE), ToFriends(s, TRUE))
    /\ UNCHANGED <<phone, disk, epoch, broken>>

\* The friend has it already.
Look(s, f) == jobs[s].profile \in Sent(f)

\* One friend: in conflict, done, or to be sent to.
ShareFriend(s) ==
    LET job == jobs[s] IN
    /\ job.at = "friends"
    /\ IF job.left = {} THEN Over(s) /\ shown' = Ended(s, job.pending)
       ELSE \E f \in job.left :
          LET queued == {e \in outbox[f] : ~e.sent}
              first == IF queued = {} \/ job.profile.mode # "none" THEN job.profile
                       ELSE (CHOOSE e \in queued : TRUE).profile
              next == [job EXCEPT !.left = @ \ {f}]
          IN
          IF Look(s, f) THEN Called(s, next) /\ shown' = shown
          ELSE IF \E p \in Sent(f) : p.revision = job.profile.revision
             THEN Over(s) /\ shown' = Ended(s, TRUE)
          ELSE IF job.profile.mode = "photo" /\ ~shown.avatar
             THEN Called(s, [next EXCEPT !.pending = TRUE]) /\ shown' = shown
          ELSE /\ Called(s, [next EXCEPT !.of = f, !.what = first,
                                !.at = IF job.profile.mode = "none" THEN "send" ELSE "publish",
                                !.pending = @ \/ (first # job.profile)])
               /\ shown' = shown
    /\ UNCHANGED <<phone, disk, wire, epoch, broken, mishaps>>

Back(s) == Step(s, "friends")
BackLater(s) == Called(s, [jobs[s] EXCEPT !.at = "friends", !.pending = TRUE])

Send(s) ==
    /\ jobs[s].at = "send"
    /\ Attempt(jobs[s].of, jobs[s].what, Back(s), BackLater(s))
    /\ UNCHANGED <<phone, disk, epoch, shown, broken>>

\* The publication that an earlier attempt left is sent before the new one is saved.
Publish(s) ==
    LET job == jobs[s]
        prior == publication[job.of]
        drain == prior # NoProfile /\ <<prior.revision, prior.text>> # <<job.profile.revision, job.profile.text>>
    IN
    /\ job.at = "publish"
    /\ Called(s, [job EXCEPT !.at = "upload", !.what = IF prior = NoProfile THEN job.profile ELSE prior])
    /\ publication' = IF drain THEN publication ELSE [publication EXCEPT ![job.of] = IF @ = NoProfile THEN job.profile ELSE @]
    /\ UNCHANGED <<phone, vault, photo, wire, epoch, shown, broken, mishaps>>

Upload(s) ==
    LET job == jobs[s]
        drained == job.what # job.profile
    IN
    /\ job.at = "upload"
    /\ Attempt(job.of, job.what,
               Step(s, IF drained THEN "publish" ELSE "friends") /\ publication' = [publication EXCEPT ![job.of] = NoProfile],
               BackLater(s) /\ publication' = publication)
    /\ UNCHANGED <<phone, vault, photo, epoch, shown, broken>>

-----------------------------------------------------------------------------
(* The world.                                                               *)

Forget == jobs' = [s \in Calls |-> NoJob] /\ active' = 0 /\ shown' = Unloaded

Kill ==
    /\ shown.phase = "ready" /\ Mishap /\ Forget
    /\ UNCHANGED <<phone, disk, wire, epoch, broken>>

\* Another sign-in: a new generation with stores, an outbox and keys of its own.
\* The members of a Circle look for a profile under the new keys, a friend does not.
NewPhone ==
    /\ phone < MaxPhones /\ phone' = phone + 1 /\ Mishap /\ Forget
    /\ vault' = NoProfile /\ photo' = FALSE /\ publication' = [f \in Friends |-> NoProfile]
    /\ outbox' = [a \in Audiences |-> {}]
    /\ received' = [a \in Audiences |-> IF a \in Friends THEN received[a] ELSE {}]
    /\ UNCHANGED <<epoch, broken>>

EpochMoves ==
    /\ epoch < MaxEpoch /\ epoch' = epoch + 1 /\ Mishap
    /\ UNCHANGED <<phone, disk, wire, shown, work, broken>>

-----------------------------------------------------------------------------
ProfileInit ==
    /\ phone = 1 /\ vault = NoProfile /\ photo = FALSE
    /\ publication = [f \in Friends |-> NoProfile]
    /\ outbox = [a \in Audiences |-> {}] /\ received = [a \in Audiences |-> {}]
    /\ epoch = 1 /\ shown = Unloaded /\ jobs = [s \in Calls |-> NoJob] /\ active = 0
    /\ broken = FALSE /\ mishaps = 0

JobStep(s) ==
    \/ Start(s) \/ Write(s) \/ WritePhoto(s) \/ ShareCircle(s)
    \/ ShareFriend(s) \/ Send(s) \/ Publish(s) \/ Upload(s)

ProfileNext ==
    \/ Load \/ Kill \/ NewPhone \/ EpochMoves
    \/ \E a \in Audiences : Reconcile(a)
    \/ \E s \in Calls : Save(s) \/ SetPhoto(s) \/ Sync(s) \/ JobStep(s)

\* Every page synchronises the profile; the outbox worker comes round to each event.
ProfileFairness ==
    /\ WF_profileVars(Load)
    /\ \A s \in Calls : WF_profileVars(JobStep(s))
    /\ WF_profileVars(\E s \in Calls : Sync(s))
    /\ \A a \in Audiences : WF_profileVars(Reconcile(a))

ProfileFairSpec == ProfileInit /\ [][ProfileNext]_profileVars /\ ProfileFairness

-----------------------------------------------------------------------------
(* The stores and the screen hold profiles, and a job is at a known step.   *)
ProfileTypeOK ==
    /\ phone \in 1..MaxPhones /\ epoch \in 1..MaxEpoch /\ mishaps \in 0..MaxMishaps
    /\ vault \in Profiles \cup {NoProfile} /\ photo \in BOOLEAN /\ broken \in BOOLEAN
    /\ publication \in [Friends -> Profiles \cup {NoProfile}]
    /\ \A a \in Audiences : received[a] \subseteq Profiles /\ outbox[a] \subseteq [profile : Profiles, sent : BOOLEAN]
    /\ shown.profile \in Profiles \cup {NoProfile}
    /\ \A s \in Calls : jobs[s].at \in {"idle", "wait", "write", "photo", "circle", "friends", "send", "publish", "upload"}

\* Everybody who may see the profile sees the one that the owner sees.
Shared ==
    shown.phase = "ready" /\ shown.profile.text # 0 /\ ~shown.photoError =>
       /\ \A f \in Friends : Selected(f) = {shown.profile}
       /\ Selected(epoch) = {[shown.profile EXCEPT !.mode = "none"]}

(* On one phone whose saves have not failed, the friends and the Circle end   *)
(* up with the profile that the owner sees.                                   *)
FriendsFollow == <>[](phone = 1 /\ ~broken => Shared)

(* docs/technical/private-profiles.md: the friends see the latest profile.    *)
FriendsSeeLatest == <>[](~broken => Shared)
=============================================================================
