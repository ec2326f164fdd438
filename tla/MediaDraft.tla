---------------------------- MODULE MediaDraft ----------------------------
(***************************************************************************)
(* One encrypted picture on its way from the editor into a conversation:   *)
(* the protected draft on the phone (a pointer in the key store and a      *)
(* ciphertext file), the upload, the message that names it, and the        *)
(* user's retries and discards, for the six editors of the app.  The       *)
(* server is what the editors see of it: the object and the operation's    *)
(* fence, which OperationFence has in detail.                              *)
(***************************************************************************)
EXTENDS Naturals, Sequences

CONSTANTS Kinds,        \* the editors explored, each alone
          MaxDrafts,    \* operations the editor may draw
          MaxAudience,  \* audiences the conversation goes through
          MaxLost       \* calls that end early: refused, unanswered, killed

VARIABLES kind,      \* which editor, for the whole behaviour
          draft,     \* the pointer in the key store
          files,     \* the ciphertext files on disk, by operation
          call,      \* the editor's running call, lost with the process
          audience,  \* the conversation's audience on the server
          object,    \* the operation on the server
          outbox,    \* the operation in the phone's sealed state
          said,      \* the message first sealed for the operation
          lost

mediaVars == <<kind, draft, files, call, audience, object, outbox, said, lost>>

Drafts == 1..MaxDrafts
Private == {"private photo", "private sticker", "private moment"}
EditorKinds == {"photo", "sticker", "moment"} \cup Private
NoDraft == [op |-> 0]
Idle == [todo |-> <<>>]
Unsaid == [audience |-> 0]

Jobs == [op : Drafts, audience : 1..MaxAudience, attempted : BOOLEAN,
         phase : {"prepared", "uploaded"}, as : EditorKinds]

Body(job) == [as |-> job.as, audience |-> job.audience]

-----------------------------------------------------------------------------
(* What the vaults give back.  The circle vault restores every field it     *)
(* was given; the private vault forgets that a picture was a sticker, and   *)
(* answers with the vault's fingerprint where the editor compares with the  *)
(* session's binding.                                                       *)

CircleLoad(d) == d
PrivateLoad(d) == [d EXCEPT !.as = IF @ = "private sticker" THEN "private photo" ELSE @]
\* Mutant: a resumed draft is addressed to whoever is there now.
LoadCurrent(d) == [d EXCEPT !.audience = audience]
Load(d) == IF kind \in Private THEN PrivateLoad(d) ELSE CircleLoad(d)

LoadedBinding == "fingerprint"
EditorBinding == IF kind \in Private THEN "session" ELSE "fingerprint"

ValidUpload(job) == job.phase = "uploaded" => job.attempted
Decodes(job) == job.op \in files

\* pending() of every editor: there is a draft and it reads back as its own.
Readable ==
    /\ draft # NoDraft
    /\ LoadedBinding = EditorBinding
    /\ ValidUpload(Load(draft))
    /\ Decodes(draft)

Message == draft # NoDraft /\ outbox[draft.op] = "queued"
MomentPending == \E op \in Drafts : outbox[op] = "queued"

-----------------------------------------------------------------------------
(* What each call still has to do, step by step.                            *)

UploadSteps(job) ==
    IF job.phase = "uploaded" THEN <<>>
    ELSE (IF job.attempted THEN <<>> ELSE <<"attempt">>) \o <<"put", "mark">>
SendSteps == <<"queue", "deliver", "confirm">>
ClearSteps == <<"clear", "unlink">>
\* Mutant: the pointer is written before what it points to.
PrepareStepsPointerFirst == <<"pointer", "file">>
PrepareSteps == <<"file", "pointer">>
PhotoSendJob(job) == UploadSteps(job) \o SendSteps \o <<"acknowledge", "unlink">>
StickerSendJob(job) == UploadSteps(job) \o SendSteps \o <<"acknowledge", "unlink">>
MomentSendJob(job) == UploadSteps(job) \o SendSteps \o <<"acknowledge", "unlink">>
PrivateAttempt(job) == IF job.attempted THEN <<>> ELSE <<"attempt">>
PrivateSend(job) == <<"recheck">> \o PrivateAttempt(job) \o <<"put", "recheck">> \o SendSteps \o ClearSteps
PrivateMomentSend(job) == PrivateAttempt(job) \o <<"put", "recheck">> \o SendSteps \o ClearSteps

PostSteps(job) == PrepareSteps \o
    CASE kind = "photo" -> PhotoSendJob(job)
      [] kind = "sticker" -> StickerSendJob(job)
      [] kind = "moment" -> MomentSendJob(job)
      [] kind = "private moment" -> PrivateMomentSend(job)
      [] OTHER -> PrivateSend(job)

RetrySteps(job) ==
    CASE kind = "photo" -> PhotoSendJob(job)
      [] kind = "sticker" -> StickerSendJob(job)
      [] kind = "moment" -> MomentSendJob(job)
      [] kind = "private moment" -> <<"recheck">> \o PrivateMomentSend(job)
      [] OTHER -> PrivateSend(job)

\* Mutant: a message found committed is noted, its draft is kept.
AfterCancelKept(job, committed) == IF committed THEN <<"confirm">> ELSE ClearSteps

\* After the server answered a cancellation: the draft is dropped, or, when
\* the message had been committed, the call is finished.
AfterCancel(job, committed) ==
    CASE ~committed -> ClearSteps
      [] kind = "photo" -> PhotoSendJob(job)
      [] kind = "sticker" -> StickerSendJob(job)
      [] kind = "moment" -> <<"acknowledge", "unlink">>
      [] OTHER -> ClearSteps

Start(job, todo) == call' = [job |-> job, todo |-> todo]
At(step) == call # Idle /\ Head(call.todo) = step
Go(job) == call' = IF Tail(call.todo) = <<>> THEN Idle ELSE [job |-> job, todo |-> Tail(call.todo)]
Refuse == call' = Idle
Job == call.job

-----------------------------------------------------------------------------
(* The editors' calls.                                                      *)

NewJob(op) == [op |-> op, audience |-> audience, attempted |-> FALSE, phase |-> "prepared", as |-> kind]

PostCircle ==
    /\ kind \in {"photo", "sticker"}
    /\ \E op \in Drafts : object[op] = "none" /\ op \notin files /\ outbox[op] = "none"
                          /\ Start(NewJob(op), PostSteps(NewJob(op)))
PostMoment ==
    /\ kind = "moment" /\ ~MomentPending
    /\ \E op \in Drafts : object[op] = "none" /\ op \notin files /\ outbox[op] = "none"
                          /\ Start(NewJob(op), PostSteps(NewJob(op)))
PostPrivate ==
    /\ kind \in Private
    /\ \E op \in Drafts : object[op] = "none" /\ op \notin files /\ outbox[op] = "none"
                          /\ Start(NewJob(op), PostSteps(NewJob(op)))
Post ==
    /\ call = Idle /\ draft = NoDraft
    /\ PostCircle \/ PostMoment \/ PostPrivate
    /\ UNCHANGED <<kind, draft, files, audience, object, outbox, said, lost>>

RetryMoment == Message \/ audience = draft.audience
Retry ==
    /\ call = Idle /\ Readable
    /\ kind = "moment" => RetryMoment
    /\ Start(Load(draft), RetrySteps(Load(draft)))
    /\ UNCHANGED <<kind, draft, files, audience, object, outbox, said, lost>>

DiscardMoment == ~Message
\* Mutant: the draft is dropped without asking the server.
CancelUploadUnasked(d) == ClearSteps
CancelUpload(d) == IF d.attempted THEN <<"cancel">> ELSE ClearSteps
Discard ==
    /\ call = Idle /\ Readable
    /\ kind = "moment" => DiscardMoment
    /\ Start(Load(draft), CancelUpload(draft))
    /\ UNCHANGED <<kind, draft, files, audience, object, outbox, said, lost>>

-----------------------------------------------------------------------------
(* The steps.  A step that the phone or the server refuses ends the call.   *)

WriteFile ==
    /\ At("file")
    /\ files' = files \cup {Job.op} /\ Go(Job)
    /\ UNCHANGED <<kind, draft, audience, object, outbox, said, lost>>

\* A vault's write over a draft keeps everything but its progress.
Rewrites(prior, new) ==
    \/ prior = NoDraft
    \/ /\ [prior EXCEPT !.attempted = new.attempted, !.phase = new.phase, !.as = new.as] = new
       /\ prior.attempted => new.attempted
       /\ prior.phase = "uploaded" => new.phase = "uploaded"

Save(new) ==
    IF Rewrites(draft, new) THEN draft' = new /\ Go(new) ELSE Refuse /\ UNCHANGED draft

WritePointer ==
    /\ At("pointer") /\ Save(Job)
    /\ UNCHANGED <<kind, files, audience, object, outbox, said, lost>>

SaveAttempt ==
    /\ At("attempt") /\ Save([Job EXCEPT !.attempted = TRUE])
    /\ UNCHANGED <<kind, files, audience, object, outbox, said, lost>>

\* The server stores for the current audience only, but answers a repeated
\* put of what it has.
Put ==
    /\ At("put")
    /\ CASE object[Job.op] \in {"stored", "committed"} -> Go(Job) /\ UNCHANGED object
         [] object[Job.op] = "none" /\ audience = Job.audience ->
              object' = [object EXCEPT ![Job.op] = "stored"] /\ Go(Job)
         [] OTHER -> Refuse /\ UNCHANGED object
    /\ UNCHANGED <<kind, draft, files, audience, outbox, said, lost>>

MarkUploaded ==
    /\ At("mark") /\ Save([Job EXCEPT !.phase = "uploaded"])
    /\ UNCHANGED <<kind, files, audience, object, outbox, said, lost>>

Recheck ==
    /\ At("recheck")
    /\ IF audience = Job.audience THEN Go(Job) ELSE Refuse
    /\ UNCHANGED <<kind, draft, files, audience, object, outbox, said, lost>>

\* sendMessage: an operation the phone has sealed before is taken as it was
\* sealed; a new one needs the audience it is meant for.
Queue ==
    /\ At("queue")
    /\ CASE outbox[Job.op] # "none" /\ said[Job.op] = Body(Job) -> Go(Job) /\ UNCHANGED <<outbox, said>>
         [] outbox[Job.op] = "none" /\ audience = Job.audience ->
              /\ outbox' = [outbox EXCEPT ![Job.op] = "queued"]
              /\ said' = [said EXCEPT ![Job.op] = Body(Job)]
              /\ Go(Job)
         [] OTHER -> Refuse /\ UNCHANGED <<outbox, said>>
    /\ UNCHANGED <<kind, draft, files, audience, object, lost>>

Deliverable(op, to) == object[op] = "committed" \/ (object[op] = "stored" /\ audience = to)

Deliver ==
    /\ At("deliver")
    /\ IF Deliverable(Job.op, Job.audience)
       THEN object' = [object EXCEPT ![Job.op] = "committed"] /\ Go(Job)
       ELSE Refuse /\ UNCHANGED object
    /\ UNCHANGED <<kind, draft, files, audience, outbox, said, lost>>

Confirm ==
    /\ At("confirm")
    /\ outbox' = [outbox EXCEPT ![Job.op] = "sent"] /\ Go(Job)
    /\ UNCHANGED <<kind, draft, files, audience, object, said, lost>>

Acknowledge ==
    /\ At("acknowledge")
    /\ IF draft # NoDraft /\ draft.phase = "uploaded"
       THEN draft' = NoDraft /\ Go(Job) ELSE Refuse /\ UNCHANGED draft
    /\ UNCHANGED <<kind, files, audience, object, outbox, said, lost>>

ClearPointer ==
    /\ At("clear")
    /\ draft' = NoDraft /\ Go(Job)
    /\ UNCHANGED <<kind, files, audience, object, outbox, said, lost>>

RemoveFile ==
    /\ At("unlink")
    /\ files' = files \ {Job.op} /\ Go(Job)
    /\ UNCHANGED <<kind, draft, audience, object, outbox, said, lost>>

Cancel ==
    /\ At("cancel")
    /\ LET committed == object[Job.op] = "committed" IN
       /\ object' = [object EXCEPT ![Job.op] = IF committed THEN @ ELSE "cancelled"]
       /\ Start(Job, AfterCancel(Job, committed))
    /\ UNCHANGED <<kind, draft, files, audience, outbox, said, lost>>

\* The outbox synchroniser sends what is queued and records the answer.
SyncOutbox ==
    /\ \E op \in Drafts :
          /\ outbox[op] = "queued" /\ Deliverable(op, said[op].audience)
          /\ object' = [object EXCEPT ![op] = "committed"]
          /\ outbox' = [outbox EXCEPT ![op] = "sent"]
    /\ UNCHANGED <<kind, draft, files, call, audience, said, lost>>

-----------------------------------------------------------------------------
(* What happens around the editor.                                          *)

\* The network fails, the answer is lost, the session changes or the process
\* dies between two steps: the call is gone, its effects stay.
Lose ==
    /\ call # Idle /\ lost < MaxLost
    /\ call' = Idle /\ lost' = lost + 1
    /\ UNCHANGED <<kind, draft, files, audience, object, outbox, said>>

ChangeAudience ==
    /\ audience < MaxAudience
    /\ audience' = audience + 1
    /\ UNCHANGED <<kind, draft, files, call, object, outbox, said, lost>>

CallStep ==
    \/ WriteFile \/ WritePointer \/ SaveAttempt \/ Put \/ MarkUploaded \/ Recheck
    \/ Queue \/ Deliver \/ Confirm \/ Acknowledge \/ ClearPointer \/ RemoveFile \/ Cancel

MediaInit ==
    /\ kind \in Kinds
    /\ draft = NoDraft /\ files = {} /\ call = Idle /\ audience = 1
    /\ object = [op \in Drafts |-> "none"]
    /\ outbox = [op \in Drafts |-> "none"]
    /\ said = [op \in Drafts |-> Unsaid]
    /\ lost = 0

MediaNext == Post \/ Retry \/ Discard \/ CallStep \/ SyncOutbox \/ Lose \/ ChangeAudience

MediaSpec == MediaInit /\ [][MediaNext]_mediaVars

\* A call that is not lost goes on, and the user asks again until the draft
\* is gone.
MediaFairness == WF_mediaVars(CallStep) /\ SF_mediaVars(Discard) /\ WF_mediaVars(SyncOutbox)
MediaFairSpec == MediaSpec /\ MediaFairness

-----------------------------------------------------------------------------
(* The types of the draft, the call and the server's rows.                  *)
MediaTypeOK ==
    /\ kind \in Kinds
    /\ draft \in Jobs \cup {NoDraft}
    /\ files \subseteq Drafts
    /\ call = Idle \/ (call.job \in Jobs /\ call.todo # <<>>)
    /\ audience \in 1..MaxAudience
    /\ object \in [Drafts -> {"none", "stored", "cancelled", "committed"}]
    /\ outbox \in [Drafts -> {"none", "queued", "sent"}]
    /\ lost \in 0..MaxLost

(* A pointer never refers to a ciphertext that is gone: the file is written *)
(* before the pointer and removed after it (upload-vault.ts).               *)
PointerIntact == draft # NoDraft => draft.op \in files

(* A draft leaves the phone only when its fate is settled on the server:    *)
(* committed, cancelled for good, or never offered.  In particular a retry  *)
(* after a lost answer or a restart finds what it needs.                    *)
DraftKept ==
    [][draft # NoDraft /\ draft' = NoDraft =>
         ~draft.attempted \/ object[draft.op] \in {"committed", "cancelled"}]_mediaVars

(* Whatever was sealed for an operation before, a retry asks for the same   *)
(* message: sendMessage never meets a conflict.                             *)
SameMessage == At("queue") /\ outbox[Job.op] # "none" => said[Job.op] = Body(Job)

(* A draft that the user gives up is settled, whatever was lost before.     *)
DraftSettles == draft # NoDraft ~> draft = NoDraft
ChatDraftSettles == kind \in {"photo", "sticker"} => DraftSettles
=============================================================================
