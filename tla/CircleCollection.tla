--------------------------- MODULE CircleCollection ---------------------------
(***************************************************************************)
(* A Circle's shared stickers: every member adds, the admin removes, each     *)
(* change takes the next collection revision, and a phone shows the collection *)
(* only when its accepted history yields all of it. A member who joined later  *)
(* needs a snapshot: the admin's phone encrypts each sticker anew for the      *)
(* audience of now, uploads it, saves the parts and sends them one by one.     *)
(***************************************************************************)
EXTENDS Naturals, Sequences, FiniteSets

CONSTANTS PartSize,     \* stickers in one part of a snapshot
          MaxEpoch, MaxRevision, MaxItems, MaxRemovals, MaxMishaps

VARIABLES bound,    \* is the vault opened with the publisher's binding?  The app's is not; never changes
          circle,   \* the service: [epoch, revision, items, joined: is the peer a member]
          events,   \* what it committed, in order
          snaps,    \* the parts it has of each snapshot
          relay,    \* operations it committed or fenced
          rows,     \* the phone's outbox: operation -> [status, body]
          edit,     \* the sticker being contributed: [phase, item, epoch, revision]
          fresh,    \* each sticker's upload for a snapshot: [phase, epoch, revision, op, media]
          saved,    \* the publication vault
          job,      \* what the phone is doing
          pulled,   \* the events each phone has received
          mishaps

collectionVars == <<circle, events, snaps, relay, rows, edit, fresh, saved, job, pulled, mishaps>>

Phones == {"admin", "peer"}
Items == 1..MaxItems
NoEdit == [phase |-> "none", item |-> 0, epoch |-> 0, revision |-> 0]
NoFresh == [phase |-> "none", epoch |-> 0, revision |-> 0, op |-> <<>>, media |-> 0]
NoPublication == <<>>
Idle == [kind |-> "idle"]
Goes(at) == job' = [job EXCEPT !.at = at]
Mishap == mishaps < MaxMishaps /\ mishaps' = mishaps + 1
AddOp(i) == <<"add", i>>
Removals == {o \in DOMAIN rows : o[1] = "remove"}
RemoveOp(i) == <<"remove", i, Cardinality(Removals)>>
Made == {i \in Items : \/ edit.item = i \/ AddOp(i) \in DOMAIN rows
                       \/ \E k \in DOMAIN events : events[k].body.kind = "add" /\ events[k].body.item = i}
NextItem == CHOOSE i \in Items \ Made : \A j \in Items \ Made : i <= j

-----------------------------------------------------------------------------
(* What a phone's history says of the collection.                           *)

Audience(epoch) == IF circle.joined THEN Phones ELSE {"admin"}
\* The admin's own events are in its history once they are confirmed; others' once received.
Held(p) == {events[k] : k \in {n \in DOMAIN events :
                /\ p \in events[n].to
                /\ IF p = "admin" /\ events[n].op \in DOMAIN rows
                   THEN rows[events[n].op].status = "sent" ELSE n <= pulled[p]}}
Changes(p) == {e.body : e \in {h \in Held(p) : h.body.kind # "part"}}
\* Every encryption of a sticker is another: 0 is the one it was contributed with.
Image(i, epoch, media) == [item |-> i, epoch |-> epoch, media |-> media]
Verdict(state, items) == [state |-> state, items |-> items]
Nothing(state) == Verdict(state, {})

\* Changes by revision, without a gap: what was added and not removed since.
SelectChanges(p) ==
    LET changes == Changes(p)
        removed == {c.item : c \in {d \in changes : d.kind = "remove"}}
    IN IF \E c \in changes : c.revision > circle.revision THEN Nothing("stale")
       ELSE IF {c.revision : c \in changes} # 1..circle.revision THEN Nothing("incomplete")
       ELSE Verdict("ready", {Image(c.item, c.epoch, 0) : c \in {d \in changes : d.kind = "add" /\ d.item \notin removed}})

PartsOf(p, s) == {b \in {e.body : e \in Held(p)} :
                    b.kind = "part" /\ b.snapshot = s /\ b.epoch = circle.epoch /\ b.revision = circle.revision}
Topology(images) == {m.item : m \in images}
Manifest == circle.items
ValidPart(b) == \A m \in b.items : m.epoch = circle.epoch
Contradict(b, c) == b.parts # c.parts \/ (b.part = c.part /\ b # c)
Assemble(parts) ==
    LET items == UNION {b.items : b \in parts}
    IN IF \E b \in parts : ~ValidPart(b) THEN Nothing("invalid")
       ELSE IF \E b, c \in parts : Contradict(b, c) THEN Nothing("conflict")
       ELSE IF parts = {} \/ \E b \in parts : {c.part : c \in parts} # 0..(b.parts - 1) THEN Nothing("incomplete")
       ELSE IF Topology(items) # Manifest THEN Nothing("invalid")
       ELSE Verdict("ready", items)

\* A complete snapshot of now; two that differ are a conflict; else the changes.
Load(p) ==
    LET verdicts == {Assemble(PartsOf(p, s)) : s \in {t \in DOMAIN snaps : PartsOf(p, t) # {}}}
        bad == {v \in verdicts : v.state \in {"invalid", "conflict"}}
        ready == {v \in verdicts : v.state = "ready"}
        changed == SelectChanges(p)
    IN IF bad # {} THEN CHOOSE v \in bad : TRUE
       ELSE IF Cardinality(ready) > 1 THEN Nothing("conflict")
       ELSE IF ready # {} THEN CHOOSE v \in ready : TRUE
       ELSE IF changed.state = "ready" THEN changed ELSE Nothing("incomplete")

\* The stickers screen offers a refresh when some picture is of an older audience.
Shown == Load("admin")
Offered == Shown.state # "ready" \/ \E m \in Shown.items : m.epoch # circle.epoch

-----------------------------------------------------------------------------
(* The relay.                                                               *)

Accepts(op) ==
    LET b == rows[op].body
    IN /\ op \notin DOMAIN relay /\ b.epoch = circle.epoch
       /\ IF b.kind = "part"
          THEN b.revision = circle.revision /\ b.part \notin snaps[b.snapshot]
                 /\ Topology(b.items) \subseteq circle.items
          ELSE b.revision = circle.revision + 1
                 /\ (b.kind = "remove" => b.item \in circle.items)

Commit(op) ==
    LET b == rows[op].body
    IN /\ relay' = [o \in DOMAIN relay \cup {op} |-> IF o = op THEN "committed" ELSE relay[o]]
       /\ events' = Append(events, [op |-> op, body |-> b, to |-> Audience(b.epoch)])
       /\ IF b.kind = "part"
          THEN snaps' = [snaps EXCEPT ![b.snapshot] = @ \cup {b.part}] /\ UNCHANGED circle
          ELSE /\ circle' = [circle EXCEPT !.revision = b.revision,
                                !.items = IF b.kind = "add" THEN @ \cup {b.item} ELSE @ \ {b.item}]
               /\ UNCHANGED snaps

Committed(op) == op \in DOMAIN relay /\ relay[op] = "committed"
Confirm(op) == rows' = [rows EXCEPT ![op].status = "sent"]
Upload(op) ==
    \/ Accepts(op) /\ Commit(op) /\ Confirm(op)
    \/ Committed(op) /\ Confirm(op) /\ UNCHANGED <<circle, events, snaps, relay>>
Lost(op) == Mishap /\ UNCHANGED rows /\ ((Accepts(op) /\ Commit(op)) \/ UNCHANGED <<circle, events, snaps, relay>>)
Refused(op) == ~Accepts(op) /\ (op \in DOMAIN relay => relay[op] = "fenced")
                  /\ UNCHANGED <<circle, events, snaps, relay, rows, mishaps>>

Row(op, body) == rows' = [o \in DOMAIN rows \cup {op} |-> IF o = op THEN [status |-> "queued", body |-> body] ELSE rows[o]]
QueuedChanges == {o \in DOMAIN rows : rows[o].status = "queued" /\ rows[o].body.kind # "part"}
Known(op, statuses) == op \in DOMAIN rows /\ rows[op].status \in statuses

-----------------------------------------------------------------------------
(* Adding: the encrypted picture is saved first, uploaded, then announced.    *)

Body(kind, i, epoch, revision) == [kind |-> kind, item |-> i, epoch |-> epoch, revision |-> revision]

Choose ==
    /\ job = Idle /\ edit = NoEdit /\ Made # Items /\ circle.revision < MaxRevision
    /\ edit' = [phase |-> "prepared", item |-> NextItem, epoch |-> circle.epoch, revision |-> circle.revision]
    /\ job' = [kind |-> "add", at |-> "check"]
    /\ UNCHANGED <<circle, events, snaps, relay, rows, fresh, saved, pulled, mishaps>>

\* Mutant: only a change that still waits counts as announced.
AnnouncedWaiting(op) == Known(op, {"queued"})
Announced(op) == Known(op, {"sent"})

\* After a crash: what the history already says decides where to go on.
Check ==
    /\ job.kind = "add" /\ job.at = "check"
    /\ LET op == AddOp(edit.item)
           current == edit.epoch = circle.epoch /\ edit.revision = circle.revision
       IN IF edit = NoEdit THEN job' = Idle
          ELSE IF Announced(op) THEN Goes("acknowledge")
          ELSE IF QueuedChanges \ {op} # {} \/ (QueuedChanges = {} /\ ~current) THEN job' = Idle
          ELSE Goes(IF edit.phase = "prepared" THEN "upload" ELSE "send")
    /\ UNCHANGED <<circle, events, snaps, relay, rows, edit, fresh, saved, pulled, mishaps>>

UploadSticker ==
    /\ job.kind = "add" /\ job.at = "upload"
    /\ \/ edit' = [edit EXCEPT !.phase = "uploaded"] /\ Goes("send") /\ UNCHANGED mishaps
       \/ Mishap /\ job' = Idle /\ UNCHANGED edit
    /\ UNCHANGED <<circle, events, snaps, relay, rows, fresh, saved, pulled>>

\* A change is written for the next revision of the audience of now, or not at all;
\* an operation the phone retired is never sent again.
Writable(op, body) == body.epoch = circle.epoch /\ body.revision = circle.revision + 1 /\ op \notin DOMAIN rows

QueueChange ==
    /\ job.kind \in {"add", "remove"} /\ job.at = "send"
    /\ LET op == IF job.kind = "add" THEN AddOp(edit.item) ELSE job.op
           body == IF job.kind = "add" THEN Body("add", edit.item, edit.epoch, edit.revision + 1) ELSE job.body
           deliver == job' = [kind |-> job.kind, at |-> "deliver", op |-> op]
       IN IF Known(op, {"queued"}) THEN deliver /\ UNCHANGED rows
          ELSE IF Writable(op, body) THEN deliver /\ Row(op, body)
          ELSE job' = Idle /\ UNCHANGED rows
    /\ UNCHANGED <<circle, events, snaps, relay, edit, fresh, saved, pulled, mishaps>>

DeliverChange ==
    /\ job.kind \in {"add", "remove"} /\ job.at = "deliver"
    /\ \/ /\ Upload(job.op) /\ UNCHANGED mishaps
          /\ job' = IF job.kind = "add" THEN [kind |-> "add", at |-> "acknowledge"] ELSE Idle
       \/ (Lost(job.op) \/ Refused(job.op)) /\ job' = Idle
    /\ UNCHANGED <<edit, fresh, saved, pulled>>

AcknowledgeAdd ==
    /\ job.kind = "add" /\ job.at = "acknowledge" /\ edit' = NoEdit /\ job' = Idle
    /\ UNCHANGED <<circle, events, snaps, relay, rows, fresh, saved, pulled, mishaps>>

\* The admin removes what the whole collection shows, one change at a time.
Remove(i) ==
    /\ job = Idle /\ Shown.state = "ready" /\ i \in Topology(Shown.items) /\ QueuedChanges = {}
    /\ circle.revision < MaxRevision /\ Cardinality(Removals) < MaxRemovals
    /\ job' = [kind |-> "remove", at |-> "send", op |-> RemoveOp(i),
               body |-> Body("remove", i, circle.epoch, circle.revision + 1)]
    /\ UNCHANGED <<circle, events, snaps, relay, rows, edit, fresh, saved, pulled, mishaps>>

\* "Resolve pending update": the relay says whether the queued change was
\* accepted or fences it; then the sticker's own upload is finished or dropped.
Unresolved == IF QueuedChanges # {} THEN "queued" ELSE IF edit # NoEdit THEN "saved" ELSE "none"
Cancel(op) == relay' = [o \in DOMAIN relay \cup {op} |-> IF o = op THEN "fenced" ELSE relay[o]]
Retire(op) == rows' = [rows EXCEPT ![op].status = "retired"]
RecoverChange ==
    /\ job = Idle /\ Unresolved = "queued"
    /\ \E op \in QueuedChanges :
         IF Committed(op) THEN Confirm(op) /\ job' = [kind |-> "add", at |-> "check"] /\ UNCHANGED relay
         ELSE Cancel(op) /\ Retire(op) /\ UNCHANGED job
    /\ UNCHANGED <<circle, events, snaps, edit, fresh, saved, pulled, mishaps>>

Discard ==
    /\ job = Idle /\ Unresolved = "saved"
    /\ IF Committed(AddOp(edit.item)) THEN job' = [kind |-> "add", at |-> "check"] /\ UNCHANGED edit
       ELSE edit' = NoEdit /\ UNCHANGED job
    /\ UNCHANGED <<circle, events, snaps, relay, rows, fresh, saved, pulled, mishaps>>

-----------------------------------------------------------------------------
(* The refresh: every sticker for the audience of now, and then the parts.   *)

PartOf(i) == (Cardinality({j \in circle.items : j < i})) \div PartSize
PartCount == IF circle.items = {} THEN 1 ELSE ((Cardinality(circle.items) - 1) \div PartSize) + 1
\* What an interrupted refresh left goes on only for the same audience and revision.
Leftover == {i \in circle.items : fresh[i].phase # "none"}
Usable == \A i \in Leftover : /\ fresh[i].epoch = circle.epoch /\ fresh[i].revision = circle.revision
                             /\ \A j \in Leftover : PartOf(i) = PartOf(j) => fresh[i].op = fresh[j].op
PartOp(s, k) == IF \E i \in Leftover : PartOf(i) = k
                THEN fresh[CHOOSE i \in Leftover : PartOf(i) = k].op ELSE <<"part", s, k>>

StartRefresh ==
    /\ job = Idle /\ Offered /\ Shown.state = "ready" /\ Usable
    /\ job' = [kind |-> "refresh", at |-> "upload", snapshot |-> Len(snaps) + 1, epoch |-> circle.epoch,
               revision |-> circle.revision, todo |-> Topology(Shown.items), part |-> 0, items |-> Shown.items,
               ops |-> [k \in 0..(PartCount - 1) |-> PartOp(Len(snaps) + 1, k)],
               sizes |-> [k \in 0..(PartCount - 1) |-> {i \in circle.items : PartOf(i) = k}]]
    /\ UNCHANGED <<circle, events, snaps, relay, rows, edit, fresh, saved, pulled, mishaps>>

\* The stickers are taken in their order.
Due(i) == job.kind = "refresh" /\ job.at = "upload" /\ i \in job.todo /\ \A j \in job.todo : i <= j
IsCurrent(i) == \A m \in job.items : m.item = i => m.epoch = job.epoch
Cleared(i) == [NoFresh EXCEPT !.media = fresh[i].media]

\* A picture of the audience of now stays, and what an upload of it left is cleared.
KeepItem(i) ==
    /\ Due(i) /\ IsCurrent(i)
    /\ IF fresh[i].phase = "none" \/ (fresh[i].phase = "uploaded" /\ Image(i, job.epoch, fresh[i].media) \in job.items)
       THEN fresh' = [fresh EXCEPT ![i] = Cleared(i)] /\ job' = [job EXCEPT !.todo = @ \ {i}]
       ELSE job' = Idle /\ UNCHANGED fresh
    /\ UNCHANGED <<circle, events, snaps, relay, rows, edit, saved, pulled, mishaps>>

\* Each other is downloaded, encrypted anew and saved before it is uploaded;
\* what an interrupted refresh saved is uploaded as it is.
RefreshItem(i) ==
    /\ Due(i) /\ ~IsCurrent(i)
    /\ LET part == CHOOSE k \in DOMAIN job.sizes : i \in job.sizes[k]
           kept == IF fresh[i].phase # "none" THEN fresh[i]
                   ELSE [phase |-> "prepared", epoch |-> job.epoch, revision |-> job.revision,
                         op |-> job.ops[part], media |-> fresh[i].media + 1]
       IN \/ /\ fresh' = [fresh EXCEPT ![i] = [kept EXCEPT !.phase = "uploaded"]] /\ UNCHANGED mishaps
             /\ job' = [job EXCEPT !.todo = @ \ {i},
                           !.items = {IF m.item = i THEN Image(i, job.epoch, kept.media) ELSE m : m \in @}]
          \/ fresh' = [fresh EXCEPT ![i] = kept] /\ job' = Idle /\ Mishap
    /\ UNCHANGED <<circle, events, snaps, relay, rows, edit, saved, pulled>>

\* Mutant: a snapshot is checked as a change is, for the revision after.
CurrentNext == job.epoch = circle.epoch /\ circle.revision = job.revision + 1
Current == job.epoch = circle.epoch /\ circle.revision = job.revision

\* The vault holds one publication, and only one bound as the vault itself is.
VaultTakes == saved = NoPublication /\ bound
\* The context is asked again; nothing is published for an audience that passed.
Publish ==
    /\ job.kind = "refresh" /\ job.at = "upload" /\ job.todo = {}
    /\ IF Current /\ VaultTakes
       THEN /\ saved' = <<job.snapshot>> /\ Goes("parts")
            /\ snaps' = Append(snaps, {})
       ELSE job' = Idle /\ UNCHANGED <<saved, snaps>>
    /\ UNCHANGED <<circle, events, relay, rows, edit, fresh, pulled, mishaps>>

NextPart == IF job.part + 1 = Cardinality(DOMAIN job.ops) THEN Goes("clear") ELSE job' = [job EXCEPT !.part = @ + 1]

PartBody == [kind |-> "part", snapshot |-> job.snapshot, epoch |-> job.epoch, revision |-> job.revision,
             part |-> job.part, parts |-> Cardinality(DOMAIN job.ops),
             items |-> {m \in job.items : m.item \in job.sizes[job.part]}]
QueuePart ==
    /\ job.kind = "refresh" /\ job.at = "parts" /\ job.ops[job.part] \notin DOMAIN rows
    /\ IF Current
       THEN Row(job.ops[job.part], PartBody) /\ UNCHANGED job ELSE job' = Idle /\ UNCHANGED rows
    /\ UNCHANGED <<circle, events, snaps, relay, edit, fresh, saved, pulled, mishaps>>

\* Mutant: a part counts as sent although nobody answered.
SendPartUnheard ==
    /\ job.kind = "refresh" /\ job.at = "parts" /\ job.ops[job.part] \in DOMAIN rows
    /\ LET op == job.ops[job.part]
       IN \/ Upload(op) /\ NextPart /\ UNCHANGED mishaps
          \/ Lost(op) /\ NextPart
          \/ Refused(op) /\ job' = Idle
    /\ UNCHANGED <<edit, fresh, saved, pulled>>
SendPart ==
    /\ job.kind = "refresh" /\ job.at = "parts" /\ job.ops[job.part] \in DOMAIN rows
    /\ LET op == job.ops[job.part]
       IN IF rows[op].body # PartBody THEN job' = Idle /\ UNCHANGED <<circle, events, snaps, relay, rows, mishaps>>
          ELSE \/ Upload(op) /\ NextPart /\ UNCHANGED mishaps
               \/ (Lost(op) \/ Refused(op)) /\ job' = Idle
    /\ UNCHANGED <<edit, fresh, saved, pulled>>

\* The publication is cleared, and then the uploads it announced.
ClearPublication ==
    /\ job.kind = "refresh" /\ job.at = "clear" /\ saved' = NoPublication /\ Goes("acknowledge")
    /\ UNCHANGED <<circle, events, snaps, relay, rows, edit, fresh, pulled, mishaps>>
AcknowledgeUploads ==
    /\ job.kind = "refresh" /\ job.at = "acknowledge" /\ job' = Idle
    /\ fresh' = [i \in Items |-> IF fresh[i].phase = "uploaded" /\ Image(i, job.epoch, fresh[i].media) \in job.items
                                  THEN Cleared(i) ELSE fresh[i]]
    /\ UNCHANGED <<circle, events, snaps, relay, rows, edit, saved, pulled, mishaps>>

-----------------------------------------------------------------------------
(* The rest of the Circle, the outbox worker and the inboxes.               *)

Crash ==
    /\ job # Idle /\ job' = Idle /\ Mishap
    /\ UNCHANGED <<circle, events, snaps, relay, rows, edit, fresh, saved, pulled>>

\* Queued rows go out again by themselves, whatever waits on them.
SyncOutbox ==
    /\ job = Idle
    /\ \E op \in DOMAIN rows : rows[op].status = "queued" /\ Upload(op) /\ UNCHANGED mishaps
    /\ UNCHANGED <<edit, fresh, saved, job, pulled>>

\* Another member's phone adds a sticker.
OtherAdds ==
    /\ Made # Items /\ circle.revision < MaxRevision
    /\ circle' = [circle EXCEPT !.revision = @ + 1, !.items = @ \cup {NextItem}]
    /\ events' = Append(events, [op |-> <<"other", NextItem>>, to |-> Audience(circle.epoch),
                                 body |-> Body("add", NextItem, circle.epoch, circle.revision + 1)])
    /\ UNCHANGED <<snaps, relay, rows, edit, fresh, saved, job, pulled, mishaps>>

ComeOrGo ==
    /\ circle.epoch < MaxEpoch
    /\ circle' = [circle EXCEPT !.epoch = @ + 1, !.joined = ~@]
    /\ UNCHANGED <<events, snaps, relay, rows, edit, fresh, saved, job, pulled, mishaps>>

Pull(p) ==
    /\ pulled[p] < Len(events) /\ pulled' = [pulled EXCEPT ![p] = Len(events)]
    /\ UNCHANGED <<circle, events, snaps, relay, rows, edit, fresh, saved, job, mishaps>>

-----------------------------------------------------------------------------

CollectionInit ==
    /\ bound \in BOOLEAN
    /\ circle = [epoch |-> 1, revision |-> 0, items |-> {}, joined |-> FALSE]
    /\ events = <<>> /\ snaps = <<>> /\ relay = <<>> /\ rows = <<>> /\ edit = NoEdit
    /\ fresh = [i \in Items |-> NoFresh] /\ saved = NoPublication /\ job = Idle
    /\ pulled = [p \in Phones |-> 0] /\ mishaps = 0

AddStep == Check \/ UploadSticker \/ QueueChange \/ DeliverChange \/ AcknowledgeAdd
RefreshStep ==
    \/ Publish \/ QueuePart \/ SendPart \/ ClearPublication \/ AcknowledgeUploads
    \/ \E i \in Items : KeepItem(i) \/ RefreshItem(i)
\* What the screen offers for a change that is pending.
Resolve == RecoverChange \/ Discard

CollectionNext ==
    \/ Choose \/ AddStep \/ Resolve \/ StartRefresh \/ RefreshStep
    \/ Crash \/ SyncOutbox \/ OtherAdds \/ ComeOrGo
    \/ \E i \in Items : Remove(i)
    \/ \E p \in Phones : Pull(p)

CollectionSpec == CollectionInit /\ [][CollectionNext /\ UNCHANGED bound]_<<bound, collectionVars>>
\* What was begun goes on, the inbox is read, and the user resolves what the
\* screen says is pending and takes the refresh it offers.
CollectionFairness ==
    /\ WF_collectionVars(AddStep) /\ WF_collectionVars(RefreshStep)
    /\ SF_collectionVars(Resolve) /\ SF_collectionVars(StartRefresh)
    /\ \A p \in Phones : WF_collectionVars(Pull(p))
CollectionFairSpec == CollectionSpec /\ CollectionFairness

-----------------------------------------------------------------------------

CollectionTypeOK ==
    /\ circle.epoch \in 1..MaxEpoch /\ circle.revision \in 0..MaxRevision /\ circle.items \subseteq Items
    /\ mishaps \in 0..MaxMishaps
    /\ \A op \in DOMAIN rows : rows[op].status \in {"queued", "sent", "retired"}
    /\ \A p \in Phones : pulled[p] \in 0..Len(events)

\* A phone that shows a collection shows exactly the stickers the service holds, none
\* missing and none removed; and no two honest publications ever disagree, so no
\* phone meets a conflict or refuses a collection as invalid (circle-collection.ts,
\* collection-snapshot.ts, circle-collection-loader.ts).
CollectionTrue ==
    \A p \in Phones :
        LET v == Load(p) IN
        (p = "admin" \/ circle.joined) =>
            /\ v.state \notin {"conflict", "invalid"}
            /\ v.state = "ready" => Topology(v.items) = circle.items

\* A sticker the user contributed never stays half done: it is shared, or the
\* recovery the screen offers drops it (circle-collection-media.ts, circle-library.tsx).
ContributionSettles == edit # NoEdit ~> edit = NoEdit

\* A refresh that is offered and taken is finished, so that every member has a complete
\* snapshot, unless an interrupted publication is kept in the vault or an interrupted
\* upload is of an audience or a revision that passed (circle-collection-refresh.ts).
Stuck == saved # NoPublication \/ ~Usable
RefreshFinishes == []<>(~Offered \/ Stuck)
=============================================================================
