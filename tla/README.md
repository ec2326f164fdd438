# A verification model of Awsemchat

Awsemchat is an end-to-end encrypted chat: a Go API server over PostgreSQL
(`src/services/api`), a React Native client (`src/apps/mobile/src`), and a Rust
crypto module with a sealed durable state
(`src/apps/mobile/modules/awsemchat-crypto`). This directory holds TLA+ models
of its protocols, the TLC configurations that check them, and TLAPS proofs of
the properties that matter most.

`tlc -config X.cfg M.tla` runs a check, `tlapm M_proofs.tla` checks the proofs.

## 1. Inventory

The server runs one PostgreSQL transaction per request at READ COMMITTED.
What keeps requests apart is therefore row locks (`FOR SHARE`, `FOR UPDATE`),
transaction-scoped advisory locks, unique indexes, and nothing else. The client
runs asynchronous TypeScript over a native store whose every call is one atomic
commit; a process death, a timeout or a lost reply may come between any two
calls. These two facts are the shape of every model here.

| Component | State | Operations | Interacts with | What is hard | What makes it correct |
|---|---|---|---|---|---|
| Identity (`auth`) | challenges, accounts with a device generation, sessions | Start, Verify, RequireSession, LockSession, SignOut | SMS provider outside the transaction; every other service locks the session | a slow SMS result against expiry and resend; a request whose session dies between authentication and its transaction | one active session per account, of the account's latest generation; no more than five guesses per code |
| Friends | one link per pair, blocks | Request, Respond, Block | messages, media, circles, keys, reports ask for the accepted request | the request is read before the pair lock | a block ends the friendship whatever is in flight; an answer applies to the request it was given for |
| Circles | epoch, member count, membership intervals, invitations, operation ledger | Create, Invite, Respond, Leave, Remove, Handoff, MutateMembership, CancelMembership | audience for messages, keys and media | retries and cancellations against concurrent changes; old clients without the ledger | exactly one admin in an open circle, the count is the number of members, at most 20, an operation acts once and never after it was cancelled |
| Keys | identity per generation, signed and one-time prekeys, publications, allocations | publish, Allocate, LockIdentity | Send and the client's session setup | concurrent allocations, retries, exhaustion | a one-time prekey is handed out once; a retry gets the same bundle |
| Message relay | events, deliveries with a sequence per row, receipts | Send, Inbox, History, Acknowledge, Status | circles or friends, keys, push, media, client sync | sequences are taken before the commit | a cursor never skips a delivery |
| Operation fence | cancellations by operation id | Send, CancelProfile, CancelCollection, media cancel | relay and media on one advisory lock | cancel against send against upload, then redaction, across phone replacements | an operation is committed or cancelled, never both |
| Redactions | ledger, feed per account with a gapless sequence | Redact, Redactions, client application | relay, media, client history, backup | concurrent redactions, a stale inbox page on the client | a deleted message does not come back |
| Collections | revision, items, snapshot generations and parts | change, snapshot part | Send | parts repeated, cut short and begun again | revisions are consecutive, a snapshot is complete before it is used |
| Media | objects, grants, cleanup queues, blobs outside the database | Put, Get, cancel, DrainCleanup | operation fence, storage | blob written before the commit; leases without an owner | a committed message's media is never deleted |
| Push | one device per account, outbox | Register, Unregister, UpdatePreferences, QueueRecipient, Dispatch | Send, Expo | leases and retries against unregistering, muting, replacing | nothing is pushed for muted or revoked |
| Reports | reports with expiry | Create, expiry | messages | retry | one report per operation |
| Client durable state (`durable.rs`, Kotlin, JNI) | one sealed file: sessions, outbox, history, cursors, tombstones | send, receive, confirm, redaction, import, retire | everything on the client | a crash between any commit and its network call | retry sends the same bytes; a tombstone wins over import and receive |
| Session owner, login flow, foreground check, timer | session status, the saved session, the flow's phase, the timer | start, verify, restore, logout, refresh, synchronise | identity, secure store, encryption | overlapping calls, a late reply after logout, a key store that fails | who is let in has the encryption of the account signed in; the timer of an open app is never lost |
| Calls of the service (`api.ts` of each feature) | the session read before a call | nine kinds of request, retried under their operation | every service | an answer that is lost, or is some proxy's page; a session that changes meanwhile | a caller is told the truth, in the session it is in |
| Lists that follow the account | five snapshots | read, read more, answer, block, reset | friends, circles, history | answers in any order, for another account | a list is of the account signed in |
| Inbox, history pages, identity review | cursors, pages, pinned keys, the panel | page, load, receive, review, accept | relay, redactions, durable state | a message nobody can read, a peer that reinstalls, keys read before they are accepted | no delivery is passed over; new keys count when the owner accepted them |
| Encrypted database of the history | a journal of generations, database files | open, append, stage, switch, confirm, close | backup, durable state | a kill, a failed write, a damaged file at any step | the app works with a whole database, and opens again |
| Media drafts (six editors) | pointer, file and job of one draft | choose, retry, discard | media, operation fence, relay | a crash, a lost answer, a new audience in every phase | the bytes sent are those sealed; a draft given up is settled |
| Outbox and senders | a queue of jobs, rows, pinned keys, one ratchet | send, reconcile, recover | relay, keys | one message failing for ever, keys that change, retries | one key per message; the row says what the relay decided; each message has its turn |
| Now playing | the switch, reads in flight, the fanout | mount, share, poll, publish | friends, relay, the system's players | reads that overlap, a poll asked for while one ends | friends show what the phone plays |
| Backup to Drive and files | archive, pending pointer and file, upload session | prepare, upload, acknowledge, restore | Google Drive, history, redactions | account change and lost answers in the middle | one file per archive, a pending backup kept, a restore that is whole |
| Personal profile | vault, photo store, one publication per friend | save, photo, sync | friends, relay, media | jobs that started together, half failed sharing | friends and the Circle show the owner's last profile |
| Circle creation, profile, picture, invitations | a sealed creation, the controller's job | create, resume, edit, share, cancel, invite | circles, relay, media | crashes between steps, an epoch that moves | no Circle forgotten half made; a picture is encrypted for who gets it |
| Collections: stickers, manifests, snapshots | changes, parts, the publication vault | add, remove, refresh, load | relay, media | parts repeated and encrypted anew, a revision that moves | a collection shown is the service's; nothing stays half done |
| Moments and reactions | messages in each phone's own order | publish, react, delete, retry | relay | orders that differ, a deletion before its Moment | phones that have everything show the same |
| Conversation preferences, notification opt-in | the database, the queue, the service's copy | load, set, sync, toggle | push | overlapping choices, lost or reordered requests | the last choice is kept, and the service is told |
| Screens, styling, harnesses, native build | - | - | - | - | not modelled |

## 2. Plan

Ordered by importance. The server's protocols came first:

1. `DeliveryQueue` with the abstract `RecipientLog` it implements.
2. `OperationFence`: Send, both cancellations, uploads, storage and cleanup.
3. `Circles`: membership, invitations, the operation ledger.
4. `Identity` with the abstract `ExclusiveSession`.
5. `Redaction`: the ledger and feeds, the phone's deletion, archives.
6. `PushOutbox`: devices, outbox, dispatchers.

Then the phone, one module per component and three that compose them:

7. `PhoneReceives`: `ClientSession`, `ServiceCall`, `AccountStores`, `InboxSync`,
   `EncryptedHistory`.
8. `PhoneSends`: `MediaDraft`, `PhoneOutbox`, `NowPlaying`, `HistoryBackup`.
9. `PhoneShares`: `ProfileSharing`, `CircleSharing`, `CircleCollection`,
   `Moments`, `ChatPreferences`.

Proofs exist for all nine. What is left, in this order:

10. `Friends`: requests, answers and blocks against the pair lock, composed with
    the private half of the delivery guard.
11. `KeyDirectory`: the pool of one-time keys, publications, expiry and refill.
12. `LockOrder`: the row and advisory locks of all services as sequences, no
    circular wait.
13. `DurableState`: the capacities of the sealed state, as the implementation of
    what `DeliveryQueue`, `InboxSync` and `PhoneOutbox` assume of it.

Hazards noted while reading that the list in `PROJECT.json` leaves out for its
length, with the module that has the step where there is one:

- `push/dispatcher.go:52`: device and jobs go in two autocommitted statements;
  the second also deletes jobs queued meanwhile for the phone's new token.
- `018_notifications.sql:4`: a phone that changes accounts cannot register its
  token until the earlier account gives it up.
- `auth.go:137`: an interrupted or failed Start answers every retry of its
  operation the same way, after its expiry too.
- `durable.rs:711`: tombstones are capped and never removed; a page that would
  pass the cap is refused for good.
- `keys/allocation.go:76`: SKIP LOCKED reports exhaustion while the last key is
  locked by a transaction that aborts; `keys/service.go:74`: a vaulted batch
  outlives its signature; `key-publication.ts:86`: no refill of a pool that
  peers drain without writing.
- `collection_manifest.go:51`: a manifest read page by page while it changes.
- `session-owner.ts:57`: the answer of verify is lost and nobody has the session
  (`ClientSession`).
- `upload-vault.ts:45`: a crash between the file and the metadata that names it
  (`MediaDraft`).
- `fanout.ts:79`: a request in the turn between the end of the drain loop and
  its being forgotten (`NowPlaying`).
- `send.go:51` and `:67`: the Circle row is held FOR SHARE and then updated.
- `friends.go:207`: a block among requests under way; `friends.go:127`: an answer
  that read the request before it locked the pair.
- `expo.go:48`, `conversation-list.ts:66`: two spellings of one conversation
  (section 6).
- `runtime.ts:403`: a vault opened with one binding and written with another
  (section 6).
- `history-backup.ts:266`: a redaction that commits after the restore read the
  ledger (`Redaction`).
- `private-message-deletion.ts:72`: pending deletions are retried in order and
  the first that fails ends the round.

## 3. Modules

### DeliveryQueue

One circle conversation. A message is one envelope with its operation id, so at
most one transaction of it runs and the message is its own process. `Begin` is
`Send` up to the recipient check, `LockQueue` the sorted loop of advisory locks,
`InsertEvent` and `InsertDelivery` the inserts, `CommitSend` and `AbortSend` the
end. A row exists (`row[m][r] # 0`) from its insert on and is visible after the
commit. The circle's row lock keeps `Leave` and `Rejoin` out while a send is
open. `ReadPage`, `Grant`, `Reply` are `Inbox`: the page in one transaction, one
more per row. `Receive`, `Acknowledge`, `Record`, `AdvanceCursor`, `Crash` are the client
run; `Acknowledge` and `Record` are the two halves of one UPDATE, whose EXISTS is
answered from the statement's snapshot, so a redaction may commit between them.

`RecipientLog` is what the relay promises: a log per recipient that grows at its
end, and readers that consume prefixes. `DeliveryQueueLog` maps visible rows in
sequence order to the log and the durable cursor to the prefix.

### OperationFence

The fate of one account's operations. `Send`, `Put`, `CancelProfile` and the
media cancellation hold the account row FOR SHARE and the advisory lock of
`<<generation, operation>>`, so an operation has one open transaction, `tx[op]`;
what one transaction does under that lock is one action. `SendBegin` and
`SendCommit` are `Send` up to and at its commit; `CancelProfile` is
`profile_cancel.go`, `CancelMedia` is `CancelOperation`, which queues the
operation's claimed objects for cleanup; `Redact` is the media half of a deletion; `Verify` is a new phone, which
waits for the account row. An upload is `PutBegin` (checks and the claim),
`Store` (storage, not part of the transaction), `PutCommit` or `Abort`;
`LoseTransaction` and `LateStore` are an upload that outlives its transaction.
`Claim`, `Erase`, `Complete`, `EraseFails`, `WorkerStops` are `DrainCleanup`;
its lease is one minute and names no owner, so any subset of the leases may have
expired at any claim.

### Circles

One Circle. Every handler takes the Circle's row FOR UPDATE before it reads what
it decides on, so every transaction is one action, and the interleaving is among
clients whose requests arrive late, repeatedly, or after their answer was lost.
`LeaveTx`, `RemoveTx`, `HandoffTx` are the three `...Tx` functions of
`circles.go`, used by the legacy endpoints (`Legacy`) and by `mutations.go`
(`Mutate`, with the guard of epoch and intervals, `Unchanged`, and the ledger
`outcome`). `CancelMembership` is the cancellation fence. `Invite`, `Expire`,
`Accept`, `Decline` are the invitations. `Prepare`, `Send`, `Learn`,
`Acknowledge` are `circle-membership.ts`: one saved request per Circle, sent until
answered, the answer saved before it is shown. `acts` and the field `shown` of a
request are history.

### PushOutbox

`Register`, `Unregister`, `UpdatePreferences` are the handlers of `device.go`;
each deletes the jobs it makes pointless. `QueueRecipient` reads the device
without a lock in the middle of Send and `CommitSend` makes its job visible.
`Claim` (one attempt and a two-minute lease, SKIP LOCKED), `Send` (Expo, outside
any transaction), then `Discard`, `Retry`, or `DropDevice` and `DropJobs` are
`dispatcher.go`. `BecomeDue` and `Lapse` are the clock: a lease abandoned, a
delay over, or a lease that ends while its holder still works. Expo's answer and
what Expo did are two things: a timeout, a body that does not decode or a status
that is no success becomes `ErrUnavailable` (`expo.go:91`-`:101`) whether or not the
alert was accepted, so `Send` chooses both. `oks` (acceptances per event), `unheard`
(those answered as a failure) and `raced` are history. A private conversation is
muted under the name its events carry; a Circle is muted as `circle:<id>` and its
events carry the bare id, so such a mute matches nothing.

### Identity

`Reserve` and `SendCode` are `Start` before and after the SMS provider;
`LoseStart` is a handler that stops in between. `Verify` is split at its commit
because the challenge and account rows it locks are what other requests wait
for. `LockSession` and the session check of the middleware are separate steps of
a request `work[h]`: a login or a sign-out may commit between them. `texts`,
`guesses`, `logins`, `actor` are history. `ExclusiveSession` promises one holder
per account at a time, who takes over and lets go, and work only in the holder's
name; `Identity` implements it with the active session as the holder.

### Redaction

"Delete for everyone", from the author's tap to the other phone. `LockEvent`,
`LockFeed`, `CommitRedact` are `Redact`: the event row, then both accounts' feed
locks in the order of account ids, then the ledger and the next feed sequence.
The phone's `BeginDeletion`, `AskRedact`, `AnswerRedact`, `ConfirmRedaction`,
`CancelRedaction`, `CompleteRedaction` are `private-message-deletion.ts` over
the durable state. `FetchRedactions`, `ApplyRedactions`, `ListMessages`,
`Receive`, `PageDone` are one run of a synchronizer: redactions, a page of
messages, redactions again; a worker is the inbox or the history pager of an
open conversation, which `runtime.ts` gives synchronizers of their own over one
cursor. `CreateBackup`, `ReadLedger`, `ImportHistory` are `history-backup.ts`.
`ReplacePhone` is a login elsewhere, `Crash` and the `Lose...` actions are faults.
`DeletionFeed` holds the state under names of its own, so that the theorems can
stand beside those of the queues; the runs check it there too.

### The phone

Each of the modules below is one component of `src/apps/mobile/src`. An action
ends where the code awaits something or commits; what an answer does after the
await is the next action, and a call may also end lost, refused, or in another
session. The relay is what the component sees of it: a table of operations.

- `ClientSession`: `session-owner.ts`, `login-flow.ts`, `foreground-session.ts`,
  `sync-scheduler.ts` and the binding of the encryption in `runtime.ts`. The
  server appears as the tokens it accepts.
- `ServiceCall`: one call of the nine kinds of request in the `api.ts` files,
  retried under its operation; `asked`, `acted`, `refused` and `told` remember
  what happened on either side. A request that the service refused is refused
  again when it is retried: the reasons (a block, a cancelled operation) do not
  pass while a call is retried.
- `AccountStores`: `friends-flow.ts`, `circle-list.ts`,
  `circle-invitations.ts`, `saved-circle-updates.ts`, `history-store.ts`. They
  differ in whether a second read is refused or drops the first, which is kept.
- `InboxSync`: `inbox-sync.ts`, `receive.ts`, `identity-review.ts` over one
  history; a delivery is whose keys it names and which session it was written in.
- `EncryptedHistory`: `encrypted-history.native.ts`. The journal in the secure
  store names the active generation and the one before; the files are separate.
- `MediaDraft`: `upload-vault.ts`, `upload.ts` and the six editors, each with the
  message it sends and how it gives up.
- `PhoneOutbox`: `account-sender.ts`, `send.ts`, `outbox-sync.ts`,
  `profile-recovery.ts`, with the allocation of a peer's one-time key. A round
  tries the records that its list held at its beginning (`outbox-sync.ts:11`), and
  is begun only by a synchronisation whose inbox returned (`runtime.ts:179`).
- `NowPlaying`: `settings.ts`, `lifecycle.ts`, `fanout.ts`, `payload.ts`.
- `HistoryBackup`: `history-backup.ts`, `drive-backup.ts`,
  `pending-backup-vault.ts`, `drive-api.ts`, `local-backup.ts`.
- `ProfileSharing`: `private-profile-flow.ts`, its photo store and publisher.
- `CircleSharing`: `circle-creation.ts` with its vault, `circle-details.ts`,
  `circle-avatar.ts`, `circle-invite-selection.ts`. The invitations of a new Circle
  are a read of its members (`ReadMembers`) and one request for each who is to be
  invited (`InviteGuest`), between which anything may happen.
- `CircleCollection`: the publisher, the loader, the refresh and the snapshots of
  a Circle's stickers. Every encryption of a picture has an identity, as it has its
  own key and media descriptor, so that two publications of one epoch and revision
  differ when the pictures were encrypted twice, and a reader that finds both is in
  conflict. `bound` says whether the publication vault is opened with the binding
  that its publisher writes; it never changes, and `phone_shares` explores both. The
  app's wiring is FALSE (section 6); with TRUE the code behind the vault is reached.
  One account publishes throughout.
- `Moments`: the publishers of a phone and what each phone computes from the
  messages it has, in its own order.
- `ChatPreferences`: `conversation-preferences.ts`, its queue, the opt-in screen
  and the service's copy of the muted conversations. `MaxEntries` is the number of
  conversations that `parse` reads (1000): a value with more is read, and written, as
  none. `Restore` puts back what a backup holds. A conversation in `Private` has the
  name the chat list gives it, which the request to the service does not take. Pins
  and archives take the same path as mutes and are not told apart from them, and
  the limit of 64,000 characters is a write that fails.

`PhoneReceives`, `PhoneSends` and `PhoneShares` compose them. The components
share no state that is modelled (what one needs of another, such as the outbox
or the session, is in it already), so their interleavings would only multiply:
a behaviour picks a `part` and looks at that one, the others rest in their
initial state. One component's module is extended, so that its theorem speaks of
the very definition that is checked; the others are instantiated, with variables
of equal name renamed.

## 4. Runs

| Run | What it shows | Instance |
|---|---|---|
| `delivery_safety` | no cursor skips a late commit; a refusal is final; a receipt follows the durable commit | two messages, sender and reader, two membership intervals, one abort, one crash |
| `delivery_log` | the relay implements `RecipientLog`; sends end; deliveries are dealt with | two messages, three members, one reader, pages of one row, one crash |
| `fence_fates` | one final outcome per operation, reads fenced, claimed media kept, deleted media gone, cleanup ends | a chat and a profile sharing an object id, two contents, two workers, two phones, one outlived upload |
| `circle_membership` | one admin, exact count, an audience per epoch, an operation acts once or never and on what was shown; a cancellation is answered | three accounts, capacity two, epochs to seven, one guarded operation |
| `push_alerts` | outbox and device rows agree; an event alerts once, once more for each acceptance answered as a failure and for each fault, and never more often than attempts and faults; late answers spare live tokens; the outbox drains | one account, two tokens, two dispatchers, one event, a private and a Circle conversation, two generations, two attempts, one fault |
| `identity_sessions` | one phone at a time; codes bounded; work in order; implements `ExclusiveSession` | one number, two devices, two challenges, two handlers, two wrong codes, two generations |
| `redaction_inbox` | with one synchronizer: deleted stays deleted, deletions and syncs end, a restore filters | one message each way, an archive, two phones, one fault, pages of one |
| `redaction_pages` | finding, below | an incoming message, inbox and pager |
| `phone_receives` | session, calls, lists, inbox and database: each is safe and goes on | two numbers, two tokens, two sessions, two reads at a time, one peer that reinstalls once, two messages, three generations, two mishaps |
| `phone_sends` | drafts, outbox, track and backups: neither forged nor forgotten, and settled | six editors with two operations each and two audiences, two messages of which one is a profile, two friends, two Google accounts, one or two lost answers |
| `phone_shares` | all who should see a thing see the same, and in the end the last | three profile jobs at once and two phones, three epochs of one Circle, two stickers in parts of one and both wirings of the vault, two Moments messages of two members, three conversations of which one is private, two entries |
| `draft_private` | finding, below | one private editor |

Why the bounds are enough. Two concurrent senders are what it takes to take and
commit sequences in opposite orders; pages of one row force a cursor between
them, and two intervals are a leave and a return. Two contents and a shared
object id are the least in which an upload can meet the remains of another. A
Circle of capacity two with three accounts is full, empty and contested, and
seven epochs let a member leave and return twice. Two phones are a replacement;
two dispatchers and one fault let a lease change hands once. On the phone, three
jobs at once are two that waited for the same third; two reads are one that
overtakes the other; three generations are an import, its confirmation and
another import; two messages are one that fails for ever and one behind it; two
parts of a snapshot are one that was sent and one whose answer is lost; three
conversations are one more than two entries. Faults that are
counted (`MaxFaults`, `MaxAborts`, `MaxCrashes`, `MaxLost`, `MaxFails`,
`MaxBroken`, `MaxMishaps`) are each enough to strike at any point, since every
action may be followed by one. `MaxEpoch`, `MaxAttempts` and `MaxGuesses` are
small values of limits the code has; the other `Max...` bound how often people
and peers act (logins, edits, messages, reads) and are in the guards of those
actions only.

Deadlock is not checked, because all of these systems may stop: nobody needs to
send, log in or delete anything. What must not stop is stated as liveness, and a
circular wait for locks shows there.

### Fairness

- `DeliveryQueue`: an open transaction goes on (the database grants a free lock
  and the handler continues), and the client's inbox run is repeated; a crash is
  bounded. Nobody has to send.
- `OperationFence`: `RunCleanup` loops for as long as the server runs, with a
  backoff that has no end; a worker goes on with what it claimed. Faults stop
  some day. No client has to act.
- `Circles`: a client that asked for a cancellation repeats the request until it
  is answered, so the server gets it and the answer arrives.
- `PushOutbox`: the dispatcher runs each five seconds, delays and abandoned
  leases end, an open Send commits.
- `Redaction`: the database goes on; an open app synchronizes every five seconds
  and retries begun deletions first; faults are bounded.
- The phone's components: a request ends, since each has a timeout (15 seconds
  for the API's); a timer that is set goes off; the synchroniser of an open app
  runs every five seconds; a job that is queued is taken; and an app that left the
  front returns or is opened again. What a synchronisation starts differs. The
  profile fanout stands in its `finally` (`runtime.ts:183`), so that `ProfileSharing`
  and `CircleSharing` assume it. The outbox round comes after the inbox in one `try`
  (`runtime.ts:179`-`:180`), and an inbox that throws skips it: `PhoneOutbox` assumes
  no round, and `OutboxTurns` says that each message has its turn if the inbox returns
  again and again (`InboxGoesOn`).
  Strong fairness is used for what the owner repeats as long as it is offered
  and other steps can take away for a while: looking at changed keys
  (`Refresh`, `ReviewStep`), giving up a draft (`Discard`), going on with a backup
  (`Upload`, `SaveKey`), resolving or refreshing a collection (`Resolve`,
  `StartRefresh`), and coming back to the front (`Resume`). Properties that need them
  speak of an owner who goes on. Nobody has to write, edit, delete, sign in or
  turn anything on.

`Identity`, and the runs without liveness, assume none.

## 5. What is proved

All for every value of the constants, with the assumptions of the modules
(`DeliveryQueueAssumption`, `IdentityAssumption`, `CirclesAssumption`,
`OperationFenceAssumption`, `PushAssumption`, `FeedAssumption`, and `ReceiveBounds`,
`SendBounds` and `SharesBounds`, which say that the bounds of the phone's components
are numbers) and nothing else; `DeletedStays` alone has one hypothesis more.

`DeliveryQueue_proofs`. `NothingIsLost` is `Spec => []NothingLost`: no inbox
cursor passes a committed delivery that is not dealt with, and a refusal is
final. It is not inductive: that the cursor is past a row says nothing about
rows that are not yet visible. The invariant `IInv` adds who holds which queue
lock (`LocksHeld`), that rows belong to sends that hold it (`RowsOwned`), that
an uncommitted row is the newest of its recipient's queue
(`UncommittedIsNewest`: the lock is held until the commit), and so what a page
covers when it is read (`PageVisible`, `PageCovers`) and stays covering.
`PublicationOrder` is `UncommittedIsNewest` seen over a step. `LogImplemented` is the
refinement: `DeliveryQueue` implements `RecipientLog`. A message's place in the log is
the number of visible messages up to its sequence; the places are the numbers from
one to the length (`PlacesTaken`, an injection of a finite set into one of its size), and
because the uncommitted row is the newest a commit leaves every place taken before
it as it was (`AppendedLog`). A cursor never goes back because a run is never behind
it (`PageAhead`), and every other step is a stutter.

The same module has the theorems about `Redaction`, through `DeletionFeed`.
`ServerAlwaysDecides`: a copy goes only when the server has redacted the message, since a
saved answer that says so is right (`AnswersTrue`) and a page in hand lies within the
feed, which only grows (`PagesBehind`, `FeedGrows`); a restore imports when what
was redacted at its beginning is within the part it has read (`RestoreCovers`).
`OwnStaysDeleted`: an own message that was named cannot be composed again, because who
composed it has it or its tombstone, and whoever did not cannot have sent it (`Composed`).
Both hold with any number of synchronizers. `DeletedStays` is the whole of `StaysDeleted`
and assumes that the inbox is the only one, as it is while no conversation is open:
nothing is named between the listing of a page and its end (`ReadGone`). With a second
one that is false, as the finding below shows.

`Identity_proofs`. `OnePhoneAtATime`, `CodesBounded`, `WorkInOrder`, together
`Logins`, and `Refinement` (`Identity` implements `ExclusiveSession`). `IInv` adds
that a login past its checks holds a ready challenge nobody else has
(`Checked`), what the histories have to do with the rows (`Remembered`), and that
no work is of a later generation than its account (`ActorBounded`).

`Circles_proofs`. `OneDecides`, `CountIsRight` (together `Membership`),
`Truthful`, `AudienceOfEpoch` and `ActsAsShown` (together `Audiences`). The
Circle's own part of the invariant is inductive as it stands, because the row
lock makes every transaction atomic: a count of one makes the leaver the only
member, and an admin's removal or handoff revokes what the former admin had
pending. What needs strengthening is `ActsAsShown`: a request names an epoch,
and `Saved` says that as long as the Circle is still at that epoch its audience
is the one that was shown, which every step keeps because epochs only grow and
an epoch names one audience.

`OperationFence_proofs`. `OneFate`, `CancelledUnreadable` (together `FateHolds`),
`StorageFollowsRows`, `Final`. `IInv` says what each lock is for: the account row
keeps the generation of every open transaction (`Current`), the operation lock
keeps what the transaction found undecided (`StillUndecided`), and the object
lock lets one upload of an object run, which finds no claim or its own
(`OneUpload`). With `CleanedIffCancelled` an open upload and a cleanup of the same
object exclude each other, and that is why storage, which no transaction covers,
still holds what was stored until the claim commits (`StoredStays`) and what was
claimed ever after (`UncleanedKept`), and nothing once a worker has deleted it
(`ErasedGone`), however many workers think that they hold the lease.

`PushOutbox_proofs`. `AlertsAlwaysFit` is `Spec => []AlertsFit`, and `LiveTokensStay`
the action half of `OutboxServes`. What makes an event alert twice is a dispatcher
whose lease lapses while Expo works, or an acceptance that was answered as a failure
and retried, so `PushInv` counts: an attempt that was paid for is settled, in
somebody's hand, or cost a fault (`AttemptsPaid`), and the alerts of an event
together with the ones that may still come are at most one more than the faults and
the acceptances nobody heard of (`AlertsPaid`). Since each of those took an attempt,
the alerts are never more than the attempts and the faults (`AlertsBounded`). It also says whose a carried job is
(`Matching`, `SendsCurrent`), that nothing is alerted before its event is
committed (`NothingEarly`), and that an answer which condemns a token condemns a
dead one (`AnswersTrue`), which is why a late answer cannot hit the phone's new
token. `PushAssumption` takes the dispatchers to be finitely many: they are
processes, and the proof counts them.

`PhoneReceives_proofs`. One invariant per component, kept while another component
is looked at because it then stands still (`PhoneAlways`).
`SessionSafe`: `SessionInv` says in each step of the session owner which tokens the
server still accepts, which account the encryption was opened for, and what a
call that waits will find. `AnswersAreCurrent`: `CallInv` says that an answer on
its way is true when it was given for the operation asked, and that the codes the
app makes up itself (a timeout, a page that is no answer) are never refusals;
`StoreInv` says that a read which is still allowed to show itself was made for
the account and the revision that the list is at. `NothingSkipped` and
`TrustIsReviewed`: `InboxInv` says what the page in hand, the deliveries taken from it
and the cursor have to do with each other at each of the synchroniser's steps,
and which keys the panel has read. `OpenIsWhole`: that the app is ready with a file
says nothing of the file, so `HistoryInv` adds what the journal may name while the
app is at each step, what the files hold that it names, which numbers were drawn,
and what the app remembers across its awaits: a staged generation is no one's
until the switch has been written, and the one before is deleted only after the
app has started.

`PhoneSends_proofs`, in the same way (`SendsAlways`). `DraftIntact`: `MediaInv` links the
steps of a call to what the pointer, the file and the sealed message hold then.
`DraftKept`: of a call that is about to drop the pointer, `Answered` says that the server has
committed or cancelled the operation, or that the draft was never offered; no list of steps
clears a draft but after a delivery, after an answered cancellation, or when nothing was
attempted (`MediaLists`).
`OutboxTrue`: `OutboxInv` says that a key which was given out is named after its
message, once per name, that the relay's own record only goes onwards, and that
queue, rows and answers are of known messages; a filtered queue is described by
what it holds, since the definition of a filter is recursive. `UpdatesInOrder`:
`PlayInv` says that a friend has seen the first of the updates, in order, that only the
last one may still wait, and that what is marked as sent has been seen. `BackupsKept`: `BackupInv` has a part for
Drive (`DriveSound`), for the pending pointer and file (`VaultSound`), and for each step
of `Creating`, `Uploads`, `Restores` and of what is then `Reported`: above all, that the
upload session in hand is of the archive that is pending, in the account that it
was made for.

`PhoneShares_proofs` (`SharesAlways`). `CirclesShared`: `SharingInv` says that the profiles
a phone makes are numbered and follow one that the relay had (`OutboxShape`), that one
of them waits at a time (`OneWaits`), which is what keeps an update from being written
past an answer that was lost, and that a creation is saved for as long as it runs
(`CreationKept`); of the personal profile, `ProfileInv` bounds the revision that anything
stored, shown or sent can have by the edits and mishaps so far (`Reach`).
`CollectionTrue`: that no reader finds a conflict rests on the publisher alone, since
pictures encrypted twice differ, and `CollectionInv` is two conjunctions. `Plain` is
about the changes: what is shared has one change per revision and is added by one
operation only (`Shared`, `Counts`), and a task in hand is of the revision that it
began at, which may have passed (`Task`). `Published` is about the snapshots: what was
sent is in the log and a part there is one the phone wrote (`Logged`, `Begun`); for an
epoch and a revision there is one publication, and each of its parts is written once
(`OnePublication`), although the pictures may have been encrypted several times before it
was saved. What keeps this is that while the vault holds nothing every publication
that was begun is whole (`Finished`), that a refresh uploads only where nothing was
published (`Uploading`), and that what it writes is its own (`Publishing`).
So the parts that are all there are a whole (`PartsAreWhole`), and what a
reader shows is the collection of the service (`ShowsTheTruth`).
`TimelinesAgree`: `MomentInv` says that what a phone counts as sent the relay has
(`SentArrived`), so that two phones that have read the relay to its end know the same
messages (`LevelKnows`), and the timeline is a function of those. `ChoicesKept`: the
invariant adds to it that a choice that waits, and a request that travels, is of this
phone's conversations. It speaks of choices up to the limit, whatever the limit is:
`overfull` remembers that a value passed it.

Facts about concrete sequences (a page, a queue, the fanout) that the library
proves by induction over an operator parameter are proved here from the least
element of a set of positions (`NatLessThanWellFounded`), or from what `Append`,
`Tail` and `SubSeq` do to each index.

Only model-checked: all liveness, which the prover cannot reach. Every invariant and
every action property that a run checks is a theorem, alone or, in `FateLasts` and
`OutboxServes`, as the half that `Final` and `LiveTokensStay` state; of `StaysDeleted`
the part about received messages needs the hypothesis of `DeletedStays`.

## 6. Findings

- `redaction_pages`: the inbox and an open conversation's history pager
  synchronize at once over one redaction cursor. The pager applies a redaction
  to a message the inbox has fetched and not yet received; an incoming message
  leaves no tombstone, the inbox receives it, and its closing synchronization
  starts behind the redaction. The message stays.
- `draft_private`: the private editors bind a draft to the account binding, and
  the vault they are given answers with the fingerprint it was opened with
  (`private-moment-vault.ts:20`). After a restart the draft can be neither retried nor
  cancelled, and blocks the next one, although
  `plans/2026-10-14-private-chat-moments.md:29` wants the retry to reuse it and
  `:62` to clear it only when it is settled.

### Documented, and not so

The following formulas are kept beside the definitions they speak of, with the
constants of the run of their module unless others are given. They state what a
document or a comment says; TLC refutes each, and no run checks them.

| Formula | Said by | Refuted by |
|---|---|---|
| `CancelledMediaDeleted` (`OperationFence`) | discarding deletes the media even if the upload's answer was an error (`operation-bound-media-cleanup`) | `media/service.go:129`: storage is written before the claim commits, and a commit that fails leaves no row to clean up by |
| `RevokedNotClaimed` (`PushOutbox`) | nothing is pushed for a revoked generation (`push-notifications`) | `dispatcher.go:79`: a job is compared with the device row, which stays until the new phone registers |
| `MutedFiltered` (`PushOutbox`) | muted conversations are filtered (`push-notifications.md:3`) | `device.go:14`, `expo.go:48`: a Circle's mute is spelt `circle:<id>`, its events carry the bare id |
| `SignOutRevokes` (`ClientSession`; `Numbers` two, `MaxTokens` 2, `MaxLost` 1, `MaxBroken` 1) | signing out revokes the session (`identity-service.md:23`, `project-status.md:49`) | `session-owner.ts:70`: the phone forgets the token when the request fails |
| `FriendsSeeLatest` (`ProfileSharing`; one call, one epoch) | friend surfaces show the latest profile received (`private-profiles.md:5`) | `private-profile.ts:51`: a new phone starts at a revision that friends have seen in conflict or passed |
| `HistoryArchives` (`HistoryBackup`) | the whole history is archived (`message-relay.md:94`, `mvp-design.md:186`) | `history-backup.ts:111`: one record of a kind it does not know refuses the archive |
| `InboxDelivers` (`InboxSync`; `PageSize` 2, `MaxMessages` 2, `MaxPhones` 1, `MaxFails` 0, `MaxSeen` 2) | every delivery reaches the history (`mvp-design.md:156`, `message-relay.md:63`) | `inbox-sync.ts:19`: one message that cannot be decrypted stops the ones behind it |
| `ReactionsAgree` (`Moments`; two members, one epoch, three messages, one lost, `Editors` {1}) | all members see the same reactions (`circle-moments.md:60`) | `circle-moment-reactions.ts:43`: the last one known wins, and phones know them in different orders |
| `RefreshFinishes` (`CircleCollection`; two epochs, one revision, one sticker, `PartSize` 1, no mishaps) | the refresh that is offered publishes the collection for who joined (`circle-collections.md:138`) | `runtime.ts:403`: the vault is opened with a digest of the account and the Circle, the publisher writes the account's binding (`collection-snapshot-publisher.ts:57`), and no publication is accepted |
| `NothingUndone` (`ChatPreferences`; `MaxEntries` 2, three conversations, three choices, no faults) | preferences persist, and individual changes are kept (`project-status.md:67`, `conversation-preferences.test.mjs:16`) | `conversation-preferences.ts:72`: a value of more entries than `parse` reads (line 18) is written as none |
| `MutesMirrored` (`ChatPreferences`, fair; one conversation, private, one choice, one toggle, no faults) | the service is told the muted conversations (`push-notifications.md:9`) | `conversation-list.ts:66` and `notifications/api.ts:3`: the chat list's name of a private conversation is refused, with the whole list |

In the initial states `bound` is either; TLC's counterexample to `RefreshFinishes` has FALSE,
the app's, and with TRUE alone the formula holds.

## 7. What is not modelled

Encryption, signatures, canonical encodings and the Olm ratchet (an envelope is
a value, and a ratchet key is used once); HTTP decoding and status codes; limits
that only refuse; `Status`, `History` and other reads, except where a decision
rests on them; wording, layout and screens, except where a screen's own state
decides what is asked (the identity panel, the backup panels, the opt-in for
alerts). In `DeliveryQueue` a client can receive every message it is given: what a
message that cannot be decrypted does to the inbox is in `InboxSync`. Of a Circle's
collection one account publishes snapshots; an admin who hands over halfway, and the
conflict of two publishers (`collection-snapshot.ts:109`), are not modelled. Time is "due or not", "expired or not". The database is taken to do
what PostgreSQL documents at READ COMMITTED: row locks, advisory locks, unique
indexes, and a snapshot per statement, which `DeliveryQueue` models where a
statement's snapshot and its lock differ (`Acknowledge`).

Friends, the pool of one-time keys, reports, and the lock order of all services
have no module; section 2 says which come next. The native state is taken at its
word, one call one commit: its file is replaced atomically under one mutex, and
its capacities are not modelled. Two components of the phone never act on each
other inside one behaviour, because what they share (the sender's queue, the
session, the history) is in each component that depends on it.
