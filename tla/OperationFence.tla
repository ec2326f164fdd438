--------------------------- MODULE OperationFence ---------------------------
(***************************************************************************)
(* How the server decides the fate of one account's operations: the relay  *)
(* send, the media uploads bound to the operation, its two cancellations,  *)
(* redaction, and the worker that deletes the media of cancelled           *)
(* operations from storage.                                                *)
(*                                                                         *)
(* A key <<g, op>> is an operation of one account generation.  Send, Put   *)
(* and the cancellations hold the account row FOR SHARE at their own       *)
(* generation and the advisory lock of their key, so the open transaction  *)
(* of an operation is one value.  Work done under the lock in one          *)
(* transaction that nothing else can see half of is one action; a Put has  *)
(* more, because object storage is not part of the transaction.            *)
(* A request that is refused or answered from what is saved changes        *)
(* nothing and is a stuttering step.                                       *)
(***************************************************************************)
EXTENDS Naturals, FiniteSets

CONSTANTS
    Operations,     \* operation ids
    Envelopes,      \* relay envelopes (one digest each)
    OpOf,           \* OpOf[v]: the operation id in envelope v
    Metadata,       \* envelopes of a Circle profile or collection, not chat
    Objects,        \* media object ids
    Offers,         \* <<o, op>>: o may be uploaded for op
    PrivateOps,     \* operations of private conversations
    Ciphertexts,    \* contents of an object
    Workers,        \* cleanup runs: the background loop and cancel handlers
    None,           \* no envelope, no row, no content
    MaxGeneration,  \* bound: account generations
    MaxLost         \* bound: uploads that outlive their transaction

Keys == (1..MaxGeneration) \X Operations
NoTx == [kind |-> "idle"]
Transactions ==
    {NoTx}
    \cup [kind : {"send"}, key : Keys, envelope : Envelopes]
    \cup [kind : {"put", "stored"}, key : Keys, object : Objects, body : Ciphertexts]
Rows == [key : Keys, digest : Ciphertexts]

ASSUME OperationFenceAssumption ==
    /\ OpOf \in [Envelopes -> Operations]
    /\ Metadata \subseteq Envelopes
    /\ Offers \subseteq Objects \X Operations
    /\ PrivateOps \subseteq Operations
    /\ MaxGeneration \in Nat \ {0}
    /\ MaxLost \in Nat
    /\ None \notin Envelopes \cup Ciphertexts \cup Rows

VARIABLES
    generation, \* auth_accounts.generation
    tx,         \* tx[op]: transaction holding the lock of op at this generation
    event,      \* event[k]: envelope of k's message_events row, or None
    redacted,   \* keys whose event has redacted_at
    profileTomb,\* profileTomb[k]: envelope saved in profile_operation_cancellations
    tombs,      \* keys in message_operation_cancellations
    row,        \* row[o]: claim of o in circle_ or private_media_objects, or None
    work,       \* work[o]: state of o's media_cleanup row, "none" when there is none
    blob,       \* blob[o]: content of o in object storage, or None
    late,       \* <<o, c>>: uploads still writing after their transaction is gone
    lost,       \* uploads lost that way
    claim,      \* claim[w]: objects w has claimed and not dealt with
    erased      \* erased[w]: the object w deleted and has not marked, or {}

relayVars   == <<event, redacted, profileTomb>>
storageVars == <<blob, late, lost>>
workerVars  == <<claim, erased>>
vars == <<generation, tx, relayVars, tombs, row, work, storageVars, workerVars>>

Key(op) == <<generation, op>>

AccountRedacted(op) == \E k \in redacted : k[2] = op

Cancelled(k) == k \in tombs \/ profileTomb[k] # None

-----------------------------------------------------------------------------
(* Send and the two cancellations *)

\* operationState with no saved outcome: anything else is answered from what
\* is saved, or refused.
Undecided(op) ==
    /\ event[Key(op)] = None
    /\ ~AccountRedacted(op)
    /\ profileTomb[Key(op)] = None
    /\ Key(op) \notin tombs

SendBegin(v) ==
    /\ tx[OpOf[v]] = NoTx
    /\ Undecided(OpOf[v])
    /\ tx' = [tx EXCEPT ![OpOf[v]] =
                [kind |-> "send", key |-> Key(OpOf[v]), envelope |-> v]]
    /\ UNCHANGED <<generation, relayVars, tombs, row, work, storageVars, workerVars>>

SendCommit(op) ==
    /\ tx[op].kind = "send"
    /\ event' = [event EXCEPT ![tx[op].key] = tx[op].envelope]
    /\ tx' = [tx EXCEPT ![op] = NoTx]
    /\ UNCHANGED <<generation, redacted, profileTomb, tombs, row, work,
                   storageVars, workerVars>>

\* A check that fails later in the handler, storage refusing the object, or
\* the database giving up: the transaction leaves nothing behind.
Abort(op) ==
    /\ tx[op] # NoTx
    /\ tx' = [tx EXCEPT ![op] = NoTx]
    /\ UNCHANGED <<generation, relayVars, tombs, row, work, storageVars, workerVars>>

\* Mutant: cancelling a profile does not take the operation lock.
CancelProfileUnlocked(v) ==
    /\ v \in Metadata
    /\ Undecided(OpOf[v])
    /\ profileTomb' = [profileTomb EXCEPT ![Key(OpOf[v])] = v]
    /\ UNCHANGED <<generation, tx, event, redacted, tombs, row, work,
                   storageVars, workerVars>>

CancelProfile(v) ==
    /\ v \in Metadata
    /\ tx[OpOf[v]] = NoTx
    /\ Undecided(OpOf[v])
    /\ profileTomb' = [profileTomb EXCEPT ![Key(OpOf[v])] = v]
    /\ UNCHANGED <<generation, tx, event, redacted, tombs, row, work,
                   storageVars, workerVars>>

\* Committed objects of k that have no cleanup row yet.
Unused(k) == {o \in Objects : row[o] # None /\ row[o].key = k /\ work[o] = "none"}

\* Mutant: the cancellation does not wait for the upload in progress.
CancelMediaUnlocked(op) ==
    /\ event[Key(op)] = None
    /\ tombs' = tombs \cup {Key(op)}
    /\ work' = [o \in Objects |-> IF o \in Unused(Key(op)) THEN "pending" ELSE work[o]]
    /\ UNCHANGED <<generation, tx, relayVars, row, storageVars, workerVars>>

CancelMedia(op) ==
    /\ tx[op] = NoTx
    /\ event[Key(op)] = None
    /\ tombs' = tombs \cup {Key(op)}
    /\ work' = [o \in Objects |-> IF o \in Unused(Key(op)) THEN "pending" ELSE work[o]]
    /\ UNCHANGED <<generation, tx, relayVars, row, storageVars, workerVars>>

\* The account deletes a chat message, whichever generation sent it.  Only the
\* event row is locked: a Send of the operation may be open.
Redact(k) ==
    /\ event[k] \notin Metadata \cup {None}
    /\ redacted' = redacted \cup {k}
    /\ UNCHANGED <<generation, tx, event, profileTomb, tombs, row, work,
                   storageVars, workerVars>>

\* Mutant: the account row is not held by the transactions of its sessions.
VerifyUnlocked ==
    /\ generation < MaxGeneration
    /\ generation' = generation + 1
    /\ UNCHANGED <<tx, relayVars, tombs, row, work, storageVars, workerVars>>

\* A phone signs in to the account: the FOR UPDATE of the account row waits
\* for every transaction that holds it FOR SHARE.
Verify ==
    /\ generation < MaxGeneration
    /\ \A op \in Operations : tx[op] = NoTx
    /\ generation' = generation + 1
    /\ UNCHANGED <<tx, relayVars, tombs, row, work, storageVars, workerVars>>

-----------------------------------------------------------------------------
(* Uploads *)

OpenPuts == {op \in Operations : tx[op].kind \in {"put", "stored"}}

\* The new claim, or an exact retry of a saved one.
Accepts(o, k, c) ==
    \/ /\ row[o] = None
       /\ k[2] \in PrivateOps =>
            \A p \in Objects : row[p] # None => row[p].key # k
    \/ row[o] = [key |-> k, digest |-> c]

\* Checks and the uncommitted claim; the advisory lock on the object id lets
\* one upload of it run.
PutBegin(o, op, c) ==
    /\ <<o, op>> \in Offers
    /\ tx[op] = NoTx
    /\ Key(op) \notin tombs
    /\ \A p \in OpenPuts : tx[p].object # o
    /\ Accepts(o, Key(op), c)
    /\ tx' = [tx EXCEPT ![op] =
                [kind |-> "put", key |-> Key(op), object |-> o, body |-> c]]
    /\ UNCHANGED <<generation, relayVars, tombs, row, work, storageVars, workerVars>>

\* Storage keeps the first content of an id and accepts the same one again.
Saved(o, c) == blob[o] \in {None, c}

\* storage.Put, inside the handler and outside the transaction.
Store(op) ==
    /\ tx[op].kind = "put"
    /\ Saved(tx[op].object, tx[op].body)
    /\ blob' = [blob EXCEPT ![tx[op].object] =
                    IF @ = None THEN tx[op].body ELSE @]
    /\ tx' = [tx EXCEPT ![op].kind = "stored"]
    /\ UNCHANGED <<generation, relayVars, tombs, row, work, late, lost, workerVars>>

\* Mutant: the claim is saved before the body has been hashed.
PutCommitUnhashed(op) ==
    /\ tx[op].kind = "stored"
    /\ row' = [row EXCEPT ![tx[op].object] = [key |-> tx[op].key, digest |-> None]]
    /\ tx' = [tx EXCEPT ![op] = NoTx]
    /\ UNCHANGED <<generation, relayVars, tombs, work, storageVars, workerVars>>

PutCommit(op) ==
    /\ tx[op].kind = "stored"
    /\ row' = [row EXCEPT ![tx[op].object] =
                    [key |-> tx[op].key, digest |-> tx[op].body]]
    /\ tx' = [tx EXCEPT ![op] = NoTx]
    /\ UNCHANGED <<generation, relayVars, tombs, work, storageVars, workerVars>>

\* The database drops the transaction and its locks while the handler is
\* still writing to storage.
LoseTransaction(op) ==
    /\ tx[op].kind = "put"
    /\ lost < MaxLost
    /\ lost' = lost + 1
    /\ late' = late \cup {<<tx[op].object, tx[op].body>>}
    /\ tx' = [tx EXCEPT ![op] = NoTx]
    /\ UNCHANGED <<generation, relayVars, tombs, row, work, blob, workerVars>>

LateStore(u) ==
    /\ u \in late
    /\ late' = late \ {u}
    /\ blob' = [blob EXCEPT ![u[1]] = IF @ = None THEN u[2] ELSE @]
    /\ UNCHANGED <<generation, tx, relayVars, tombs, row, work, lost, workerVars>>

-----------------------------------------------------------------------------
(* The cleanup worker: DrainCleanup *)

InState(s) == {o \in Objects : work[o] = s}

\* Mutant: only jobs never tried are claimed.
ClaimPending(w, expired) ==
    /\ claim[w] = {}
    /\ InState("pending") # {}
    /\ claim' = [claim EXCEPT ![w] = InState("pending")]
    /\ work' = [o \in Objects |-> IF o \in claim'[w] THEN "processing" ELSE work[o]]
    /\ UNCHANGED <<generation, tx, relayVars, tombs, row, storageVars, erased>>

\* Pending rows and those whose one-minute lease ran out, whoever holds them.
Claim(w, expired) ==
    /\ claim[w] = {}
    /\ expired \subseteq InState("processing")
    /\ InState("pending") \cup expired # {}
    /\ claim' = [claim EXCEPT ![w] = InState("pending") \cup expired]
    /\ work' = [o \in Objects |-> IF o \in claim'[w] THEN "processing" ELSE work[o]]
    /\ UNCHANGED <<generation, tx, relayVars, tombs, row, storageVars, erased>>

Erase(w, o) ==
    /\ o \in claim[w]
    /\ erased[w] = {}
    /\ blob' = [blob EXCEPT ![o] = None]
    /\ erased' = [erased EXCEPT ![w] = {o}]
    /\ UNCHANGED <<generation, tx, relayVars, tombs, row, work, late, lost, claim>>

\* The row of a lease somebody else finished stays as it is.
Settled(o, s) == [work EXCEPT ![o] = IF @ = "processing" THEN s ELSE @]

\* Mutant: a job is complete once storage was asked.
EraseFailsComplete(w, o) ==
    /\ o \in claim[w]
    /\ erased[w] = {}
    /\ blob' \in {blob, [blob EXCEPT ![o] = None]}
    /\ work' = Settled(o, "complete")
    /\ claim' = [claim EXCEPT ![w] = @ \ {o}]
    /\ UNCHANGED <<generation, tx, relayVars, tombs, row, late, lost, erased>>

\* Storage reports an error, the object deleted or not; the row is given back.
EraseFails(w, o) ==
    /\ o \in claim[w]
    /\ erased[w] = {}
    /\ blob' \in {blob, [blob EXCEPT ![o] = None]}
    /\ work' = Settled(o, "pending")
    /\ claim' = [claim EXCEPT ![w] = @ \ {o}]
    /\ UNCHANGED <<generation, tx, relayVars, tombs, row, late, lost, erased>>

Complete(w, o) ==
    /\ o \in erased[w]
    /\ work' = Settled(o, "complete")
    /\ claim' = [claim EXCEPT ![w] = @ \ {o}]
    /\ erased' = [erased EXCEPT ![w] = {}]
    /\ UNCHANGED <<generation, tx, relayVars, tombs, row, storageVars>>

\* The process stops, or the update that gives a row back or completes it
\* fails: the row stays "processing" until its lease runs out.
WorkerStops(w) ==
    /\ claim[w] # {}
    /\ claim' = [claim EXCEPT ![w] = {}]
    /\ erased' = [erased EXCEPT ![w] = {}]
    /\ UNCHANGED <<generation, tx, relayVars, tombs, row, work, storageVars>>

-----------------------------------------------------------------------------

Init ==
    /\ generation = 1
    /\ tx = [op \in Operations |-> NoTx]
    /\ event = [k \in Keys |-> None]
    /\ redacted = {}
    /\ profileTomb = [k \in Keys |-> None]
    /\ tombs = {}
    /\ row = [o \in Objects |-> None]
    /\ work = [o \in Objects |-> "none"]
    /\ blob = [o \in Objects |-> None]
    /\ late = {}
    /\ lost = 0
    /\ claim = [w \in Workers |-> {}]
    /\ erased = [w \in Workers |-> {}]

RelayStep ==
    \/ \E v \in Envelopes : SendBegin(v) \/ CancelProfile(v)
    \/ \E op \in Operations : SendCommit(op) \/ Abort(op) \/ CancelMedia(op)
    \/ \E k \in Keys : Redact(k)
    \/ Verify

UploadStep ==
    \/ \E o \in Objects, op \in Operations, c \in Ciphertexts : PutBegin(o, op, c)
    \/ \E op \in Operations : Store(op) \/ PutCommit(op) \/ LoseTransaction(op)
    \/ \E u \in late : LateStore(u)

WorkerStep(w) ==
    \/ \E expired \in SUBSET Objects : Claim(w, expired)
    \/ \E o \in Objects : Erase(w, o) \/ EraseFails(w, o) \/ Complete(w, o)
    \/ WorkerStops(w)

Next == RelayStep \/ UploadStep \/ \E w \in Workers : WorkerStep(w)

Fault(w) == WorkerStops(w) \/ \E o \in Objects : EraseFails(w, o)

\* RunCleanup loops for as long as the server runs: it claims what is due and
\* goes on with what it claimed.  Failures are retried with a backoff that has
\* no end, so they need only stop some day.  Nothing makes a client act.
CleanupFairness ==
    /\ <>[][~\E w \in Workers : Fault(w)]_vars
    /\ \A w \in Workers :
        /\ WF_vars(Claim(w, InState("processing")))
        /\ \A o \in Objects : WF_vars(Erase(w, o)) /\ WF_vars(Complete(w, o))

Spec == Init /\ [][Next]_vars
FairSpec == Spec /\ CleanupFairness

-----------------------------------------------------------------------------
(* Properties *)

\* An operation has one event, one saved cancellation and one open transaction
\* at most, and an object one claim, by a body that was hashed.
TypeOK ==
    /\ generation \in 1..MaxGeneration
    /\ tx \in [Operations -> Transactions]
    /\ event \in [Keys -> Envelopes \cup {None}]
    /\ redacted \subseteq Keys
    /\ profileTomb \in [Keys -> Envelopes \cup {None}]
    /\ tombs \subseteq Keys
    /\ row \in [Objects -> Rows \cup {None}]
    /\ work \in [Objects -> {"none", "pending", "processing", "complete"}]
    /\ blob \in [Objects -> Ciphertexts \cup {None}]
    /\ late \subseteq Objects \X Ciphertexts
    /\ lost \in 0..MaxLost
    /\ claim \in [Workers -> SUBSET Objects]
    /\ erased \in [Workers -> SUBSET Objects]

\* Whether an operation was sent or cancelled has one answer: no key has both
\* an event and a cancellation, in the order the transactions commit
\* (profile_cancel.go: "orders cancellation against the actual send commit").
OneWinner == \A k \in Keys : event[k] # None => ~Cancelled(k)

\* The answer is final, and it is frozen with its generation: no event appears
\* or changes and no operation is cancelled for a phone that was replaced.
StaleGenerationFrozen ==
    [][\A k \in Keys :
        /\ event[k] # None => event'[k] = event[k]
        /\ Cancelled(k) => Cancelled(k)' /\ event'[k] = None
        /\ k[1] < generation =>
              event'[k] = event[k] /\ (Cancelled(k)' => Cancelled(k))]_vars

\* Objects GetCircle and GetPrivate find a row for.
Readable(o) ==
    /\ row[o] # None
    /\ work[o] = "none"
    /\ ~AccountRedacted(row[o].key[2])

\* From the commit of a media cancellation on, no object of the operation can
\* be read: neither one uploaded before it nor one whose upload was under way.
ReadsFenced == \A o \in Objects : Readable(o) => row[o].key \notin tombs

\* So what was sent was not cancelled, and what was cancelled is not seen.
FateDecides == OneWinner /\ ReadsFenced

\* A claimed object that was not cancelled is stored with the content that was
\* claimed, whatever aborted uploads, retries and cleanup runs did; so a
\* committed event keeps its media.
ClaimedMediaKept ==
    \A o \in Objects :
        row[o] # None /\ (work[o] = "none" \/ event[row[o].key] # None) =>
            blob[o] = row[o].digest

\* A finished deletion is a deletion: stale leases, failed attempts and retried
\* uploads never leave or bring back the content of a completed object, unless
\* an upload outlived its transaction.
CompletedMediaGone ==
    \A o \in Objects : work[o] = "complete" /\ lost = 0 => blob[o] = None

\* The object store holds what the rows say, although it is written outside
\* their transactions.
StoreMatchesRows == ClaimedMediaKept /\ CompletedMediaGone

\* Queued deletions finish although workers stop and leases change hands.
CleanupFinishes ==
    \A o \in Objects : work[o] = "pending" ~> work[o] = "complete"

\* What was decided is not taken back, and is carried out.
FateLasts == StaleGenerationFrozen /\ CleanupFinishes

\* Documented, and not so: once every operation an object was uploaded for is
\* cancelled and cleanup has nothing left to do, the object is gone.
CancelledMediaDeleted ==
    \A o \in Objects :
        /\ \A pair \in Offers : pair[1] = o => \E k \in tombs : k[2] = pair[2]
        /\ work[o] \notin {"pending", "processing"}
        => blob[o] = None
=============================================================================
