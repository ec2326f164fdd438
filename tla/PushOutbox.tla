----------------------------- MODULE PushOutbox -----------------------------
(***************************************************************************)
(* Push notifications: the registered device of each account, the durable  *)
(* outbox that message creation fills, and the dispatchers that lease its  *)
(* jobs, call Expo outside any transaction and record the answer.          *)
(*                                                                         *)
(* Requests of a revoked session are refused and change nothing, so the    *)
(* device handlers act with the account's current generation.  An event    *)
(* has one recipient here; in a Circle every recipient gets such a job.    *)
(* Clock readings are abstracted to "due or not".                          *)
(***************************************************************************)
EXTENDS Naturals, FiniteSets

CONSTANTS
    Accounts, Tokens, Workers,
    Events,         \* message events that may alert somebody
    Private,        \* private conversations
    Circle,         \* Circle conversations
    MaxGeneration,  \* bound on phone replacements
    MaxAttempts,    \* maxAttempts, 8 in the code
    MaxFaults       \* bound on dispatcher stops and on lapsed leases

ASSUME PushAssumption ==
    /\ MaxGeneration \in Nat \ {0}
    /\ MaxAttempts \in Nat \ {0}
    /\ MaxFaults \in Nat
    /\ IsFiniteSet(Workers)

VARIABLES
    gen,      \* auth_accounts: gen[a], the account's generation
    device,   \* notification_devices: device[a]
    tx,       \* tx[e]: the transaction that creates event e
    job,      \* notification_outbox: job[e]
    batch,    \* batch[w]: the claimed items w has not sent yet
    hand,     \* hand[w]: the item w has an answer for
    dead,     \* tokens Expo no longer delivers to
    oks,      \* oks[e]: alerts Expo accepted (history)
    unheard,  \* unheard[e]: those that were answered as failed (history)
    faults,   \* stops and lapses so far (history)
    raced     \* events whose recipient's device changed while tx was open
              \* (history)

vars == <<gen, device, tx, job, batch, hand, dead, oks, unheard, faults, raced>>

Conversations == Private \cup Circle

\* The id an event carries, and the id a mute names: a Circle's mute is the
\* prefixed "circle:<id>", its events carry the bare id.
EventKey(c) == <<"id", c>>
MuteKey(c)  == IF c \in Circle THEN <<"circle", c>> ELSE <<"id", c>>
MuteLists   == SUBSET {MuteKey(c) : c \in Conversations}

NoDevice == [gen |-> 0]
NoTx     == [status |-> "new"]
NoJob    == [attempts |-> 0, queued |-> FALSE]
NoItem   == [answer |-> "none"]

Queued(e) == job[e].queued
Held(e)   == \E w \in Workers :
                \/ \E i \in batch[w] : i.event = e
                \/ hand[w] # NoItem /\ hand[w].event = e

-----------------------------------------------------------------------------
(* The account and its device *)

\* An open send holds its recipient's account row FOR SHARE.
Verify(a) ==
    /\ gen[a] < MaxGeneration
    /\ \A e \in Events : tx[e].status = "open" => tx[e].account # a
    /\ gen' = [gen EXCEPT ![a] = @ + 1]
    /\ UNCHANGED <<device, tx, job, batch, hand, dead, oks, unheard, faults, raced>>

Racing(a) ==
    raced' = raced \cup {e \in Events : tx[e].status = "open" /\ tx[e].account = a}

JobsOf(a) == {e \in Events : Queued(e) /\ job[e].account = a}

\* The outbox without the jobs of S.
Without(S) == [e \in Events |-> IF e \in S THEN NoJob ELSE job[e]]

\* expo_token is UNIQUE: a token another account still holds is refused.
Register(a, t, muted) ==
    /\ \A b \in Accounts \ {a} : device[b] # NoDevice => device[b].token # t
    /\ device' = [device EXCEPT ![a] = [gen |-> gen[a], token |-> t, muted |-> muted]]
    /\ job' = Without({e \in JobsOf(a) : \/ job[e].gen # gen[a]
                                           \/ EventKey(job[e].conversation) \in muted})
    /\ Racing(a)
    /\ UNCHANGED <<gen, tx, batch, hand, dead, oks, unheard, faults>>

\* The row of an older generation stays, every job goes.
Unregister(a) ==
    /\ device' = IF device[a].gen = gen[a] THEN [device EXCEPT ![a] = NoDevice] ELSE device
    /\ job' = Without(JobsOf(a))
    /\ Racing(a)
    /\ UNCHANGED <<gen, tx, batch, hand, dead, oks, unheard, faults>>

\* Without a row of this generation nothing changes.
UpdatePreferences(a, muted) ==
    /\ device[a].gen = gen[a]
    /\ device' = [device EXCEPT ![a].muted = muted]
    /\ job' = Without({e \in JobsOf(a) : /\ job[e].gen = gen[a]
                                           /\ EventKey(job[e].conversation) \in muted})
    /\ Racing(a)
    /\ UNCHANGED <<gen, tx, batch, hand, dead, oks, unheard, faults>>

-----------------------------------------------------------------------------
(* Message creation *)

\* QueueRecipient reads the device row without a lock.
QueueRecipient(e, a, c) ==
    /\ tx[e] = NoTx
    /\ tx' = [tx EXCEPT ![e] =
                [status |-> "open", account |-> a, gen |-> gen[a], conversation |-> c,
                 alert |-> device[a].gen = gen[a] /\ EventKey(c) \notin device[a].muted]]
    /\ UNCHANGED <<gen, device, job, batch, hand, dead, oks, unheard, faults, raced>>

CommitSend(e) ==
    /\ tx[e].status = "open"
    /\ tx' = [tx EXCEPT ![e] = [status |-> "done"]]
    /\ job' = IF tx[e].alert
              THEN [job EXCEPT ![e] = [queued |-> TRUE, account |-> tx[e].account, gen |-> tx[e].gen,
                                       conversation |-> tx[e].conversation, attempts |-> 0, due |-> TRUE]]
              ELSE job
    /\ UNCHANGED <<gen, device, batch, hand, dead, oks, unheard, faults, raced>>

-----------------------------------------------------------------------------
(* The dispatchers *)

Ready == {e \in Events : /\ Queued(e)
                         /\ job[e].due
                         /\ device[job[e].account].gen = job[e].gen}

Items(S) == {[event |-> e, account |-> job[e].account, gen |-> job[e].gen,
              token |-> device[job[e].account].token, attempts |-> job[e].attempts + 1] : e \in S}

Idle(w) == batch[w] = {} /\ hand[w] = NoItem

\* Mutant: a claimed job stays due.
ClaimUnleased(w) ==
    /\ Idle(w)
    /\ \E S \in SUBSET Ready \ {{}} :
        /\ batch' = [batch EXCEPT ![w] = Items(S)]
        /\ job' = [e \in Events |-> IF e \in S THEN [job[e] EXCEPT !.attempts = @ + 1] ELSE job[e]]
    /\ UNCHANGED <<gen, device, tx, hand, dead, oks, unheard, faults, raced>>

\* Counts an attempt and leases for two minutes; rows another dispatcher is
\* claiming are skipped.
Claim(w) ==
    /\ Idle(w)
    /\ \E S \in SUBSET Ready \ {{}} :
        /\ batch' = [batch EXCEPT ![w] = Items(S)]
        /\ job' = [e \in Events |->
                    IF e \in S THEN [job[e] EXCEPT !.attempts = @ + 1, !.due = FALSE] ELSE job[e]]
    /\ UNCHANGED <<gen, device, tx, hand, dead, oks, unheard, faults, raced>>

\* What came of the request, in hand until the database records it.  Expo may
\* have accepted the alert although the request is answered as failed: it timed
\* out, or its ticket could not be read.
Send(w) ==
    /\ hand[w] = NoItem
    /\ \E i \in batch[w], answer \in {"ok", "failed", "not-registered"}, accepted \in BOOLEAN :
        /\ accepted => i.token \notin dead
        /\ answer = "ok" => accepted
        /\ answer = "not-registered" => i.token \in dead
        /\ batch' = [batch EXCEPT ![w] = @ \ {i}]
        /\ hand' = [hand EXCEPT ![w] = [answer |-> answer, event |-> i.event, account |-> i.account,
                                        gen |-> i.gen, token |-> i.token, attempts |-> i.attempts]]
        /\ oks' = IF accepted THEN [oks EXCEPT ![i.event] = @ + 1] ELSE oks
        /\ unheard' = IF accepted /\ answer # "ok"
                      THEN [unheard EXCEPT ![i.event] = @ + 1] ELSE unheard
    /\ UNCHANGED <<gen, device, tx, job, dead, faults, raced>>

\* Delivered, or given up.
Discard(w) ==
    LET i == hand[w] IN
    /\ \/ i.answer = "ok"
       \/ i.answer = "failed" /\ i.attempts >= MaxAttempts
    /\ job' = [job EXCEPT ![i.event] = NoJob]
    /\ hand' = [hand EXCEPT ![w] = NoItem]
    /\ UNCHANGED <<gen, device, tx, batch, dead, oks, unheard, faults, raced>>

\* Whoever holds the job by now: the update names no lease.
Retry(w) ==
    LET i == hand[w] IN
    /\ i.answer = "failed"
    /\ i.attempts < MaxAttempts
    /\ job' = IF Queued(i.event) THEN [job EXCEPT ![i.event].due = FALSE] ELSE job
    /\ hand' = [hand EXCEPT ![w] = NoItem]
    /\ UNCHANGED <<gen, device, tx, batch, dead, oks, unheard, faults, raced>>

\* Mutant: the account's row goes, whatever its token.
DropDeviceAny(w) ==
    LET i == hand[w] IN
    /\ i.answer = "not-registered"
    /\ device' = IF device[i.account].gen = i.gen
                 THEN [device EXCEPT ![i.account] = NoDevice] ELSE device
    /\ hand' = [hand EXCEPT ![w].answer = "dropped"]
    /\ UNCHANGED <<gen, tx, job, batch, dead, oks, unheard, faults, raced>>

\* The phone may have registered a new token since the claim.
DropDevice(w) ==
    LET i == hand[w] IN
    /\ i.answer = "not-registered"
    /\ device' = IF device[i.account].gen = i.gen /\ device[i.account].token = i.token
                 THEN [device EXCEPT ![i.account] = NoDevice] ELSE device
    /\ hand' = [hand EXCEPT ![w].answer = "dropped"]
    /\ UNCHANGED <<gen, tx, job, batch, dead, oks, unheard, faults, raced>>

\* A statement of its own, after the first has committed.
DropJobs(w) ==
    LET i == hand[w] IN
    /\ i.answer = "dropped"
    /\ job' = Without({e \in JobsOf(i.account) : job[e].gen = i.gen})
    /\ hand' = [hand EXCEPT ![w] = NoItem]
    /\ UNCHANGED <<gen, device, tx, batch, dead, oks, unheard, faults, raced>>

\* A statement failed or the process stopped: the rest of the batch is lost.
Stop(w) ==
    /\ ~Idle(w)
    /\ faults < MaxFaults
    /\ faults' = faults + 1
    /\ batch' = [batch EXCEPT ![w] = {}]
    /\ hand' = [hand EXCEPT ![w] = NoItem]
    /\ UNCHANGED <<gen, device, tx, job, dead, oks, unheard, raced>>

\* Time passes: a retry delay or an abandoned lease ends.
BecomeDue(e) ==
    /\ Queued(e)
    /\ ~job[e].due
    /\ ~Held(e)
    /\ job' = [job EXCEPT ![e].due = TRUE]
    /\ UNCHANGED <<gen, device, tx, batch, hand, dead, oks, unheard, faults, raced>>

\* Two minutes are shorter than a batch of 25 sends of up to 8 seconds each,
\* and the retry delay of an earlier holder replaces the lease: it may end
\* while its holder is still at work.
Lapse(e) ==
    /\ Queued(e)
    /\ ~job[e].due
    /\ Held(e)
    /\ faults < MaxFaults
    /\ faults' = faults + 1
    /\ job' = [job EXCEPT ![e].due = TRUE]
    /\ UNCHANGED <<gen, device, tx, batch, hand, dead, oks, unheard, raced>>

\* The app is removed, or its token rotates.
Retire(t) ==
    /\ t \notin dead
    /\ dead' = dead \cup {t}
    /\ UNCHANGED <<gen, device, tx, job, batch, hand, oks, unheard, faults, raced>>

-----------------------------------------------------------------------------
Init ==
    /\ gen = [a \in Accounts |-> 1]
    /\ device = [a \in Accounts |-> NoDevice]
    /\ tx = [e \in Events |-> NoTx]
    /\ job = [e \in Events |-> NoJob]
    /\ batch = [w \in Workers |-> {}]
    /\ hand = [w \in Workers |-> NoItem]
    /\ dead = {}
    /\ oks = [e \in Events |-> 0]
    /\ unheard = [e \in Events |-> 0]
    /\ faults = 0
    /\ raced = {}

Dispatch(w) ==
    \/ Claim(w) \/ Send(w) \/ Discard(w) \/ Retry(w) \/ DropDevice(w) \/ DropJobs(w)

Phone(a) ==
    \/ Verify(a)
    \/ Unregister(a)
    \/ \E muted \in MuteLists :
        \/ UpdatePreferences(a, muted)
        \/ \E t \in Tokens : Register(a, t, muted)

Next ==
    \/ \E a \in Accounts : Phone(a)
    \/ \E e \in Events, a \in Accounts, c \in Conversations : QueueRecipient(e, a, c)
    \/ \E e \in Events : CommitSend(e) \/ BecomeDue(e) \/ Lapse(e)
    \/ \E w \in Workers : Dispatch(w) \/ Stop(w)
    \/ \E t \in Tokens : Retire(t)

Spec == Init /\ [][Next]_vars

\* Every dispatcher runs each five seconds and time passes.
FairSpec ==
    /\ Spec
    /\ \A w \in Workers : WF_vars(Dispatch(w))
    /\ \A e \in Events : WF_vars(BecomeDue(e)) /\ WF_vars(CommitSend(e))
-----------------------------------------------------------------------------
(* Properties *)

Generations == 1..MaxGeneration
Device == [gen : Generations, token : Tokens, muted : MuteLists]
Tx == [status : {"open"}, account : Accounts, gen : Generations,
       conversation : Conversations, alert : BOOLEAN]
Attempts == 0..(MaxAttempts + MaxFaults)
Job == [queued : {TRUE}, account : Accounts, gen : Generations,
        conversation : Conversations, attempts : Attempts, due : BOOLEAN]
Item == [event : Events, account : Accounts, gen : Generations,
         token : Tokens, attempts : Attempts]
Answered == [answer : {"ok", "failed", "not-registered", "dropped"}, event : Events,
             account : Accounts, gen : Generations, token : Tokens, attempts : Attempts]

\* The tables and the dispatchers' memory hold what the columns allow; the
\* attempts of a job never pass the limit plus the leases lost to a stop or to
\* a slow batch.
TypeOK ==
    /\ gen \in [Accounts -> Generations]
    /\ device \in [Accounts -> Device \cup {NoDevice}]
    /\ tx \in [Events -> Tx \cup {NoTx, [status |-> "done"]}]
    /\ job \in [Events -> Job \cup {NoJob}]
    /\ batch \in [Workers -> SUBSET Item]
    /\ hand \in [Workers -> Answered \cup {NoItem}]
    /\ dead \subseteq Tokens
    /\ oks \in [Events -> Nat]
    /\ unheard \in [Events -> Nat]
    /\ faults \in 0..MaxFaults
    /\ raced \subseteq Events

\* Once the phone of the current generation has registered, the outbox holds
\* no job of an earlier phone: Register deletes them, and the recipient lock
\* of Send keeps a late commit from adding one.
OneGeneration ==
    \A e \in Events :
        Queued(e) /\ device[job[e].account].gen = gen[job[e].account]
            => job[e].gen = gen[job[e].account]

\* A job for a private conversation its recipient has muted was queued by a
\* transaction that had read the device before the mute and committed after:
\* Register and UpdatePreferences remove every job they can see.
MutedOnlyByRace ==
    \A e \in Events :
        /\ Queued(e)
        /\ device[job[e].account].gen = job[e].gen
        /\ EventKey(job[e].conversation) \in device[job[e].account].muted
        => e \in raced

\* What waits in the outbox is meant for the phone that would be alerted.
OutboxFitsDevice == OneGeneration /\ MutedOnlyByRace

\* The lease is what keeps two dispatchers from alerting twice: every alert of an
\* event after its first has a cause, an accepted alert that was answered as
\* failed, a stop after it, or a lease that ran out.
NoSpareAlert == \A e \in Events : oks[e] <= 1 + unheard[e] + faults

\* However the answers are lost, an event costs no more alerts than the attempts
\* a job has, and one for each fault.
AlertsBounded == \A e \in Events : oks[e] <= MaxAttempts + faults

\* Alerts are for the phone that is registered, and no more than the events, the
\* lost answers and the faults account for.
AlertsFit == TypeOK /\ OutboxFitsDevice /\ NoSpareAlert /\ AlertsBounded

\* A token Expo still delivers to loses its row only to its own account's
\* requests, never to a late answer about the token it replaced.
LiveTokenKept ==
    [][\A w \in Workers, a \in Accounts :
        DropDevice(w) /\ device[a] # NoDevice /\ device[a].token \notin dead
            => device'[a] = device[a]]_vars

\* Documented: "discards jobs for revoked generations".  The claim compares a
\* job with the device row only, and the old phone's row stays until the new
\* phone registers.
RevokedNotClaimed ==
    [][\A e \in Events : Queued(e) /\ job'[e].attempts > job[e].attempts
            => job[e].gen = gen[job[e].account]]_vars

\* Documented: "muted conversations are filtered before push delivery".
MutedFiltered ==
    [][\A e \in Events : tx[e] = NoTx /\ tx'[e] # NoTx /\ tx'[e].alert
            => MuteKey(tx'[e].conversation) \notin device[tx'[e].account].muted]_vars

\* A queued job whose device stays registered does not stay for ever: it is
\* delivered, given up, or its device goes.
Drains ==
    \A e \in Events :
        (Queued(e) /\ device[job[e].account].gen = job[e].gen)
            ~> ~(Queued(e) /\ device[job[e].account].gen = job[e].gen)

\* A phone that stays registered is served: no late answer about another token takes
\* its row, and its jobs do not wait for ever.
OutboxServes == LiveTokenKept /\ Drains
=============================================================================
