----------------------------- MODULE Redaction -----------------------------
(***************************************************************************)
(* "Delete for everyone": the server's redaction of a message, the feed    *)
(* each account reads its redactions from, and one account's phone, which  *)
(* deletes messages of its own, erases what the feed names, receives       *)
(* messages meanwhile, and restores old archives.                          *)
(*                                                                         *)
(* Redact locks the event row, then the feeds of the author and of the     *)
(* recipients in the order of their account ids; what it writes then is    *)
(* seen when it commits, and is written in the committing step.            *)
(* Every native call of the phone is one commit of its durable state.  A   *)
(* worker is a synchronizer with a redaction synchronizer of its own: the  *)
(* inbox, or the history pager of an open conversation.                    *)
(***************************************************************************)
EXTENDS Naturals, Sequences, FiniteSets

CONSTANTS
    Mine,       \* messages this account sends
    Theirs,     \* messages its peer sends to it
    Me, Peer,   \* the two accounts
    Order,      \* both accounts, in the order of their ids
    Workers,    \* the synchronizers that run on the phone
    Inbox,      \* the one that is the inbox
    PageSize,   \* redactions in a page
    Archives,   \* whether backups are made and restored
    MaxPhones,  \* bound: phones the account uses in turn
    MaxFaults,  \* bound: crashes, failed transactions, lost requests
    Nobody      \* no holder of a lock

RedactionBounds ==
    /\ Mine \cap Theirs = {}
    /\ Nobody \notin Mine \cup Theirs
    /\ Me # Peer
    /\ Order \in {<<Me, Peer>>, <<Peer, Me>>}
    /\ Inbox \in Workers
    /\ PageSize \in Nat \ {0}
    /\ Archives \in BOOLEAN
    /\ MaxPhones \in Nat \ {0}
    /\ MaxFaults \in Nat

Messages == Mine \cup Theirs
Accounts == {Me, Peer}

VARIABLES
    events,     \* messages with a message_events row
    log,        \* this phone's rows of message_deliveries, in sequence
    open,       \* messages whose event row a Redact has locked
    holder,     \* holder[a]: message whose Redact holds a's feed lock
    feed,       \* feed[a]: message_redaction_feed of a, in sequence
    phone,      \* the account's current phone, 1..MaxPhones
    madeOn,     \* madeOn[m]: phone that composed m, 0 when none has
    outbox,     \* outbox[m]: "none", "queued", or "sent" when it has a receipt
    history,    \* received messages
    opened,     \* messages whose ratchet key was used
    archive,    \* messages imported from an archive
    deletion,   \* deletion[m]: entry of m in pending_redactions
    tombs,      \* redacted_operations
    seen,       \* redaction_cursor, as a position of feed[Me]
    inbox,      \* inbox_cursor, as a position of log
    backup,     \* messages in the saved archive
    sending,    \* outgoing messages with a send request in flight
    call,       \* call[m]: state of the phone's redact request for m
    worker,     \* worker[w]: a synchronizer's run
    restore,    \* the restore in progress
    faults      \* faults so far

serverVars  == <<events, log, open, holder, feed>>
messageVars == <<outbox, history, opened, archive, tombs>>
phoneVars   == <<phone, madeOn, messageVars, deletion, seen, inbox>>
requestVars == <<sending, call>>
runVars     == <<worker, restore>>
vars == <<serverVars, phoneVars, backup, requestVars, runVars, faults>>

Redacted == {feed[Me][i] : i \in DOMAIN feed[Me]}
NoRun     == [at |-> "idle", round |-> 1, from |-> 0, to |-> 0, items |-> {}]
NoRestore == [at |-> "idle", from |-> 0, before |-> {}]

-----------------------------------------------------------------------------
(* The server *)

\* Redact past its checks: the author's own event, in chat, not yet redacted.
LockEvent(m) ==
    /\ m \in events \ (Redacted \cup open)
    /\ open' = open \cup {m}
    /\ UNCHANGED <<events, log, holder, feed>>

\* The author's feed before the recipient's, whoever they are.
AuthorFirst(m) == IF m \in Mine THEN <<Me, Peer>> ELSE <<Peer, Me>>
LockFeedUnsorted(m) ==
    \E i \in DOMAIN Order :
        LET turns == AuthorFirst(m) IN
        /\ m \in open
        /\ holder[turns[i]] = Nobody
        /\ \A j \in 1..(i - 1) : holder[turns[j]] = m
        /\ holder' = [holder EXCEPT ![turns[i]] = m]
        /\ UNCHANGED <<events, log, open, feed, phoneVars, backup, requestVars, runVars, faults>>

LockFeed(m) ==
    \E i \in DOMAIN Order :
        /\ m \in open
        /\ holder[Order[i]] = Nobody
        /\ \A j \in 1..(i - 1) : holder[Order[j]] = m
        /\ holder' = [holder EXCEPT ![Order[i]] = m]
        /\ UNCHANGED <<events, log, open, feed, phoneVars, backup, requestVars, runVars, faults>>

Unlocked(m) == [a \in Accounts |-> IF holder[a] = m THEN Nobody ELSE holder[a]]

\* The ledger entry, the next sequence of every feed, and the emptied rows.
CommitRedact(m) ==
    /\ m \in open
    /\ \A a \in Accounts : holder[a] = m
    /\ feed' = [a \in Accounts |-> Append(feed[a], m)]
    /\ open' = open \ {m}
    /\ holder' = Unlocked(m)
    /\ UNCHANGED <<events, log, phoneVars, backup, requestVars, runVars, faults>>

AbortRedact(m) ==
    /\ m \in open
    /\ faults < MaxFaults
    /\ faults' = faults + 1
    /\ open' = open \ {m}
    /\ holder' = Unlocked(m)
    /\ call' = IF m \in Mine /\ call[m] = "asked" THEN [call EXCEPT ![m] = "idle"] ELSE call
    /\ UNCHANGED <<events, log, feed, phoneVars, backup, sending, runVars>>

\* The peer sends a message, and later deletes it from a phone of its own.
PeerSend(m) ==
    /\ m \in Theirs \ events
    /\ events' = events \cup {m}
    /\ log' = Append(log, m)
    /\ UNCHANGED <<open, holder, feed, phoneVars, backup, requestVars, runVars, faults>>

PeerRedact(m) ==
    /\ m \in Theirs
    /\ LockEvent(m)
    /\ UNCHANGED <<phoneVars, backup, requestVars, runVars, faults>>

-----------------------------------------------------------------------------
(* Sending *)

\* Request::Send: a new message, or one this phone composed and lost sight of.
Draft(m) ==
    /\ m \in Mine
    /\ madeOn[m] \in {0, phone}
    /\ outbox[m] = "none"
    /\ m \notin tombs
    /\ deletion[m] # "begun"
    /\ madeOn' = [madeOn EXCEPT ![m] = phone]
    /\ outbox' = [outbox EXCEPT ![m] = "queued"]
    /\ UNCHANGED <<serverVars, phone, history, opened, archive, tombs, deletion, seen, inbox, backup, requestVars, runVars, faults>>

\* Request::Retry, then the upload: the message is in flight.
Upload(m) ==
    /\ m \in Mine \ sending
    /\ outbox[m] = "queued"
    /\ m \notin tombs
    /\ deletion[m] # "begun"
    /\ sending' = sending \cup {m}
    /\ UNCHANGED <<serverVars, phoneVars, backup, call, runVars, faults>>

\* The sender is among the recipients.
AcceptEcho(m) ==
    /\ m \in sending \ events
    /\ events' = events \cup {m}
    /\ log' = Append(log, m)
    /\ UNCHANGED <<open, holder, feed, phoneVars, backup, requestVars, runVars, faults>>

\* An event exists once: a second arrival is answered from the first.
Accept(m) ==
    /\ m \in sending \ events
    /\ events' = events \cup {m}
    /\ UNCHANGED <<log, open, holder, feed, phoneVars, backup, requestVars, runVars, faults>>

\* The receipt arrives; of a redacted event the server sends none.
ConfirmSend(m) ==
    /\ m \in sending \cap events
    /\ sending' = sending \ {m}
    /\ outbox' = IF outbox[m] = "queued" /\ m \notin tombs \cup Redacted
                 THEN [outbox EXCEPT ![m] = "sent"] ELSE outbox
    /\ UNCHANGED <<serverVars, phone, madeOn, history, opened, archive, tombs, deletion, seen, inbox, backup, call, runVars, faults>>

LoseSend(m) ==
    /\ m \in sending
    /\ faults < MaxFaults
    /\ faults' = faults + 1
    /\ sending' = sending \ {m}
    /\ UNCHANGED <<serverVars, phoneVars, backup, call, runVars>>

-----------------------------------------------------------------------------
(* Erasing and deleting *)

\* Erased without a tombstone.
EraseForgetful(ms) ==
    /\ outbox' = [m \in Mine |-> IF m \in ms THEN "none" ELSE outbox[m]]
    /\ history' = history \ ms
    /\ archive' = archive \ ms
    /\ UNCHANGED <<opened, tombs>>

\* apply_one_redaction, for every message of ms.  A tombstone is kept for
\* outgoing messages the phone had.
Erase(ms) ==
    /\ tombs' = tombs \cup {m \in ms \cap Mine : outbox[m] # "none" \/ m \in archive}
    /\ outbox' = [m \in Mine |-> IF m \in ms THEN "none" ELSE outbox[m]]
    /\ history' = history \ ms
    /\ archive' = archive \ ms
    /\ UNCHANGED opened

\* The copy goes with the tap, before the server has answered.
BeginEagerDeletion(m) ==
    /\ deletion[m] = "none"
    /\ outbox[m] = "sent" \/ m \in archive
    /\ deletion' = [deletion EXCEPT ![m] = "begun"]
    /\ Erase({m})
    /\ UNCHANGED <<serverVars, phone, madeOn, seen, inbox, backup, requestVars, runVars, faults>>

\* delete() of a message on the screen: queued ones offer no deletion.
BeginDeletion(m) ==
    /\ deletion[m] = "none"
    /\ outbox[m] = "sent" \/ m \in archive
    /\ deletion' = [deletion EXCEPT ![m] = "begun"]
    /\ UNCHANGED <<serverVars, phone, madeOn, messageVars, seen, inbox, backup, requestVars, runVars, faults>>

\* delete() and retry(): the request for a begun deletion.
AskRedact(m) ==
    /\ deletion[m] = "begun"
    /\ call[m] = "idle"
    /\ call' = [call EXCEPT ![m] = "asked"]
    /\ UNCHANGED <<serverVars, phoneVars, backup, sending, runVars, faults>>

ServeRedact(m) ==
    /\ call[m] = "asked"
    /\ LockEvent(m)
    /\ UNCHANGED <<phoneVars, backup, requestVars, runVars, faults>>

\* The answer is the redaction when the event is redacted, by this request or
\* by an earlier one, and DENIED when there is no such event.
AnswerRedact(m) ==
    /\ call[m] = "asked"
    /\ m \notin open
    /\ m \in Redacted \/ m \notin events
    /\ call' = [call EXCEPT ![m] = IF m \in Redacted THEN "redacted" ELSE "denied"]
    /\ UNCHANGED <<serverVars, phoneVars, backup, sending, runVars, faults>>

ConfirmRedaction(m) ==
    /\ call[m] = "redacted"
    /\ call' = [call EXCEPT ![m] = "idle"]
    /\ deletion' = [deletion EXCEPT ![m] = "confirmed"]
    /\ Erase({m})
    /\ UNCHANGED <<serverVars, phone, madeOn, seen, inbox, backup, sending, runVars, faults>>

CancelRedaction(m) ==
    /\ call[m] = "denied"
    /\ call' = [call EXCEPT ![m] = "idle"]
    /\ deletion' = [deletion EXCEPT ![m] = "none"]
    /\ UNCHANGED <<serverVars, phone, madeOn, messageVars, seen, inbox, backup, sending, runVars, faults>>

\* The notice went out, or cannot: the entry is dropped.
CompleteRedaction(m) ==
    /\ deletion[m] = "confirmed"
    /\ deletion' = [deletion EXCEPT ![m] = "none"]
    /\ UNCHANGED <<serverVars, phone, madeOn, messageVars, seen, inbox, backup, requestVars, runVars, faults>>

LoseRedact(m) ==
    /\ call[m] # "idle"
    /\ faults < MaxFaults
    /\ faults' = faults + 1
    /\ call' = [call EXCEPT ![m] = "idle"]
    /\ UNCHANGED <<serverVars, phoneVars, backup, sending, runVars>>

-----------------------------------------------------------------------------
(* Synchronizing: redactions, a page of messages, redactions again *)

Set(w, run) == worker' = [worker EXCEPT ![w] = run]
Page(cursor) == IF Len(feed[Me]) < cursor + PageSize THEN Len(feed[Me]) ELSE cursor + PageSize
OnPage(from, to) == {feed[Me][i] : i \in (from + 1)..to}

\* The cursor is read and the page asked for; a cursor that moved in between
\* would be refused below like one that moves later.
FetchRedactions(w) ==
    /\ worker[w].at \in {"idle", "again"}
    /\ Set(w, [NoRun EXCEPT !.at = "apply", !.from = seen, !.to = Page(seen),
                            !.round = IF worker[w].at = "again" THEN 2 ELSE 1])
    /\ UNCHANGED <<serverVars, phoneVars, backup, requestVars, restore, faults>>

NextStep(run) == IF run.round = 1 THEN [NoRun EXCEPT !.at = "list"] ELSE NoRun

\* A page that names nothing the phone has does not count.
ApplyKnown(w) ==
    LET run  == worker[w]
        page == OnPage(run.from, run.to)
    IN  /\ run.at = "apply"
        /\ run.from = seen
        /\ seen' = IF page \cap (history \cup archive) = {} THEN seen ELSE run.to
        /\ Erase(page)
        /\ Set(w, NextStep(run))
        /\ UNCHANGED <<serverVars, phone, madeOn, deletion, inbox, backup, requestVars, restore, faults>>

\* The page and the cursor are one commit.  When another worker has moved the
\* cursor, OPERATION_CONFLICT ends the run.
ApplyRedactions(w) ==
    LET run == worker[w] IN
    /\ run.at = "apply"
    /\ IF run.from = seen
       THEN /\ seen' = run.to
            /\ Erase(OnPage(run.from, run.to))
            /\ Set(w, NextStep(run))
       ELSE /\ Set(w, NoRun)
            /\ UNCHANGED <<seen, messageVars>>
    /\ UNCHANGED <<serverVars, phone, madeOn, deletion, inbox, backup, requestVars, restore, faults>>

\* The inbox asks for what follows its cursor, the pager for all that is kept.
\* The cursor of the page is that of its last row.
ListMessages(w) ==
    LET after == IF w = Inbox THEN inbox ELSE 0
        rows  == {i \in DOMAIN log : i > after /\ log[i] \notin Redacted}
    IN  /\ worker[w].at = "list"
        /\ \E last \in rows \cup {after} :
            /\ \A i \in rows : i <= last
            /\ Set(w, [worker[w] EXCEPT !.at = "receive", !.items = rows, !.to = last])
        /\ UNCHANGED <<serverVars, phoneVars, backup, requestVars, restore, faults>>

\* The next row of the page.  A message received before is skipped; one that
\* was received and erased since cannot be opened again, and CRYPTO_REJECTED
\* ends the run.
Receive(w) ==
    LET run == worker[w] IN
    /\ run.at = "receive"
    /\ \E i \in run.items :
        /\ \A j \in run.items : i <= j
        /\ history' = IF log[i] \in opened THEN history ELSE history \cup {log[i]}
        /\ opened' = opened \cup {log[i]}
        /\ Set(w, IF log[i] \in opened \ history THEN NoRun ELSE [run EXCEPT !.items = @ \ {i}])
    /\ UNCHANGED <<serverVars, phone, madeOn, outbox, archive, tombs, deletion, seen, inbox, backup, requestVars, restore, faults>>

PageDone(w) ==
    /\ worker[w].at = "receive"
    /\ worker[w].items = {}
    /\ inbox' = IF w = Inbox THEN worker[w].to ELSE inbox
    /\ Set(w, [NoRun EXCEPT !.at = "again"])
    /\ UNCHANGED <<serverVars, phone, madeOn, messageVars, deletion, seen, backup, requestVars, restore, faults>>

LoseRun(w) ==
    /\ worker[w].at # "idle"
    /\ faults < MaxFaults
    /\ faults' = faults + 1
    /\ Set(w, NoRun)
    /\ UNCHANGED <<serverVars, phoneVars, backup, requestVars, restore>>

-----------------------------------------------------------------------------
(* Archives, crashes, replacement phones *)

Pending == {m \in Mine : deletion[m] = "begun"}

\* ExportHistory, saved as the account's archive; one is enough to be old.
CreateBackup ==
    /\ Archives
    /\ backup = {}
    /\ backup' = (history \cup archive \cup {m \in Mine : outbox[m] # "none"}) \ (Pending \cup tombs)
    /\ UNCHANGED <<serverVars, phoneVars, requestVars, runVars, faults>>

StartRestore ==
    /\ Archives
    /\ backup # {}
    /\ restore.at = "idle"
    /\ restore' = [at |-> "reading", from |-> 0, before |-> Redacted]
    /\ UNCHANGED <<serverVars, phoneVars, backup, requestVars, worker, faults>>

\* readRedactions stops at the first page, although more follow.
ReadOnePage ==
    /\ restore.at = "reading"
    /\ restore' = [restore EXCEPT !.from = Page(restore.from), !.at = "importing"]
    /\ UNCHANGED <<serverVars, phoneVars, backup, requestVars, worker, faults>>

ReadLedger ==
    LET next == Page(restore.from) IN
    /\ restore.at = "reading"
    /\ restore' = [restore EXCEPT !.from = next,
                                  !.at = IF next < Len(feed[Me]) THEN "reading" ELSE "importing"]
    /\ UNCHANGED <<serverVars, phoneVars, backup, requestVars, worker, faults>>

ImportHistory ==
    /\ restore.at = "importing"
    /\ archive' = archive \cup (backup \ (OnPage(0, restore.from) \cup tombs \cup Pending))
    /\ restore' = NoRestore
    /\ UNCHANGED <<serverVars, phone, madeOn, outbox, history, opened, tombs, deletion, seen, inbox, backup, requestVars, worker, faults>>

Idle ==
    /\ sending' = {}
    /\ call' = [m \in Mine |-> "idle"]
    /\ worker' = [w \in Workers |-> NoRun]
    /\ restore' = NoRestore

Crash ==
    /\ faults < MaxFaults
    /\ faults' = faults + 1
    /\ Idle
    /\ UNCHANGED <<serverVars, phoneVars, backup>>

\* A login on another phone: new keys, a new generation, an empty state.
ReplacePhone ==
    /\ phone < MaxPhones
    /\ phone' = phone + 1
    /\ log' = <<>>
    /\ outbox' = [m \in Mine |-> "none"]
    /\ history' = {}
    /\ opened' = {}
    /\ archive' = {}
    /\ deletion' = [m \in Mine |-> "none"]
    /\ tombs' = {}
    /\ seen' = 0
    /\ inbox' = 0
    /\ Idle
    /\ UNCHANGED <<events, open, holder, feed, madeOn, backup, faults>>

-----------------------------------------------------------------------------
Init ==
    /\ events = {} /\ log = <<>> /\ open = {}
    /\ holder = [a \in Accounts |-> Nobody]
    /\ feed = [a \in Accounts |-> <<>>]
    /\ phone = 1
    /\ madeOn = [m \in Mine |-> 0]
    /\ outbox = [m \in Mine |-> "none"]
    /\ history = {} /\ opened = {} /\ archive = {} /\ tombs = {}
    /\ deletion = [m \in Mine |-> "none"]
    /\ seen = 0 /\ inbox = 0 /\ backup = {}
    /\ sending = {}
    /\ call = [m \in Mine |-> "idle"]
    /\ worker = [w \in Workers |-> NoRun]
    /\ restore = NoRestore
    /\ faults = 0

Redacting(m) == LockFeed(m) \/ CommitRedact(m)
Deleting(m) == AskRedact(m) \/ ServeRedact(m) \/ AnswerRedact(m) \/ ConfirmRedaction(m) \/ CancelRedaction(m) \/ CompleteRedaction(m)
Syncing(w) ==
    \/ FetchRedactions(w) \/ ApplyRedactions(w)
    \/ ListMessages(w) \/ Receive(w) \/ PageDone(w)

Next ==
    \/ \E m \in Messages : Redacting(m) \/ AbortRedact(m)
    \/ \E m \in Theirs : PeerSend(m) \/ PeerRedact(m)
    \/ \E m \in Mine :
        \/ Draft(m) \/ Upload(m) \/ Accept(m) \/ ConfirmSend(m) \/ LoseSend(m)
        \/ BeginDeletion(m) \/ Deleting(m) \/ LoseRedact(m)
    \/ \E w \in Workers : Syncing(w) \/ LoseRun(w)
    \/ CreateBackup \/ StartRestore \/ ReadLedger \/ ImportHistory
    \/ Crash \/ ReplacePhone

Spec == Init /\ [][Next]_vars

\* The database and its transactions go on by themselves.  The phone syncs
\* every five seconds while it is open, retrying begun deletions first.
Fairness ==
    /\ \A m \in Messages : WF_vars(Redacting(m))
    /\ \A m \in Mine : WF_vars(Deleting(m))
    /\ WF_vars(Syncing(Inbox))

FairSpec == Spec /\ Fairness

-----------------------------------------------------------------------------
(* Correctness *)

\* Every table, the phone's state and every run in progress has its type.
TypeOK ==
    /\ events \in SUBSET Messages
    /\ log \in Seq(Theirs)
    /\ open \in SUBSET Messages
    /\ holder \in [Accounts -> Messages \cup {Nobody}]
    /\ feed \in [Accounts -> Seq(Messages)]
    /\ phone \in 1..MaxPhones
    /\ madeOn \in [Mine -> 0..MaxPhones]
    /\ outbox \in [Mine -> {"none", "queued", "sent"}]
    /\ history \in SUBSET Theirs
    /\ opened \in SUBSET Theirs
    /\ archive \in SUBSET Messages
    /\ deletion \in [Mine -> {"none", "begun", "confirmed"}]
    /\ tombs \in SUBSET Mine
    /\ seen \in Nat /\ inbox \in Nat
    /\ backup \in SUBSET Messages
    /\ sending \in SUBSET Mine
    /\ call \in [Mine -> {"idle", "asked", "redacted", "denied"}]
    /\ worker \in [Workers -> [at : {"idle", "apply", "list", "receive", "again"},
                               round : 1..2, from : Nat, to : Nat, items : SUBSET Nat]]
    /\ restore \in [at : {"idle", "reading", "importing"}, from : Nat, before : SUBSET Messages]
    /\ faults \in 0..MaxFaults

\* A message the phone was told is deleted is not among those it received, or
\* sent and keeps for retry: no page that was under way, and no retry of its
\* operation, brings it back.
StaysDeleted ==
    \A m \in OnPage(0, seen) :
        /\ m \notin history
        /\ m \in Mine => outbox[m] = "none"

\* The phone gives up its copy of an own message only when the server has
\* redacted it, or when the phone itself is replaced: whatever becomes of the
\* request, a message that others still see can be deleted again.
ServerFirst ==
    [][\A m \in Mine :
        /\ outbox[m] # "none" \/ m \in archive
        /\ outbox'[m] = "none" /\ m \notin archive'
        /\ phone' = phone
        => m \in Redacted]_vars

\* A restore imports nothing that was redacted before it began, however many
\* pages the ledger has and whatever is redacted meanwhile.
RestoreFilters ==
    [][(restore.at = "importing" /\ phone' = phone)
        => (archive' \ archive) \cap restore.before = {}]_vars

\* Neither a deletion nor a restore runs ahead of what the server has decided.
ServerDecides == []TypeOK /\ ServerFirst /\ RestoreFilters

\* A begun deletion ends: confirmed and announced, or refused and taken back,
\* also when both people delete each other's messages at once.
DeletionSettles == \A m \in Mine : deletion[m] = "begun" ~> deletion[m] = "none"

\* Once a message is redacted, a phone that syncs is told, and then by
\* StaysDeleted has lost its copy for good.
SyncErases == \A m \in Theirs : m \in Redacted ~> m \in OnPage(0, seen)

\* A deletion ends on the phone that asks for it, and on the phone it concerns.
DeletionsEnd == DeletionSettles /\ SyncErases
=============================================================================
