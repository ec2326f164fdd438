--------------------------- MODULE DeliveryQueue ---------------------------
(***************************************************************************)
(* The message relay of the API server, for one circle conversation:       *)
(* concurrent Send transactions that allocate delivery sequences, the      *)
(* cursor-paged Inbox with its separate grant transactions, receipts and   *)
(* redaction, and the mobile client's inbox synchroniser on the other end. *)
(*                                                                         *)
(* One message is one envelope with its operation id; the operation lock   *)
(* lets at most one transaction of it run, so a message is its own process.*)
(* Sequences come from one identity column shared by every recipient:      *)
(* a number is consumed by an insert even when the transaction aborts, and *)
(* a row is visible only after the commit.                                 *)
(***************************************************************************)
EXTENDS Naturals, FiniteSets

CONSTANTS
    Messages,      \* envelopes offered to the relay, one operation each
    Accounts,      \* account ids; naturals because queues are locked in order
    NoMessage,     \* holder of a queue lock nobody holds
    Sender,        \* Sender[m]: the account that sends m
    Readers,       \* accounts whose client synchronises its inbox
    PageLimit,     \* largest inbox page
    MaxIntervals,  \* bound: membership intervals one account goes through
    MaxAborts,     \* bound: transactions lost before they commit
    MaxCrashes     \* bound: inbox runs lost to a crash, timeout or lost reply

ASSUME DeliveryQueueAssumption ==
    /\ IsFiniteSet(Messages)
    /\ Accounts \subseteq Nat
    /\ NoMessage \notin Messages
    /\ Sender \in [Messages -> Accounts]
    /\ Readers \subseteq Accounts
    /\ PageLimit \in Nat \ {0}
    /\ MaxIntervals \in Nat \ {0}
    /\ MaxAborts \in Nat
    /\ MaxCrashes \in Nat

VARIABLES
    \* message_events and message_deliveries, and the open Send transactions
    state,      \* state[m]: where the Send of m is
    rcpt,       \* rcpt[m]: recipients bound by the context m was checked against
    row,        \* row[m][r]: sequence of m's delivery row for r, 0 when none
    stamp,      \* stamp[m][r]: membership interval saved in that row
    holder,     \* holder[r]: transaction holding r's delivery-queue lock
    next,       \* next value of the identity sequence
    redacted,   \* messages whose event has redacted_at
    delivered,  \* <<m, r>> whose delivery has delivered_at
    \* circle_memberships
    member,     \* accounts with an open interval
    interval,   \* interval[r]: r's latest interval
    \* one inbox run of each client, and the client's durable state
    phase,      \* phase[r]: where r's run is, one of Phases
    pending,    \* pending[r]: rows of the page not yet granted
    items,      \* items[r]: rows granted and not yet received
    top,        \* top[r]: page cursor, as a sequence
    cursor,     \* cursor[r]: the client's durable inbox cursor
    history,    \* history[r]: messages in the client's durable history
    refused,    \* refused[r]: messages a grant transaction refused to r
    aborts, crashes

txVars     == <<state, rcpt, row, stamp, holder, next>>
circleVars == <<member, interval>>
runVars    == <<phase, pending, items, top>>
clientVars == <<cursor, history, refused>>
vars == <<txVars, redacted, delivered, circleVars, runVars, clientVars,
          aborts, crashes>>

-----------------------------------------------------------------------------
(* Send: services/api/internal/messages/send.go *)

Open(m) == state[m] \in {"locking", "inserting"}

\* Rows a reader can see: those of committed transactions.
Visible(m, r) == state[m] = "committed" /\ row[m][r] # 0

NoRows == [r \in Accounts |-> 0]

\* The context of the envelope is derived under share locks and compared with
\* it; a sender outside the circle is denied, and so is an envelope without a
\* recipient.  The recipients are the other members, each bound to its current
\* interval.
Begin(m) ==
    /\ state[m] = "new"
    /\ Sender[m] \in member
    /\ member \ {Sender[m]} # {}
    /\ state' = [state EXCEPT ![m] = "locking"]
    /\ rcpt' = [rcpt EXCEPT ![m] = member \ {Sender[m]}]
    /\ stamp' = [stamp EXCEPT ![m] = interval]
    /\ UNCHANGED <<row, holder, next, redacted, delivered, circleVars,
                   runVars, clientVars, aborts, crashes>>

\* Mutant: the queues are locked in the order of the envelope, not sorted.
NextQueueUnsorted(m, r) == r \in rcpt[m] /\ holder[r] # m

\* The recipient whose queue the sorted loop locks next.
NextQueue(m, r) ==
    /\ r \in rcpt[m]
    /\ holder[r] # m
    /\ \A q \in rcpt[m] : q < r => holder[q] = m

\* Mutant: the queue lock does not exclude another transaction.
LockQueueShared(m, r) ==
    /\ state[m] = "locking"
    /\ NextQueue(m, r)
    /\ holder' = [holder EXCEPT ![r] = m]
    /\ UNCHANGED <<state, rcpt, row, stamp, next, redacted, delivered,
                   circleVars, runVars, clientVars, aborts, crashes>>

LockQueue(m, r) ==
    /\ state[m] = "locking"
    /\ NextQueue(m, r)
    /\ holder[r] = NoMessage
    /\ holder' = [holder EXCEPT ![r] = m]
    /\ UNCHANGED <<state, rcpt, row, stamp, next, redacted, delivered,
                   circleVars, runVars, clientVars, aborts, crashes>>

\* The event row, once every queue is held.
InsertEvent(m) ==
    /\ state[m] = "locking"
    /\ \A r \in rcpt[m] : holder[r] = m
    /\ state' = [state EXCEPT ![m] = "inserting"]
    /\ UNCHANGED <<rcpt, row, stamp, holder, next, redacted, delivered,
                   circleVars, runVars, clientVars, aborts, crashes>>

\* Mutant: the row takes a sequence that is handed out again.
InsertDeliveryReused(m, r) ==
    /\ state[m] = "inserting"
    /\ r \in rcpt[m]
    /\ row[m][r] = 0
    /\ row' = [row EXCEPT ![m][r] = next]
    /\ UNCHANGED <<state, rcpt, stamp, holder, next, redacted, delivered,
                   circleVars, runVars, clientVars, aborts, crashes>>

\* One delivery row, in the order of the envelope's recipients (any order).
InsertDelivery(m, r) ==
    /\ state[m] = "inserting"
    /\ r \in rcpt[m]
    /\ row[m][r] = 0
    /\ row' = [row EXCEPT ![m][r] = next]
    /\ next' = next + 1
    /\ UNCHANGED <<state, rcpt, stamp, holder, redacted, delivered,
                   circleVars, runVars, clientVars, aborts, crashes>>

\* Advisory transaction locks go with the transaction.
Unlocked(m) == [r \in Accounts |-> IF holder[r] = m THEN NoMessage ELSE holder[r]]

CommitSend(m) ==
    /\ state[m] = "inserting"
    /\ \A r \in rcpt[m] : row[m][r] # 0
    /\ state' = [state EXCEPT ![m] = "committed"]
    /\ holder' = Unlocked(m)
    /\ UNCHANGED <<rcpt, row, stamp, next, redacted, delivered, circleVars,
                   runVars, clientVars, aborts, crashes>>

\* A lost connection or a cancelled request rolls the transaction back; the
\* sequence numbers it took are not given back.  The client may send again.
AbortSend(m) ==
    /\ Open(m)
    /\ aborts < MaxAborts
    /\ aborts' = aborts + 1
    /\ state' = [state EXCEPT ![m] = "new"]
    /\ rcpt' = [rcpt EXCEPT ![m] = {}]
    /\ row' = [row EXCEPT ![m] = NoRows]
    /\ stamp' = [stamp EXCEPT ![m] = NoRows]
    /\ holder' = Unlocked(m)
    /\ UNCHANGED <<next, redacted, delivered, circleVars, runVars, clientVars,
                   crashes>>

-----------------------------------------------------------------------------
(* Membership: the circle row is locked FOR UPDATE by a change of members   *)
(* and FOR SHARE by an open Send, so neither happens during the other.      *)

CircleFree == \A m \in Messages : ~Open(m)

Leave(r) ==
    /\ CircleFree
    /\ r \in member
    /\ member' = member \ {r}
    /\ UNCHANGED <<txVars, redacted, delivered, interval, runVars, clientVars,
                   aborts, crashes>>

\* Mutant: coming back reopens the old interval.
RejoinReopened(r) ==
    /\ CircleFree
    /\ member # {}
    /\ r \notin member
    /\ member' = member \cup {r}
    /\ UNCHANGED <<txVars, redacted, delivered, interval, runVars, clientVars,
                   aborts, crashes>>

\* A new interval for an account that was invited again by a member (a circle
\* closes with its last member).
Rejoin(r) ==
    /\ CircleFree
    /\ member # {}
    /\ r \notin member
    /\ interval[r] < MaxIntervals
    /\ member' = member \cup {r}
    /\ interval' = [interval EXCEPT ![r] = @ + 1]
    /\ UNCHANGED <<txVars, redacted, delivered, runVars, clientVars, aborts,
                   crashes>>

-----------------------------------------------------------------------------
(* Redact: services/api/internal/messages/redactions.go, the event only.    *)

Redact(m) ==
    /\ state[m] = "committed"
    /\ m \notin redacted
    /\ redacted' = redacted \cup {m}
    /\ UNCHANGED <<txVars, delivered, circleVars, runVars, clientVars, aborts,
                   crashes>>

-----------------------------------------------------------------------------
(* Inbox: services/api/internal/messages/inbox.go                           *)

\* Mutant: redacted events stay in the inbox.
AfterWithRedacted(r, c) == {m \in Messages : Visible(m, r) /\ row[m][r] > c}

\* Rows after the cursor, redacted events left out.
After(r, c) ==
    {m \in Messages : Visible(m, r) /\ row[m][r] > c /\ m \notin redacted}

\* The first PageLimit of them by sequence.
Page(r) ==
    {m \in After(r, cursor[r]) :
        Cardinality({n \in After(r, cursor[r]) : row[n][r] < row[m][r]})
            < PageLimit}

First(S, r, m) == m \in S /\ \A n \in S : row[m][r] <= row[n][r]

ReadPage(r) ==
    /\ phase[r] = "idle"
    /\ Page(r) # {}
    /\ phase' = [phase EXCEPT ![r] = "granting"]
    /\ pending' = [pending EXCEPT ![r] = Page(r)]
    /\ top' = [top EXCEPT ![r] = cursor[r]]
    /\ UNCHANGED <<txVars, redacted, delivered, circleVars, items, clientVars,
                   aborts, crashes>>

\* deliveryAllowed: the reader is a member now, under the interval the row
\* was addressed to.
Allowed(m, r) == r \in member /\ stamp[m][r] = interval[r]

\* One grant transaction per row, in sequence order; the page cursor moves
\* over a refused row too.
Grant(r) ==
    /\ phase[r] = "granting"
    /\ \E m \in Messages :
        /\ First(pending[r], r, m)
        /\ pending' = [pending EXCEPT ![r] = @ \ {m}]
        /\ top' = [top EXCEPT ![r] = row[m][r]]
        /\ \/ /\ Allowed(m, r)
              /\ items' = [items EXCEPT ![r] = @ \cup {m}]
              /\ UNCHANGED refused
           \/ /\ ~Allowed(m, r)
              /\ refused' = [refused EXCEPT ![r] = @ \cup {m}]
              /\ UNCHANGED items
    /\ UNCHANGED <<txVars, redacted, delivered, circleVars, phase, cursor,
                   history, aborts, crashes>>

Reply(r) ==
    /\ phase[r] = "granting"
    /\ pending[r] = {}
    /\ phase' = [phase EXCEPT ![r] = "receiving"]
    /\ UNCHANGED <<txVars, redacted, delivered, circleVars, pending, items,
                   top, clientVars, aborts, crashes>>

-----------------------------------------------------------------------------
(* The client's inbox run: features/messages/inbox-sync.ts and receive.ts   *)

\* Mutant: the receipt is sent before the durable commit.
ReceiveUnsaved(r) ==
    /\ phase[r] = "receiving"
    /\ items[r] # {}
    /\ phase' = [phase EXCEPT ![r] = "acknowledging"]
    /\ UNCHANGED <<txVars, redacted, delivered, circleVars, pending, items,
                   top, clientVars, aborts, crashes>>

\* The delivery is committed to the durable history before its receipt is sent.
Receive(r) ==
    /\ phase[r] = "receiving"
    /\ \E m \in Messages :
        /\ First(items[r], r, m)
        /\ history' = [history EXCEPT ![r] = @ \cup {m}]
    /\ phase' = [phase EXCEPT ![r] = "acknowledging"]
    /\ UNCHANGED <<txVars, redacted, delivered, circleVars, pending, items,
                   top, cursor, refused, aborts, crashes>>

\* Acknowledge (receipts.go) is one statement: it looks for the event that is
\* not redacted in its snapshot, and then updates the delivery row, waiting for
\* a Redact that holds it.  A redacted event is refused, which ends the run
\* before the cursor is saved.
Acknowledge(r) ==
    /\ phase[r] = "acknowledging"
    /\ \E m \in Messages :
        /\ First(items[r], r, m)
        /\ \/ /\ m \notin redacted
              /\ phase' = [phase EXCEPT ![r] = "recording"]
              /\ UNCHANGED <<items, top>>
           \/ /\ m \in redacted
              /\ items' = [items EXCEPT ![r] = {}]
              /\ phase' = [phase EXCEPT ![r] = "idle"]
              /\ top' = [top EXCEPT ![r] = 0]
    /\ UNCHANGED <<txVars, redacted, delivered, circleVars, pending, clientVars,
                   aborts, crashes>>

Record(r) ==
    /\ phase[r] = "recording"
    /\ \E m \in Messages :
        /\ First(items[r], r, m)
        /\ delivered' = delivered \cup {<<m, r>>}
        /\ items' = [items EXCEPT ![r] = @ \ {m}]
    /\ phase' = [phase EXCEPT ![r] = "receiving"]
    /\ UNCHANGED <<txVars, redacted, circleVars, pending, top, clientVars,
                   aborts, crashes>>

\* advanceInboxCursor(previous, page cursor), once every item is processed.
AdvanceCursor(r) ==
    /\ phase[r] = "receiving"
    /\ items[r] = {}
    /\ cursor' = [cursor EXCEPT ![r] = top[r]]
    /\ phase' = [phase EXCEPT ![r] = "idle"]
    /\ top' = [top EXCEPT ![r] = 0]
    /\ UNCHANGED <<txVars, redacted, delivered, circleVars, pending, items,
                   history, refused, aborts, crashes>>

\* The process dies, a request times out or a reply is lost: the run is
\* forgotten, the durable state stays.  A receipt on its way may be recorded.
Crash(r) ==
    /\ phase[r] # "idle"
    /\ crashes < MaxCrashes
    /\ crashes' = crashes + 1
    /\ \/ UNCHANGED delivered
       \/ /\ phase[r] = "recording"
          /\ \E m \in Messages :
              /\ First(items[r], r, m)
              /\ delivered' = delivered \cup {<<m, r>>}
    /\ phase' = [phase EXCEPT ![r] = "idle"]
    /\ pending' = [pending EXCEPT ![r] = {}]
    /\ items' = [items EXCEPT ![r] = {}]
    /\ top' = [top EXCEPT ![r] = 0]
    /\ UNCHANGED <<txVars, redacted, circleVars, clientVars, aborts>>

-----------------------------------------------------------------------------
Init ==
    /\ state = [m \in Messages |-> "new"]
    /\ rcpt = [m \in Messages |-> {}]
    /\ row = [m \in Messages |-> NoRows]
    /\ stamp = [m \in Messages |-> NoRows]
    /\ holder = [r \in Accounts |-> NoMessage]
    /\ next = 1
    /\ redacted = {}
    /\ delivered = {}
    /\ member = Accounts
    /\ interval = [r \in Accounts |-> 1]
    /\ phase = [r \in Accounts |-> "idle"]
    /\ pending = [r \in Accounts |-> {}]
    /\ items = [r \in Accounts |-> {}]
    /\ top = [r \in Accounts |-> 0]
    /\ cursor = [r \in Accounts |-> 0]
    /\ history = [r \in Accounts |-> {}]
    /\ refused = [r \in Accounts |-> {}]
    /\ aborts = 0
    /\ crashes = 0

SendStep(m) ==
    \/ \E r \in Accounts : LockQueue(m, r) \/ InsertDelivery(m, r)
    \/ InsertEvent(m)
    \/ CommitSend(m)

RunStep(r) ==
    \/ ReadPage(r)
    \/ Grant(r)
    \/ Reply(r)
    \/ Receive(r)
    \/ Acknowledge(r)
    \/ Record(r)
    \/ AdvanceCursor(r)

Next ==
    \/ \E m \in Messages : Begin(m) \/ SendStep(m) \/ AbortSend(m) \/ Redact(m)
    \/ \E r \in Accounts : Leave(r) \/ Rejoin(r)
    \/ \E r \in Readers : RunStep(r) \/ Crash(r)

Spec == Init /\ [][Next]_vars

\* An open transaction runs to its end and a client keeps synchronising; no
\* fairness for failures, membership changes, redactions or new sends.
Fairness ==
    /\ \A m \in Messages : WF_vars(SendStep(m))
    /\ \A r \in Readers : WF_vars(RunStep(r))

FairSpec == Spec /\ Fairness

-----------------------------------------------------------------------------
(* Properties *)

Phases == {"idle", "granting", "receiving", "acknowledging", "recording"}

\* The type invariant of the relay's rows, locks and client runs.
TypeOK ==
    /\ state \in [Messages -> {"new", "locking", "inserting", "committed"}]
    /\ rcpt \in [Messages -> SUBSET Accounts]
    /\ row \in [Messages -> [Accounts -> 0 .. next - 1]]
    /\ stamp \in [Messages -> [Accounts -> Nat]]
    /\ holder \in [Accounts -> Messages \cup {NoMessage}]
    /\ next \in Nat \ {0}
    /\ redacted \in SUBSET Messages
    /\ delivered \in SUBSET (Messages \X Accounts)
    /\ member \in SUBSET Accounts
    /\ interval \in [Accounts -> Nat]
    /\ phase \in [Accounts -> Phases]
    /\ pending \in [Accounts -> SUBSET Messages]
    /\ items \in [Accounts -> SUBSET Messages]
    /\ top \in [Accounts -> 0 .. next - 1]
    /\ cursor \in [Accounts -> 0 .. next - 1]
    /\ history \in [Accounts -> SUBSET Messages]
    /\ refused \in [Accounts -> SUBSET Messages]
    /\ aborts \in Nat
    /\ crashes \in Nat

\* An inbox cursor never passes a committed delivery that its owner has not
\* dealt with: every row at or below the durable cursor is in the client's
\* history, was refused by its grant, or belongs to a redacted event.  This is
\* what the queue locks of Send are for ("inbox cursors cannot skip late
\* commits").
CursorNeverSkips ==
    \A m \in Messages, r \in Accounts :
        Visible(m, r) /\ row[m][r] <= cursor[r]
            => m \in history[r] \cup refused[r] \cup redacted

\* A client that was refused a row lost it for good: the membership interval
\* the row was addressed to is over and cannot come back.
RefusalIsFinal ==
    \A m \in Messages, r \in Accounts : m \in refused[r] => ~Allowed(m, r)

\* A delivery receipt is only ever recorded for a message that is already in
\* the recipient's durable history: a crash between the two loses the receipt,
\* never the message.
ReceiptImpliesHistory ==
    \A m \in Messages, r \in Accounts : <<m, r>> \in delivered => m \in history[r]

\* So neither moving the cursor forward nor reporting a delivery loses a message.
NothingLost == CursorNeverSkips /\ RefusalIsFinal /\ ReceiptImpliesHistory

\* Per recipient, deliveries become visible in the order of their sequences,
\* although sequences are taken before the commit.
PublishedInOrder ==
    [][\A m, n \in Messages, r \in Accounts :
          Visible(n, r) /\ ~Visible(m, r) /\ Visible(m, r)'
              => row[n][r] < row'[m][r]]_vars

\* Locking the queues in account order cannot deadlock: an open Send ends.
SendTerminates == \A m \in Messages : Open(m) ~> ~Open(m)

\* Every committed delivery is eventually dealt with by a client that keeps
\* synchronising, whatever page boundaries, refusals, redactions and finitely
\* many crashes come in between.
EventuallyDealtWith ==
    \A m \in Messages, r \in Readers :
        Visible(m, r) ~> m \in history[r] \cup refused[r] \cup redacted

\* What was begun ends, for the sender and for every recipient: a send waits for
\* no other for ever, and no delivery stays in the relay alone.
EverythingEnds == SendTerminates /\ EventuallyDealtWith

=============================================================================
