------------------------ MODULE DeliveryQueue_proofs ------------------------
(***************************************************************************)
(* Theorems about the relay.  The queues of DeliveryQueue, for any number  *)
(* of messages, accounts, aborted transactions and crashed inbox runs: an  *)
(* inductive invariant, what it promises, and the log it implements.  Then *)
(* Redaction, what is deleted for everyone, for any number of messages,    *)
(* synchronizers, phones and faults.                                       *)
(***************************************************************************)
EXTENDS DeliveryQueueLog, DeletionFeed, FiniteSetTheorems, SequenceTheorems, TLAPS

-----------------------------------------------------------------------------
(* The inductive invariant *)

\* A transaction that inserts holds every queue it inserts into.
LocksHeld ==
    \A m \in Messages, r \in Accounts :
        state[m] = "inserting" /\ r \in rcpt[m] => holder[r] = m

\* Rows belong to a transaction that inserts or has committed, and no two
\* rows of a queue share a sequence.
RowsOwned ==
    /\ \A m \in Messages, r \in Accounts :
         row[m][r] # 0 => /\ r \in rcpt[m]
                          /\ state[m] \in {"inserting", "committed"}
    /\ \A m, n \in Messages, r \in Accounts :
         row[m][r] # 0 /\ row[m][r] = row[n][r] => m = n

\* An uncommitted row is newer than everything visible in its queue, and than
\* every cursor taken from that queue.
UncommittedIsNewest ==
    \A m \in Messages, r \in Accounts :
        state[m] = "inserting" /\ row[m][r] # 0 =>
            /\ cursor[r] < row[m][r]
            /\ top[r] < row[m][r]
            /\ \A n \in Messages : Visible(n, r) => row[n][r] < row[m][r]

Dealt(m, r) == m \in history[r] \cup refused[r] \cup redacted

\* The page is cut from visible rows, and an idle run has none.
PageVisible ==
    \A r \in Accounts :
        /\ \A m \in pending[r] \cup items[r] : Visible(m, r)
        /\ phase[r] # "granting" => pending[r] = {}
        /\ phase[r] = "idle" => items[r] = {} /\ top[r] = 0

\* Nothing below the page cursor is lost while the page is processed: it is
\* dealt with already or still among the granted items, and whatever lies
\* below a row not yet granted is dealt with, granted or not yet granted.
PageCovers ==
    \A r \in Accounts, m \in Messages : Visible(m, r) =>
        /\ row[m][r] <= top[r] => Dealt(m, r) \/ m \in items[r]
        /\ \A n \in pending[r] :
             row[m][r] <= row[n][r] =>
                 Dealt(m, r) \/ m \in items[r] \/ m \in pending[r]

\* While the receipt of an item is on its way the item is in the history.
AcknowledgedIsSaved ==
    \A r \in Accounts, m \in Messages :
        phase[r] \in {"acknowledging", "recording"} /\ First(items[r], r, m)
            => m \in history[r]

IInv ==
    /\ TypeOK
    /\ LocksHeld
    /\ RowsOwned
    /\ UncommittedIsNewest
    /\ PageVisible
    /\ PageCovers
    /\ AcknowledgedIsSaved
    /\ CursorNeverSkips

-----------------------------------------------------------------------------
(* Type correctness *)

\* The initial rows, locks and runs have their types.
LEMMA InitTyped == Init => TypeOK
  BY DeliveryQueueAssumption DEF Init, TypeOK, NoRows, Phases

\* Every step of a Send transaction keeps the types.
LEMMA SendTyped ==
  ASSUME TypeOK, NEW m \in Messages,
         Begin(m) \/ SendStep(m) \/ AbortSend(m) \/ Redact(m)
  PROVE  TypeOK'
  <1> USE DEF TypeOK, txVars, circleVars, runVars, clientVars
  <1>1. CASE Begin(m)
    BY <1>1 DEF Begin
  <1>2. ASSUME NEW r \in Accounts, LockQueue(m, r) PROVE TypeOK'
    BY <1>2 DEF LockQueue
  <1>3. ASSUME NEW r \in Accounts, InsertDelivery(m, r) PROVE TypeOK'
    <2>1. next' \in Nat \ {0} /\ 0 .. next - 1 \subseteq 0 .. next' - 1
          /\ next \in 0 .. next' - 1
      BY <1>3 DEF InsertDelivery
    <2>2. row' \in [Messages -> [Accounts -> 0 .. next' - 1]]
      BY <1>3, <2>1 DEF InsertDelivery
    <2>3. /\ cursor' \in [Accounts -> 0 .. next' - 1]
          /\ top' \in [Accounts -> 0 .. next' - 1]
      BY <1>3, <2>1 DEF InsertDelivery
    <2>4. QED
      BY <1>3, <2>1, <2>2, <2>3 DEF InsertDelivery
  <1>4. CASE InsertEvent(m)
    BY <1>4 DEF InsertEvent
  <1>5. CASE CommitSend(m)
    BY <1>5 DEF CommitSend, Unlocked
  <1>6. CASE AbortSend(m)
    BY <1>6 DEF AbortSend, Unlocked, NoRows
  <1>7. CASE Redact(m)
    BY <1>7 DEF Redact
  <1>8. QED
    BY <1>1, <1>2, <1>3, <1>4, <1>5, <1>6, <1>7 DEF SendStep

\* Every step of an inbox run keeps the types.
LEMMA RunTyped ==
  ASSUME TypeOK, NEW r \in Accounts, RunStep(r) \/ Crash(r)
  PROVE  TypeOK'
  <1> USE DEF TypeOK, Phases, txVars, circleVars, runVars, clientVars
  <1>1. CASE ReadPage(r)
    <2>1. Page(r) \in SUBSET Messages
      BY DEF Page, After
    <2>2. QED
      BY <1>1, <2>1 DEF ReadPage
  <1>2. CASE Grant(r)
    <2>1. PICK m \in Messages :
            /\ pending' = [pending EXCEPT ![r] = @ \ {m}]
            /\ top' = [top EXCEPT ![r] = row[m][r]]
            /\ \/ items' = [items EXCEPT ![r] = @ \cup {m}] /\ refused' = refused
               \/ refused' = [refused EXCEPT ![r] = @ \cup {m}] /\ items' = items
      BY <1>2 DEF Grant
    <2>2. row[m][r] \in 0 .. next - 1
      OBVIOUS
    <2>3. top' \in [Accounts -> 0 .. next - 1]
      BY <2>1, <2>2
    <2>4. pending' \in [Accounts -> SUBSET Messages]
      BY <2>1
    <2>5. /\ items' \in [Accounts -> SUBSET Messages]
          /\ refused' \in [Accounts -> SUBSET Messages]
      <3>1. CASE items' = [items EXCEPT ![r] = @ \cup {m}] /\ refused' = refused
        BY <3>1
      <3>2. CASE refused' = [refused EXCEPT ![r] = @ \cup {m}] /\ items' = items
        BY <3>2
      <3>3. QED
        BY <2>1, <3>1, <3>2
    <2>6. QED
      BY <1>2, <2>3, <2>4, <2>5 DEF Grant
  <1>3. CASE Reply(r)
    BY <1>3 DEF Reply
  <1>4. CASE Receive(r)
    BY <1>4 DEF Receive
  <1>5. CASE Acknowledge(r)
    <2>1. \/ /\ phase' = [phase EXCEPT ![r] = "recording"]
             /\ UNCHANGED <<items, top>>
          \/ /\ items' = [items EXCEPT ![r] = {}]
             /\ phase' = [phase EXCEPT ![r] = "idle"]
             /\ top' = [top EXCEPT ![r] = 0]
      BY <1>5 DEF Acknowledge
    <2>2. 0 \in 0 .. next - 1
      OBVIOUS
    <2>3. /\ items' \in [Accounts -> SUBSET Messages]
          /\ phase' \in [Accounts -> Phases]
          /\ top' \in [Accounts -> 0 .. next - 1]
      <3>1. CASE phase' = [phase EXCEPT ![r] = "recording"] /\ UNCHANGED <<items, top>>
        BY <3>1
      <3>2. CASE /\ items' = [items EXCEPT ![r] = {}]
                 /\ phase' = [phase EXCEPT ![r] = "idle"]
                 /\ top' = [top EXCEPT ![r] = 0]
        <4>1. items' \in [Accounts -> SUBSET Messages]
          BY <3>2
        <4>2. phase' \in [Accounts -> Phases]
          BY <3>2
        <4>3. top' \in [Accounts -> 0 .. next - 1]
          BY <2>2, <3>2
        <4>4. QED
          BY <4>1, <4>2, <4>3
      <3>3. QED
        BY <2>1, <3>1, <3>2
    <2>4. QED
      BY <1>5, <2>3 DEF Acknowledge
  <1>9. CASE Record(r)
    <2>1. PICK m \in Messages :
            /\ delivered' = delivered \cup {<<m, r>>}
            /\ items' = [items EXCEPT ![r] = @ \ {m}]
      BY <1>9 DEF Record
    <2>2. <<m, r>> \in Messages \X Accounts
      OBVIOUS
    <2>3. delivered' \in SUBSET (Messages \X Accounts)
      BY <2>1, <2>2
    <2>4. items' \in [Accounts -> SUBSET Messages]
      BY <2>1
    <2>5. QED
      BY <1>9, <2>3, <2>4 DEF Record
  <1>6. CASE AdvanceCursor(r)
    BY <1>6 DEF AdvanceCursor
  <1>7. CASE Crash(r)
    <2>1. delivered' \in SUBSET (Messages \X Accounts)
      <3>1. ASSUME NEW m \in Messages, delivered' = delivered \cup {<<m, r>>}
            PROVE  delivered' \in SUBSET (Messages \X Accounts)
        <4>1. <<m, r>> \in Messages \X Accounts
          OBVIOUS
        <4>2. QED
          BY <3>1, <4>1
      <3>2. QED
        BY <1>7, <3>1 DEF Crash
    <2>2. QED
      BY <1>7, <2>1 DEF Crash
  <1>8. QED
    BY <1>1, <1>2, <1>3, <1>4, <1>5, <1>6, <1>7, <1>9 DEF RunStep

\* Every step of the relay and its clients keeps the types.
LEMMA NextTyped == TypeOK /\ [Next]_vars => TypeOK'
  <1> SUFFICES ASSUME TypeOK, [Next]_vars PROVE TypeOK'
    OBVIOUS
  <1>1. ASSUME NEW r \in Accounts, Leave(r) \/ Rejoin(r) PROVE TypeOK'
    <2>1. /\ member' \in SUBSET Accounts
          /\ interval' \in [Accounts -> Nat]
      BY <1>1 DEF Leave, Rejoin, TypeOK
    <2>2. UNCHANGED <<txVars, redacted, delivered, runVars, clientVars, aborts,
                      crashes>>
      BY <1>1 DEF Leave, Rejoin
    <2>3. QED
      BY <2>1, <2>2 DEF TypeOK, txVars, runVars, clientVars
  <1>2. CASE UNCHANGED vars
    BY <1>2 DEF TypeOK, vars, txVars, circleVars, runVars, clientVars
  <1>3. QED
    BY <1>1, <1>2, SendTyped, RunTyped, DeliveryQueueAssumption DEF Next

-----------------------------------------------------------------------------
(* The invariant is inductive *)

\* Sequences are unique, so a page has one first row.
LEMMA FirstUnique ==
  ASSUME TypeOK, RowsOwned, NEW r \in Accounts, NEW S \in SUBSET Messages,
         \A k \in S : Visible(k, r),
         NEW m \in Messages, NEW n \in Messages, First(S, r, m), First(S, r, n)
  PROVE  m = n
  <1>1. row[m][r] \in Nat /\ row[n][r] \in Nat /\ row[m][r] # 0
    BY DEF First, Visible, TypeOK
  <1>2. row[m][r] = row[n][r]
    BY <1>1 DEF First
  <1>3. QED
    BY <1>1, <1>2 DEF RowsOwned

\* A page is a downward-closed part of the rows after the cursor.
LEMMA PageIsPrefix ==
  ASSUME TypeOK, NEW r \in Accounts, NEW m \in Page(r),
         NEW n \in After(r, cursor[r]), row[n][r] <= row[m][r]
  PROVE  n \in Page(r)
  <1> DEFINE Below(k) == {j \in After(r, cursor[r]) : row[j][r] < row[k][r]}
  <1>1. m \in Messages /\ n \in Messages
    BY DEF Page, After
  <1>2. row[m][r] \in Nat /\ row[n][r] \in Nat /\
        \A j \in Messages : row[j][r] \in Nat
    BY <1>1 DEF TypeOK
  <1>3. Below(n) \subseteq Below(m)
    BY <1>2 DEF After
  <1>4. IsFiniteSet(Below(m))
    <2>1. Below(m) \subseteq Messages
      BY DEF After
    <2>2. QED
      BY <2>1, FS_Subset, DeliveryQueueAssumption
  <1>5. /\ Cardinality(Below(n)) \in Nat
        /\ Cardinality(Below(m)) \in Nat
        /\ Cardinality(Below(n)) <= Cardinality(Below(m))
    BY <1>3, <1>4, FS_Subset, FS_CardinalityType
  <1>6. Cardinality(Below(m)) < PageLimit
    BY DEF Page
  <1>7. Cardinality(Below(n)) < PageLimit
    BY <1>5, <1>6, DeliveryQueueAssumption
  <1>8. QED
    BY <1>1, <1>7 DEF Page, After

\* Initially nothing is sent and nothing is read.
LEMMA InitInv == Init => IInv
  <1> SUFFICES ASSUME Init PROVE IInv
    OBVIOUS
  <1>1. TypeOK
    BY InitTyped
  <1>2. LocksHeld /\ RowsOwned /\ UncommittedIsNewest
    BY DEF Init, NoRows, LocksHeld, RowsOwned, UncommittedIsNewest
  <1>3. PageVisible /\ PageCovers /\ AcknowledgedIsSaved /\ CursorNeverSkips
    BY DEF Init, NoRows, PageVisible, PageCovers, AcknowledgedIsSaved,
           CursorNeverSkips, Visible
  <1>4. QED
    BY <1>1, <1>2, <1>3 DEF IInv

\* The parts about transactions survive the steps of a Send.
LEMMA SendQueues ==
  ASSUME IInv, NEW m \in Messages, Begin(m) \/ SendStep(m) \/ AbortSend(m)
  PROVE  LocksHeld' /\ RowsOwned' /\ UncommittedIsNewest'
  <1> USE DEF IInv, TypeOK
  <1>1. CASE Begin(m)
    <2>1. \A r \in Accounts : row[m][r] = 0
      BY <1>1 DEF Begin, RowsOwned
    <2>2. LocksHeld'
      BY <1>1 DEF Begin, LocksHeld
    <2>3. RowsOwned'
      BY <1>1, <2>1 DEF Begin, RowsOwned
    <2>4. UncommittedIsNewest'
      BY <1>1, <2>1 DEF Begin, UncommittedIsNewest, Visible, clientVars, runVars
    <2>5. QED
      BY <2>2, <2>3, <2>4
  <1>2. ASSUME NEW q \in Accounts, LockQueue(m, q)
        PROVE  LocksHeld' /\ RowsOwned' /\ UncommittedIsNewest'
    <2>1. LocksHeld'
      BY <1>2, DeliveryQueueAssumption DEF LockQueue, LocksHeld
    <2>2. RowsOwned'
      BY <1>2 DEF LockQueue, RowsOwned
    <2>3. UncommittedIsNewest'
      BY <1>2 DEF LockQueue, UncommittedIsNewest, Visible, clientVars, runVars
    <2>4. QED
      BY <2>1, <2>2, <2>3
  <1>3. ASSUME NEW q \in Accounts, InsertDelivery(m, q)
        PROVE  LocksHeld' /\ RowsOwned' /\ UncommittedIsNewest'
    <2>1. LocksHeld'
      BY <1>3 DEF InsertDelivery, LocksHeld
    <2>2. \A k \in Messages, r \in Accounts :
            row'[k][r] = IF k = m /\ r = q THEN next ELSE row[k][r]
      BY <1>3 DEF InsertDelivery
    <2>3. \A k \in Messages, r \in Accounts : row[k][r] \in Nat /\ row[k][r] < next
      OBVIOUS
    <2>4. RowsOwned'
      BY <1>3, <2>2, <2>3 DEF InsertDelivery, RowsOwned
    <2>5. \A r \in Accounts : cursor[r] < next /\ top[r] < next
      OBVIOUS
    <2>6. UNCHANGED <<state, cursor, top>>
      BY <1>3 DEF InsertDelivery, clientVars, runVars
    <2>7. \A k \in Messages, r \in Accounts : Visible(k, r)' <=> Visible(k, r)
      BY <1>3, <2>2, <2>6 DEF Visible, InsertDelivery
    <2>8. \A k \in Messages, r \in Accounts : Visible(k, r) => row'[k][r] = row[k][r]
      BY <1>3, <2>2 DEF Visible, InsertDelivery
    <2>9. UncommittedIsNewest'
      <3> SUFFICES ASSUME NEW k \in Messages, NEW r \in Accounts,
                          state'[k] = "inserting", row'[k][r] # 0
                   PROVE  /\ cursor'[r] < row'[k][r]
                          /\ top'[r] < row'[k][r]
                          /\ \A n \in Messages : Visible(n, r)' => row'[n][r] < row'[k][r]
        BY DEF UncommittedIsNewest
      <3>1. CASE k = m /\ r = q
        BY <3>1, <2>2, <2>3, <2>5, <2>6, <2>7, <2>8
      <3>2. CASE ~(k = m /\ r = q)
        <4>1. row'[k][r] = row[k][r] /\ row[k][r] # 0 /\ state[k] = "inserting"
          BY <3>2, <2>2, <2>6
        <4>2. QED
          BY <4>1, <2>6, <2>7, <2>8 DEF UncommittedIsNewest
      <3>3. QED
        BY <3>1, <3>2
    <2>10. QED
      BY <2>1, <2>4, <2>9
  <1>4. CASE InsertEvent(m)
    <2>1. \A r \in Accounts : row[m][r] = 0
      BY <1>4 DEF InsertEvent, RowsOwned
    <2>2. LocksHeld'
      BY <1>4 DEF InsertEvent, LocksHeld
    <2>3. RowsOwned'
      BY <1>4, <2>1 DEF InsertEvent, RowsOwned
    <2>4. UncommittedIsNewest'
      BY <1>4, <2>1 DEF InsertEvent, UncommittedIsNewest, Visible, clientVars, runVars
    <2>5. QED
      BY <2>2, <2>3, <2>4
  <1>5. CASE CommitSend(m)
    <2>1. /\ state' = [state EXCEPT ![m] = "committed"]
          /\ UNCHANGED <<rcpt, row, cursor, top>>
      BY <1>5 DEF CommitSend, clientVars, runVars
    <2>2. \A k \in Messages, r \in Accounts :
            state[k] = "inserting" /\ k # m /\ holder[r] = k => holder'[r] = k
      BY <1>5 DEF CommitSend, Unlocked
    <2>3. LocksHeld'
      BY <2>1, <2>2 DEF LocksHeld
    <2>4. RowsOwned'
      BY <1>5, <2>1 DEF CommitSend, RowsOwned
    <2>5. UncommittedIsNewest'
      <3> SUFFICES ASSUME NEW k \in Messages, NEW r \in Accounts,
                          state'[k] = "inserting", row'[k][r] # 0
                   PROVE  /\ cursor'[r] < row'[k][r]
                          /\ top'[r] < row'[k][r]
                          /\ \A n \in Messages : Visible(n, r)' => row'[n][r] < row'[k][r]
        BY DEF UncommittedIsNewest
      <3>1. k # m /\ state[k] = "inserting" /\ row[k][r] # 0
        BY <2>1
      <3>2. holder[r] = k /\ r \in rcpt[k]
        BY <3>1 DEF LocksHeld, RowsOwned
      <3>3. row[m][r] = 0
        BY <1>5, <3>1, <3>2 DEF CommitSend, LocksHeld, RowsOwned
      <3>4. \A n \in Messages : Visible(n, r)' => Visible(n, r)
        BY <2>1, <3>3 DEF Visible
      <3>5. QED
        BY <2>1, <3>1, <3>4 DEF UncommittedIsNewest
    <2>6. QED
      BY <2>3, <2>4, <2>5
  <1>6. CASE AbortSend(m)
    <2>1. /\ state' = [state EXCEPT ![m] = "new"]
          /\ rcpt' = [rcpt EXCEPT ![m] = {}]
          /\ row' = [row EXCEPT ![m] = NoRows]
          /\ UNCHANGED <<cursor, top>>
      BY <1>6 DEF AbortSend, clientVars, runVars
    <2>2. \A r \in Accounts : row'[m][r] = 0
      BY <2>1 DEF NoRows
    <2>3. \A k \in Messages : k # m => row'[k] = row[k] /\ rcpt'[k] = rcpt[k] /\ state'[k] = state[k]
      BY <2>1
    <2>4. \A k \in Messages, r \in Accounts : k # m /\ holder[r] = k => holder'[r] = k
      BY <1>6 DEF AbortSend, Unlocked
    <2>5. LocksHeld'
      BY <2>1, <2>3, <2>4 DEF LocksHeld
    <2>6. RowsOwned'
      <3>1. \A k \in Messages, r \in Accounts :
              row'[k][r] # 0 => /\ row'[k][r] = row[k][r]
                                /\ state'[k] = state[k]
                                /\ rcpt'[k] = rcpt[k]
        BY <2>2, <2>3
      <3>2. \A k, n \in Messages, r \in Accounts :
              row'[k][r] # 0 /\ row'[k][r] = row'[n][r] =>
                  row[k][r] # 0 /\ row[k][r] = row[n][r]
        BY <3>1
      <3>3. QED
        BY <3>1, <3>2 DEF RowsOwned
    <2>7. UncommittedIsNewest'
      <3>1. \A k \in Messages, r \in Accounts :
              row'[k][r] # 0 => k # m /\ row'[k][r] = row[k][r] /\ state'[k] = state[k]
        BY <2>2, <2>3
      <3>2. \A k \in Messages, r \in Accounts : Visible(k, r)' => Visible(k, r)
        BY <3>1 DEF Visible
      <3>3. QED
        BY <2>1, <3>1, <3>2 DEF UncommittedIsNewest, Visible
    <2>8. QED
      BY <2>5, <2>6, <2>7
  <1>7. QED
    BY <1>1, <1>2, <1>3, <1>4, <1>5, <1>6 DEF SendStep

\* A step of a Send leaves the client runs alone, keeps what is visible, and
\* makes only rows visible that are newer than everything read so far.
LEMMA SendVisible ==
  ASSUME IInv, NEW m \in Messages, Begin(m) \/ SendStep(m) \/ AbortSend(m)
  PROVE  /\ UNCHANGED <<phase, pending, items, top, cursor, history, refused, redacted>>
         /\ \A k \in Messages, r \in Accounts :
              Visible(k, r) => Visible(k, r)' /\ row'[k][r] = row[k][r]
         /\ \A k \in Messages, r \in Accounts :
              Visible(k, r)' /\ ~Visible(k, r) =>
                  /\ row'[k][r] > cursor[r]
                  /\ row'[k][r] > top[r]
                  /\ \A n \in Messages : Visible(n, r) => row[n][r] < row'[k][r]
  <1> USE DEF IInv, TypeOK
  <1>1. UNCHANGED <<phase, pending, items, top, cursor, history, refused, redacted>>
    BY DEF Begin, SendStep, LockQueue, InsertDelivery, InsertEvent, CommitSend,
           AbortSend, runVars, clientVars
  <1>2. CASE CommitSend(m)
    <2>1. /\ state' = [state EXCEPT ![m] = "committed"]
          /\ state[m] = "inserting"
          /\ row' = row
      BY <1>2 DEF CommitSend
    <2>2. \A k \in Messages, r \in Accounts :
            Visible(k, r)' /\ ~Visible(k, r) => k = m /\ row[m][r] # 0
      BY <2>1 DEF Visible
    <2>3. QED
      BY <1>1, <2>1, <2>2 DEF Visible, UncommittedIsNewest
  <1>3. CASE ~CommitSend(m)
    <2>1. \A k \in Messages :
            /\ state[k] = "committed" => state'[k] = "committed" /\ row'[k] = row[k]
            /\ state'[k] = "committed" => state[k] = "committed"
      BY <1>3 DEF Begin, SendStep, LockQueue, InsertDelivery, InsertEvent,
                  AbortSend, Open
    <2>2. QED
      BY <1>1, <2>1 DEF Visible
  <1>4. QED
    BY <1>2, <1>3

\* The parts about the client runs survive the steps of a Send.
LEMMA SendRuns ==
  ASSUME IInv, NEW m \in Messages, Begin(m) \/ SendStep(m) \/ AbortSend(m)
  PROVE  PageVisible' /\ PageCovers' /\ AcknowledgedIsSaved' /\ CursorNeverSkips'
  <1> USE SendVisible DEF IInv, TypeOK
  <1>1. \A r \in Accounts : \A k \in pending[r] \cup items[r] :
          k \in Messages /\ Visible(k, r) /\ Visible(k, r)' /\ row'[k][r] = row[k][r]
    BY DEF PageVisible
  <1>2. PageVisible'
    BY <1>1 DEF PageVisible
  <1>3. PageCovers'
    <2> SUFFICES ASSUME NEW r \in Accounts, NEW k \in Messages, Visible(k, r)'
                 PROVE  /\ row'[k][r] <= top'[r] => Dealt(k, r)' \/ k \in items'[r]
                        /\ \A n \in pending'[r] :
                             row'[k][r] <= row'[n][r] =>
                                 Dealt(k, r)' \/ k \in items'[r] \/ k \in pending'[r]
      BY DEF PageCovers
    <2>1. row'[k][r] \in Nat /\ top[r] \in Nat
      BY NextTyped DEF Next, SendStep
    <2>2. CASE Visible(k, r)
      BY <2>2, <1>1 DEF PageCovers, Dealt
    <2>3. CASE ~Visible(k, r)
      <3>1. row'[k][r] > top[r]
        BY <2>3
      <3>2. \A n \in pending[r] : row'[n][r] < row'[k][r]
        BY <2>3, <1>1
      <3>3. \A n \in pending[r] : row'[n][r] \in Nat
        BY <1>1
      <3>4. QED
        BY <2>1, <3>1, <3>2, <3>3
    <2>4. QED
      BY <2>2, <2>3
  <1>4. AcknowledgedIsSaved'
    <2>1. \A r \in Accounts, k \in Messages :
            First(items[r], r, k)' => First(items[r], r, k)
      BY <1>1 DEF First
    <2>2. QED
      BY <2>1 DEF AcknowledgedIsSaved
  <1>5. CursorNeverSkips'
    <2> SUFFICES ASSUME NEW r \in Accounts, NEW k \in Messages, Visible(k, r)',
                        row'[k][r] <= cursor[r]
                 PROVE  k \in history[r] \cup refused[r] \cup redacted
      BY DEF CursorNeverSkips
    <2>1. row'[k][r] \in Nat /\ cursor[r] \in Nat
      BY NextTyped DEF Next, SendStep
    <2>2. Visible(k, r) /\ row'[k][r] = row[k][r]
      BY <2>1
    <2>3. QED
      BY <2>2 DEF CursorNeverSkips
  <1>6. QED
    BY <1>2, <1>3, <1>4, <1>5

\* The parts about transactions survive an inbox run: cursors only move to
\* sequences of visible rows.
LEMMA RunQueues ==
  ASSUME IInv, NEW r \in Accounts, RunStep(r) \/ Crash(r)
  PROVE  /\ LocksHeld' /\ RowsOwned' /\ UncommittedIsNewest'
         /\ UNCHANGED <<state, row, redacted>>
         /\ \A k \in Messages, q \in Accounts : Visible(k, q)' <=> Visible(k, q)
  <1> USE DEF IInv, TypeOK
  <1>1. UNCHANGED <<state, rcpt, row, holder, redacted>>
    BY DEF RunStep, ReadPage, Grant, Reply, Receive, Acknowledge,
           Record, AdvanceCursor, Crash, txVars
  <1>2. LocksHeld' /\ RowsOwned'
    BY <1>1 DEF LocksHeld, RowsOwned
  <1>3. \A k \in Messages, q \in Accounts : Visible(k, q)' <=> Visible(k, q)
    BY <1>1 DEF Visible
  <1>4. \A q \in Accounts : cursor'[q] \in {cursor[q], top[q]}
    BY DEF RunStep, ReadPage, Grant, Reply, Receive, Acknowledge,
           Record, AdvanceCursor, Crash, clientVars
  <1>5. \A q \in Accounts :
          \/ top'[q] \in {0, top[q], cursor[q]}
          \/ \E k \in Messages : Visible(k, q) /\ top'[q] = row[k][q]
    <2>1. CASE Grant(r)
      BY <2>1 DEF Grant, First, PageVisible
    <2>2. CASE ~Grant(r)
      BY <2>2 DEF RunStep, ReadPage, Reply, Receive, Acknowledge,
                  Record, AdvanceCursor, Crash, runVars
    <2>3. QED
      BY <2>1, <2>2
  <1>6. UncommittedIsNewest'
    <2> SUFFICES ASSUME NEW k \in Messages, NEW q \in Accounts,
                        state[k] = "inserting", row[k][q] # 0
                 PROVE  cursor'[q] < row[k][q] /\ top'[q] < row[k][q]
      BY <1>1, <1>3 DEF UncommittedIsNewest
    <2>1. row[k][q] \in Nat /\ 0 < row[k][q]
      OBVIOUS
    <2>2. QED
      BY <1>4, <1>5, <2>1 DEF UncommittedIsNewest
  <1>7. QED
    BY <1>1, <1>2, <1>3, <1>6

\* Sequences that are below each other are equal.
LEMMA Antisymmetry ==
  ASSUME NEW a \in Nat, NEW b \in Nat, a <= b, b <= a
  PROVE  a = b
  OBVIOUS

\* The parts about the client runs survive a step of a run.
LEMMA RunRuns ==
  ASSUME IInv, NEW r \in Accounts, RunStep(r) \/ Crash(r)
  PROVE  PageVisible' /\ PageCovers' /\ AcknowledgedIsSaved' /\ CursorNeverSkips'
  <1> USE RunQueues DEF IInv, TypeOK
  <1> DEFINE Done == PageVisible' /\ PageCovers' /\ AcknowledgedIsSaved' /\ CursorNeverSkips'
  <1>1. CASE ReadPage(r)
    <2>1. /\ phase' = [phase EXCEPT ![r] = "granting"]
          /\ pending' = [pending EXCEPT ![r] = Page(r)]
          /\ top' = [top EXCEPT ![r] = cursor[r]]
          /\ phase[r] = "idle"
          /\ UNCHANGED <<items, cursor, history, refused>>
      BY <1>1 DEF ReadPage, clientVars
    <2>2. Page(r) \in SUBSET Messages /\ \A k \in Page(r) : Visible(k, r)
      BY DEF Page, After
    <2>3. PageVisible'
      BY <2>1, <2>2 DEF PageVisible
    <2>4. PageCovers'
      <3> SUFFICES ASSUME NEW q \in Accounts, NEW k \in Messages, Visible(k, q)
                   PROVE  /\ row[k][q] <= top'[q] => Dealt(k, q)' \/ k \in items'[q]
                          /\ \A n \in pending'[q] :
                               row[k][q] <= row[n][q] =>
                                   Dealt(k, q)' \/ k \in items'[q] \/ k \in pending'[q]
        BY DEF PageCovers
      <3>1. Dealt(k, q)' <=> Dealt(k, q)
        BY <2>1 DEF Dealt
      <3>2. CASE q # r
        BY <2>1, <3>1, <3>2 DEF PageCovers
      <3>3. CASE q = r
        <4>1. row[k][r] <= cursor[r] => Dealt(k, r)
          BY <3>3 DEF CursorNeverSkips, Dealt
        <4>2. ASSUME NEW n \in Page(r), row[k][r] <= row[n][r], ~Dealt(k, r)
              PROVE  k \in Page(r)
          <5>1. row[k][r] \in Nat /\ cursor[r] \in Nat
            OBVIOUS
          <5>2. k \in After(r, cursor[r])
            BY <3>3, <4>1, <4>2, <5>1 DEF After, Dealt
          <5>3. QED
            BY <4>2, <5>2, PageIsPrefix
        <4>3. QED
          BY <2>1, <3>1, <3>3, <4>1, <4>2
      <3>4. QED
        BY <3>2, <3>3
    <2>5. AcknowledgedIsSaved'
      BY <2>1 DEF AcknowledgedIsSaved, First
    <2>6. CursorNeverSkips'
      BY <2>1 DEF CursorNeverSkips
    <2>7. QED
      BY <2>3, <2>4, <2>5, <2>6
  <1>2. CASE Grant(r)
    <2>1. PICK m \in Messages :
            /\ First(pending[r], r, m)
            /\ pending' = [pending EXCEPT ![r] = @ \ {m}]
            /\ top' = [top EXCEPT ![r] = row[m][r]]
            /\ \/ items' = [items EXCEPT ![r] = @ \cup {m}] /\ refused' = refused
               \/ refused' = [refused EXCEPT ![r] = @ \cup {m}] /\ items' = items
      BY <1>2 DEF Grant
    <2>2. UNCHANGED <<phase, cursor, history>> /\ phase[r] = "granting"
      BY <1>2 DEF Grant
    <2>3. Visible(m, r) /\ m \in pending[r]
      BY <2>1 DEF First, PageVisible
    <2>4. /\ \A q \in Accounts, k \in Messages :
               /\ Dealt(k, q) => Dealt(k, q)'
               /\ k \in items[q] => k \in items'[q]
          /\ Dealt(m, r)' \/ m \in items'[r]
      <3>1. CASE items' = [items EXCEPT ![r] = @ \cup {m}] /\ refused' = refused
        BY <2>2, <3>1 DEF Dealt
      <3>2. CASE refused' = [refused EXCEPT ![r] = @ \cup {m}] /\ items' = items
        BY <2>2, <3>2 DEF Dealt
      <3>3. QED
        BY <2>1, <3>1, <3>2
    <2>5. /\ \A q \in Accounts : q # r =>
               items'[q] = items[q] /\ pending'[q] = pending[q] /\ top'[q] = top[q]
          /\ items'[r] \subseteq items[r] \cup {m}
          /\ pending'[r] = pending[r] \ {m}
          /\ top'[r] = row[m][r]
      <3>1. /\ \A q \in Accounts : q # r => pending'[q] = pending[q] /\ top'[q] = top[q]
            /\ pending'[r] = pending[r] \ {m}
            /\ top'[r] = row[m][r]
        BY <2>1
      <3>2. CASE items' = [items EXCEPT ![r] = @ \cup {m}]
        BY <3>1, <3>2
      <3>3. CASE items' = items
        BY <3>1, <3>3
      <3>4. QED
        BY <2>1, <3>2, <3>3
    <2>6. PageVisible'
      <3> SUFFICES ASSUME NEW q \in Accounts
                   PROVE  /\ \A k \in pending'[q] \cup items'[q] : Visible(k, q)
                          /\ phase[q] # "granting" => pending'[q] = {}
                          /\ phase[q] = "idle" => items'[q] = {} /\ top'[q] = 0
        BY <2>2, RunTyped DEF PageVisible
      <3>1. /\ \A k \in pending[q] \cup items[q] : Visible(k, q)
            /\ phase[q] # "granting" => pending[q] = {}
            /\ phase[q] = "idle" => items[q] = {} /\ top[q] = 0
        BY DEF PageVisible
      <3>2. CASE q # r
        BY <2>5, <3>1, <3>2
      <3>3. CASE q = r
        <4>1. \A k \in pending'[q] \cup items'[q] : Visible(k, q)
          BY <2>3, <2>5, <3>1, <3>3
        <4>2. QED
          BY <2>2, <3>3, <4>1
      <3>4. QED
        BY <3>2, <3>3
    <2>7. PageCovers'
      <3> SUFFICES ASSUME NEW q \in Accounts, NEW k \in Messages, Visible(k, q)
                   PROVE  /\ row[k][q] <= top'[q] => Dealt(k, q)' \/ k \in items'[q]
                          /\ \A n \in pending'[q] :
                               row[k][q] <= row[n][q] =>
                                   Dealt(k, q)' \/ k \in items'[q] \/ k \in pending'[q]
        BY DEF PageCovers
      <3>1. CASE q # r
        BY <2>4, <2>5, <3>1 DEF PageCovers
      <3>2. CASE q = r
        <4>1. row[k][r] <= row[m][r] => Dealt(k, r)' \/ k \in items'[r]
          <5>1. ASSUME row[k][r] <= row[m][r], k \in pending[r] PROVE k = m
            <6>0. row[k][r] # 0
              BY <3>2 DEF Visible
            <6>1. row[m][r] <= row[k][r] /\ row[k][r] # 0
              BY <2>1, <5>1, <6>0 DEF First
            <6>2. row[k][r] \in Nat /\ row[m][r] \in Nat
              OBVIOUS
            <6>3. row[k][r] = row[m][r]
              BY <5>1, <6>1, <6>2, Antisymmetry
            <6>4. QED
              BY <6>1, <6>3 DEF RowsOwned
          <5>2. QED
            BY <2>3, <2>4, <3>2, <5>1 DEF PageCovers
        <4>2. QED
          BY <2>3, <2>4, <2>5, <3>2, <4>1 DEF PageCovers
      <3>3. QED
        BY <3>1, <3>2
    <2>8. AcknowledgedIsSaved'
      <3> SUFFICES ASSUME NEW q \in Accounts, NEW k \in Messages,
                          phase[q] \in {"acknowledging", "recording"},
                          First(items'[q], q, k)
                   PROVE  k \in history[q]
        BY <2>2 DEF AcknowledgedIsSaved, First
      <3>1. q # r
        BY <2>2
      <3>2. items'[q] = items[q]
        BY <2>5, <3>1
      <3>3. QED
        BY <3>2 DEF AcknowledgedIsSaved
    <2>9. CursorNeverSkips'
      <3> SUFFICES ASSUME NEW k \in Messages, NEW q \in Accounts,
                          Visible(k, q), row[k][q] <= cursor[q]
                   PROVE  Dealt(k, q)'
        BY <2>2 DEF CursorNeverSkips, Dealt
      <3>1. Dealt(k, q)
        BY DEF CursorNeverSkips, Dealt
      <3>2. QED
        BY <2>4, <3>1
    <2>10. QED
      BY <2>6, <2>7, <2>8, <2>9
  <1>3. CASE Reply(r)
    <2>1. /\ phase' = [phase EXCEPT ![r] = "receiving"]
          /\ pending[r] = {}
          /\ UNCHANGED <<pending, items, top, cursor, history, refused>>
      BY <1>3 DEF Reply, clientVars
    <2>2. PageVisible' /\ AcknowledgedIsSaved'
      BY <2>1 DEF PageVisible, AcknowledgedIsSaved, First
    <2>3. PageCovers' /\ CursorNeverSkips'
      BY <2>1 DEF PageCovers, CursorNeverSkips, Dealt
    <2>4. QED
      BY <2>2, <2>3
  <1>4. CASE Receive(r)
    <2>1. PICK m \in Messages :
            /\ First(items[r], r, m)
            /\ history' = [history EXCEPT ![r] = @ \cup {m}]
      BY <1>4 DEF Receive
    <2>2. /\ phase' = [phase EXCEPT ![r] = "acknowledging"]
          /\ phase[r] = "receiving"
          /\ UNCHANGED <<pending, items, top, cursor, refused>>
      BY <1>4 DEF Receive
    <2>3. \A q \in Accounts : history[q] \subseteq history'[q]
      BY <2>1
    <2>4. PageVisible'
      BY <2>2 DEF PageVisible
    <2>5. PageCovers' /\ CursorNeverSkips'
      BY <2>2, <2>3 DEF PageCovers, CursorNeverSkips, Dealt
    <2>6. AcknowledgedIsSaved'
      <3> SUFFICES ASSUME NEW q \in Accounts, NEW k \in Messages,
                          phase'[q] \in {"acknowledging", "recording"},
                          First(items[q], q, k)
                   PROVE  k \in history'[q]
        BY <2>2 DEF AcknowledgedIsSaved, First
      <3>1. CASE q # r
        BY <2>1, <2>2, <3>1 DEF AcknowledgedIsSaved
      <3>2. CASE q = r
        <4>1. \A j \in items[r] : Visible(j, r)
          BY DEF PageVisible
        <4>2. k = m
          BY <2>1, <3>2, <4>1, FirstUnique
        <4>3. QED
          BY <2>1, <3>2, <4>2
      <3>3. QED
        BY <3>1, <3>2
    <2>7. QED
      BY <2>4, <2>5, <2>6
  <1>5. CASE Acknowledge(r) \/ Record(r)
    <2>1. PICK m \in Messages :
            /\ First(items[r], r, m)
            /\ \/ /\ items' = [items EXCEPT ![r] = @ \ {m}]
                  /\ phase' = [phase EXCEPT ![r] = "receiving"]
                  /\ UNCHANGED top
               \/ /\ phase' = [phase EXCEPT ![r] = "recording"]
                  /\ UNCHANGED <<items, top>>
               \/ /\ items' = [items EXCEPT ![r] = {}]
                  /\ phase' = [phase EXCEPT ![r] = "idle"]
                  /\ top' = [top EXCEPT ![r] = 0]
      BY <1>5 DEF Acknowledge, Record
    <2>2. /\ phase[r] \in {"acknowledging", "recording"}
          /\ UNCHANGED <<pending, cursor, history, refused>>
      BY <1>5 DEF Acknowledge, Record, clientVars
    <2>3. m \in history[r] /\ pending[r] = {}
      BY <2>1, <2>2 DEF AcknowledgedIsSaved, PageVisible
    <2>4. CursorNeverSkips'
      BY <2>2 DEF CursorNeverSkips
    <2>5. /\ phase'[r] \in {"receiving", "recording", "idle"}
          /\ \A q \in Accounts : q # r =>
               items'[q] = items[q] /\ phase'[q] = phase[q] /\ top'[q] = top[q]
          /\ \/ items'[r] = items[r] \ {m} /\ top'[r] = top[r] /\ phase'[r] = "receiving"
             \/ items'[r] = items[r] /\ top'[r] = top[r] /\ phase'[r] = "recording"
             \/ items'[r] = {} /\ top'[r] = 0
      BY <2>1
    <2>6. PageVisible'
      BY <2>2, <2>3, <2>5 DEF PageVisible
    <2>7. PageCovers'
      <3> SUFFICES ASSUME NEW q \in Accounts, NEW k \in Messages, Visible(k, q)
                   PROVE  /\ row[k][q] <= top'[q] => Dealt(k, q) \/ k \in items'[q]
                          /\ \A n \in pending[q] :
                               row[k][q] <= row[n][q] =>
                                   Dealt(k, q) \/ k \in items'[q] \/ k \in pending[q]
        BY <2>2 DEF PageCovers, Dealt
      <3>1. CASE q # r
        BY <2>5, <3>1 DEF PageCovers
      <3>2. CASE q = r
        <4>1. row[k][r] \in Nat /\ row[k][r] # 0
          BY <3>2 DEF Visible
        <4>2. QED
          BY <2>3, <2>5, <3>2, <4>1 DEF PageCovers, Dealt
      <3>3. QED
        BY <3>1, <3>2
    <2>8. AcknowledgedIsSaved'
      BY <2>2, <2>5 DEF AcknowledgedIsSaved, First
    <2>9. QED
      BY <2>4, <2>6, <2>7, <2>8
  <1>6. CASE AdvanceCursor(r)
    <2>1. /\ items[r] = {}
          /\ phase[r] = "receiving"
          /\ cursor' = [cursor EXCEPT ![r] = top[r]]
          /\ phase' = [phase EXCEPT ![r] = "idle"]
          /\ top' = [top EXCEPT ![r] = 0]
          /\ UNCHANGED <<pending, items, history, refused>>
      BY <1>6 DEF AdvanceCursor
    <2>2. PageVisible' /\ AcknowledgedIsSaved'
      BY <2>1 DEF PageVisible, AcknowledgedIsSaved, First
    <2>3. PageCovers'
      <3> SUFFICES ASSUME NEW q \in Accounts, NEW k \in Messages, Visible(k, q)
                   PROVE  /\ row[k][q] <= top'[q] => Dealt(k, q) \/ k \in items[q]
                          /\ \A n \in pending[q] :
                               row[k][q] <= row[n][q] =>
                                   Dealt(k, q) \/ k \in items[q] \/ k \in pending[q]
        BY <2>1 DEF PageCovers, Dealt
      <3>1. row[k][q] \in Nat /\ row[k][q] # 0
        BY DEF Visible
      <3>2. QED
        BY <2>1, <3>1 DEF PageCovers
    <2>4. CursorNeverSkips'
      <3> SUFFICES ASSUME NEW q \in Accounts, NEW k \in Messages, Visible(k, q),
                          row[k][q] <= cursor'[q]
                   PROVE  Dealt(k, q)
        BY <2>1 DEF CursorNeverSkips, Dealt
      <3>1. CASE q = r
        BY <2>1, <3>1 DEF PageCovers
      <3>2. CASE q # r
        BY <2>1, <3>2 DEF CursorNeverSkips, Dealt
      <3>3. QED
        BY <3>1, <3>2
    <2>5. QED
      BY <2>2, <2>3, <2>4
  <1>7. CASE Crash(r)
    <2>1. /\ phase' = [phase EXCEPT ![r] = "idle"]
          /\ pending' = [pending EXCEPT ![r] = {}]
          /\ items' = [items EXCEPT ![r] = {}]
          /\ top' = [top EXCEPT ![r] = 0]
          /\ UNCHANGED <<cursor, history, refused>>
      BY <1>7 DEF Crash, clientVars
    <2>2. PageVisible' /\ AcknowledgedIsSaved'
      BY <2>1 DEF PageVisible, AcknowledgedIsSaved, First
    <2>3. PageCovers'
      <3> SUFFICES ASSUME NEW q \in Accounts, NEW k \in Messages, Visible(k, q)
                   PROVE  /\ row[k][q] <= top'[q] => Dealt(k, q) \/ k \in items'[q]
                          /\ \A n \in pending'[q] :
                               row[k][q] <= row[n][q] =>
                                   Dealt(k, q) \/ k \in items'[q] \/ k \in pending'[q]
        BY <2>1 DEF PageCovers, Dealt
      <3>1. row[k][q] \in Nat /\ row[k][q] # 0
        BY DEF Visible
      <3>2. QED
        BY <2>1, <3>1 DEF PageCovers
    <2>4. CursorNeverSkips'
      BY <2>1 DEF CursorNeverSkips
    <2>5. QED
      BY <2>2, <2>3, <2>4
  <1>8. QED
    BY <1>1, <1>2, <1>3, <1>4, <1>5, <1>6, <1>7 DEF RunStep

\* A redaction or a change of members touches no queue and no run.
LEMMA OtherInv ==
  ASSUME IInv, NEW m \in Messages, NEW r \in Accounts,
         Redact(m) \/ Leave(r) \/ Rejoin(r)
  PROVE  /\ LocksHeld' /\ RowsOwned' /\ UncommittedIsNewest'
         /\ PageVisible' /\ PageCovers' /\ AcknowledgedIsSaved' /\ CursorNeverSkips'
  <1> USE DEF IInv
  <1>1. /\ UNCHANGED <<state, rcpt, row, holder, phase, pending, items, top,
                       cursor, history, refused>>
        /\ redacted \subseteq redacted'
    BY DEF Redact, Leave, Rejoin, txVars, runVars, clientVars
  <1>2. LocksHeld' /\ RowsOwned' /\ UncommittedIsNewest'
    BY <1>1 DEF LocksHeld, RowsOwned, UncommittedIsNewest, Visible
  <1>3. PageVisible' /\ AcknowledgedIsSaved'
    BY <1>1 DEF PageVisible, AcknowledgedIsSaved, Visible, First
  <1>4. \A k \in Messages, q \in Accounts : Dealt(k, q) => Dealt(k, q)'
    BY <1>1 DEF Dealt
  <1>5. PageCovers' /\ CursorNeverSkips'
    BY <1>1, <1>4 DEF PageCovers, CursorNeverSkips, Visible, Dealt
  <1>6. QED
    BY <1>2, <1>3, <1>5

\* Every step keeps the invariant.
LEMMA NextInv == IInv /\ [Next]_vars => IInv'
  <1> SUFFICES ASSUME IInv, [Next]_vars PROVE IInv'
    OBVIOUS
  <1>1. TypeOK'
    BY NextTyped DEF IInv
  <1>2. ASSUME NEW m \in Messages, Begin(m) \/ SendStep(m) \/ AbortSend(m)
        PROVE  IInv'
    BY <1>1, <1>2, SendQueues, SendRuns DEF IInv
  <1>3. ASSUME NEW r \in Accounts, RunStep(r) \/ Crash(r) PROVE IInv'
    BY <1>1, <1>3, RunQueues, RunRuns DEF IInv
  <1>4. ASSUME NEW m \in Messages, Redact(m) PROVE IInv'
    <2>1. Sender[m] \in Accounts
      BY DeliveryQueueAssumption
    <2>2. QED
      BY <1>1, <1>4, <2>1, OtherInv DEF IInv
  <1>5. ASSUME NEW r \in Accounts, Leave(r) \/ Rejoin(r) PROVE IInv'
    <2>1. CASE Messages # {}
      <3>1. PICK m \in Messages : TRUE
        BY <2>1
      <3>2. QED
        BY <1>1, <1>5, <3>1, OtherInv DEF IInv
    <2>2. CASE Messages = {}
      <3>1. UNCHANGED <<phase, pending, items, top>>
        BY <1>5 DEF Leave, Rejoin, runVars
      <3>2. QED
        BY <1>1, <2>2, <3>1 DEF IInv, TypeOK, LocksHeld, RowsOwned,
           UncommittedIsNewest, PageVisible, PageCovers, AcknowledgedIsSaved,
           CursorNeverSkips
    <2>3. QED
      BY <2>1, <2>2
  <1>6. CASE UNCHANGED vars
    BY <1>1, <1>6 DEF IInv, vars, txVars, runVars, clientVars, LocksHeld,
       RowsOwned, UncommittedIsNewest, PageVisible, PageCovers,
       AcknowledgedIsSaved, CursorNeverSkips, Visible, First, Dealt
  <1>7. QED
    BY <1>2, <1>3, <1>4, <1>5, <1>6, DeliveryQueueAssumption DEF Next

-----------------------------------------------------------------------------
(* Theorems *)

\* The variables of the relay and its clients always have their types.
THEOREM TypeCorrect == Spec => []TypeOK
  <1>1. Init => TypeOK
    BY InitTyped
  <1>2. QED
    BY <1>1, NextTyped, PTL DEF Spec

\* The inductive invariant holds in every reachable state.
THEOREM Invariance == Spec => []IInv
  BY InitInv, NextInv, PTL DEF Spec

\* Deliveries to one recipient become visible in the order of their sequences.
THEOREM PublicationOrder == Spec => PublishedInOrder
  <1> DEFINE Ordered ==
        \A m, n \in Messages, r \in Accounts :
            Visible(n, r) /\ ~Visible(m, r) /\ Visible(m, r)'
                => row[n][r] < row'[m][r]
  <1>1. IInv /\ [Next]_vars => [Ordered]_vars
    <2> SUFFICES ASSUME IInv, Next PROVE Ordered
      BY DEF IInv
    <2>1. ASSUME NEW k \in Messages, Begin(k) \/ SendStep(k) \/ AbortSend(k)
          PROVE  Ordered
      BY <2>1, SendVisible
    <2>2. ASSUME NEW r \in Accounts, RunStep(r) \/ Crash(r) PROVE Ordered
      BY <2>2, RunQueues
    <2>3. ASSUME UNCHANGED <<state, row>> PROVE Ordered
      BY <2>3 DEF Visible
    <2>4. ASSUME NEW k \in Messages, Redact(k) PROVE Ordered
      BY <2>3, <2>4 DEF Redact, txVars
    <2>5. ASSUME NEW r \in Accounts, Leave(r) \/ Rejoin(r) PROVE Ordered
      BY <2>3, <2>5 DEF Leave, Rejoin, txVars
    <2>6. QED
      BY <2>1, <2>2, <2>4, <2>5, DeliveryQueueAssumption DEF Next
  <1>2. QED
    BY <1>1, Invariance, PTL DEF Spec, PublishedInOrder
-----------------------------------------------------------------------------
(* Refusals *)

\* A row is bound to an interval that has begun, and what was refused is
\* committed and stays refused.  It needs IInv only for the pages, which show
\* committed rows.
Stamped ==
    \A m \in Messages, r \in Accounts :
        /\ stamp[m][r] <= interval[r]
        /\ m \in refused[r] => state[m] = "committed" /\ ~Allowed(m, r)

\* A row keeps its stamp and a refused message its commit while membership
\* stays as it is.
LEMMA SendStamped ==
  ASSUME TypeOK, Stamped, NEW m \in Messages, Begin(m) \/ SendStep(m) \/ AbortSend(m)
  PROVE  Stamped'
  <1>1. /\ UNCHANGED <<member, interval, refused>>
        /\ \A k \in Messages : state[k] = "committed" => state'[k] = "committed"
        /\ \A k \in Messages :
             \/ stamp'[k] = stamp[k]
             \/ state[k] # "committed" /\ (stamp'[k] = interval \/ stamp'[k] = NoRows)
    <2> USE DEF TypeOK, txVars, circleVars, runVars, clientVars
    <2>1. CASE Begin(m)
      BY <2>1 DEF Begin
    <2>2. CASE SendStep(m)
      BY <2>2 DEF SendStep, LockQueue, InsertDelivery, InsertEvent, CommitSend
    <2>3. CASE AbortSend(m)
      BY <2>3 DEF AbortSend, Open
    <2>4. QED
      BY <2>1, <2>2, <2>3
  <1>2. SUFFICES ASSUME NEW k \in Messages, NEW r \in Accounts
        PROVE  /\ stamp'[k][r] <= interval'[r]
               /\ k \in refused'[r] => state'[k] = "committed" /\ ~Allowed(k, r)'
    BY DEF Stamped
  <1>3. interval[r] \in Nat /\ stamp[k][r] <= interval[r]
    BY DEF Stamped, TypeOK
  <1>4. stamp'[k][r] <= interval'[r]
    BY <1>1, <1>3 DEF NoRows
  <1>5. ASSUME k \in refused'[r] PROVE state'[k] = "committed" /\ ~Allowed(k, r)'
    BY <1>1, <1>5 DEF Stamped, Allowed
  <1>6. QED
    BY <1>4, <1>5

\* A grant refuses visible rows only, and only what its reader may not see.
LEMMA RunStamped ==
  ASSUME IInv, Stamped, NEW r \in Accounts, RunStep(r) \/ Crash(r)
  PROVE  Stamped'
  <1>1. UNCHANGED <<state, stamp, member, interval>>
    BY DEF RunStep, Crash, ReadPage, Grant, Reply, Receive, Acknowledge, Record,
       AdvanceCursor, txVars, circleVars
  <1>2. CASE Grant(r)
    <2>1. PICK m \in Messages :
            /\ First(pending[r], r, m)
            /\ \/ refused' = refused
               \/ ~Allowed(m, r) /\ refused' = [refused EXCEPT ![r] = @ \cup {m}]
      BY <1>2 DEF Grant
    <2>2. state[m] = "committed"
      BY <2>1 DEF IInv, PageVisible, First, Visible
    <2>3. QED
      BY <1>1, <2>1, <2>2 DEF Stamped, Allowed, IInv, TypeOK
  <1>3. CASE refused' = refused
    BY <1>1, <1>3 DEF Stamped, Allowed
  <1>4. QED
    BY <1>2, <1>3 DEF RunStep, Crash, ReadPage, Reply, Receive, Acknowledge,
       Record, AdvanceCursor, clientVars

\* An interval that ended does not come back.
LEMMA MemberStamped ==
  ASSUME TypeOK, Stamped, NEW r \in Accounts, Leave(r) \/ Rejoin(r)
  PROVE  Stamped'
  <1>1. /\ UNCHANGED <<state, stamp, refused>>
        /\ \A q \in Accounts :
             \/ interval'[q] = interval[q] /\ (q \in member' => q \in member)
             \/ interval'[q] = interval[q] + 1
    BY DEF Leave, Rejoin, txVars, clientVars, TypeOK
  <1>2. SUFFICES ASSUME NEW m \in Messages, NEW q \in Accounts
        PROVE  /\ stamp'[m][q] <= interval'[q]
               /\ m \in refused'[q] => state'[m] = "committed" /\ ~Allowed(m, q)'
    BY DEF Stamped
  <1>3. interval[q] \in Nat /\ stamp[m][q] \in Nat /\ stamp[m][q] <= interval[q]
    BY DEF Stamped, TypeOK
  <1>4. stamp'[m][q] = stamp[m][q]
    BY <1>1
  <1>5. CASE interval'[q] = interval[q] /\ (q \in member' => q \in member)
    BY <1>1, <1>3, <1>4, <1>5 DEF Stamped, Allowed
  <1>6. CASE interval'[q] = interval[q] + 1
    <2>1. stamp'[m][q] <= interval'[q] /\ stamp'[m][q] # interval'[q]
      BY <1>3, <1>4, <1>6
    <2>2. QED
      BY <1>1, <2>1 DEF Stamped, Allowed
  <1>7. \/ interval'[q] = interval[q] /\ (q \in member' => q \in member)
        \/ interval'[q] = interval[q] + 1
    BY <1>1
  <1>8. QED
    BY <1>5, <1>6, <1>7

\* A receipt is recorded while its item is acknowledged, and so after the item is saved.
LEMMA ReceiptSaved ==
  IInv /\ ReceiptImpliesHistory /\ [Next]_vars => ReceiptImpliesHistory'
  <1> SUFFICES ASSUME IInv, ReceiptImpliesHistory, [Next]_vars,
                      NEW m \in Messages, NEW r \in Accounts, <<m, r>> \in delivered'
               PROVE  m \in history'[r]
    BY DEF ReceiptImpliesHistory
  <1>1. \A k \in Messages, q \in Accounts : k \in history[q] => k \in history'[q]
    <2>1. ASSUME NEW q \in Accounts, RunStep(q) \/ Crash(q)
          PROVE  history' = history \/ Receive(q)
      BY <2>1 DEF RunStep, Crash, ReadPage, Grant, Reply, Acknowledge, Record,
         AdvanceCursor, clientVars
    <2>2. ASSUME NEW q \in Accounts, Receive(q)
          PROVE  \A k \in Messages, p \in Accounts : k \in history[p] => k \in history'[p]
      BY <2>2 DEF Receive, IInv, TypeOK
    <2>3. history' = history \/ \E q \in Accounts : Receive(q)
      <3>1. ASSUME NEW k \in Messages, Begin(k) \/ SendStep(k) \/ AbortSend(k) \/ Redact(k)
            PROVE  history' = history
        BY <3>1 DEF Begin, SendStep, LockQueue, InsertEvent, InsertDelivery, CommitSend,
           AbortSend, Redact, clientVars
      <3>2. ASSUME NEW q \in Accounts, Leave(q) \/ Rejoin(q) PROVE history' = history
        BY <3>2 DEF Leave, Rejoin, clientVars
      <3>3. QED
        BY <2>1, <3>1, <3>2, DeliveryQueueAssumption DEF Next, vars, clientVars
    <2>4. QED
      BY <2>2, <2>3
  <1>2. CASE <<m, r>> \in delivered
    BY <1>1, <1>2 DEF ReceiptImpliesHistory
  <1>3. CASE <<m, r>> \notin delivered
    <2>1. \E q \in Accounts : Record(q) \/ Crash(q)
      <3>1. ASSUME NEW k \in Messages, Begin(k) \/ SendStep(k) \/ AbortSend(k) \/ Redact(k)
            PROVE  delivered' = delivered
        BY <3>1 DEF Begin, SendStep, LockQueue, InsertEvent, InsertDelivery, CommitSend,
           AbortSend, Redact
      <3>2. ASSUME NEW q \in Accounts, Leave(q) \/ Rejoin(q) PROVE delivered' = delivered
        BY <3>2 DEF Leave, Rejoin
      <3>3. ASSUME NEW q \in Accounts, RunStep(q) \/ Crash(q)
            PROVE  delivered' = delivered \/ Record(q) \/ Crash(q)
        BY <3>3 DEF RunStep, ReadPage, Grant, Reply, Receive, Acknowledge, AdvanceCursor
      <3>4. QED
        BY <1>3, <3>1, <3>2, <3>3, DeliveryQueueAssumption DEF Next, vars
    <2>2. PICK q \in Accounts : Record(q) \/ Crash(q)
      BY <2>1
    <2>3. phase[q] = "recording" /\ \E k \in Messages :
             First(items[q], q, k) /\ delivered' = delivered \cup {<<k, q>>}
      BY <1>3, <2>2 DEF Record, Crash
    <2>4. q = r /\ First(items[r], r, m)
      BY <1>3, <2>3
    <2>5. m \in history[r]
      BY <2>3, <2>4 DEF IInv, AcknowledgedIsSaved
    <2>6. QED
      BY <1>1, <2>5
  <1>4. QED
    BY <1>2, <1>3

\* What was refused stays out of its reader's reach, so a client that keeps
\* its cursor loses nothing: NothingLost for every value of the constants.
THEOREM NothingIsLost == Spec => []NothingLost
  <1>1. Init => Stamped
    BY DEF Init, Stamped, NoRows
  <1>2. IInv /\ Stamped /\ [Next]_vars => Stamped'
    <2> SUFFICES ASSUME IInv, Stamped, [Next]_vars PROVE Stamped'
      OBVIOUS
    <2>1. ASSUME NEW m \in Messages, Redact(m) PROVE Stamped'
      BY <2>1 DEF Redact, Stamped, Allowed, txVars, circleVars, clientVars
    <2>2. CASE UNCHANGED vars
      BY <2>2 DEF vars, txVars, circleVars, clientVars, Stamped, Allowed
    <2>3. QED
      BY <2>1, <2>2, SendStamped, RunStamped, MemberStamped,
         DeliveryQueueAssumption DEF Next, IInv
  <1>3. Init => ReceiptImpliesHistory
    BY DEF Init, ReceiptImpliesHistory
  <1>4. IInv /\ Stamped /\ ReceiptImpliesHistory => NothingLost
    BY DEF IInv, Stamped, NothingLost, RefusalIsFinal
  <1>5. QED
    BY <1>1, <1>2, <1>3, <1>4, ReceiptSaved, Invariance, PTL DEF Spec

-----------------------------------------------------------------------------
(* The relay implements the log of RecipientLog                             *)

\* An inbox run is never behind the cursor that the client saved.
PageAhead ==
    \A r \in Accounts :
        /\ phase[r] # "idle" => cursor[r] <= top[r]
        /\ \A m \in pending[r] : cursor[r] < row[m][r]

\* No run has begun.
LEMMA AheadInit == Init => PageAhead
  BY DEF Init, PageAhead

\* Rows that are visible keep their sequence, and nothing else of a run moves.
LEMMA AheadStep == IInv /\ PageAhead /\ [Next]_vars => PageAhead'
  <1> SUFFICES ASSUME IInv, PageAhead, [Next]_vars PROVE PageAhead'
    OBVIOUS
  <1>1. TypeOK /\ RowsOwned /\ PageVisible
    BY DEF IInv
  <1>2. ASSUME UNCHANGED <<phase, pending, top, cursor>>,
               \A m \in Messages, r \in Accounts : Visible(m, r) => row'[m][r] = row[m][r]
        PROVE  PageAhead'
    <2>1. ASSUME NEW r \in Accounts, NEW m \in pending[r] PROVE cursor'[r] < row'[m][r]
      <3>1. m \in Messages /\ Visible(m, r) /\ cursor[r] < row[m][r]
        BY <1>1 DEF PageAhead, PageVisible, TypeOK
      <3> QED  BY <1>2, <3>1
    <2> QED  BY <1>2, <2>1 DEF PageAhead
  <1>3. ASSUME NEW m \in Messages, Begin(m) \/ SendStep(m) \/ AbortSend(m) \/ Redact(m)
        PROVE  PageAhead'
    <2>1. UNCHANGED <<phase, pending, top, cursor>>
      BY <1>3 DEF Begin, SendStep, LockQueue, InsertDelivery, InsertEvent, CommitSend, AbortSend,
                  Redact, runVars, clientVars
    <2>2. ASSUME NEW n \in Messages, NEW r \in Accounts, Visible(n, r)
          PROVE  row'[n][r] = row[n][r]
      <3>1. state[n] = "committed" /\ row[n][r] # 0
        BY <2>2 DEF Visible
      <3>2. CASE UNCHANGED row
        BY <3>2
      <3>3. ASSUME NEW q \in Accounts, InsertDelivery(m, q) PROVE row'[n][r] = row[n][r]
        BY <1>1, <3>1, <3>3 DEF InsertDelivery, TypeOK
      <3>4. CASE AbortSend(m)
        BY <1>1, <3>1, <3>4 DEF AbortSend, Open, TypeOK
      <3> QED
        BY <1>3, <3>2, <3>3, <3>4 DEF Begin, SendStep, LockQueue, InsertEvent, CommitSend, Redact, txVars
    <2> QED  BY <1>2, <2>1, <2>2
  <1>4. ASSUME NEW r \in Accounts, RunStep(r) \/ Crash(r) PROVE PageAhead'
    <2>1. UNCHANGED row
      BY <1>4 DEF RunStep, ReadPage, Grant, Reply, Receive, Acknowledge, Record, AdvanceCursor,
                  Crash, txVars
    <2>2. \A q \in Accounts : cursor[q] \in Nat /\ top[q] \in Nat
      BY <1>1 DEF TypeOK
    <2>3. CASE ReadPage(r)
      <3>1. \A m \in Page(r) : cursor[r] < row[m][r]
        <4>1. \A m \in Page(r) : m \in Messages /\ row[m][r] > cursor[r]
          BY DEF Page, After
        <4> QED  BY <1>1, <2>2, <4>1 DEF TypeOK
      <3>2. /\ pending' = [pending EXCEPT ![r] = Page(r)] /\ top' = [top EXCEPT ![r] = cursor[r]]
            /\ UNCHANGED cursor /\ \A q \in Accounts \ {r} : phase'[q] = phase[q]
        BY <1>1, <2>3 DEF ReadPage, clientVars, TypeOK
      <3> QED  BY <1>1, <2>1, <2>2, <3>1, <3>2 DEF PageAhead, TypeOK
    <2>4. CASE Grant(r)
      <3>1. PICK m \in Messages : /\ m \in pending[r] /\ pending' = [pending EXCEPT ![r] = @ \ {m}]
                                  /\ top' = [top EXCEPT ![r] = row[m][r]]
        BY <2>4 DEF Grant, First
      <3>2. UNCHANGED <<cursor, phase>>
        BY <2>4 DEF Grant
      <3>3. cursor[r] <= row[m][r]
        <4>1. cursor[r] < row[m][r] /\ row[m][r] \in Nat
          BY <1>1, <3>1 DEF PageAhead, TypeOK
        <4> QED  BY <2>2, <4>1
      <3> QED  BY <1>1, <2>1, <3>1, <3>2, <3>3 DEF PageAhead, TypeOK
    <2>5. CASE Reply(r) \/ Receive(r) \/ Record(r)
      <3>1. UNCHANGED <<cursor, pending, top>> /\ \A q \in Accounts : phase'[q] # "idle" => phase[q] # "idle"
        BY <1>1, <2>5 DEF Reply, Receive, Record, clientVars, TypeOK
      <3> QED  BY <2>1, <3>1 DEF PageAhead
    <2>6. CASE Acknowledge(r)
      <3>1. UNCHANGED <<cursor, pending>>
        BY <2>6 DEF Acknowledge, clientVars
      <3>2. \A q \in Accounts : phase'[q] # "idle" => phase[q] # "idle" /\ top'[q] = top[q]
        BY <1>1, <2>6 DEF Acknowledge, TypeOK
      <3> QED  BY <2>1, <3>1, <3>2 DEF PageAhead
    <2>7. CASE AdvanceCursor(r)
      <3>1. /\ UNCHANGED pending /\ phase' = [phase EXCEPT ![r] = "idle"]
            /\ top' = [top EXCEPT ![r] = 0] /\ cursor' = [cursor EXCEPT ![r] = top[r]]
            /\ pending[r] = {}
        BY <1>1, <2>7 DEF AdvanceCursor, PageVisible
      <3> QED  BY <1>1, <2>1, <3>1 DEF PageAhead, TypeOK
    <2>8. CASE Crash(r)
      <3>1. /\ UNCHANGED cursor /\ phase' = [phase EXCEPT ![r] = "idle"]
            /\ top' = [top EXCEPT ![r] = 0] /\ pending' = [pending EXCEPT ![r] = {}]
        BY <2>8 DEF Crash, clientVars
      <3> QED  BY <1>1, <2>1, <3>1 DEF PageAhead, TypeOK
    <2> QED  BY <1>4, <2>3, <2>4, <2>5, <2>6, <2>7, <2>8 DEF RunStep
  <1>5. CASE UNCHANGED vars
    BY <1>2, <1>5 DEF vars, txVars, runVars, clientVars
  <1>6. ASSUME NEW r \in Accounts, Leave(r) \/ Rejoin(r) PROVE PageAhead'
    BY <1>2, <1>6 DEF Leave, Rejoin, txVars, runVars, clientVars
  <1> QED  BY <1>3, <1>4, <1>5, <1>6, DeliveryQueueAssumption DEF Next

\* A queue is finite, and its sequences are distinct numbers.
LEMMA QueueFinite ==
  ASSUME IInv, NEW r \in Accounts
  PROVE  /\ IsFiniteSet(Queue(r)) /\ Cardinality(Queue(r)) \in Nat
         /\ \A m \in Queue(r) : m \in Messages /\ row[m][r] \in Nat \ {0}
         /\ \A m, n \in Queue(r) : row[m][r] = row[n][r] => m = n
         /\ cursor[r] \in Nat
  <1>1. Queue(r) \subseteq Messages
    BY DEF Queue
  <1>2. IsFiniteSet(Queue(r)) /\ Cardinality(Queue(r)) \in Nat
    BY <1>1, FS_Subset, FS_CardinalityType, DeliveryQueueAssumption
  <1>3. \A m \in Queue(r) : m \in Messages /\ row[m][r] \in Nat \ {0}
    BY <1>1 DEF Queue, Visible, IInv, TypeOK
  <1> QED  BY <1>2, <1>3 DEF IInv, RowsOwned, TypeOK

\* How many are up to a sequence is a number that grows with the sequence.
LEMMA UpToGrows ==
  ASSUME IInv, NEW r \in Accounts, NEW p \in Nat, NEW q \in Nat, p <= q
  PROVE  /\ UpTo(r, p) \subseteq UpTo(r, q)
         /\ Cardinality(UpTo(r, p)) \in Nat /\ Cardinality(UpTo(r, q)) \in Nat
         /\ Cardinality(UpTo(r, p)) <= Cardinality(UpTo(r, q))
         /\ Cardinality(UpTo(r, q)) <= Cardinality(Queue(r))
         /\ Cardinality(UpTo(r, p)) = Cardinality(UpTo(r, q)) => UpTo(r, p) = UpTo(r, q)
  <1>1. /\ IsFiniteSet(Queue(r))
        /\ \A m \in Queue(r) : row[m][r] \in Nat
    BY QueueFinite
  <1>2. UpTo(r, p) \subseteq UpTo(r, q) /\ UpTo(r, q) \subseteq Queue(r)
    BY <1>1 DEF UpTo
  <1>3. /\ IsFiniteSet(UpTo(r, q)) /\ Cardinality(UpTo(r, q)) <= Cardinality(Queue(r))
    BY <1>1, <1>2, FS_Subset
  <1>4. /\ IsFiniteSet(UpTo(r, p)) /\ Cardinality(UpTo(r, p)) <= Cardinality(UpTo(r, q))
        /\ Cardinality(UpTo(r, q)) = Cardinality(UpTo(r, p)) => UpTo(r, q) = UpTo(r, p)
    BY <1>2, <1>3, FS_Subset
  <1> QED  BY <1>2, <1>3, <1>4, FS_CardinalityType

\* So each message has a place of its own, and every place is taken.
LEMMA PlacesTaken ==
  ASSUME IInv, NEW r \in Accounts
  PROVE  /\ \A m \in Queue(r) : Cardinality(UpTo(r, row[m][r])) \in 1..Cardinality(Queue(r))
         /\ \A i \in 1..Cardinality(Queue(r)) :
              \E m \in Queue(r) : Cardinality(UpTo(r, row[m][r])) = i
  <1>1. PICK n \in Nat : n = Cardinality(Queue(r))
    BY QueueFinite
  <1>2. PICK Q : Q = Queue(r)
    OBVIOUS
  <1>3. DEFINE place == [m \in Q |-> Cardinality(UpTo(r, row[m][r]))]
  <1>4. ASSUME NEW m \in Q PROVE place[m] \in 1..n
    <2>1. row[m][r] \in Nat
      BY <1>2, QueueFinite
    <2>2. m \in UpTo(r, row[m][r])
      BY <1>2, <2>1 DEF UpTo
    <2>3. PICK c \in Nat : c = Cardinality(UpTo(r, row[m][r])) /\ c <= n
      BY <1>1, <2>1, UpToGrows
    <2>4. c # 0
      <3>1. IsFiniteSet(UpTo(r, row[m][r]))
        BY QueueFinite, FS_Subset DEF UpTo
      <3> QED  BY <2>2, <2>3, <3>1, FS_EmptySet
    <2> QED  BY <2>3, <2>4
  <1>5. ASSUME NEW m \in Q, NEW k \in Q, place[m] = place[k] PROVE m = k
    <2>1. row[m][r] \in Nat /\ row[k][r] \in Nat
      BY <1>2, QueueFinite
    <2>2. m \in UpTo(r, row[m][r]) /\ k \in UpTo(r, row[k][r])
      BY <1>2, <2>1 DEF UpTo
    <2>3. UpTo(r, row[m][r]) = UpTo(r, row[k][r])
      <3>1. CASE row[m][r] <= row[k][r]
        BY <1>5, <2>1, <3>1, UpToGrows
      <3>2. CASE row[k][r] <= row[m][r]
        BY <1>5, <2>1, <3>2, UpToGrows
      <3> QED  BY <2>1, <3>1, <3>2
    <2>4. row[m][r] <= row[k][r] /\ row[k][r] <= row[m][r]
      BY <2>2, <2>3 DEF UpTo
    <2>5. row[m][r] = row[k][r]
      BY <2>1, <2>4
    <2> QED  BY <1>2, <2>5, QueueFinite
  <1>6. place \in Injection(Q, 1..n)
    BY <1>4, <1>5 DEF Injection, IsInjective
  <1>7. IsFiniteSet(1..n) /\ Cardinality(1..n) = n
    BY FS_Interval
  <1>8. place \in Surjection(Q, 1..n)
    BY <1>1, <1>2, <1>6, <1>7, FS_Injection
  <1>9. \A i \in 1..n : \E m \in Q : place[m] = i
    BY <1>8 DEF Surjection
  <1> QED  BY <1>1, <1>2, <1>4, <1>9

\* The log of a recipient is of messages that it can see, each of them once.
LEMMA LogIsQueue ==
  ASSUME IInv, NEW r \in Accounts
  PROVE  /\ VisibleLog(r) \in Seq(Messages)
         /\ Len(VisibleLog(r)) = Cardinality(Queue(r))
         /\ \A i \in 1..Len(VisibleLog(r)) : VisibleLog(r)[i] \in Queue(r)
  <1>1. PICK n \in Nat : n = Cardinality(Queue(r))
    BY QueueFinite
  <1>2. ASSUME NEW i \in 1..n
        PROVE  (CHOOSE m \in At(r, i) : TRUE) \in Queue(r)
    BY <1>1, PlacesTaken DEF At
  <1>3. \A i \in 1..n : VisibleLog(r)[i] \in Queue(r)
    BY <1>1, <1>2 DEF VisibleLog
  <1>4. VisibleLog(r) \in [1..n -> Queue(r)]
    BY <1>1, <1>2 DEF VisibleLog
  <1>5. Queue(r) \subseteq Messages
    BY DEF Queue
  <1>6. VisibleLog(r) \in Seq(Messages) /\ Len(VisibleLog(r)) = n
    BY <1>4, <1>5
  <1> QED  BY <1>1, <1>3, <1>6

\* A queue whose messages and sequences stay is the same log, consumed as far.
LEMMA SameLog ==
  ASSUME NEW r \in Accounts, Queue(r)' = Queue(r),
         \A m \in Queue(r) : row'[m][r] = row[m][r]
  PROVE  /\ VisibleLog(r)' = VisibleLog(r)
         /\ cursor'[r] = cursor[r] => Consumed(r)' = Consumed(r)
  <1>1. ASSUME NEW q PROVE UpTo(r, q)' = UpTo(r, q)
    BY DEF UpTo
  <1>2. ASSUME NEW i PROVE At(r, i)' = At(r, i)
    <2>1. \A m \in Queue(r) : UpTo(r, row[m][r])' = UpTo(r, row[m][r])
      BY DEF UpTo
    <2> QED  BY <2>1 DEF At
  <1>3. VisibleLog(r)' = VisibleLog(r)
    BY <1>2 DEF VisibleLog
  <1>4. cursor'[r] = cursor[r] => Consumed(r)' = Consumed(r)
    BY <1>1 DEF Consumed
  <1> QED  BY <1>3, <1>4

\* A message whose sequence is above the queue and the cursor comes last.
LEMMA AppendedLog ==
  ASSUME IInv, NEW r \in Accounts, NEW m \in Messages \ Queue(r),
         Queue(r)' = Queue(r) \cup {m},
         \A n \in Queue(r) : row'[n][r] = row[n][r] /\ row[n][r] < row'[m][r],
         row'[m][r] \in Nat, cursor[r] < row'[m][r], cursor'[r] = cursor[r]
  PROVE  VisibleLog(r)' = Append(VisibleLog(r), m) /\ Consumed(r)' = Consumed(r)
  <1>1. PICK k \in Nat : k = Cardinality(Queue(r))
    BY QueueFinite
  <1>2. PICK s \in Nat : s = row'[m][r]
    OBVIOUS
  <1>3. IsFiniteSet(Queue(r)) /\ \A n \in Queue(r) : row[n][r] \in Nat
    BY QueueFinite
  <1>4. Cardinality(Queue(r)') = k + 1
    BY <1>1, <1>3, FS_AddElement
  <1>5. ASSUME NEW q \in Nat, q < s
        PROVE  {n \in Queue(r)' : row'[n][r] <= q} = UpTo(r, q)
    <2>1. ~(row'[m][r] <= q)
      BY <1>2, <1>5
    <2> QED  BY <2>1 DEF UpTo
  <1>6. UpTo(r, row[m][r])' = Queue(r) \cup {m}
    <2>1. \A n \in Queue(r) : row'[n][r] <= row'[m][r]
      BY <1>2, <1>3
    <2>2. row'[m][r] <= row'[m][r]
      BY <1>2
    <2> QED  BY <2>1, <2>2 DEF UpTo
  <1>7. ASSUME NEW n \in Queue(r) PROVE UpTo(r, row[n][r])' = UpTo(r, row[n][r])
    <2>1. PICK q \in Nat : q = row[n][r] /\ q < s /\ row'[n][r] = q
      BY <1>2, <1>3
    <2> QED  BY <1>5, <2>1 DEF UpTo
  <1>8. \A n \in Queue(r) : Cardinality(UpTo(r, row[n][r])) \in 1..k
    BY <1>1, PlacesTaken
  <1>9. Cardinality(UpTo(r, row[m][r])') = k + 1
    BY <1>4, <1>6
  <1>10. ASSUME NEW i \in 1..k PROVE At(r, i)' = At(r, i)
    <2>1. Cardinality(UpTo(r, row[m][r])') # i
      BY <1>9
    <2> QED  BY <1>7, <2>1 DEF At
  <1>11. At(r, k + 1)' = {m}
    <2>1. \A n \in Queue(r) : Cardinality(UpTo(r, row[n][r])') # k + 1
      BY <1>7, <1>8
    <2> QED  BY <1>9, <2>1 DEF At
  <1>12. (CHOOSE n \in {m} : TRUE) = m
    OBVIOUS
  <1>13. VisibleLog(r)' = [i \in 1..(k + 1) |-> CHOOSE n \in At(r, i)' : TRUE]
    BY <1>4 DEF VisibleLog
  <1>14. VisibleLog(r) \in Seq(Messages) /\ Len(VisibleLog(r)) = k
    BY <1>1, LogIsQueue
  <1>15. \A i \in 1..k : VisibleLog(r)[i] = CHOOSE n \in At(r, i) : TRUE
    BY <1>1 DEF VisibleLog
  <1>16. Append(VisibleLog(r), m) = [i \in 1..(k + 1) |-> IF i = k + 1 THEN m ELSE VisibleLog(r)[i]]
    <2>1. PICK L \in Seq(Messages) : L = VisibleLog(r) /\ Len(L) = k
      BY <1>14
    <2>2. Append(L, m) = [i \in 1..(k + 1) |-> IF i = k + 1 THEN m ELSE L[i]]
      <3>1. Append(L, m) \in Seq(Messages) /\ Len(Append(L, m)) = k + 1
        BY <2>1
      <3>2. Append(L, m) \in [1..(k + 1) -> Messages]
        BY <3>1, LenProperties
      <3>3. \A i \in 1..(k + 1) : Append(L, m)[i] = (IF i = k + 1 THEN m ELSE L[i])
        BY <2>1
      <3> QED  BY <3>2, <3>3
    <2> QED  BY <2>1, <2>2
  <1>17. \A i \in 1..(k + 1) : (CHOOSE n \in At(r, i)' : TRUE)
                                 = (IF i = k + 1 THEN m ELSE VisibleLog(r)[i])
    <2>1. \A i \in 1..(k + 1) : i = k + 1 \/ i \in 1..k
      OBVIOUS
    <2>2. (CHOOSE n \in At(r, k + 1)' : TRUE) = m
      BY <1>11, <1>12
    <2>3. \A i \in 1..k : (CHOOSE n \in At(r, i)' : TRUE) = VisibleLog(r)[i] /\ i # k + 1
      BY <1>10, <1>15
    <2> QED  BY <2>1, <2>2, <2>3
  <1>18. VisibleLog(r)' = Append(VisibleLog(r), m)
    BY <1>13, <1>16, <1>17
  <1>19. Consumed(r)' = Consumed(r)
    <2>1. cursor[r] \in Nat /\ cursor[r] < s
      BY <1>2, QueueFinite
    <2>2. UpTo(r, cursor[r])' = UpTo(r, cursor[r])
      BY <1>5, <2>1 DEF UpTo
    <2> QED  BY <2>2 DEF Consumed
  <1> QED  BY <1>18, <1>19

\* At first nothing is visible and nothing is consumed.
LEMMA LogInit == Init => Log!Init
  <1> SUFFICES ASSUME Init PROVE Log!Init
    OBVIOUS
  <1>1. ASSUME NEW r \in Accounts PROVE VisibleLog(r) = <<>> /\ Consumed(r) = 0
    <2>1. Queue(r) = {}
      BY DEF Init, Queue, Visible
    <2>2. UpTo(r, cursor[r]) = {}
      BY <2>1 DEF UpTo
    <2>3. Cardinality({}) = 0
      BY FS_EmptySet
    <2>4. 1..0 = {}
      OBVIOUS
    <2>5. VisibleLog(r) = [i \in {} |-> CHOOSE m \in At(r, i) : TRUE]
      BY <2>1, <2>3, <2>4 DEF VisibleLog
    <2> QED  BY <2>2, <2>3, <2>5 DEF Consumed
  <1> QED  BY <1>1 DEF Log!Init

\* A commit appends the message to the logs of all its recipients at once.
LEMMA CommitPublishes ==
  ASSUME IInv, NEW m \in Messages, CommitSend(m)
  PROVE  Log!Publish(m, rcpt[m])
  <1>1. TypeOK /\ RowsOwned /\ UncommittedIsNewest
    BY DEF IInv
  <1>2. /\ state[m] = "inserting" /\ \A r \in rcpt[m] : row[m][r] # 0
        /\ state' = [state EXCEPT ![m] = "committed"] /\ UNCHANGED <<row, cursor>>
    BY DEF CommitSend, clientVars
  <1>3. state'[m] = "committed" /\ \A n \in Messages \ {m} : state'[n] = state[n]
    BY <1>1, <1>2 DEF TypeOK
  <1>4. \A r \in Accounts : m \notin Queue(r)
    BY <1>2 DEF Queue, Visible
  <1>5. ~Log!Published(m)
    <2>1. ASSUME NEW r \in Accounts, NEW i \in 1..Len(VisibleLog(r)) PROVE VisibleLog(r)[i] # m
      BY <1>4, <2>1, LogIsQueue
    <2> QED  BY <2>1 DEF Log!Published
  <1>6. ASSUME NEW r \in Accounts, r \in rcpt[m]
        PROVE  VisibleLog(r)' = Append(VisibleLog(r), m) /\ Consumed(r)' = Consumed(r)
    <2>1. row[m][r] # 0
      BY <1>2, <1>6
    <2>2. Queue(r)' = Queue(r) \cup {m}
      BY <1>2, <1>3, <2>1 DEF Queue, Visible
    <2>3. \A n \in Queue(r) : row'[n][r] = row[n][r] /\ row[n][r] < row'[m][r]
      BY <1>1, <1>2, <2>1 DEF Queue, UncommittedIsNewest
    <2>4. row'[m][r] \in Nat /\ cursor[r] < row'[m][r] /\ cursor'[r] = cursor[r]
      BY <1>1, <1>2, <2>1 DEF UncommittedIsNewest, TypeOK
    <2>5. m \in Messages \ Queue(r)
      BY <1>4
    <2> QED  BY <2>2, <2>3, <2>4, <2>5, AppendedLog
  <1>7. ASSUME NEW r \in Accounts, r \notin rcpt[m]
        PROVE  VisibleLog(r)' = VisibleLog(r) /\ Consumed(r)' = Consumed(r)
    <2>1. row[m][r] = 0
      BY <1>1, <1>7 DEF RowsOwned
    <2>2. Queue(r)' = Queue(r)
      BY <1>2, <1>3, <2>1 DEF Queue, Visible
    <2> QED  BY <1>2, <2>2, SameLog
  <1>8. [r \in Accounts |-> VisibleLog(r)]'
          = [r \in Accounts |-> IF r \in rcpt[m] THEN Append([q \in Accounts |-> VisibleLog(q)][r], m)
                                               ELSE [q \in Accounts |-> VisibleLog(q)][r]]
    BY <1>6, <1>7
  <1>9. [r \in Accounts |-> Consumed(r)]' = [r \in Accounts |-> Consumed(r)]
    BY <1>6, <1>7
  <1> QED  BY <1>5, <1>8, <1>9 DEF Log!Publish

\* A saved cursor consumes more of the log, or nothing new.
LEMMA AdvanceConsumes ==
  ASSUME IInv, PageAhead, NEW r \in Accounts, AdvanceCursor(r)
  PROVE  [Log!Next]_(Log!vars)
  <1>1. TypeOK
    BY DEF IInv
  <1>2. /\ cursor' = [cursor EXCEPT ![r] = top[r]] /\ UNCHANGED <<state, row>>
        /\ phase[r] = "receiving"
    BY DEF AdvanceCursor, txVars
  <1>3. PICK p \in Nat, q \in Nat : p = cursor[r] /\ q = top[r]
    BY <1>1 DEF TypeOK
  <1>4. p <= q
    BY <1>2, <1>3 DEF PageAhead
  <1>5. cursor'[r] = q /\ \A s \in Accounts \ {r} : cursor'[s] = cursor[s]
    BY <1>1, <1>2, <1>3 DEF TypeOK
  <1>6. ASSUME NEW s \in Accounts
        PROVE  /\ VisibleLog(s)' = VisibleLog(s)
               /\ s # r => Consumed(s)' = Consumed(s)
    <2>1. Queue(s)' = Queue(s)
      BY <1>2 DEF Queue, Visible
    <2> QED  BY <1>2, <1>5, <2>1, SameLog
  <1>7. Consumed(r) = Cardinality(UpTo(r, p)) /\ Consumed(r)' = Cardinality(UpTo(r, q))
    <2>1. UpTo(r, q)' = UpTo(r, q)
      BY <1>2 DEF UpTo, Queue, Visible
    <2> QED  BY <1>3, <1>5, <2>1 DEF Consumed
  <1>8. PICK a \in Nat, b \in Nat : a = Consumed(r) /\ b = Consumed(r)'
    BY <1>3, <1>4, <1>7, UpToGrows
  <1>9. a <= b /\ b <= Len(VisibleLog(r))
    <2>1. PICK c \in Nat : c = Cardinality(Queue(r)) /\ c = Len(VisibleLog(r))
      BY QueueFinite, LogIsQueue
    <2>2. /\ Cardinality(UpTo(r, p)) <= Cardinality(UpTo(r, q))
          /\ Cardinality(UpTo(r, q)) <= Cardinality(Queue(r))
      BY <1>3, <1>4, UpToGrows
    <2> QED  BY <1>7, <1>8, <2>1, <2>2
  <1>10. [s \in Accounts |-> VisibleLog(s)]' = [s \in Accounts |-> VisibleLog(s)]
    BY <1>6
  <1>11. CASE a = b
    <2>1. [s \in Accounts |-> Consumed(s)]' = [s \in Accounts |-> Consumed(s)]
      BY <1>6, <1>8, <1>11
    <2> QED  BY <1>10, <2>1 DEF Log!vars
  <1>12. CASE a < b
    <2>1. [s \in Accounts |-> Consumed(s)]' = [[s \in Accounts |-> Consumed(s)] EXCEPT ![r] = b]
      BY <1>6, <1>8
    <2>2. Log!Consume(r, b)
      BY <1>8, <1>10, <1>12, <2>1 DEF Log!Consume
    <2>3. Len(VisibleLog(r)) \in Nat
      BY LogIsQueue
    <2>4. b \in 1..Len([s \in Accounts |-> VisibleLog(s)][r])
      BY <1>8, <1>9, <1>12, <2>3
    <2> QED  BY <2>2, <2>4 DEF Log!Next
  <1> QED  BY <1>8, <1>9, <1>11, <1>12

\* No other step is one of the log's: what is visible and the cursors stay.
LEMMA StepRefines == IInv /\ PageAhead /\ [Next]_vars => [Log!Next]_(Log!vars)
  <1> SUFFICES ASSUME IInv, PageAhead, [Next]_vars PROVE [Log!Next]_(Log!vars)
    OBVIOUS
  <1>1. TypeOK
    BY DEF IInv
  <1>2. ASSUME UNCHANGED cursor,
               \A n \in Messages, r \in Accounts : /\ Visible(n, r)' <=> Visible(n, r)
                                                   /\ Visible(n, r) => row'[n][r] = row[n][r]
        PROVE  [Log!Next]_(Log!vars)
    <2>1. ASSUME NEW r \in Accounts
          PROVE  VisibleLog(r)' = VisibleLog(r) /\ Consumed(r)' = Consumed(r)
      <3>1. Queue(r)' = Queue(r) /\ \A n \in Queue(r) : row'[n][r] = row[n][r]
        BY <1>2 DEF Queue
      <3> QED  BY <1>2, <3>1, SameLog
    <2> QED  BY <2>1 DEF Log!vars
  <1>3. ASSUME UNCHANGED <<state, row, cursor>> PROVE [Log!Next]_(Log!vars)
    <2>1. \A n \in Messages, r \in Accounts : /\ Visible(n, r)' <=> Visible(n, r)
                                              /\ Visible(n, r) => row'[n][r] = row[n][r]
      BY <1>3 DEF Visible
    <2> QED  BY <1>2, <1>3, <2>1
  <1>4. ASSUME NEW m \in Messages, CommitSend(m) PROVE [Log!Next]_(Log!vars)
    <2>1. rcpt[m] \in SUBSET Accounts
      BY <1>1 DEF TypeOK
    <2>2. Log!Publish(m, rcpt[m])
      BY <1>4, CommitPublishes
    <2> QED  BY <2>1, <2>2 DEF Log!Next
  <1>5. ASSUME NEW m \in Messages,
               \/ Begin(m) \/ InsertEvent(m) \/ AbortSend(m)
               \/ \E r \in Accounts : LockQueue(m, r) \/ InsertDelivery(m, r)
        PROVE  [Log!Next]_(Log!vars)
    <2>1. UNCHANGED cursor
      BY <1>5 DEF Begin, InsertEvent, AbortSend, LockQueue, InsertDelivery, clientVars
    <2>2. state[m] # "committed" /\ state'[m] # "committed"
      BY <1>1, <1>5 DEF Begin, InsertEvent, AbortSend, LockQueue, InsertDelivery, Open, TypeOK
    <2>3. \A n \in Messages \ {m} : state'[n] = state[n] /\ row'[n] = row[n]
      <3>1. CASE Begin(m) \/ InsertEvent(m)
        BY <1>1, <3>1 DEF Begin, InsertEvent, TypeOK
      <3>2. CASE AbortSend(m)
        BY <1>1, <3>2 DEF AbortSend, TypeOK
      <3>3. ASSUME NEW r \in Accounts, LockQueue(m, r) \/ InsertDelivery(m, r)
            PROVE  \A n \in Messages \ {m} : state'[n] = state[n] /\ row'[n] = row[n]
        BY <1>1, <3>3 DEF LockQueue, InsertDelivery, TypeOK
      <3> QED  BY <1>5, <3>1, <3>2, <3>3
    <2>4. \A n \in Messages, r \in Accounts : /\ Visible(n, r)' <=> Visible(n, r)
                                              /\ Visible(n, r) => row'[n][r] = row[n][r]
      BY <2>2, <2>3 DEF Visible
    <2> QED  BY <1>2, <2>1, <2>4
  <1>6. ASSUME NEW m \in Messages, Redact(m) PROVE [Log!Next]_(Log!vars)
    BY <1>3, <1>6 DEF Redact, txVars, clientVars
  <1>7. ASSUME NEW r \in Accounts, Leave(r) \/ Rejoin(r) PROVE [Log!Next]_(Log!vars)
    BY <1>3, <1>7 DEF Leave, Rejoin, txVars, clientVars
  <1>8. ASSUME NEW r \in Accounts, RunStep(r) \/ Crash(r) PROVE [Log!Next]_(Log!vars)
    <2>1. CASE AdvanceCursor(r)
      BY <2>1, AdvanceConsumes
    <2>2. CASE ~AdvanceCursor(r)
      <3>1. UNCHANGED <<state, row, cursor>>
        BY <1>8, <2>2 DEF RunStep, ReadPage, Grant, Reply, Receive, Acknowledge, Record, Crash,
                          txVars, clientVars
      <3> QED  BY <1>3, <3>1
    <2> QED  BY <2>1, <2>2
  <1>9. CASE UNCHANGED vars
    BY <1>3, <1>9 DEF vars, txVars, clientVars
  <1>10. ASSUME NEW m \in Messages, Begin(m) \/ SendStep(m) \/ AbortSend(m) \/ Redact(m)
         PROVE  [Log!Next]_(Log!vars)
    BY <1>4, <1>5, <1>6, <1>10 DEF SendStep
  <1> QED  BY <1>7, <1>8, <1>9, <1>10, DeliveryQueueAssumption DEF Next

\* The relay implements the per-recipient log: a commit appends to the logs of
\* all its recipients at their ends and at once, whatever sequences were taken
\* before it, and a client's saved cursor only ever consumes a longer prefix.
THEOREM LogImplemented == Spec => ImplementsRecipientLog
  <1>1. Init => IInv /\ PageAhead /\ Log!Init
    BY InitInv, AheadInit, LogInit
  <1>2. IInv /\ PageAhead /\ [Next]_vars => IInv' /\ PageAhead' /\ [Log!Next]_(Log!vars)
    BY NextInv, AheadStep, StepRefines
  <1> QED  BY <1>1, <1>2, PTL DEF Spec, ImplementsRecipientLog, Log!Spec

-----------------------------------------------------------------------------
(* Deletion for everyone: Redaction, as DeletionFeed names its state        *)

-----------------------------------------------------------------------------
(* The inductive invariant of Redaction                                     *)

\* An answer that confirms a deletion is right, and what is deleted was sent.
AnswersTrue ==
    /\ \A m \in Mine : call[m] = "redacted" => m \in Del!Redacted
    /\ open \cup Del!Redacted \subseteq events

\* No cursor and no page is ahead of the feed.
PagesBehind ==
    /\ seen <= Len(feed[Me])
    /\ \A w \in Workers : worker[w].at = "apply" => worker[w].to <= Len(feed[Me])

\* A message that was sent was composed; the phone that composed it has it, or
\* knows that it was erased.
Composed ==
    \A m \in Mine :
        /\ madeOn[m] <= phone
        /\ outbox[m] # "none" => madeOn[m] = phone
        /\ madeOn[m] = phone => outbox[m] # "none" \/ m \in tombs
        /\ m \in events \cup sending => madeOn[m] # 0

\* What a restore must leave out was redacted, and is read when it imports.
RestoreCovers ==
    /\ restore.from <= Len(feed[Me])
    /\ restore.before \subseteq Del!Redacted
    /\ restore.at = "importing" => restore.before \subseteq Del!OnPage(0, restore.from)

\* The rows of a page are in the log.
ListedLogged == \A w \in Workers : worker[w].items \subseteq DOMAIN log

\* The copies of own messages that the phone was told to erase.
OwnGone == \A m \in Mine \cap Del!OnPage(0, seen) : outbox[m] = "none"

\* While one synchronizer runs, its page names nothing that it was told to erase.
ReadGone ==
    Workers = {Inbox} =>
        /\ received \cap Del!OnPage(0, seen) = {}
        /\ worker[Inbox].at = "receive" =>
             \A i \in worker[Inbox].items : log[i] \notin Del!OnPage(0, seen)

DeletionInv ==
    /\ Del!RedactionBounds
    /\ Del!TypeOK
    /\ AnswersTrue
    /\ PagesBehind
    /\ Composed
    /\ RestoreCovers
    /\ ListedLogged
    /\ OwnGone
    /\ ReadGone

-----------------------------------------------------------------------------
(* Types                                                                    *)

\* The bounds as single facts.
LEMMA DeletionBounds ==
  ASSUME Del!RedactionBounds
  PROVE  /\ Mine \cap Theirs = {} /\ Nobody \notin Del!Messages /\ Me # Peer
         /\ Order \in {<<Me, Peer>>, <<Peer, Me>>} /\ Inbox \in Workers
         /\ PageSize \in Nat \ {0} /\ MaxPhones \in Nat \ {0} /\ MaxFaults \in Nat
  BY DEF Del!RedactionBounds, Del!Messages

\* A page ends within the feed, and at its end unless it is full.
LEMMA PageWithin ==
  ASSUME Del!RedactionBounds, Del!TypeOK, NEW c \in Nat
  PROVE  /\ Del!Page(c) \in Nat /\ Del!Page(c) <= Len(feed[Me])
         /\ c <= Len(feed[Me]) => c <= Del!Page(c)
  <1>1. PICK n \in Nat, p \in Nat : n = Len(feed[Me]) /\ p = PageSize
    BY DeletionBounds DEF Del!TypeOK, Del!Accounts
  <1> QED  BY <1>1 DEF Del!Page

\* What the feed lists, and what of it is on a page, are messages.
LEMMA OnFeed ==
  ASSUME Del!TypeOK, NEW from \in Nat, NEW to \in Nat, to <= Len(feed[Me])
  PROVE  /\ Del!OnPage(from, to) \subseteq Del!OnPage(0, to) /\ Del!OnPage(0, to) \subseteq Del!Redacted
         /\ Del!Redacted \subseteq Del!Messages
         /\ Del!OnPage(0, to) \subseteq Del!OnPage(0, from) \cup Del!OnPage(from, to)
  <1>1. feed[Me] \in Seq(Del!Messages)
    BY DEF Del!TypeOK, Del!Accounts
  <1>2. DOMAIN feed[Me] = 1..Len(feed[Me]) /\ \A i \in DOMAIN feed[Me] : feed[Me][i] \in Del!Messages
    BY <1>1
  <1>3. PICK n \in Nat : n = Len(feed[Me])
    BY <1>1
  <1>4. (from + 1)..to \subseteq (0 + 1)..to /\ (0 + 1)..to \subseteq 1..n
        /\ \A i \in (0 + 1)..to : i \in (0 + 1)..from \/ i \in (from + 1)..to
    BY <1>3
  <1> QED  BY <1>2, <1>3, <1>4 DEF Del!OnPage, Del!Redacted

\* At first nothing exists, and the account uses its first phone.
LEMMA DeletionInitTyped == Del!RedactionBounds /\ Del!Init => Del!TypeOK
  <1> SUFFICES ASSUME Del!RedactionBounds, Del!Init PROVE Del!TypeOK
    OBVIOUS
  <1>1. phone \in 1..MaxPhones /\ faults \in 0..MaxFaults
    BY DeletionBounds DEF Del!Init
  <1>2. madeOn \in [Mine -> 0..MaxPhones]
    BY DeletionBounds DEF Del!Init
  <1>3. log \in Seq(Theirs) /\ feed \in [Del!Accounts -> Seq(Del!Messages)]
    BY DEF Del!Init
  <1>4. Del!NoRun \in [at : {"idle", "apply", "list", "receive", "again"},
                   round : 1..2, from : Nat, to : Nat, items : SUBSET Nat]
    BY DEF Del!NoRun
  <1>5. restore \in [at : {"idle", "reading", "importing"}, from : Nat, before : SUBSET Del!Messages]
    BY DEF Del!Init, Del!NoRestore
  <1>6. worker \in [Workers -> [at : {"idle", "apply", "list", "receive", "again"},
                                round : 1..2, from : Nat, to : Nat, items : SUBSET Nat]]
    BY <1>4 DEF Del!Init
  <1> QED  BY <1>1, <1>2, <1>3, <1>5, <1>6 DEF Del!Init, Del!TypeOK

\* The server's transactions, and the peer.
LEMMA ServerTyped ==
  ASSUME Del!RedactionBounds, Del!TypeOK, NEW m \in Del!Messages,
         Del!Redacting(m) \/ Del!AbortRedact(m) \/ (m \in Theirs /\ (Del!PeerSend(m) \/ Del!PeerRedact(m)))
  PROVE  Del!TypeOK'
  <1>1. CASE Del!LockFeed(m)
    <2>1. UNCHANGED <<events, log, open, feed, Del!phoneVars, backup, Del!requestVars, Del!runVars, faults>>
      BY <1>1 DEF Del!LockFeed
    <2>2. feedHolder' \in [Del!Accounts -> Del!Messages \cup {Nobody}]
      <3>1. PICK a : feedHolder' = [feedHolder EXCEPT ![a] = m]
        BY <1>1 DEF Del!LockFeed
      <3> QED  BY <3>1 DEF Del!TypeOK
    <2> QED  BY <2>1, <2>2 DEF Del!TypeOK, Del!phoneVars, Del!messageVars, Del!requestVars,
                               Del!runVars
  <1>2. CASE Del!CommitRedact(m)
    <2>1. UNCHANGED <<events, log, Del!phoneVars, backup, Del!requestVars, Del!runVars, faults>>
      BY <1>2 DEF Del!CommitRedact
    <2>2. feedHolder' \in [Del!Accounts -> Del!Messages \cup {Nobody}]
      BY <1>2 DEF Del!CommitRedact, Del!Unlocked, Del!TypeOK
    <2>3. feed' \in [Del!Accounts -> Seq(Del!Messages)] /\ open' \in SUBSET Del!Messages
      BY <1>2 DEF Del!CommitRedact, Del!TypeOK
    <2> QED  BY <2>1, <2>2, <2>3 DEF Del!TypeOK, Del!phoneVars, Del!messageVars,
                                     Del!requestVars, Del!runVars
  <1>3. CASE Del!AbortRedact(m)
    <2>1. UNCHANGED <<events, log, feed, Del!phoneVars, backup, sending, Del!runVars>>
      BY <1>3 DEF Del!AbortRedact
    <2>2. feedHolder' \in [Del!Accounts -> Del!Messages \cup {Nobody}] /\ open' \in SUBSET Del!Messages
      BY <1>3 DEF Del!AbortRedact, Del!Unlocked, Del!TypeOK
    <2>3. faults' \in 0..MaxFaults
      <3>1. faults < MaxFaults /\ faults' = faults + 1 /\ faults \in Nat /\ MaxFaults \in Nat
        BY <1>3, DeletionBounds DEF Del!AbortRedact, Del!TypeOK
      <3> QED  BY <3>1
    <2>4. call' \in [Mine -> {"idle", "asked", "redacted", "denied"}]
      BY <1>3 DEF Del!AbortRedact, Del!TypeOK
    <2> QED  BY <2>1, <2>2, <2>3, <2>4 DEF Del!TypeOK, Del!phoneVars, Del!messageVars,
                                           Del!runVars
  <1>4. CASE m \in Theirs /\ Del!PeerSend(m)
    <2>1. UNCHANGED <<open, feedHolder, feed, Del!phoneVars, backup, Del!requestVars, Del!runVars, faults>>
      BY <1>4 DEF Del!PeerSend
    <2>2. events' \in SUBSET Del!Messages /\ log' \in Seq(Theirs)
      BY <1>4 DEF Del!PeerSend, Del!TypeOK
    <2> QED  BY <2>1, <2>2 DEF Del!TypeOK, Del!phoneVars, Del!messageVars, Del!requestVars,
                               Del!runVars
  <1>5. CASE Del!PeerRedact(m)
    <2>1. UNCHANGED <<events, log, feedHolder, feed, Del!phoneVars, backup, Del!requestVars, Del!runVars, faults>>
      BY <1>5 DEF Del!PeerRedact, Del!LockEvent
    <2>2. open' \in SUBSET Del!Messages
      BY <1>5 DEF Del!PeerRedact, Del!LockEvent, Del!TypeOK
    <2> QED  BY <2>1, <2>2 DEF Del!TypeOK, Del!phoneVars, Del!messageVars, Del!requestVars,
                               Del!runVars
  <1> QED  BY <1>1, <1>2, <1>3, <1>4, <1>5 DEF Del!Redacting

\* Messages of this account, and their deletions.
LEMMA OwnTyped ==
  ASSUME Del!RedactionBounds, Del!TypeOK, NEW m \in Mine,
         \/ Del!Draft(m) \/ Del!Upload(m) \/ Del!Accept(m) \/ Del!ConfirmSend(m) \/ Del!LoseSend(m)
         \/ Del!BeginDeletion(m) \/ Del!Deleting(m) \/ Del!LoseRedact(m)
  PROVE  Del!TypeOK'
  <1>0. m \in Del!Messages
    BY DEF Del!Messages
  <1>f. ASSUME faults < MaxFaults, faults' = faults + 1 PROVE faults' \in 0..MaxFaults
    <2>1. faults \in Nat /\ MaxFaults \in Nat
      BY DeletionBounds DEF Del!TypeOK
    <2> QED  BY <1>f, <2>1
  <1>1. CASE Del!Draft(m)
    <2>1. UNCHANGED <<Del!serverVars, phone, received, opened, archive, tombs, deletion, seen, inbox,
                      backup, Del!requestVars, Del!runVars, faults>>
      BY <1>1 DEF Del!Draft
    <2>2. phone \in 0..MaxPhones
      BY DeletionBounds DEF Del!TypeOK
    <2>3. madeOn' \in [Mine -> 0..MaxPhones]
      BY <1>1, <2>2 DEF Del!Draft, Del!TypeOK
    <2>4. outbox' \in [Mine -> {"none", "queued", "sent"}]
      BY <1>1 DEF Del!Draft, Del!TypeOK
    <2> QED  BY <2>1, <2>3, <2>4 DEF Del!TypeOK, Del!serverVars, Del!requestVars, Del!runVars
  <1>2. CASE Del!Upload(m)
    <2>1. UNCHANGED <<Del!serverVars, Del!phoneVars, backup, call, Del!runVars, faults>> /\ sending' \in SUBSET Mine
      BY <1>2 DEF Del!Upload, Del!TypeOK
    <2> QED  BY <2>1 DEF Del!TypeOK, Del!serverVars, Del!phoneVars, Del!messageVars, Del!runVars
  <1>3. CASE Del!Accept(m)
    <2>1. /\ UNCHANGED <<log, open, feedHolder, feed, Del!phoneVars, backup, Del!requestVars, Del!runVars, faults>>
          /\ events' \in SUBSET Del!Messages
      BY <1>0, <1>3 DEF Del!Accept, Del!TypeOK
    <2> QED  BY <2>1 DEF Del!TypeOK, Del!phoneVars, Del!messageVars, Del!requestVars,
                         Del!runVars
  <1>4. CASE Del!ConfirmSend(m)
    <2>1. UNCHANGED <<Del!serverVars, phone, madeOn, received, opened, archive, tombs, deletion, seen, inbox,
                      backup, call, Del!runVars, faults>> /\ sending' \in SUBSET Mine
      BY <1>4 DEF Del!ConfirmSend, Del!TypeOK
    <2>2. outbox' \in [Mine -> {"none", "queued", "sent"}]
      BY <1>4 DEF Del!ConfirmSend, Del!TypeOK
    <2> QED  BY <2>1, <2>2 DEF Del!TypeOK, Del!serverVars, Del!runVars
  <1>5. CASE Del!LoseSend(m)
    <2>1. UNCHANGED <<Del!serverVars, Del!phoneVars, backup, call, Del!runVars>> /\ sending' \in SUBSET Mine
      BY <1>5 DEF Del!LoseSend, Del!TypeOK
    <2>2. faults' \in 0..MaxFaults
      BY <1>5, <1>f DEF Del!LoseSend
    <2> QED  BY <2>1, <2>2 DEF Del!TypeOK, Del!serverVars, Del!phoneVars, Del!messageVars,
                               Del!runVars
  <1>6. CASE Del!BeginDeletion(m)
    <2>1. /\ UNCHANGED <<Del!serverVars, phone, madeOn, Del!messageVars, seen, inbox, backup, Del!requestVars, Del!runVars, faults>>
          /\ deletion' \in [Mine -> {"none", "begun", "confirmed"}]
      BY <1>6 DEF Del!BeginDeletion, Del!TypeOK
    <2> QED  BY <2>1 DEF Del!TypeOK, Del!serverVars, Del!messageVars, Del!requestVars,
                         Del!runVars
  <1>7. CASE Del!AskRedact(m) \/ Del!AnswerRedact(m)
    <2>1. UNCHANGED <<Del!serverVars, Del!phoneVars, backup, sending, Del!runVars, faults>>
      BY <1>7 DEF Del!AskRedact, Del!AnswerRedact
    <2>2. call' \in [Mine -> {"idle", "asked", "redacted", "denied"}]
      BY <1>7 DEF Del!AskRedact, Del!AnswerRedact, Del!TypeOK
    <2> QED  BY <2>1, <2>2 DEF Del!TypeOK, Del!serverVars, Del!phoneVars, Del!messageVars,
                               Del!runVars
  <1>8. CASE Del!ServeRedact(m)
    <2>1. /\ UNCHANGED <<events, log, feedHolder, feed, Del!phoneVars, backup, Del!requestVars, Del!runVars, faults>>
          /\ open' \in SUBSET Del!Messages
      BY <1>0, <1>8 DEF Del!ServeRedact, Del!LockEvent, Del!TypeOK
    <2> QED  BY <2>1 DEF Del!TypeOK, Del!phoneVars, Del!messageVars, Del!requestVars,
                         Del!runVars
  <1>9. CASE Del!ConfirmRedaction(m)
    <2>1. UNCHANGED <<Del!serverVars, phone, madeOn, seen, inbox, backup, sending, Del!runVars, faults, opened>>
      BY <1>9 DEF Del!ConfirmRedaction, Del!Erase
    <2>2. call' \in [Mine -> {"idle", "asked", "redacted", "denied"}]
      BY <1>9 DEF Del!ConfirmRedaction, Del!TypeOK
    <2>3. deletion' \in [Mine -> {"none", "begun", "confirmed"}]
      BY <1>9 DEF Del!ConfirmRedaction, Del!TypeOK
    <2>4. /\ outbox' \in [Mine -> {"none", "queued", "sent"}] /\ received' \in SUBSET Theirs
          /\ archive' \in SUBSET Del!Messages /\ tombs' \in SUBSET Mine
      BY <1>9 DEF Del!ConfirmRedaction, Del!Erase, Del!TypeOK
    <2> QED  BY <2>1, <2>2, <2>3, <2>4 DEF Del!TypeOK, Del!serverVars, Del!runVars
  <1>10. CASE Del!CancelRedaction(m)
    <2>1. UNCHANGED <<Del!serverVars, phone, madeOn, Del!messageVars, seen, inbox, backup, sending, Del!runVars, faults>>
      BY <1>10 DEF Del!CancelRedaction
    <2>2. call' \in [Mine -> {"idle", "asked", "redacted", "denied"}]
      BY <1>10 DEF Del!CancelRedaction, Del!TypeOK
    <2>3. deletion' \in [Mine -> {"none", "begun", "confirmed"}]
      BY <1>10 DEF Del!CancelRedaction, Del!TypeOK
    <2> QED  BY <2>1, <2>2, <2>3 DEF Del!TypeOK, Del!serverVars, Del!messageVars, Del!runVars
  <1>11. CASE Del!CompleteRedaction(m)
    <2>1. /\ UNCHANGED <<Del!serverVars, phone, madeOn, Del!messageVars, seen, inbox, backup, Del!requestVars, Del!runVars, faults>>
          /\ deletion' \in [Mine -> {"none", "begun", "confirmed"}]
      BY <1>11 DEF Del!CompleteRedaction, Del!TypeOK
    <2> QED  BY <2>1 DEF Del!TypeOK, Del!serverVars, Del!messageVars, Del!requestVars,
                         Del!runVars
  <1>12. CASE Del!LoseRedact(m)
    <2>1. /\ UNCHANGED <<Del!serverVars, Del!phoneVars, backup, sending, Del!runVars>>
          /\ call' \in [Mine -> {"idle", "asked", "redacted", "denied"}]
      BY <1>12 DEF Del!LoseRedact, Del!TypeOK
    <2>2. faults' \in 0..MaxFaults
      BY <1>12, <1>f DEF Del!LoseRedact
    <2> QED  BY <2>1, <2>2 DEF Del!TypeOK, Del!serverVars, Del!phoneVars, Del!messageVars,
                               Del!runVars
  <1> QED
    BY <1>1, <1>2, <1>3, <1>4, <1>5, <1>6, <1>7, <1>8, <1>9, <1>10, <1>11,
        <1>12 DEF Del!Deleting

\* The synchronizers.
LEMMA SyncTyped ==
  ASSUME Del!RedactionBounds, Del!TypeOK, ListedLogged, NEW w \in Workers, Del!Syncing(w) \/ Del!LoseRun(w)
  PROVE  Del!TypeOK'
  <1> DEFINE Runs == [at : {"idle", "apply", "list", "receive", "again"},
                      round : 1..2, from : Nat, to : Nat, items : SUBSET Nat]
  <1>1. worker \in [Workers -> Runs] /\ worker[w] \in Runs
    BY DEF Del!TypeOK
  <1>2. Del!NoRun \in Runs /\ [Del!NoRun EXCEPT !.at = "list"] \in Runs /\ [Del!NoRun EXCEPT !.at = "again"] \in Runs
    BY DEF Del!NoRun
  <1>3. ASSUME NEW run \in Runs, Del!Set(w, run) PROVE worker' \in [Workers -> Runs]
    BY <1>1, <1>3 DEF Del!Set
  <1>4. CASE Del!FetchRedactions(w)
    <2>1. UNCHANGED <<Del!serverVars, Del!phoneVars, backup, Del!requestVars, restore, faults>>
      BY <1>4 DEF Del!FetchRedactions
    <2>2. PICK k \in 1..2 : Del!Set(w, [Del!NoRun EXCEPT !.at = "apply", !.from = seen, !.to = Del!Page(seen), !.round = k])
      <3>1. Del!Set(w, [Del!NoRun EXCEPT !.at = "apply", !.from = seen, !.to = Del!Page(seen),
                                 !.round = IF worker[w].at = "again" THEN 2 ELSE 1])
        BY <1>4 DEF Del!FetchRedactions
      <3>2. (IF worker[w].at = "again" THEN 2 ELSE 1) \in 1..2
        OBVIOUS
      <3> QED  BY <3>1, <3>2
    <2>3. seen \in Nat /\ Del!Page(seen) \in Nat
      BY PageWithin DEF Del!TypeOK
    <2>4. [Del!NoRun EXCEPT !.at = "apply", !.from = seen, !.to = Del!Page(seen), !.round = k] \in Runs
      BY <2>3 DEF Del!NoRun
    <2>5. worker' \in [Workers -> Runs]
      BY <1>3, <2>2, <2>4
    <2> QED  BY <2>1, <2>5 DEF Del!TypeOK, Del!serverVars, Del!phoneVars, Del!messageVars,
                               Del!requestVars
  <1>5. CASE Del!ApplyRedactions(w)
    <2>1. UNCHANGED <<Del!serverVars, phone, madeOn, deletion, inbox, backup, Del!requestVars, restore, faults>>
      BY <1>5 DEF Del!ApplyRedactions
    <2>2. CASE worker[w].from = seen
      <3>1. /\ seen' = worker[w].to /\ Del!Erase(Del!OnPage(worker[w].from, worker[w].to))
            /\ Del!Set(w, Del!NextStep(worker[w]))
        BY <1>5, <2>2 DEF Del!ApplyRedactions
      <3>2. Del!NextStep(worker[w]) \in Runs
        BY <1>2 DEF Del!NextStep
      <3>3. worker' \in [Workers -> Runs] /\ seen' \in Nat
        BY <1>1, <1>3, <3>1, <3>2
      <3>4. /\ outbox' \in [Mine -> {"none", "queued", "sent"}] /\ received' \in SUBSET Theirs
            /\ archive' \in SUBSET Del!Messages /\ tombs' \in SUBSET Mine /\ UNCHANGED opened
        BY <3>1 DEF Del!Erase, Del!TypeOK
      <3> QED  BY <2>1, <3>3, <3>4 DEF Del!TypeOK, Del!serverVars, Del!requestVars
    <2>3. CASE worker[w].from # seen
      <3>1. Del!Set(w, Del!NoRun) /\ UNCHANGED <<seen, Del!messageVars>>
        BY <1>5, <2>3 DEF Del!ApplyRedactions
      <3>2. worker' \in [Workers -> Runs]
        BY <1>2, <1>3, <3>1
      <3> QED  BY <2>1, <3>1, <3>2 DEF Del!TypeOK, Del!serverVars, Del!messageVars,
                                       Del!requestVars
    <2> QED  BY <2>2, <2>3
  <1>6. CASE Del!ListMessages(w)
    <2>1. UNCHANGED <<Del!serverVars, Del!phoneVars, backup, Del!requestVars, restore, faults>>
      BY <1>6 DEF Del!ListMessages
    <2>2. PICK rows \in SUBSET DOMAIN log :
            \E q \in rows \cup {inbox, 0} : Del!Set(w, [worker[w] EXCEPT !.at = "receive", !.items = rows, !.to = q])
      BY <1>6 DEF Del!ListMessages
    <2>p. PICK last \in rows \cup {inbox, 0} :
            Del!Set(w, [worker[w] EXCEPT !.at = "receive", !.items = rows, !.to = last])
      BY <2>2
    <2>3. rows \subseteq Nat /\ last \in Nat
      <3>1. DOMAIN log \subseteq Nat /\ inbox \in Nat
        BY DEF Del!TypeOK
      <3> QED  BY <3>1
    <2>4. [worker[w] EXCEPT !.at = "receive", !.items = rows, !.to = last] \in Runs
      BY <1>1, <2>3
    <2>5. worker' \in [Workers -> Runs]
      BY <1>3, <2>p, <2>4
    <2> QED  BY <2>1, <2>5 DEF Del!TypeOK, Del!serverVars, Del!phoneVars, Del!messageVars,
                               Del!requestVars
  <1>7. CASE Del!Receive(w)
    <2>1. UNCHANGED <<Del!serverVars, phone, madeOn, outbox, archive, tombs, deletion, seen, inbox,
                      backup, Del!requestVars, restore, faults>>
      BY <1>7 DEF Del!Receive
    <2>2. PICK i \in worker[w].items :
            /\ received' = IF log[i] \in opened THEN received ELSE received \cup {log[i]}
            /\ opened' = opened \cup {log[i]}
            /\ Del!Set(w, IF log[i] \in opened \ received THEN Del!NoRun ELSE [worker[w] EXCEPT !.items = @ \ {i}])
      BY <1>7 DEF Del!Receive
    <2>3. log[i] \in Theirs
      BY <2>2 DEF ListedLogged, Del!TypeOK
    <2>4. received' \in SUBSET Theirs /\ opened' \in SUBSET Theirs
      BY <2>2, <2>3 DEF Del!TypeOK
    <2>5. [worker[w] EXCEPT !.items = @ \ {i}] \in Runs
      BY <1>1
    <2>6. worker' \in [Workers -> Runs]
      BY <1>2, <1>3, <2>2, <2>5
    <2> QED  BY <2>1, <2>4, <2>6 DEF Del!TypeOK, Del!serverVars, Del!requestVars
  <1>8. CASE Del!PageDone(w)
    <2>1. UNCHANGED <<Del!serverVars, phone, madeOn, Del!messageVars, deletion, seen, backup, Del!requestVars, restore, faults>>
      BY <1>8 DEF Del!PageDone
    <2>2. inbox' \in Nat
      BY <1>1, <1>8 DEF Del!PageDone, Del!TypeOK
    <2>3. worker' \in [Workers -> Runs]
      BY <1>2, <1>3, <1>8 DEF Del!PageDone
    <2> QED  BY <2>1, <2>2, <2>3 DEF Del!TypeOK, Del!serverVars, Del!messageVars,
                                     Del!requestVars
  <1>9. CASE Del!LoseRun(w)
    <2>1. UNCHANGED <<Del!serverVars, Del!phoneVars, backup, Del!requestVars, restore>>
      BY <1>9 DEF Del!LoseRun
    <2>2. worker' \in [Workers -> Runs]
      BY <1>2, <1>3, <1>9 DEF Del!LoseRun
    <2>3. faults' \in 0..MaxFaults
      <3>1. faults \in Nat /\ MaxFaults \in Nat /\ faults < MaxFaults /\ faults' = faults + 1
        BY <1>9, DeletionBounds DEF Del!LoseRun, Del!TypeOK
      <3> QED  BY <3>1
    <2> QED  BY <2>1, <2>2, <2>3 DEF Del!TypeOK, Del!serverVars, Del!phoneVars,
                                     Del!messageVars, Del!requestVars
  <1> QED  BY <1>4, <1>5, <1>6, <1>7, <1>8, <1>9 DEF Del!Syncing

\* Archives, crashes and replacement phones.
LEMMA PhoneTyped ==
  ASSUME Del!RedactionBounds, Del!TypeOK,
         \/ Del!CreateBackup \/ Del!StartRestore \/ Del!ReadLedger \/ Del!ImportHistory \/ Del!Crash \/ Del!ReplacePhone
  PROVE  Del!TypeOK'
  <1> DEFINE Runs == [at : {"idle", "apply", "list", "receive", "again"},
                      round : 1..2, from : Nat, to : Nat, items : SUBSET Nat]
  <1> DEFINE Restores == [at : {"idle", "reading", "importing"}, from : Nat, before : SUBSET Del!Messages]
  <1>1. restore \in Restores /\ Del!NoRestore \in Restores
    BY DEF Del!TypeOK, Del!NoRestore
  <1>2. ASSUME Del!Idle
        PROVE  /\ sending' \in SUBSET Mine /\ call' \in [Mine -> {"idle", "asked", "redacted", "denied"}]
               /\ worker' \in [Workers -> Runs] /\ restore' \in Restores
    <2>1. Del!NoRun \in Runs
      BY DEF Del!NoRun
    <2>2. worker' \in [Workers -> Runs]
      BY <1>2, <2>1 DEF Del!Idle
    <2> QED  BY <1>1, <1>2, <2>2 DEF Del!Idle
  <1>3. Del!Redacted \subseteq Del!Messages
    BY DEF Del!Redacted, Del!TypeOK, Del!Accounts
  <1>4. CASE Del!CreateBackup
    <2>1. UNCHANGED <<Del!serverVars, Del!phoneVars, Del!requestVars, Del!runVars, faults>> /\ backup' \in SUBSET Del!Messages
      BY <1>4 DEF Del!CreateBackup, Del!TypeOK, Del!Messages
    <2> QED  BY <2>1 DEF Del!TypeOK, Del!serverVars, Del!phoneVars, Del!messageVars,
                         Del!requestVars, Del!runVars
  <1>5. CASE Del!StartRestore
    <2>1. UNCHANGED <<Del!serverVars, Del!phoneVars, backup, Del!requestVars, worker, faults>> /\ restore' \in Restores
      BY <1>3, <1>5 DEF Del!StartRestore
    <2> QED  BY <2>1 DEF Del!TypeOK, Del!serverVars, Del!phoneVars, Del!messageVars,
                         Del!requestVars
  <1>6. CASE Del!ReadLedger
    <2>1. UNCHANGED <<Del!serverVars, Del!phoneVars, backup, Del!requestVars, worker, faults>>
      BY <1>6 DEF Del!ReadLedger
    <2>2. Del!Page(restore.from) \in Nat
      BY <1>1, PageWithin
    <2>3. restore' \in Restores
      BY <1>1, <1>6, <2>2 DEF Del!ReadLedger
    <2> QED  BY <2>1, <2>3 DEF Del!TypeOK, Del!serverVars, Del!phoneVars, Del!messageVars,
                               Del!requestVars
  <1>7. CASE Del!ImportHistory
    <2>1. UNCHANGED <<Del!serverVars, phone, madeOn, outbox, received, opened, tombs, deletion, seen, inbox,
                      backup, Del!requestVars, worker, faults>>
      BY <1>7 DEF Del!ImportHistory
    <2>2. archive' \in SUBSET Del!Messages /\ restore' \in Restores
      BY <1>1, <1>7 DEF Del!ImportHistory, Del!TypeOK
    <2> QED  BY <2>1, <2>2 DEF Del!TypeOK, Del!serverVars, Del!requestVars
  <1>8. CASE Del!Crash
    <2>1. UNCHANGED <<Del!serverVars, Del!phoneVars, backup>> /\ Del!Idle
      BY <1>8 DEF Del!Crash
    <2>2. faults' \in 0..MaxFaults
      <3>1. faults \in Nat /\ MaxFaults \in Nat /\ faults < MaxFaults /\ faults' = faults + 1
        BY <1>8, DeletionBounds DEF Del!Crash, Del!TypeOK
      <3> QED  BY <3>1
    <2> QED  BY <1>2, <2>1, <2>2 DEF Del!TypeOK, Del!serverVars, Del!phoneVars, Del!messageVars
  <1>9. CASE Del!ReplacePhone
    <2>1. UNCHANGED <<events, open, feedHolder, feed, madeOn, backup, faults>> /\ Del!Idle
      BY <1>9 DEF Del!ReplacePhone
    <2>2. phone' \in 1..MaxPhones
      <3>1. phone \in Nat /\ MaxPhones \in Nat /\ phone < MaxPhones /\ phone' = phone + 1
        BY <1>9, DeletionBounds DEF Del!ReplacePhone, Del!TypeOK
      <3> QED  BY <3>1
    <2>3. log' \in Seq(Theirs) /\ seen' \in Nat /\ inbox' \in Nat
      BY <1>9 DEF Del!ReplacePhone
    <2>4. /\ outbox' \in [Mine -> {"none", "queued", "sent"}]
          /\ deletion' \in [Mine -> {"none", "begun", "confirmed"}]
          /\ received' \in SUBSET Theirs /\ opened' \in SUBSET Theirs
          /\ archive' \in SUBSET Del!Messages /\ tombs' \in SUBSET Mine
      BY <1>9 DEF Del!ReplacePhone
    <2> QED  BY <1>2, <2>1, <2>2, <2>3, <2>4 DEF Del!TypeOK
  <1> QED  BY <1>4, <1>5, <1>6, <1>7, <1>8, <1>9

\* So every step keeps the types.
LEMMA DeletionNextTyped ==
  ASSUME Del!RedactionBounds, Del!TypeOK, ListedLogged, [Del!Next]_(Del!vars)
  PROVE  Del!TypeOK'
  <1>1. CASE UNCHANGED Del!vars
    BY <1>1 DEF Del!vars, Del!serverVars, Del!phoneVars, Del!messageVars, Del!requestVars,
                Del!runVars, Del!TypeOK
  <1>2. \A m \in Theirs : m \in Del!Messages
    BY DEF Del!Messages
  <1>3. ASSUME NEW m \in Theirs, Del!PeerSend(m) \/ Del!PeerRedact(m) PROVE Del!TypeOK'
    BY <1>2, <1>3, ServerTyped
  <1> QED  BY <1>1, <1>3, ServerTyped, OwnTyped, SyncTyped, PhoneTyped DEF Del!Next

-----------------------------------------------------------------------------
(* What a step does to the feed, to an answer and to the copies             *)

\* The feed of this account changes with a commit alone.
LEMMA FeedSteps ==
  ASSUME [Del!Next]_(Del!vars)
  PROVE  UNCHANGED feed \/ \E m \in Del!Messages : Del!CommitRedact(m)
  <1>1. ASSUME NEW m \in Del!Messages, Del!Redacting(m) \/ Del!AbortRedact(m)
        PROVE  UNCHANGED feed \/ Del!CommitRedact(m)
    BY <1>1 DEF Del!Redacting, Del!LockFeed, Del!AbortRedact
  <1>2. ASSUME NEW m \in Theirs, Del!PeerSend(m) \/ Del!PeerRedact(m) PROVE UNCHANGED feed
    BY <1>2 DEF Del!PeerSend, Del!PeerRedact, Del!LockEvent
  <1>3. ASSUME NEW m \in Mine,
               \/ Del!Draft(m) \/ Del!Upload(m) \/ Del!Accept(m) \/ Del!ConfirmSend(m) \/ Del!LoseSend(m)
               \/ Del!BeginDeletion(m) \/ Del!Deleting(m) \/ Del!LoseRedact(m)
        PROVE  UNCHANGED feed
    BY <1>3 DEF Del!Draft, Del!Upload, Del!Accept, Del!ConfirmSend, Del!LoseSend,
                Del!BeginDeletion, Del!Deleting, Del!AskRedact,
                Del!ServeRedact, Del!LockEvent, Del!AnswerRedact, Del!ConfirmRedaction,
                Del!CancelRedaction,
                Del!CompleteRedaction, Del!LoseRedact, Del!serverVars
  <1>4. ASSUME NEW w \in Workers, Del!Syncing(w) \/ Del!LoseRun(w) PROVE UNCHANGED feed
    BY <1>4 DEF Del!Syncing, Del!FetchRedactions, Del!ApplyRedactions, Del!ListMessages,
                Del!Receive, Del!PageDone, Del!LoseRun, Del!serverVars
  <1>5. CASE Del!CreateBackup \/ Del!StartRestore \/ Del!ReadLedger \/ Del!ImportHistory \/ Del!Crash \/ Del!ReplacePhone
    BY <1>5 DEF Del!CreateBackup, Del!StartRestore, Del!ReadLedger, Del!ImportHistory,
                Del!Crash, Del!ReplacePhone, Del!serverVars
  <1>6. CASE UNCHANGED Del!vars
    BY <1>6 DEF Del!vars, Del!serverVars
  <1> QED  BY <1>1, <1>2, <1>3, <1>4, <1>5, <1>6 DEF Del!Next

\* So it keeps what it lists, and where.
LEMMA FeedGrows ==
  ASSUME Del!RedactionBounds, Del!TypeOK, [Del!Next]_(Del!vars)
  PROVE  /\ Len(feed[Me]) \in Nat /\ Len(feed'[Me]) \in Nat /\ Len(feed[Me]) <= Len(feed'[Me])
         /\ Del!Redacted \subseteq Del!Redacted'
         /\ \A to \in Nat : to <= Len(feed[Me]) =>
              {feed'[Me][i] : i \in (0 + 1)..to} = Del!OnPage(0, to)
         /\ \A m \in Del!Redacted' \ Del!Redacted : Del!CommitRedact(m)
  <1>1. PICK n \in Nat : n = Len(feed[Me]) /\ feed[Me] \in Seq(Del!Messages) /\ DOMAIN feed[Me] = 1..n
    BY DEF Del!TypeOK, Del!Accounts
  <1>2. CASE UNCHANGED feed
    BY <1>1, <1>2 DEF Del!Redacted, Del!OnPage
  <1>3. ASSUME NEW m \in Del!Messages, Del!CommitRedact(m)
        PROVE  /\ Len(feed'[Me]) = n + 1
               /\ \A i \in 1..n : feed'[Me][i] = feed[Me][i]
               /\ Del!Redacted' = Del!Redacted \cup {m}
    <2>1. feed'[Me] = Append(feed[Me], m)
      BY <1>3 DEF Del!CommitRedact, Del!Accounts
    <2>2. PICK f \in Seq(Del!Messages), g \in Seq(Del!Messages) :
            f = feed[Me] /\ g = feed'[Me] /\ g = Append(f, m) /\ Len(f) = n
      BY <1>1, <2>1
    <2>3. /\ Len(g) = n + 1 /\ DOMAIN f = 1..n /\ DOMAIN g = 1..(n + 1)
          /\ \A i \in 1..n : g[i] = f[i]
          /\ g[n + 1] = m
      BY <2>2
    <2>4. \A i \in 1..(n + 1) : i \in 1..n \/ i = n + 1
      OBVIOUS
    <2>5. {g[i] : i \in DOMAIN g} = {f[i] : i \in DOMAIN f} \cup {m}
      <3>1. 1..n \subseteq 1..(n + 1) /\ n + 1 \in 1..(n + 1)
        OBVIOUS
      <3> QED  BY <2>3, <2>4, <3>1
    <2> QED  BY <2>2, <2>3, <2>5 DEF Del!Redacted
  <1>4. ASSUME NEW m \in Del!Messages, Del!CommitRedact(m), NEW to \in Nat, to <= n
        PROVE  {feed'[Me][i] : i \in (0 + 1)..to} = Del!OnPage(0, to)
    <2>1. \A i \in (0 + 1)..to : i \in 1..n
      BY <1>4
    <2> QED  BY <1>3, <1>4, <2>1 DEF Del!OnPage
  <1>5. CASE \E m \in Del!Messages : Del!CommitRedact(m)
    <2>1. PICK m \in Del!Messages : Del!CommitRedact(m)
      BY <1>5
    <2>2. n + 1 \in Nat /\ n <= n + 1
      OBVIOUS
    <2> QED  BY <1>1, <1>3, <1>4, <2>1, <2>2
  <1> QED  BY <1>2, <1>5, FeedSteps

\* An event is there before it is locked, and stays; only a right answer is saved.
LEMMA AnswersStep ==
  ASSUME DeletionInv, [Del!Next]_(Del!vars)
  PROVE  AnswersTrue'
  <1>0. Del!RedactionBounds /\ Del!TypeOK /\ AnswersTrue
    BY DEF DeletionInv
  <1>1. /\ events \subseteq events' /\ open' \subseteq open \cup events
        /\ \A m \in Mine : call'[m] = "redacted" => call[m] = "redacted" \/ m \in Del!Redacted
    <2>1. ASSUME NEW m \in Del!Messages, Del!Redacting(m) \/ Del!AbortRedact(m)
          PROVE  /\ events \subseteq events' /\ open' \subseteq open \cup events
                 /\ \A k \in Mine : call'[k] = "redacted" => call[k] = "redacted" \/ k \in Del!Redacted
      <3>1. CASE Del!Redacting(m)
        BY <3>1 DEF Del!Redacting, Del!LockFeed, Del!CommitRedact, Del!requestVars
      <3>2. CASE Del!AbortRedact(m)
        BY <1>0, <3>2 DEF Del!AbortRedact, Del!TypeOK
      <3> QED  BY <2>1, <3>1, <3>2
    <2>2. ASSUME NEW m \in Theirs, Del!PeerSend(m) \/ Del!PeerRedact(m)
          PROVE  /\ events \subseteq events' /\ open' \subseteq open \cup events /\ UNCHANGED call
      BY <2>2 DEF Del!PeerSend, Del!PeerRedact, Del!LockEvent, Del!requestVars
    <2>3. ASSUME NEW m \in Mine,
                 \/ Del!Draft(m) \/ Del!Upload(m) \/ Del!Accept(m) \/ Del!ConfirmSend(m) \/ Del!LoseSend(m) \/ Del!BeginDeletion(m)
          PROVE  /\ events \subseteq events' /\ open' \subseteq open \cup events /\ UNCHANGED call
      BY <2>3 DEF Del!Draft, Del!Upload, Del!Accept, Del!ConfirmSend, Del!LoseSend,
                  Del!BeginDeletion, Del!serverVars, Del!requestVars
    <2>4. ASSUME NEW m \in Mine, Del!Deleting(m) \/ Del!LoseRedact(m)
          PROVE  /\ events \subseteq events' /\ open' \subseteq open \cup events
                 /\ \A k \in Mine : call'[k] = "redacted" => call[k] = "redacted" \/ k \in Del!Redacted
      <3>1. events \subseteq events' /\ open' \subseteq open \cup events
        BY <2>4 DEF Del!Deleting, Del!AskRedact, Del!ServeRedact, Del!LockEvent,
                    Del!AnswerRedact, Del!ConfirmRedaction,
                    Del!CancelRedaction, Del!CompleteRedaction, Del!LoseRedact, Del!serverVars
      <3>2. CASE Del!AnswerRedact(m)
        BY <1>0, <3>1, <3>2 DEF Del!AnswerRedact, Del!TypeOK
      <3>3. CASE Del!ServeRedact(m) \/ Del!CompleteRedaction(m)
        BY <3>1, <3>3 DEF Del!ServeRedact, Del!CompleteRedaction, Del!requestVars
      <3>4. CASE Del!AskRedact(m) \/ Del!ConfirmRedaction(m) \/ Del!CancelRedaction(m) \/ Del!LoseRedact(m)
        BY <1>0, <3>1, <3>4 DEF Del!AskRedact, Del!ConfirmRedaction, Del!CancelRedaction,
                                Del!LoseRedact, Del!TypeOK
      <3> QED  BY <2>4, <3>2, <3>3, <3>4 DEF Del!Deleting
    <2>5. ASSUME NEW w \in Workers, Del!Syncing(w) \/ Del!LoseRun(w)
          PROVE  /\ events \subseteq events' /\ open' \subseteq open \cup events /\ UNCHANGED call
      BY <2>5 DEF Del!Syncing, Del!FetchRedactions, Del!ApplyRedactions, Del!ListMessages,
                  Del!Receive, Del!PageDone, Del!LoseRun,
                  Del!serverVars, Del!requestVars
    <2>6. CASE Del!CreateBackup \/ Del!StartRestore \/ Del!ReadLedger \/ Del!ImportHistory
      BY <2>6 DEF Del!CreateBackup, Del!StartRestore, Del!ReadLedger, Del!ImportHistory,
                  Del!serverVars, Del!requestVars
    <2>7. CASE Del!Crash \/ Del!ReplacePhone
      <3>1. events \subseteq events' /\ open' \subseteq open \cup events
        BY <2>7 DEF Del!Crash, Del!ReplacePhone, Del!serverVars
      <3>2. \A m \in Mine : call'[m] = "idle"
        BY <2>7 DEF Del!Crash, Del!ReplacePhone, Del!Idle
      <3> QED  BY <3>1, <3>2
    <2>8. CASE UNCHANGED Del!vars
      BY <2>8 DEF Del!vars, Del!serverVars, Del!requestVars
    <2> QED  BY <2>1, <2>2, <2>3, <2>4, <2>5, <2>6, <2>7, <2>8 DEF Del!Next
  <1>2. Del!Redacted \subseteq Del!Redacted' /\ \A m \in Del!Redacted' \ Del!Redacted : m \in open
    BY <1>0, FeedGrows DEF Del!CommitRedact
  <1>3. \A m \in Mine : call'[m] = "redacted" => m \in Del!Redacted'
    BY <1>0, <1>1, <1>2 DEF AnswersTrue
  <1>4. open' \cup Del!Redacted' \subseteq events'
    BY <1>0, <1>1, <1>2 DEF AnswersTrue
  <1> QED  BY <1>3, <1>4 DEF AnswersTrue

\* A cursor moves to the end of a page, or back to the beginning.
LEMMA PagesStep ==
  ASSUME DeletionInv, [Del!Next]_(Del!vars)
  PROVE  PagesBehind'
  <1>0. Del!RedactionBounds /\ Del!TypeOK /\ PagesBehind
    BY DEF DeletionInv
  <1>1. PICK n \in Nat, p \in Nat : n = Len(feed[Me]) /\ p = Len(feed'[Me]) /\ n <= p
    BY <1>0, FeedGrows
  <1>2. \A w \in Workers : worker[w].to \in Nat
    BY <1>0 DEF Del!TypeOK
  <1>3. seen \in Nat
    BY <1>0 DEF Del!TypeOK
  <1>4. ASSUME seen' <= n, \A w \in Workers : worker'[w].at = "apply" => worker'[w].to <= n,
               seen' \in Nat, \A w \in Workers : worker'[w].at = "apply" => worker'[w].to \in Nat
        PROVE  PagesBehind'
    BY <1>1, <1>4 DEF PagesBehind
  <1>5. CASE UNCHANGED <<seen, worker>>
    BY <1>0, <1>1, <1>2, <1>3, <1>4, <1>5 DEF PagesBehind
  <1>6. ASSUME NEW w \in Workers, NEW run, Del!Set(w, run), seen' \in Nat, seen' <= n,
               run.at = "apply" => run.to \in Nat /\ run.to <= n
        PROVE  PagesBehind'
    <2>1. worker'[w] = run /\ \A v \in Workers \ {w} : worker'[v] = worker[v]
      BY <1>0, <1>6 DEF Del!Set, Del!TypeOK
    <2> QED  BY <1>0, <1>1, <1>2, <1>4, <1>6, <2>1 DEF PagesBehind
  <1>7. ASSUME NEW w \in Workers, Del!Syncing(w) \/ Del!LoseRun(w) PROVE PagesBehind'
    <2>0. Del!NoRun.at = "idle" /\ seen <= n
      BY <1>0, <1>1 DEF Del!NoRun, PagesBehind
    <2>1. CASE Del!FetchRedactions(w)
      <3>1. PICK k : Del!Set(w, [Del!NoRun EXCEPT !.at = "apply", !.from = seen, !.to = Del!Page(seen), !.round = k])
        BY <2>1 DEF Del!FetchRedactions
      <3>2. Del!Page(seen) \in Nat /\ Del!Page(seen) <= n
        BY <1>0, <1>1, <1>3, PageWithin
      <3>3. [Del!NoRun EXCEPT !.at = "apply", !.from = seen, !.to = Del!Page(seen), !.round = k].to = Del!Page(seen)
        BY DEF Del!NoRun
      <3>4. UNCHANGED seen
        BY <2>1 DEF Del!FetchRedactions, Del!phoneVars
      <3> QED  BY <1>3, <1>6, <2>0, <3>1, <3>2, <3>3, <3>4
    <2>2. CASE Del!ApplyRedactions(w)
      <3>1. PICK run : Del!Set(w, run) /\ run.at # "apply"
        <4>1. Del!NextStep(worker[w]).at # "apply"
          BY DEF Del!NextStep, Del!NoRun
        <4> QED  BY <2>0, <2>2, <4>1 DEF Del!ApplyRedactions
      <3>2. seen' = seen \/ seen' = worker[w].to
        BY <2>2 DEF Del!ApplyRedactions
      <3>3. worker[w].to \in Nat /\ worker[w].to <= n
        BY <1>0, <1>1, <1>2, <2>2 DEF Del!ApplyRedactions, PagesBehind
      <3> QED  BY <1>3, <1>6, <2>0, <3>1, <3>2, <3>3
    <2>3. CASE Del!ListMessages(w) \/ Del!Receive(w) \/ Del!PageDone(w) \/ Del!LoseRun(w)
      <3>1. UNCHANGED seen
        BY <2>3 DEF Del!ListMessages, Del!Receive, Del!PageDone, Del!LoseRun, Del!phoneVars
      <3>2. PICK run : Del!Set(w, run) /\ run.at # "apply"
        <4>1. CASE Del!ListMessages(w)
          <5>1. PICK rows, last : Del!Set(w, [worker[w] EXCEPT !.at = "receive", !.items = rows, !.to = last])
            BY <4>1 DEF Del!ListMessages
          <5>2. [worker[w] EXCEPT !.at = "receive", !.items = rows, !.to = last].at = "receive"
            BY <1>0 DEF Del!TypeOK
          <5> QED  BY <5>1, <5>2
        <4>2. CASE Del!Receive(w)
          <5>1. PICK i : Del!Set(w, IF log[i] \in opened \ received THEN Del!NoRun ELSE [worker[w] EXCEPT !.items = @ \ {i}])
            BY <4>2 DEF Del!Receive
          <5>2. [worker[w] EXCEPT !.items = @ \ {i}].at = "receive"
            BY <1>0, <4>2 DEF Del!TypeOK, Del!Receive
          <5> QED  BY <2>0, <5>1, <5>2
        <4>3. CASE Del!PageDone(w) \/ Del!LoseRun(w)
          <5>1. [Del!NoRun EXCEPT !.at = "again"].at = "again"
            BY DEF Del!NoRun
          <5> QED  BY <2>0, <4>3, <5>1 DEF Del!PageDone, Del!LoseRun
        <4> QED  BY <2>3, <4>1, <4>2, <4>3
      <3> QED  BY <1>3, <1>6, <2>0, <3>1, <3>2
    <2> QED  BY <1>7, <2>1, <2>2, <2>3 DEF Del!Syncing
  <1>8. CASE Del!Crash \/ Del!ReplacePhone
    <2>1. \A w \in Workers : worker'[w].at = "idle"
      BY <1>8 DEF Del!Crash, Del!ReplacePhone, Del!Idle, Del!NoRun
    <2>2. seen' \in {0, seen}
      BY <1>8 DEF Del!Crash, Del!ReplacePhone, Del!phoneVars
    <2>3. seen <= n
      BY <1>0, <1>1 DEF PagesBehind
    <2> QED  BY <1>1, <1>3, <1>4, <2>1, <2>2, <2>3
  <1>9. ASSUME NEW m \in Mine,
               \/ Del!Draft(m) \/ Del!Upload(m) \/ Del!Accept(m) \/ Del!ConfirmSend(m) \/ Del!LoseSend(m)
               \/ Del!BeginDeletion(m) \/ Del!Deleting(m) \/ Del!LoseRedact(m)
        PROVE  UNCHANGED <<seen, worker>>
    BY <1>9 DEF Del!Draft, Del!Upload, Del!Accept, Del!ConfirmSend, Del!LoseSend,
                Del!BeginDeletion, Del!Deleting, Del!AskRedact,
                Del!ServeRedact, Del!LockEvent, Del!AnswerRedact, Del!ConfirmRedaction,
                Del!CancelRedaction,
                Del!CompleteRedaction, Del!LoseRedact, Del!phoneVars, Del!runVars
  <1>10. ASSUME NEW m \in Del!Messages, Del!Redacting(m) \/ Del!AbortRedact(m) PROVE UNCHANGED <<seen, worker>>
    BY <1>10 DEF Del!Redacting, Del!LockFeed, Del!CommitRedact, Del!AbortRedact, Del!phoneVars,
                 Del!runVars
  <1>11. ASSUME NEW m \in Theirs, Del!PeerSend(m) \/ Del!PeerRedact(m) PROVE UNCHANGED <<seen, worker>>
    BY <1>11 DEF Del!PeerSend, Del!PeerRedact, Del!phoneVars, Del!runVars
  <1>12. CASE Del!CreateBackup \/ Del!StartRestore \/ Del!ReadLedger \/ Del!ImportHistory \/ UNCHANGED Del!vars
    BY <1>5, <1>12 DEF Del!CreateBackup, Del!StartRestore, Del!ReadLedger, Del!ImportHistory,
                       Del!vars, Del!phoneVars, Del!runVars
  <1> QED  BY <1>5, <1>7, <1>8, <1>9, <1>10, <1>11, <1>12 DEF Del!Next

\* A restore begins with what is redacted, and imports when it has read it all.
LEMMA RestoreStep ==
  ASSUME DeletionInv, [Del!Next]_(Del!vars)
  PROVE  RestoreCovers'
  <1>0. Del!RedactionBounds /\ Del!TypeOK /\ RestoreCovers
    BY DEF DeletionInv
  <1>1. PICK n \in Nat, p \in Nat : n = Len(feed[Me]) /\ p = Len(feed'[Me]) /\ n <= p
    BY <1>0, FeedGrows
  <1>2. Del!Redacted \subseteq Del!Redacted'
    BY <1>0, FeedGrows
  <1>3. PICK f \in Nat : f = restore.from /\ f <= n
    BY <1>0, <1>1 DEF RestoreCovers, Del!TypeOK
  <1>4. CASE UNCHANGED restore
    <2>1. {feed'[Me][i] : i \in (0 + 1)..f} = Del!OnPage(0, f)
      BY <1>0, <1>1, <1>3, FeedGrows
    <2>2. Del!OnPage(0, restore.from)' = Del!OnPage(0, restore.from)
      BY <1>3, <1>4, <2>1 DEF Del!OnPage
    <2>3. restore.from <= p
      BY <1>1, <1>3
    <2> QED  BY <1>0, <1>1, <1>2, <1>4, <2>2, <2>3 DEF RestoreCovers
  <1>5. CASE restore' = Del!NoRestore
    <2>1. restore'.from <= p /\ restore'.before = {} /\ restore'.at = "idle"
      BY <1>1, <1>5 DEF Del!NoRestore
    <2> QED  BY <1>1, <2>1 DEF RestoreCovers
  <1>6. CASE Del!StartRestore
    <2>1. restore'.from = 0 /\ restore'.before = Del!Redacted /\ restore'.at = "reading"
      BY <1>6 DEF Del!StartRestore
    <2> QED  BY <1>1, <1>2, <2>1 DEF RestoreCovers
  <1>7. CASE Del!ReadLedger
    <2>1. PICK q \in Nat : q = Del!Page(f) /\ q <= n
      BY <1>0, <1>1, PageWithin
    <2>2. /\ restore'.from = q /\ restore'.before = restore.before
          /\ restore'.at = "importing" => ~(q < n)
      BY <1>0, <1>1, <1>3, <1>7, <2>1 DEF Del!ReadLedger, Del!TypeOK
    <2>3. UNCHANGED feed
      BY <1>7 DEF Del!ReadLedger, Del!serverVars
    <2>4. q = n => Del!OnPage(0, restore.from)' = Del!Redacted
      <3>1. DOMAIN feed[Me] = 1..n
        BY <1>0, <1>1 DEF Del!TypeOK, Del!Accounts
      <3>2. (0 + 1)..n = 1..n
        OBVIOUS
      <3> QED  BY <2>2, <2>3, <3>1, <3>2 DEF Del!OnPage, Del!Redacted
    <2>5. restore'.at = "importing" => q = n
      BY <2>1, <2>2
    <2> QED  BY <1>0, <1>1, <1>2, <2>1, <2>2, <2>3, <2>4, <2>5 DEF RestoreCovers
  <1>8. ASSUME NEW m \in Del!Messages, Del!Redacting(m) \/ Del!AbortRedact(m) PROVE UNCHANGED restore
    BY <1>8 DEF Del!Redacting, Del!LockFeed, Del!CommitRedact, Del!AbortRedact, Del!runVars
  <1>9. ASSUME NEW m \in Theirs, Del!PeerSend(m) \/ Del!PeerRedact(m) PROVE UNCHANGED restore
    BY <1>9 DEF Del!PeerSend, Del!PeerRedact, Del!runVars
  <1>10. ASSUME NEW m \in Mine,
                \/ Del!Draft(m) \/ Del!Upload(m) \/ Del!Accept(m) \/ Del!ConfirmSend(m) \/ Del!LoseSend(m)
                \/ Del!BeginDeletion(m) \/ Del!Deleting(m) \/ Del!LoseRedact(m)
         PROVE  UNCHANGED restore
    BY <1>10 DEF Del!Draft, Del!Upload, Del!Accept, Del!ConfirmSend, Del!LoseSend,
                 Del!BeginDeletion, Del!Deleting, Del!AskRedact,
                 Del!ServeRedact, Del!LockEvent, Del!AnswerRedact, Del!ConfirmRedaction,
                 Del!CancelRedaction,
                 Del!CompleteRedaction, Del!LoseRedact, Del!runVars
  <1>11. ASSUME NEW w \in Workers, Del!Syncing(w) \/ Del!LoseRun(w) PROVE UNCHANGED restore
    BY <1>11 DEF Del!Syncing, Del!FetchRedactions, Del!ApplyRedactions, Del!ListMessages,
                 Del!Receive, Del!PageDone, Del!LoseRun
  <1>12. CASE Del!CreateBackup \/ UNCHANGED Del!vars
    BY <1>4, <1>12 DEF Del!CreateBackup, Del!vars, Del!runVars
  <1>13. CASE Del!ImportHistory \/ Del!Crash \/ Del!ReplacePhone
    BY <1>5, <1>13 DEF Del!ImportHistory, Del!Crash, Del!ReplacePhone, Del!Idle
  <1> QED  BY <1>4, <1>6, <1>7, <1>8, <1>9, <1>10, <1>11, <1>12, <1>13 DEF Del!Next

\* The rows of a page are those of the phone, whose log only grows.
LEMMA ListedStep ==
  ASSUME DeletionInv, [Del!Next]_(Del!vars)
  PROVE  ListedLogged'
  <1>0. Del!RedactionBounds /\ Del!TypeOK /\ ListedLogged
    BY DEF DeletionInv
  <1>1. CASE UNCHANGED <<log, worker>>
    BY <1>0, <1>1 DEF ListedLogged
  <1>2. ASSUME NEW w \in Workers, NEW run, Del!Set(w, run), run.items \subseteq DOMAIN log, UNCHANGED log
        PROVE  ListedLogged'
    <2>1. worker'[w] = run /\ \A v \in Workers \ {w} : worker'[v] = worker[v]
      BY <1>0, <1>2 DEF Del!Set, Del!TypeOK
    <2> QED  BY <1>0, <1>2, <2>1 DEF ListedLogged
  <1>3. ASSUME NEW w \in Workers, Del!Syncing(w) \/ Del!LoseRun(w) PROVE ListedLogged'
    <2>0. Del!NoRun.items = {}
      BY DEF Del!NoRun
    <2>1. UNCHANGED log
      BY <1>3 DEF Del!Syncing, Del!FetchRedactions, Del!ApplyRedactions, Del!ListMessages,
                  Del!Receive, Del!PageDone, Del!LoseRun, Del!serverVars
    <2>2. CASE Del!FetchRedactions(w)
      <3>1. PICK k : Del!Set(w, [Del!NoRun EXCEPT !.at = "apply", !.from = seen, !.to = Del!Page(seen), !.round = k])
        BY <2>2 DEF Del!FetchRedactions
      <3>2. [Del!NoRun EXCEPT !.at = "apply", !.from = seen, !.to = Del!Page(seen), !.round = k].items = {}
        BY DEF Del!NoRun
      <3> QED  BY <1>2, <2>1, <3>1, <3>2
    <2>3. CASE Del!ApplyRedactions(w)
      <3>1. Del!NextStep(worker[w]).items = {}
        BY DEF Del!NextStep, Del!NoRun
      <3>2. Del!Set(w, Del!NextStep(worker[w])) \/ Del!Set(w, Del!NoRun)
        BY <2>3 DEF Del!ApplyRedactions
      <3> QED  BY <1>2, <2>0, <2>1, <3>1, <3>2
    <2>4. CASE Del!ListMessages(w)
      <3>1. PICK rows \in SUBSET DOMAIN log : \E last : Del!Set(w, [worker[w] EXCEPT !.at = "receive", !.items = rows, !.to = last])
        BY <2>4 DEF Del!ListMessages
      <3>2. PICK last : Del!Set(w, [worker[w] EXCEPT !.at = "receive", !.items = rows, !.to = last])
        BY <3>1
      <3>3. [worker[w] EXCEPT !.at = "receive", !.items = rows, !.to = last].items = rows
        BY <1>0 DEF Del!TypeOK
      <3> QED  BY <1>2, <2>1, <3>2, <3>3
    <2>5. CASE Del!Receive(w)
      <3>1. PICK i : Del!Set(w, IF log[i] \in opened \ received THEN Del!NoRun ELSE [worker[w] EXCEPT !.items = @ \ {i}])
        BY <2>5 DEF Del!Receive
      <3>2. [worker[w] EXCEPT !.items = @ \ {i}].items = worker[w].items \ {i}
        BY <1>0 DEF Del!TypeOK
      <3>3. worker[w].items \subseteq DOMAIN log
        BY <1>0 DEF ListedLogged
      <3> QED  BY <1>2, <2>0, <2>1, <3>1, <3>2, <3>3
    <2>6. CASE Del!PageDone(w) \/ Del!LoseRun(w)
      <3>1. [Del!NoRun EXCEPT !.at = "again"].items = {}
        BY DEF Del!NoRun
      <3>2. Del!Set(w, [Del!NoRun EXCEPT !.at = "again"]) \/ Del!Set(w, Del!NoRun)
        BY <2>6 DEF Del!PageDone, Del!LoseRun
      <3> QED  BY <1>2, <2>0, <2>1, <3>1, <3>2
    <2> QED  BY <1>3, <2>2, <2>3, <2>4, <2>5, <2>6 DEF Del!Syncing
  <1>4. CASE Del!Crash \/ Del!ReplacePhone
    <2>1. \A w \in Workers : worker'[w].items = {}
      BY <1>4 DEF Del!Crash, Del!ReplacePhone, Del!Idle, Del!NoRun
    <2> QED  BY <2>1 DEF ListedLogged
  <1>5. ASSUME NEW m \in Theirs, Del!PeerSend(m) PROVE ListedLogged'
    <2>1. PICK l \in Seq(Theirs) : l = log
      BY <1>0 DEF Del!TypeOK
    <2>2. DOMAIN l \subseteq DOMAIN Append(l, m)
      BY <2>1
    <2>3. log' = Append(log, m) /\ UNCHANGED worker
      BY <1>5 DEF Del!PeerSend, Del!runVars
    <2> QED  BY <1>0, <2>1, <2>2, <2>3 DEF ListedLogged
  <1>6. ASSUME NEW m \in Mine,
               \/ Del!Draft(m) \/ Del!Upload(m) \/ Del!Accept(m) \/ Del!ConfirmSend(m) \/ Del!LoseSend(m)
               \/ Del!BeginDeletion(m) \/ Del!Deleting(m) \/ Del!LoseRedact(m)
        PROVE  UNCHANGED <<log, worker>>
    BY <1>6 DEF Del!Draft, Del!Upload, Del!Accept, Del!ConfirmSend, Del!LoseSend,
                Del!BeginDeletion, Del!Deleting, Del!AskRedact,
                Del!ServeRedact, Del!LockEvent, Del!AnswerRedact, Del!ConfirmRedaction,
                Del!CancelRedaction,
                Del!CompleteRedaction, Del!LoseRedact, Del!serverVars, Del!runVars
  <1>7. ASSUME NEW m \in Del!Messages, Del!Redacting(m) \/ Del!AbortRedact(m) PROVE UNCHANGED <<log, worker>>
    BY <1>7 DEF Del!Redacting, Del!LockFeed, Del!CommitRedact, Del!AbortRedact, Del!runVars
  <1>8. ASSUME NEW m \in Theirs, Del!PeerRedact(m) PROVE UNCHANGED <<log, worker>>
    BY <1>8 DEF Del!PeerRedact, Del!LockEvent, Del!runVars
  <1>9. CASE Del!CreateBackup \/ Del!StartRestore \/ Del!ReadLedger \/ Del!ImportHistory \/ UNCHANGED Del!vars
    BY <1>1, <1>9 DEF Del!CreateBackup, Del!StartRestore, Del!ReadLedger, Del!ImportHistory,
                      Del!vars, Del!serverVars, Del!runVars
  <1> QED  BY <1>1, <1>3, <1>4, <1>5, <1>6, <1>7, <1>8, <1>9 DEF Del!Next

-----------------------------------------------------------------------------
(* Copies                                                                   *)

\* What a phone does with its copies while it is not replaced: it erases what
\* the server has redacted, or no own copy goes.
LEMMA CopiesKept ==
  ASSUME DeletionInv, [Del!Next]_(Del!vars), phone' = phone
  PROVE  \/ \E ms \in SUBSET Del!Redacted : Del!Erase(ms) /\ UNCHANGED <<madeOn, sending, events>>
         \/ /\ UNCHANGED tombs /\ archive \subseteq archive'
            /\ \A m \in Mine : outbox[m] # "none" => outbox'[m] # "none"
  <1>0. Del!RedactionBounds /\ Del!TypeOK /\ AnswersTrue /\ PagesBehind
    BY DEF DeletionInv
  <1>1. ASSUME UNCHANGED Del!messageVars
        PROVE  /\ UNCHANGED tombs /\ archive \subseteq archive'
               /\ \A m \in Mine : outbox[m] # "none" => outbox'[m] # "none"
    BY <1>1 DEF Del!messageVars
  <1>2. ASSUME NEW m \in Del!Messages, Del!Redacting(m) \/ Del!AbortRedact(m) PROVE UNCHANGED Del!messageVars
    BY <1>2 DEF Del!Redacting, Del!LockFeed, Del!CommitRedact, Del!AbortRedact, Del!phoneVars
  <1>3. ASSUME NEW m \in Theirs, Del!PeerSend(m) \/ Del!PeerRedact(m) PROVE UNCHANGED Del!messageVars
    BY <1>3 DEF Del!PeerSend, Del!PeerRedact, Del!phoneVars
  <1>4. ASSUME NEW m \in Mine,
               \/ Del!Upload(m) \/ Del!Accept(m) \/ Del!LoseSend(m) \/ Del!BeginDeletion(m)
               \/ Del!AskRedact(m) \/ Del!ServeRedact(m) \/ Del!AnswerRedact(m) \/ Del!CancelRedaction(m)
               \/ Del!CompleteRedaction(m) \/ Del!LoseRedact(m)
        PROVE  UNCHANGED Del!messageVars
    BY <1>4 DEF Del!Upload, Del!Accept, Del!LoseSend, Del!BeginDeletion, Del!AskRedact,
                Del!ServeRedact, Del!AnswerRedact,
                Del!CancelRedaction, Del!CompleteRedaction, Del!LoseRedact, Del!phoneVars
  <1>5. ASSUME NEW m \in Mine, Del!Draft(m) \/ Del!ConfirmSend(m)
        PROVE  /\ UNCHANGED tombs /\ archive \subseteq archive'
               /\ \A k \in Mine : outbox[k] # "none" => outbox'[k] # "none"
    <2>1. UNCHANGED <<tombs, archive>>
      BY <1>5 DEF Del!Draft, Del!ConfirmSend
    <2>2. \A k \in Mine : outbox[k] # "none" => outbox'[k] # "none"
      BY <1>0, <1>5 DEF Del!Draft, Del!ConfirmSend, Del!TypeOK
    <2> QED  BY <2>1, <2>2
  <1>6. ASSUME NEW m \in Mine, Del!ConfirmRedaction(m)
        PROVE  \E ms \in SUBSET Del!Redacted : Del!Erase(ms) /\ UNCHANGED <<madeOn, sending, events>>
    <2>1. m \in Del!Redacted
      BY <1>0, <1>6 DEF Del!ConfirmRedaction, AnswersTrue
    <2>2. Del!Erase({m}) /\ UNCHANGED <<madeOn, sending, events>>
      BY <1>6 DEF Del!ConfirmRedaction, Del!serverVars
    <2> QED  BY <2>1, <2>2
  <1>7. ASSUME NEW w \in Workers, Del!ApplyRedactions(w)
        PROVE  \/ \E ms \in SUBSET Del!Redacted : Del!Erase(ms) /\ UNCHANGED <<madeOn, sending, events>>
               \/ UNCHANGED Del!messageVars
    <2>1. CASE worker[w].from = seen
      <3>1. worker[w].at = "apply" /\ worker[w].from \in Nat /\ worker[w].to \in Nat
        BY <1>0, <1>7 DEF Del!ApplyRedactions, Del!TypeOK
      <3>2. worker[w].to <= Len(feed[Me])
        BY <1>0, <3>1 DEF PagesBehind
      <3>3. Del!OnPage(worker[w].from, worker[w].to) \subseteq Del!Redacted
        BY <1>0, <3>1, <3>2, OnFeed
      <3>4. Del!Erase(Del!OnPage(worker[w].from, worker[w].to)) /\ UNCHANGED <<madeOn, sending, events>>
        BY <1>7, <2>1 DEF Del!ApplyRedactions, Del!serverVars, Del!requestVars
      <3> QED  BY <3>3, <3>4
    <2>2. CASE worker[w].from # seen
      BY <1>7, <2>2 DEF Del!ApplyRedactions
    <2> QED  BY <2>1, <2>2
  <1>8. ASSUME NEW w \in Workers, Del!FetchRedactions(w) \/ Del!ListMessages(w) \/ Del!Receive(w) \/ Del!PageDone(w) \/ Del!LoseRun(w)
        PROVE  UNCHANGED <<tombs, archive, outbox>>
    BY <1>8 DEF Del!FetchRedactions, Del!ListMessages, Del!Receive, Del!PageDone, Del!LoseRun,
                Del!phoneVars, Del!messageVars
  <1>9. CASE Del!CreateBackup \/ Del!StartRestore \/ Del!ReadLedger \/ Del!Crash \/ UNCHANGED Del!vars
    BY <1>1, <1>9 DEF Del!CreateBackup, Del!StartRestore, Del!ReadLedger, Del!Crash, Del!vars,
                      Del!phoneVars
  <1>10. CASE Del!ImportHistory
    BY <1>10 DEF Del!ImportHistory
  <1>11. ~Del!ReplacePhone
    <2>1. phone \in Nat
      BY DeletionBounds, <1>0 DEF Del!TypeOK
    <2>2. phone + 1 # phone
      BY <2>1
    <2> QED  BY <2>2 DEF Del!ReplacePhone
  <1>12. ASSUME NEW m \in Mine,
                \/ Del!Draft(m) \/ Del!Upload(m) \/ Del!Accept(m) \/ Del!ConfirmSend(m) \/ Del!LoseSend(m)
                \/ Del!BeginDeletion(m) \/ Del!Deleting(m) \/ Del!LoseRedact(m)
         PROVE  \/ \E ms \in SUBSET Del!Redacted : Del!Erase(ms) /\ UNCHANGED <<madeOn, sending, events>>
                \/ /\ UNCHANGED tombs /\ archive \subseteq archive'
                   /\ \A k \in Mine : outbox[k] # "none" => outbox'[k] # "none"
    BY <1>1, <1>4, <1>5, <1>6, <1>12 DEF Del!Deleting
  <1>13. ASSUME NEW w \in Workers, Del!Syncing(w) \/ Del!LoseRun(w)
         PROVE  \/ \E ms \in SUBSET Del!Redacted : Del!Erase(ms) /\ UNCHANGED <<madeOn, sending, events>>
                \/ /\ UNCHANGED tombs /\ archive \subseteq archive'
                   /\ \A k \in Mine : outbox[k] # "none" => outbox'[k] # "none"
    BY <1>1, <1>7, <1>8, <1>13 DEF Del!Syncing
  <1> QED  BY <1>1, <1>2, <1>3, <1>9, <1>10, <1>11, <1>12, <1>13 DEF Del!Next

\* A message is composed before it is queued, and queued before it is sent.
LEMMA ComposeSteps ==
  ASSUME DeletionInv, [Del!Next]_(Del!vars), phone' = phone, NEW m \in Mine
  PROVE  /\ \/ madeOn'[m] = madeOn[m] /\ (outbox'[m] # "none" => outbox[m] # "none")
            \/ Del!Draft(m) /\ madeOn'[m] = phone /\ outbox'[m] = "queued"
         /\ m \in events' \cup sending' => m \in events \cup sending \/ outbox[m] = "queued"
  <1>0. Del!RedactionBounds /\ Del!TypeOK
    BY DEF DeletionInv
  <1>1. ASSUME UNCHANGED <<madeOn, outbox>>, events' \subseteq events \cup Theirs, sending' \subseteq sending
        PROVE  /\ madeOn'[m] = madeOn[m] /\ (outbox'[m] # "none" => outbox[m] # "none")
               /\ m \in events' \cup sending' => m \in events \cup sending
    BY <1>0, <1>1, DeletionBounds
  <1>2. ASSUME NEW k \in Del!Messages, Del!Redacting(k) \/ Del!AbortRedact(k)
        PROVE  UNCHANGED <<madeOn, outbox, events, sending>>
    BY <1>2 DEF Del!Redacting, Del!LockFeed, Del!CommitRedact, Del!AbortRedact, Del!phoneVars,
                Del!messageVars, Del!requestVars
  <1>3. ASSUME NEW k \in Theirs, Del!PeerSend(k) \/ Del!PeerRedact(k)
        PROVE  UNCHANGED <<madeOn, outbox, sending>> /\ events' \subseteq events \cup Theirs
    BY <1>3 DEF Del!PeerSend, Del!PeerRedact, Del!LockEvent, Del!phoneVars, Del!messageVars,
                Del!requestVars
  <1>4. ASSUME NEW k \in Mine, Del!Draft(k) \/ Del!ConfirmSend(k)
        PROVE  /\ \/ madeOn'[m] = madeOn[m] /\ (outbox'[m] # "none" => outbox[m] # "none")
                  \/ Del!Draft(m) /\ madeOn'[m] = phone /\ outbox'[m] = "queued"
               /\ m \in events' \cup sending' => m \in events \cup sending
    <2>1. CASE Del!Draft(k)
      <3>1. /\ madeOn' = [madeOn EXCEPT ![k] = phone] /\ outbox' = [outbox EXCEPT ![k] = "queued"]
            /\ UNCHANGED <<events, sending>>
        BY <2>1 DEF Del!Draft, Del!serverVars, Del!requestVars
      <3>2. CASE k = m
        BY <1>0, <2>1, <3>1, <3>2 DEF Del!TypeOK
      <3>3. CASE k # m
        BY <1>0, <3>1, <3>3 DEF Del!TypeOK
      <3> QED  BY <3>2, <3>3
    <2>2. CASE Del!ConfirmSend(k)
      <3>1. UNCHANGED <<events, madeOn>> /\ sending' \subseteq sending
        BY <2>2 DEF Del!ConfirmSend, Del!serverVars
      <3>2. outbox'[m] # "none" => outbox[m] # "none"
        BY <1>0, <2>2 DEF Del!ConfirmSend, Del!TypeOK
      <3> QED  BY <3>1, <3>2
    <2> QED  BY <1>4, <2>1, <2>2
  <1>5. ASSUME NEW k \in Mine, Del!Upload(k) \/ Del!Accept(k)
        PROVE  /\ UNCHANGED <<madeOn, outbox>>
               /\ m \in events' \cup sending' => m \in events \cup sending \/ outbox[m] = "queued"
    BY <1>5 DEF Del!Upload, Del!Accept, Del!serverVars, Del!phoneVars, Del!messageVars,
                Del!requestVars
  <1>6. ASSUME NEW k \in Mine,
               \/ Del!LoseSend(k) \/ Del!BeginDeletion(k) \/ Del!AskRedact(k) \/ Del!ServeRedact(k) \/ Del!AnswerRedact(k)
               \/ Del!CancelRedaction(k) \/ Del!CompleteRedaction(k) \/ Del!LoseRedact(k)
        PROVE  UNCHANGED <<madeOn, outbox, events>> /\ sending' \subseteq sending
    BY <1>6 DEF Del!LoseSend, Del!BeginDeletion, Del!AskRedact, Del!ServeRedact, Del!LockEvent,
                Del!AnswerRedact,
                Del!CancelRedaction, Del!CompleteRedaction, Del!LoseRedact, Del!serverVars,
                Del!phoneVars, Del!messageVars, Del!requestVars
  <1>7. ASSUME NEW ms, Del!Erase(ms), UNCHANGED <<madeOn, events, sending>>
        PROVE  /\ madeOn'[m] = madeOn[m] /\ (outbox'[m] # "none" => outbox[m] # "none")
               /\ m \in events' \cup sending' => m \in events \cup sending
    BY <1>7 DEF Del!Erase
  <1>8. ASSUME NEW k \in Mine, Del!ConfirmRedaction(k)
        PROVE  Del!Erase({k}) /\ UNCHANGED <<madeOn, events, sending>>
    BY <1>8 DEF Del!ConfirmRedaction, Del!serverVars
  <1>9. ASSUME NEW w \in Workers, Del!ApplyRedactions(w)
        PROVE  /\ UNCHANGED <<madeOn, events, sending>>
               /\ UNCHANGED outbox \/ Del!Erase(Del!OnPage(worker[w].from, worker[w].to))
    BY <1>9 DEF Del!ApplyRedactions, Del!serverVars, Del!requestVars, Del!messageVars
  <1>10. ASSUME NEW w \in Workers,
                Del!FetchRedactions(w) \/ Del!ListMessages(w) \/ Del!Receive(w) \/ Del!PageDone(w) \/ Del!LoseRun(w)
         PROVE  UNCHANGED <<madeOn, outbox, events, sending>>
    BY <1>10 DEF Del!FetchRedactions, Del!ListMessages, Del!Receive, Del!PageDone, Del!LoseRun,
                 Del!serverVars, Del!phoneVars,
                 Del!messageVars, Del!requestVars
  <1>11. CASE Del!CreateBackup \/ Del!StartRestore \/ Del!ReadLedger \/ Del!ImportHistory \/ UNCHANGED Del!vars
    BY <1>1, <1>11 DEF Del!CreateBackup, Del!StartRestore, Del!ReadLedger, Del!ImportHistory,
                       Del!vars, Del!serverVars, Del!phoneVars,
                 Del!messageVars, Del!requestVars
  <1>12. CASE Del!Crash
    BY <1>1, <1>12 DEF Del!Crash, Del!Idle, Del!serverVars, Del!phoneVars, Del!messageVars
  <1>13. ~Del!ReplacePhone
    <2>1. phone \in Nat
      BY DeletionBounds, <1>0 DEF Del!TypeOK
    <2>2. phone + 1 # phone
      BY <2>1
    <2> QED  BY <2>2 DEF Del!ReplacePhone
  <1> DEFINE Goal ==
         /\ \/ madeOn'[m] = madeOn[m] /\ (outbox'[m] # "none" => outbox[m] # "none")
            \/ Del!Draft(m) /\ madeOn'[m] = phone /\ outbox'[m] = "queued"
         /\ m \in events' \cup sending' => m \in events \cup sending \/ outbox[m] = "queued"
  <1>14. ASSUME NEW k \in Mine,
                \/ Del!Draft(k) \/ Del!Upload(k) \/ Del!Accept(k) \/ Del!ConfirmSend(k) \/ Del!LoseSend(k)
                \/ Del!BeginDeletion(k) \/ Del!Deleting(k) \/ Del!LoseRedact(k)
         PROVE  Goal
    <2>1. CASE Del!Draft(k) \/ Del!ConfirmSend(k)
      BY <1>4, <2>1
    <2>2. CASE Del!Upload(k) \/ Del!Accept(k)
      BY <1>5, <2>2
    <2>3. CASE \/ Del!LoseSend(k) \/ Del!BeginDeletion(k) \/ Del!AskRedact(k) \/ Del!ServeRedact(k) \/ Del!AnswerRedact(k)
               \/ Del!CancelRedaction(k) \/ Del!CompleteRedaction(k) \/ Del!LoseRedact(k)
      BY <1>1, <1>6, <2>3
    <2>4. CASE Del!ConfirmRedaction(k)
      BY <1>7, <1>8, <2>4
    <2> QED  BY <1>14, <2>1, <2>2, <2>3, <2>4 DEF Del!Deleting
  <1>15. ASSUME NEW w \in Workers, Del!Syncing(w) \/ Del!LoseRun(w) PROVE Goal
    <2>1. CASE Del!ApplyRedactions(w)
      <3>1. CASE UNCHANGED outbox
        BY <1>1, <1>9, <2>1, <3>1
      <3>2. CASE Del!Erase(Del!OnPage(worker[w].from, worker[w].to))
        BY <1>7, <1>9, <2>1, <3>2
      <3> QED  BY <1>9, <2>1, <3>1, <3>2
    <2>2. CASE Del!FetchRedactions(w) \/ Del!ListMessages(w) \/ Del!Receive(w) \/ Del!PageDone(w) \/ Del!LoseRun(w)
      BY <1>1, <1>10, <2>2
    <2> QED  BY <1>15, <2>1, <2>2 DEF Del!Syncing
  <1> QED  BY <1>1, <1>2, <1>3, <1>11, <1>12, <1>13, <1>14, <1>15 DEF Del!Next

\* Nothing but a login on another phone makes another phone current.
LEMMA PhoneSteps ==
  ASSUME [Del!Next]_(Del!vars), phone' # phone
  PROVE  Del!ReplacePhone
  <1>1. ASSUME NEW m \in Del!Messages, Del!Redacting(m) \/ Del!AbortRedact(m) PROVE UNCHANGED phone
    BY <1>1 DEF Del!Redacting, Del!LockFeed, Del!CommitRedact, Del!AbortRedact, Del!phoneVars
  <1>2. ASSUME NEW m \in Theirs, Del!PeerSend(m) \/ Del!PeerRedact(m) PROVE UNCHANGED phone
    BY <1>2 DEF Del!PeerSend, Del!PeerRedact, Del!phoneVars
  <1>3. ASSUME NEW m \in Mine,
               \/ Del!Draft(m) \/ Del!Upload(m) \/ Del!Accept(m) \/ Del!ConfirmSend(m) \/ Del!LoseSend(m)
               \/ Del!BeginDeletion(m) \/ Del!Deleting(m) \/ Del!LoseRedact(m)
        PROVE  UNCHANGED phone
    BY <1>3 DEF Del!Draft, Del!Upload, Del!Accept, Del!ConfirmSend, Del!LoseSend,
                Del!BeginDeletion, Del!Deleting, Del!AskRedact,
                Del!ServeRedact, Del!AnswerRedact, Del!ConfirmRedaction, Del!CancelRedaction,
                Del!CompleteRedaction, Del!LoseRedact, Del!phoneVars
  <1>4. ASSUME NEW w \in Workers, Del!Syncing(w) \/ Del!LoseRun(w) PROVE UNCHANGED phone
    BY <1>4 DEF Del!Syncing, Del!FetchRedactions, Del!ApplyRedactions, Del!ListMessages,
                Del!Receive, Del!PageDone, Del!LoseRun, Del!phoneVars
  <1>5. CASE Del!CreateBackup \/ Del!StartRestore \/ Del!ReadLedger \/ Del!ImportHistory \/ Del!Crash \/ UNCHANGED Del!vars
    BY <1>5 DEF Del!CreateBackup, Del!StartRestore, Del!ReadLedger, Del!ImportHistory,
                Del!Crash, Del!vars, Del!phoneVars
  <1> QED  BY <1>1, <1>2, <1>3, <1>4, <1>5 DEF Del!Next

\* So a phone that composed a message has it or knows better.
LEMMA ComposedStep ==
  ASSUME DeletionInv, [Del!Next]_(Del!vars)
  PROVE  Composed'
  <1>0. Del!RedactionBounds /\ Del!TypeOK /\ Composed
    BY DEF DeletionInv
  <1>1. PICK p \in Nat : p = phone /\ p # 0
    BY <1>0, DeletionBounds DEF Del!TypeOK
  <1>2. \A m \in Mine : madeOn[m] \in Nat
    BY <1>0, DeletionBounds DEF Del!TypeOK
  <1>3. CASE phone' = phone
    <2>1. ASSUME NEW m \in Mine
          PROVE  /\ madeOn'[m] <= phone'
                 /\ outbox'[m] # "none" => madeOn'[m] = phone'
                 /\ m \in events' \cup sending' => madeOn'[m] # 0
      <3>1. CASE madeOn'[m] = madeOn[m] /\ (outbox'[m] # "none" => outbox[m] # "none")
        <4>1. m \in events' \cup sending' => m \in events \cup sending \/ outbox[m] = "queued"
          BY <1>3, ComposeSteps
        <4> QED  BY <1>0, <1>1, <1>3, <3>1, <4>1 DEF Composed
      <3>2. CASE madeOn'[m] = phone
        BY <1>1, <1>3, <3>2
      <3> QED  BY <1>3, <3>1, <3>2, ComposeSteps
    <2>2. ASSUME NEW m \in Mine, madeOn'[m] = phone', outbox'[m] = "none" PROVE m \in tombs'
      <3>1. madeOn[m] = phone
        BY <1>3, <2>2, ComposeSteps
      <3>2. CASE \E ms \in SUBSET Del!Redacted : Del!Erase(ms)
        <4>1. PICK ms : Del!Erase(ms)
          BY <3>2
        <4>2. tombs' = tombs \cup {k \in ms \cap Mine : outbox[k] # "none" \/ k \in archive}
              /\ outbox'[m] = (IF m \in ms THEN "none" ELSE outbox[m])
          BY <4>1 DEF Del!Erase
        <4>3. CASE outbox[m] = "none"
          BY <1>0, <3>1, <4>2, <4>3 DEF Composed
        <4>4. CASE outbox[m] # "none"
          BY <2>2, <4>2, <4>4
        <4> QED  BY <4>3, <4>4
      <3>3. CASE UNCHANGED tombs /\ (outbox[m] # "none" => outbox'[m] # "none")
        BY <1>0, <2>2, <3>1, <3>3 DEF Composed
      <3> QED  BY <1>3, <3>2, <3>3, CopiesKept
    <2> QED  BY <2>1, <2>2 DEF Composed
  <1>4. CASE phone' # phone
    <2>1. Del!ReplacePhone
      BY <1>4, PhoneSteps
    <2>2. phone' = p + 1 /\ UNCHANGED <<madeOn, events>> /\ sending' = {}
          /\ \A m \in Mine : outbox'[m] = "none"
      BY <1>1, <2>1 DEF Del!ReplacePhone, Del!Idle
    <2>3. \A m \in Mine : madeOn[m] <= p
      BY <1>0, <1>1 DEF Composed
    <2>4. \A m \in Mine : madeOn[m] <= p + 1 /\ madeOn[m] # p + 1
      BY <1>2, <2>3
    <2>5. ASSUME NEW m \in Mine PROVE m \in events => madeOn[m] # 0
      BY <1>0 DEF Composed
    <2> QED  BY <2>2, <2>4, <2>5 DEF Composed
  <1> QED  BY <1>3, <1>4

\* A cursor that stays names the same messages, and one page more if it moves.
LEMMA ToldSteps ==
  ASSUME DeletionInv, [Del!Next]_(Del!vars), phone' = phone
  PROVE  \/ Del!OnPage(0, seen)' = Del!OnPage(0, seen) /\ UNCHANGED seen
         \/ \E w \in Workers :
              /\ Del!ApplyRedactions(w) /\ worker[w].from = seen /\ UNCHANGED log
              /\ Del!Erase(Del!OnPage(seen, worker[w].to)) /\ Del!Set(w, Del!NextStep(worker[w]))
              /\ Del!OnPage(0, seen)' \subseteq Del!OnPage(0, seen) \cup Del!OnPage(seen, worker[w].to)
  <1>0. Del!RedactionBounds /\ Del!TypeOK /\ PagesBehind
    BY DEF DeletionInv
  <1>1. CASE UNCHANGED seen
    <2>1. PICK q \in Nat : q = seen /\ q <= Len(feed[Me])
      BY <1>0 DEF PagesBehind, Del!TypeOK
    <2>2. {feed'[Me][i] : i \in (0 + 1)..q} = Del!OnPage(0, q)
      BY <1>0, <2>1, FeedGrows
    <2> QED  BY <1>1, <2>1, <2>2 DEF Del!OnPage
  <1>2. ASSUME NEW w \in Workers, Del!ApplyRedactions(w), seen' # seen
        PROVE  /\ worker[w].from = seen /\ UNCHANGED log
               /\ Del!Erase(Del!OnPage(seen, worker[w].to)) /\ Del!Set(w, Del!NextStep(worker[w]))
               /\ Del!OnPage(0, seen)' \subseteq Del!OnPage(0, seen) \cup Del!OnPage(seen, worker[w].to)
    <2>1. /\ worker[w].at = "apply" /\ worker[w].from = seen /\ seen' = worker[w].to
          /\ Del!Erase(Del!OnPage(seen, worker[w].to)) /\ UNCHANGED <<feed, log>> /\ Del!Set(w, Del!NextStep(worker[w]))
      BY <1>2 DEF Del!ApplyRedactions, Del!serverVars
    <2>2. PICK q \in Nat, s \in Nat : q = worker[w].to /\ s = seen /\ q <= Len(feed[Me])
      BY <1>0, <2>1 DEF Del!TypeOK, PagesBehind
    <2>3. Del!OnPage(0, q) \subseteq Del!OnPage(0, s) \cup Del!OnPage(s, q)
      BY <1>0, <2>2, OnFeed
    <2>4. Del!OnPage(0, seen)' = Del!OnPage(0, q)
      BY <2>1, <2>2 DEF Del!OnPage
    <2> QED  BY <2>1, <2>2, <2>3, <2>4
  <1>3. ASSUME NEW m \in Del!Messages, Del!Redacting(m) \/ Del!AbortRedact(m) PROVE UNCHANGED seen
    BY <1>3 DEF Del!Redacting, Del!LockFeed, Del!CommitRedact, Del!AbortRedact, Del!phoneVars
  <1>4. ASSUME NEW m \in Theirs, Del!PeerSend(m) \/ Del!PeerRedact(m) PROVE UNCHANGED seen
    BY <1>4 DEF Del!PeerSend, Del!PeerRedact, Del!phoneVars
  <1>5. ASSUME NEW m \in Mine,
               \/ Del!Draft(m) \/ Del!Upload(m) \/ Del!Accept(m) \/ Del!ConfirmSend(m) \/ Del!LoseSend(m)
               \/ Del!BeginDeletion(m) \/ Del!Deleting(m) \/ Del!LoseRedact(m)
        PROVE  UNCHANGED seen
    BY <1>5 DEF Del!Draft, Del!Upload, Del!Accept, Del!ConfirmSend, Del!LoseSend,
                Del!BeginDeletion, Del!Deleting, Del!AskRedact,
                Del!ServeRedact, Del!AnswerRedact, Del!ConfirmRedaction, Del!CancelRedaction,
                Del!CompleteRedaction, Del!LoseRedact, Del!phoneVars
  <1>6. ASSUME NEW w \in Workers, Del!Syncing(w) \/ Del!LoseRun(w) PROVE UNCHANGED seen \/ Del!ApplyRedactions(w)
    BY <1>6 DEF Del!Syncing, Del!FetchRedactions, Del!ListMessages, Del!Receive, Del!PageDone,
                Del!LoseRun, Del!phoneVars
  <1>7. CASE Del!CreateBackup \/ Del!StartRestore \/ Del!ReadLedger \/ Del!ImportHistory \/ Del!Crash \/ UNCHANGED Del!vars
    BY <1>1, <1>7 DEF Del!CreateBackup, Del!StartRestore, Del!ReadLedger, Del!ImportHistory,
                      Del!Crash, Del!vars, Del!phoneVars
  <1>8. ~Del!ReplacePhone
    <2>1. phone \in Nat
      BY DeletionBounds, <1>0 DEF Del!TypeOK
    <2>2. phone + 1 # phone
      BY <2>1
    <2> QED  BY <2>2 DEF Del!ReplacePhone
  <1>9. UNCHANGED seen \/ \E w \in Workers : Del!ApplyRedactions(w)
    BY <1>3, <1>4, <1>5, <1>6, <1>7, <1>8 DEF Del!Next, Del!vars, Del!phoneVars
  <1> QED  BY <1>1, <1>2, <1>9

\* On a new phone nothing is named, and nothing is kept.
LEMMA NewPhone ==
  ASSUME Del!ReplacePhone
  PROVE  /\ Del!OnPage(0, seen)' = {} /\ received' = {}
         /\ \A m \in Mine : outbox'[m] = "none"
         /\ \A w \in Workers : worker'[w] = Del!NoRun
  <1>1. seen' = 0 /\ received' = {} /\ (\A m \in Mine : outbox'[m] = "none")
        /\ \A w \in Workers : worker'[w] = Del!NoRun
    BY DEF Del!ReplacePhone, Del!Idle
  <1>2. (0 + 1)..0 = {}
    OBVIOUS
  <1> QED  BY <1>1, <1>2 DEF Del!OnPage

\* An own message that was erased is not composed again.
LEMMA OwnStep ==
  ASSUME DeletionInv, [Del!Next]_(Del!vars)
  PROVE  OwnGone'
  <1>0. Del!RedactionBounds /\ Del!TypeOK /\ OwnGone /\ Composed /\ AnswersTrue /\ PagesBehind
    BY DEF DeletionInv
  <1>1. CASE phone' # phone
    BY <1>1, PhoneSteps, NewPhone DEF OwnGone
  <1>2. CASE phone' = phone
    <2>1. ASSUME NEW m \in Mine, m \in Del!OnPage(0, seen) PROVE outbox'[m] = "none"
      <3>1. outbox[m] = "none"
        BY <1>0, <2>1 DEF OwnGone
      <3>2. m \in events
        <4>1. PICK q \in Nat : q = seen /\ q <= Len(feed[Me])
          BY <1>0 DEF PagesBehind, Del!TypeOK
        <4>2. Del!OnPage(0, q) \subseteq Del!Redacted
          BY <1>0, <4>1, OnFeed
        <4> QED  BY <1>0, <2>1, <4>1, <4>2 DEF AnswersTrue
      <3>3. ~Del!Draft(m)
        <4>1. madeOn[m] # 0 /\ (madeOn[m] = phone => m \in tombs)
          BY <1>0, <3>1, <3>2 DEF Composed
        <4> QED  BY <4>1 DEF Del!Draft
      <3> QED  BY <1>2, <3>1, <3>3, ComposeSteps
    <2>2. CASE Del!OnPage(0, seen)' = Del!OnPage(0, seen)
      BY <2>1, <2>2 DEF OwnGone
    <2>3. ASSUME NEW w \in Workers, Del!Erase(Del!OnPage(seen, worker[w].to)),
                 Del!OnPage(0, seen)' \subseteq Del!OnPage(0, seen) \cup Del!OnPage(seen, worker[w].to)
          PROVE  OwnGone'
      <3>1. ASSUME NEW m \in Mine, m \in Del!OnPage(seen, worker[w].to) PROVE outbox'[m] = "none"
        BY <2>3, <3>1 DEF Del!Erase
      <3> QED  BY <2>1, <2>3, <3>1 DEF OwnGone
    <2> QED  BY <1>2, <2>2, <2>3, ToldSteps
  <1> QED  BY <1>1, <1>2

\* With one synchronizer nothing is named between the listing of a page and its
\* end, and what was named before is not listed.
LEMMA ReadStep ==
  ASSUME DeletionInv, [Del!Next]_(Del!vars)
  PROVE  ReadGone'
  <1> SUFFICES ASSUME Workers = {Inbox} PROVE ReadGone'
    BY DEF ReadGone
  <1>0. /\ Del!RedactionBounds /\ Del!TypeOK /\ ReadGone /\ ListedLogged /\ PagesBehind
        /\ Inbox \in Workers
    BY DeletionBounds DEF DeletionInv
  <1>1. CASE phone' # phone
    <2>1. worker'[Inbox].at = "idle"
      BY <1>0, <1>1, PhoneSteps, NewPhone DEF Del!NoRun
    <2>2. Del!OnPage(0, seen)' = {} /\ received' = {}
      BY <1>1, PhoneSteps, NewPhone
    <2> QED  BY <2>1, <2>2 DEF ReadGone
  <1>2. CASE \E w \in Workers :
               /\ Del!ApplyRedactions(w) /\ Del!Erase(Del!OnPage(seen, worker[w].to)) /\ Del!Set(w, Del!NextStep(worker[w]))
               /\ Del!OnPage(0, seen)' \subseteq Del!OnPage(0, seen) \cup Del!OnPage(seen, worker[w].to)
    <2>1. PICK w \in Workers :
               /\ Del!Erase(Del!OnPage(seen, worker[w].to)) /\ Del!Set(w, Del!NextStep(worker[w]))
               /\ Del!OnPage(0, seen)' \subseteq Del!OnPage(0, seen) \cup Del!OnPage(seen, worker[w].to)
      BY <1>2
    <2>2. w = Inbox /\ worker'[Inbox].at # "receive"
      BY <1>0, <2>1 DEF Del!Set, Del!NextStep, Del!NoRun, Del!TypeOK
    <2>3. received' = received \ Del!OnPage(seen, worker[w].to)
      BY <2>1 DEF Del!Erase
    <2>4. received' \cap Del!OnPage(0, seen)' = {}
      BY <1>0, <2>1, <2>3 DEF ReadGone
    <2> QED  BY <2>2, <2>4 DEF ReadGone
  <1>3. CASE Del!OnPage(0, seen)' = Del!OnPage(0, seen)
    <2> DEFINE Fresh == /\ received' \cap Del!OnPage(0, seen) = {}
                        /\ worker'[Inbox].at = "receive" =>
                             \A i \in worker'[Inbox].items : log'[i] \notin Del!OnPage(0, seen)
    <2>0. Fresh => ReadGone'
      BY <1>3 DEF ReadGone
    <2>1. ASSUME received' \subseteq received, UNCHANGED <<worker, log>> PROVE Fresh
      BY <1>0, <2>1 DEF ReadGone
    <2>2. ASSUME received' \subseteq received, worker'[Inbox].at # "receive" PROVE Fresh
      BY <1>0, <2>2 DEF ReadGone
    <2>3. CASE Del!Syncing(Inbox) \/ Del!LoseRun(Inbox)
      <3>1. CASE Del!FetchRedactions(Inbox) \/ Del!ApplyRedactions(Inbox) \/ Del!PageDone(Inbox) \/ Del!LoseRun(Inbox)
        <4>1. PICK run : Del!Set(Inbox, run) /\ run.at # "receive"
          <5>1. CASE Del!FetchRedactions(Inbox)
            <6>1. PICK k : Del!Set(Inbox, [Del!NoRun EXCEPT !.at = "apply", !.from = seen, !.to = Del!Page(seen), !.round = k])
              BY <5>1 DEF Del!FetchRedactions
            <6>2. [Del!NoRun EXCEPT !.at = "apply", !.from = seen, !.to = Del!Page(seen), !.round = k].at = "apply"
              BY DEF Del!NoRun
            <6> QED  BY <6>1, <6>2
          <5>2. CASE Del!ApplyRedactions(Inbox)
            BY <5>2 DEF Del!ApplyRedactions, Del!NextStep, Del!NoRun
          <5>3. CASE Del!PageDone(Inbox) \/ Del!LoseRun(Inbox)
            BY <5>3 DEF Del!PageDone, Del!LoseRun, Del!NoRun
          <5> QED  BY <3>1, <5>1, <5>2, <5>3
        <4>2. worker'[Inbox].at # "receive"
          BY <1>0, <4>1 DEF Del!Set, Del!TypeOK
        <4>3. received' \subseteq received
          BY <3>1 DEF Del!FetchRedactions, Del!ApplyRedactions, Del!PageDone, Del!LoseRun,
                      Del!Erase, Del!phoneVars, Del!messageVars
        <4> QED  BY <2>0, <2>2, <4>2, <4>3
      <3>2. CASE Del!ListMessages(Inbox)
        <4>1. UNCHANGED <<received, log>>
          BY <3>2 DEF Del!ListMessages, Del!serverVars, Del!phoneVars, Del!messageVars
        <4>2. PICK rows : /\ \A i \in rows : log[i] \notin Del!Redacted
                          /\ \E last : Del!Set(Inbox, [worker[Inbox] EXCEPT !.at = "receive", !.items = rows, !.to = last])
          BY <3>2 DEF Del!ListMessages
        <4>3. PICK last : Del!Set(Inbox, [worker[Inbox] EXCEPT !.at = "receive", !.items = rows, !.to = last])
          BY <4>2
        <4>4. worker'[Inbox].items = rows
          BY <1>0, <4>3 DEF Del!Set, Del!TypeOK
        <4>5. Del!OnPage(0, seen) \subseteq Del!Redacted
          <5>1. PICK q \in Nat : q = seen /\ q <= Len(feed[Me])
            BY <1>0 DEF PagesBehind, Del!TypeOK
          <5> QED  BY <1>0, <5>1, OnFeed
        <4>6. Fresh
          BY <1>0, <4>1, <4>2, <4>4, <4>5 DEF ReadGone
        <4> QED  BY <2>0, <4>6
      <3>3. CASE Del!Receive(Inbox)
        <4>1. PICK i \in worker[Inbox].items :
                /\ received' = IF log[i] \in opened THEN received ELSE received \cup {log[i]}
                /\ Del!Set(Inbox, IF log[i] \in opened \ received THEN Del!NoRun
                              ELSE [worker[Inbox] EXCEPT !.items = @ \ {i}])
          BY <3>3 DEF Del!Receive
        <4>2. worker[Inbox].at = "receive" /\ UNCHANGED log
          BY <3>3 DEF Del!Receive, Del!serverVars
        <4>3. log[i] \notin Del!OnPage(0, seen)
          BY <1>0, <4>1, <4>2 DEF ReadGone
        <4>4. worker'[Inbox].items \subseteq worker[Inbox].items
          BY <1>0, <4>1 DEF Del!Set, Del!NoRun, Del!TypeOK
        <4>5. Fresh
          BY <1>0, <4>1, <4>2, <4>3, <4>4 DEF ReadGone
        <4> QED  BY <2>0, <4>5
      <3> QED  BY <2>3, <3>1, <3>2, <3>3 DEF Del!Syncing
    <2>4. ASSUME NEW m \in Theirs, Del!PeerSend(m) PROVE Fresh
      <3>1. PICK l \in Seq(Theirs) : l = log
        BY <1>0 DEF Del!TypeOK
      <3>2. \A i \in DOMAIN l : Append(l, m)[i] = l[i]
        BY <3>1
      <3>3. log' = Append(log, m) /\ UNCHANGED <<worker, received>>
        BY <2>4 DEF Del!PeerSend, Del!runVars, Del!phoneVars, Del!messageVars
      <3>4. worker[Inbox].items \subseteq DOMAIN log
        BY <1>0 DEF ListedLogged
      <3> QED  BY <1>0, <3>1, <3>2, <3>3, <3>4 DEF ReadGone
    <2>5. ASSUME NEW m \in Mine,
                 \/ Del!Draft(m) \/ Del!Upload(m) \/ Del!Accept(m) \/ Del!ConfirmSend(m) \/ Del!LoseSend(m)
                 \/ Del!BeginDeletion(m) \/ Del!Deleting(m) \/ Del!LoseRedact(m)
          PROVE  received' \subseteq received /\ UNCHANGED <<log, worker>>
      BY <2>5 DEF Del!Draft, Del!Upload, Del!Accept, Del!ConfirmSend, Del!LoseSend,
                  Del!BeginDeletion, Del!Deleting, Del!AskRedact,
                  Del!ServeRedact, Del!LockEvent, Del!AnswerRedact, Del!ConfirmRedaction,
                  Del!CancelRedaction,
                  Del!CompleteRedaction, Del!LoseRedact, Del!Erase, Del!serverVars,
                  Del!runVars, Del!phoneVars, Del!messageVars
    <2>6. ASSUME NEW m \in Del!Messages, Del!Redacting(m) \/ Del!AbortRedact(m) PROVE UNCHANGED <<received, log, worker>>
      BY <2>6 DEF Del!Redacting, Del!LockFeed, Del!CommitRedact, Del!AbortRedact, Del!runVars,
                  Del!phoneVars, Del!messageVars
    <2>7. ASSUME NEW m \in Theirs, Del!PeerRedact(m) PROVE UNCHANGED <<received, log, worker>>
      BY <2>7 DEF Del!PeerRedact, Del!LockEvent, Del!runVars, Del!phoneVars, Del!messageVars
    <2>8. CASE Del!CreateBackup \/ Del!StartRestore \/ Del!ReadLedger \/ Del!ImportHistory \/ UNCHANGED Del!vars
      BY <2>0, <2>1, <2>8 DEF Del!CreateBackup, Del!StartRestore, Del!ReadLedger,
                              Del!ImportHistory, Del!vars, Del!serverVars,
                         Del!runVars, Del!phoneVars, Del!messageVars
    <2>9. CASE Del!Crash \/ Del!ReplacePhone
      <3>1. worker'[Inbox].at = "idle"
        BY <1>0, <2>9 DEF Del!Crash, Del!ReplacePhone, Del!Idle, Del!NoRun
      <3>2. received' \subseteq received
        BY <2>9 DEF Del!Crash, Del!ReplacePhone, Del!phoneVars, Del!messageVars
      <3> QED  BY <2>0, <2>2, <3>1, <3>2
    <2>10. ASSUME NEW w \in Workers, Del!Syncing(w) \/ Del!LoseRun(w) PROVE ReadGone'
      <3>1. w = Inbox
        OBVIOUS
      <3> QED  BY <2>3, <2>10, <3>1
    <2> QED  BY <2>0, <2>1, <2>4, <2>5, <2>6, <2>7, <2>8, <2>9, <2>10 DEF Del!Next
  <1> QED  BY <1>1, <1>2, <1>3, ToldSteps

\* Nothing is redacted, and no phone has anything.
LEMMA DeletionInit == Del!RedactionBounds /\ Del!Init => DeletionInv
  <1> SUFFICES ASSUME Del!RedactionBounds, Del!Init PROVE DeletionInv
    OBVIOUS
  <1>1. Del!TypeOK
    BY DeletionInitTyped
  <1>2. Del!Redacted = {} /\ Len(feed[Me]) = 0
    BY DEF Del!Init, Del!Redacted, Del!Accounts
  <1>3. Del!OnPage(0, seen) = {}
    <2>1. (0 + 1)..0 = {}
      OBVIOUS
    <2> QED  BY <2>1 DEF Del!Init, Del!OnPage
  <1>4. AnswersTrue
    BY <1>2 DEF Del!Init, AnswersTrue
  <1>5. PagesBehind /\ ListedLogged
    BY <1>2 DEF Del!Init, PagesBehind, ListedLogged, Del!NoRun
  <1>6. Composed
    BY DEF Del!Init, Composed
  <1>7. RestoreCovers
    BY <1>2 DEF Del!Init, RestoreCovers, Del!NoRestore
  <1>8. OwnGone /\ ReadGone
    BY <1>3, DeletionBounds DEF Del!Init, OwnGone, ReadGone, Del!NoRun
  <1> QED  BY <1>1, <1>4, <1>5, <1>6, <1>7, <1>8 DEF DeletionInv

\* Every step keeps the invariant: one lemma for each of its parts.
LEMMA DeletionNext == DeletionInv /\ [Del!Next]_(Del!vars) => DeletionInv'
  <1> SUFFICES ASSUME DeletionInv, [Del!Next]_(Del!vars) PROVE DeletionInv'
    OBVIOUS
  <1>1. Del!RedactionBounds'
    BY DEF DeletionInv, Del!RedactionBounds
  <1>2. Del!TypeOK'
    BY DeletionNextTyped DEF DeletionInv
  <1> QED
    BY <1>1, <1>2, AnswersStep, PagesStep, ComposedStep, RestoreStep, ListedStep, OwnStep, ReadStep
    DEF DeletionInv

\* The phone gives up its copy of an own message for a redaction alone.
LEMMA FirstStep ==
  ASSUME DeletionInv, [Del!Next]_(Del!vars), NEW m \in Mine, outbox[m] # "none" \/ m \in archive,
         outbox'[m] = "none", m \notin archive', phone' = phone
  PROVE  m \in Del!Redacted
  <1>1. ASSUME NEW ms \in SUBSET Del!Redacted, Del!Erase(ms) PROVE m \in Del!Redacted
    BY <1>1 DEF Del!Erase
  <1> QED  BY <1>1, CopiesKept

\* A restore imports what it has not found in the feed, and nothing else does.
LEMMA FilterStep ==
  ASSUME DeletionInv, [Del!Next]_(Del!vars), restore.at = "importing", phone' = phone
  PROVE  (archive' \ archive) \cap restore.before = {}
  <1>1. CASE archive' \subseteq archive
    BY <1>1
  <1>2. CASE Del!ImportHistory
    <2>1. archive' \subseteq archive \cup (backup \ Del!OnPage(0, restore.from))
      BY <1>2 DEF Del!ImportHistory
    <2>2. restore.before \subseteq Del!OnPage(0, restore.from)
      BY DEF DeletionInv, RestoreCovers
    <2> QED  BY <2>1, <2>2
  <1>3. ASSUME NEW m \in Del!Messages, Del!Redacting(m) \/ Del!AbortRedact(m) PROVE UNCHANGED archive
    BY <1>3 DEF Del!Redacting, Del!LockFeed, Del!CommitRedact, Del!AbortRedact, Del!phoneVars,
                Del!messageVars
  <1>4. ASSUME NEW m \in Theirs, Del!PeerSend(m) \/ Del!PeerRedact(m) PROVE UNCHANGED archive
    BY <1>4 DEF Del!PeerSend, Del!PeerRedact, Del!phoneVars, Del!messageVars
  <1>5. ASSUME NEW m \in Mine,
               \/ Del!Draft(m) \/ Del!Upload(m) \/ Del!Accept(m) \/ Del!ConfirmSend(m) \/ Del!LoseSend(m)
               \/ Del!BeginDeletion(m) \/ Del!Deleting(m) \/ Del!LoseRedact(m)
        PROVE  archive' \subseteq archive
    BY <1>5 DEF Del!Draft, Del!Upload, Del!Accept, Del!ConfirmSend, Del!LoseSend,
                Del!BeginDeletion, Del!Deleting, Del!AskRedact,
                Del!ServeRedact, Del!AnswerRedact, Del!ConfirmRedaction, Del!CancelRedaction,
                Del!CompleteRedaction, Del!LoseRedact, Del!Erase, Del!phoneVars, Del!messageVars
  <1>6. ASSUME NEW w \in Workers, Del!Syncing(w) \/ Del!LoseRun(w) PROVE archive' \subseteq archive
    BY <1>6 DEF Del!Syncing, Del!FetchRedactions, Del!ApplyRedactions, Del!ListMessages,
                Del!Receive, Del!PageDone, Del!LoseRun,
                Del!Erase, Del!phoneVars, Del!messageVars
  <1>7. CASE Del!CreateBackup \/ Del!StartRestore \/ Del!ReadLedger \/ Del!Crash \/ Del!ReplacePhone \/ UNCHANGED Del!vars
    BY <1>1, <1>7 DEF Del!CreateBackup, Del!StartRestore, Del!ReadLedger, Del!Crash,
                      Del!ReplacePhone, Del!vars, Del!phoneVars, Del!messageVars
  <1> QED  BY <1>1, <1>2, <1>3, <1>4, <1>5, <1>6, <1>7 DEF Del!Next

\* The inductive invariant of deletions: no cursor is ahead of the feed, no
\* saved answer is wrong, a message that was sent was composed, a phone that
\* composed one has it or its tombstone, a restore imports with all it must
\* leave out read.  For any messages, synchronizers, phones and faults.
THEOREM DeletionAlways == FeedSpec => []DeletionInv
  <1>1. Del!Init => DeletionInv
    BY DeletionInit, FeedAssumption
  <1>2. DeletionInv /\ [Del!Next]_(Del!vars) => DeletionInv'
    BY DeletionNext
  <1> QED  BY <1>1, <1>2, PTL DEF FeedSpec, Del!Spec

\* However many synchronizers run, and whatever is retried, lost or restored, an
\* own message that the phone was told is deleted is not composed or sent again.
THEOREM OwnStaysDeleted == FeedSpec => []OwnGone
  <1>1. DeletionInv => OwnGone
    BY DEF DeletionInv
  <1> QED  BY <1>1, DeletionAlways, PTL

\* With one synchronizer a message that the phone was told is deleted is not
\* among those it received either.
THEOREM DeletedStays ==
  ASSUME Workers = {Inbox}
  PROVE  FeedSpec => []StaysDeleted
  <1>1. DeletionInv => StaysDeleted
    BY DEF DeletionInv, OwnGone, ReadGone, StaysDeleted, Del!StaysDeleted
  <1> QED  BY <1>1, DeletionAlways, PTL

\* The phone gives up its copy of an own message only when the server has
\* redacted it, and a restore imports nothing that was redacted before it began.
THEOREM ServerAlwaysDecides == FeedSpec => ServerDecides
  <1>1. DeletionInv => Del!TypeOK
    BY DEF DeletionInv
  <1>2. DeletionInv /\ [Del!Next]_(Del!vars) =>
          [\A m \in Mine :
            /\ outbox[m] # "none" \/ m \in archive
            /\ outbox'[m] = "none" /\ m \notin archive'
            /\ phone' = phone
            => m \in Del!Redacted]_(Del!vars)
    BY FirstStep
  <1>3. DeletionInv /\ [Del!Next]_(Del!vars) =>
          [(restore.at = "importing" /\ phone' = phone)
            => (archive' \ archive) \cap restore.before = {}]_(Del!vars)
    BY FilterStep
  <1>4. FeedSpec => []DeletionInv
    BY DeletionAlways
  <1> QED  BY <1>1, <1>2, <1>3, <1>4, PTL DEF FeedSpec, Del!Spec, ServerDecides,
                                              Del!ServerDecides, Del!ServerFirst, Del!RestoreFilters
=============================================================================
