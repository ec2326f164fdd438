-------------------------- MODULE DeliveryQueueLog --------------------------
(***************************************************************************)
(* The relay of DeliveryQueue implements the per-recipient append-only log *)
(* of RecipientLog.                                                        *)
(***************************************************************************)
EXTENDS DeliveryQueue

\* The messages a recipient can see, and those of them up to a sequence.
Queue(r) == {m \in Messages : Visible(m, r)}
UpTo(r, q) == {m \in Queue(r) : row[m][r] <= q}

\* They are read in the order of their sequences: up to the i-th there are i.
At(r, i) == {m \in Queue(r) : Cardinality(UpTo(r, row[m][r])) = i}

VisibleLog(r) == [i \in 1..Cardinality(Queue(r)) |-> CHOOSE m \in At(r, i) : TRUE]

\* How many of them are at or below the client's durable cursor.
Consumed(r) == Cardinality(UpTo(r, cursor[r]))

Log == INSTANCE RecipientLog
           WITH log <- [r \in Accounts |-> VisibleLog(r)],
                read <- [r \in Accounts |-> Consumed(r)]

\* The relay with its transactions, locks, pages, refusals and crashes
\* implements the log: a commit appends to the logs of all its recipients at
\* their ends and at once, and a saved cursor only ever consumes a longer prefix.
ImplementsRecipientLog == Log!Spec
=============================================================================
