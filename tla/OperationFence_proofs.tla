------------------------ MODULE OperationFence_proofs ------------------------
(***************************************************************************)
(* Proofs about OperationFence: for any operations, envelopes, objects,    *)
(* contents, cleanup workers, phones and outlived uploads, an operation    *)
(* has one fate, a cancelled one's media cannot be read, and object        *)
(* storage holds what the rows say.                                        *)
(***************************************************************************)
EXTENDS OperationFence, TLAPS

Putting(op) == tx[op].kind \in {"put", "stored"}

\* The account row keeps the generation of every open transaction.
Current == \A op \in Operations : tx[op] # NoTx => tx[op].key = Key(op)

\* The operation lock keeps what an open transaction found undecided.
StillUndecided ==
    \A op \in Operations :
        /\ tx[op].kind = "send" => event[Key(op)] = None /\ ~Cancelled(Key(op))
        /\ Putting(op) => Key(op) \notin tombs

\* An object is cleaned up if, and only if, it was claimed for an operation
\* that is cancelled.
CleanedIffCancelled ==
    \A o \in Objects : work[o] # "none" <=> row[o] # None /\ row[o].key \in tombs

\* The object lock: one upload of an object at a time, which finds no claim, or
\* its own.
OneUpload ==
    \A op \in Operations : Putting(op) =>
        /\ row[tx[op].object] \in {None, [key |-> tx[op].key, digest |-> tx[op].body]}
        /\ \A p \in Operations \ {op} : Putting(p) => tx[p].object # tx[op].object

\* What was stored is there until the upload commits.
StoredStays ==
    \A op \in Operations : tx[op].kind = "stored" => blob[tx[op].object] = tx[op].body

\* Workers only ever hold objects that are being cleaned up.
WorkersHold ==
    \A w \in Workers : \A o \in claim[w] \cup erased[w] : work[o] # "none"

\* A claimed object that is not cleaned up is stored.
UncleanedKept ==
    \A o \in Objects : row[o] # None /\ work[o] = "none" => blob[o] = row[o].digest

\* What a worker has deleted, or completed, is deleted, unless an upload
\* outlived its transaction.
ErasedGone ==
    lost = 0 =>
        /\ late = {}
        /\ \A w \in Workers : \A o \in erased[w] : blob[o] = None
        /\ \A o \in Objects : work[o] = "complete" => blob[o] = None

RelayInv == Current /\ StillUndecided /\ OneWinner
MediaInv == CleanedIffCancelled /\ OneUpload /\ StoredStays /\ WorkersHold
            /\ UncleanedKept /\ ErasedGone

\* The inductive invariant.
IInv == TypeOK /\ RelayInv /\ MediaInv

-----------------------------------------------------------------------------
(* Types *)

\* The three kinds of transaction and their fields.
LEMMA OpenTypes ==
    ASSUME TypeOK, NEW op \in Operations
    PROVE  /\ tx[op] \in Transactions
           /\ tx[op].kind = "idle" <=> tx[op] = NoTx
           /\ tx[op].kind \in {"idle", "send", "put", "stored"}
           /\ tx[op].kind = "send" => tx[op].key \in Keys /\ tx[op].envelope \in Envelopes
           /\ Putting(op) => /\ tx[op].key \in Keys
                             /\ tx[op].object \in Objects
                             /\ tx[op].body \in Ciphertexts
BY DEF TypeOK, Transactions, NoTx, Putting

LEMMA KeyType == ASSUME TypeOK, NEW op \in Operations PROVE Key(op) \in Keys
BY DEF TypeOK, Key, Keys

LEMMA RelayTyped == ASSUME TypeOK, RelayStep PROVE TypeOK'
<1>1. ASSUME NEW v \in Envelopes, SendBegin(v)
      PROVE  TypeOK'
  <2>1. OpOf[v] \in Operations
    BY OperationFenceAssumption DEF OperationFenceAssumption
  <2>2. [kind |-> "send", key |-> Key(OpOf[v]), envelope |-> v] \in Transactions
    BY <2>1, KeyType DEF Transactions
  <2> QED
    BY <1>1, <2>1, <2>2 DEF SendBegin, TypeOK, relayVars, storageVars, workerVars
<1>2. ASSUME NEW v \in Envelopes, CancelProfile(v)
      PROVE  TypeOK'
  <2>1. Key(OpOf[v]) \in Keys
    BY OperationFenceAssumption, KeyType DEF OperationFenceAssumption
  <2> QED
    BY <1>2, <2>1 DEF CancelProfile, TypeOK, storageVars, workerVars
<1>3. ASSUME NEW op \in Operations, SendCommit(op)
      PROVE  TypeOK'
  <2>1. tx[op].key \in Keys /\ tx[op].envelope \in Envelopes /\ NoTx \in Transactions
    BY <1>3, OpenTypes DEF SendCommit, Transactions
  <2> QED
    BY <1>3, <2>1 DEF SendCommit, TypeOK, storageVars, workerVars
<1>4. ASSUME NEW op \in Operations, Abort(op)
      PROVE  TypeOK'
  <2>1. NoTx \in Transactions
    BY DEF Transactions
  <2> QED
    BY <1>4, <2>1 DEF Abort, TypeOK, relayVars, storageVars, workerVars
<1>5. ASSUME NEW op \in Operations, CancelMedia(op)
      PROVE  TypeOK'
  BY <1>5, KeyType DEF CancelMedia, TypeOK, relayVars, storageVars, workerVars
<1>6. ASSUME NEW k \in Keys, Redact(k)
      PROVE  TypeOK'
  BY <1>6 DEF Redact, TypeOK, storageVars, workerVars
<1>7. ASSUME Verify
      PROVE  TypeOK'
  BY <1>7, OperationFenceAssumption
     DEF Verify, TypeOK, relayVars, storageVars, workerVars, OperationFenceAssumption
<1> QED
  BY <1>1, <1>2, <1>3, <1>4, <1>5, <1>6, <1>7 DEF RelayStep

LEMMA UploadTyped == ASSUME TypeOK, UploadStep PROVE TypeOK'
<1>1. ASSUME NEW o \in Objects, NEW op \in Operations, NEW c \in Ciphertexts, PutBegin(o, op, c)
      PROVE  TypeOK'
  <2>1. [kind |-> "put", key |-> Key(op), object |-> o, body |-> c] \in Transactions
    BY KeyType DEF Transactions
  <2> QED
    BY <1>1, <2>1 DEF PutBegin, TypeOK, relayVars, storageVars, workerVars
<1>2. ASSUME NEW op \in Operations, Store(op)
      PROVE  TypeOK'
  <2>1. tx[op].object \in Objects /\ tx[op].body \in Ciphertexts
    BY <1>2, OpenTypes DEF Store, Putting
  <2>2. [tx[op] EXCEPT !.kind = "stored"] \in Transactions
    BY <1>2, OpenTypes DEF Store, Transactions, NoTx
  <2>3. tx' \in [Operations -> Transactions]
    BY <1>2, <2>2 DEF Store, TypeOK
  <2> QED
    BY <1>2, <2>1, <2>3 DEF Store, TypeOK, relayVars, workerVars
<1>3. ASSUME NEW op \in Operations, PutCommit(op)
      PROVE  TypeOK'
  <2>1. [key |-> tx[op].key, digest |-> tx[op].body] \in Rows /\ NoTx \in Transactions
    BY <1>3, OpenTypes DEF PutCommit, Putting, Rows, Transactions
  <2> QED
    BY <1>3, <2>1 DEF PutCommit, TypeOK, relayVars, storageVars, workerVars
<1>4. ASSUME NEW op \in Operations, LoseTransaction(op)
      PROVE  TypeOK'
  <2>1. tx[op].object \in Objects /\ tx[op].body \in Ciphertexts /\ NoTx \in Transactions
    BY <1>4, OpenTypes DEF LoseTransaction, Putting, Transactions
  <2>2. lost' \in 0..MaxLost
    BY <1>4, OperationFenceAssumption DEF LoseTransaction, TypeOK, OperationFenceAssumption
  <2> QED
    BY <1>4, <2>1, <2>2 DEF LoseTransaction, TypeOK, relayVars, workerVars
<1>5. ASSUME NEW u \in late, LateStore(u)
      PROVE  TypeOK'
  <2>1. u[1] \in Objects /\ u[2] \in Ciphertexts
    BY DEF TypeOK
  <2> QED
    BY <1>5, <2>1 DEF LateStore, TypeOK, relayVars, workerVars
<1> QED
  BY <1>1, <1>2, <1>3, <1>4, <1>5 DEF UploadStep

LEMMA WorkerTyped == ASSUME TypeOK, NEW w \in Workers, WorkerStep(w) PROVE TypeOK'
<1>1. ASSUME NEW expired \in SUBSET Objects, Claim(w, expired)
      PROVE  TypeOK'
  BY <1>1 DEF Claim, InState, TypeOK, relayVars, storageVars
<1>2. ASSUME NEW o \in Objects, Erase(w, o)
      PROVE  TypeOK'
  BY <1>2 DEF Erase, TypeOK, relayVars
<1>3. ASSUME NEW o \in Objects, EraseFails(w, o)
      PROVE  TypeOK'
  BY <1>3 DEF EraseFails, Settled, TypeOK, relayVars
<1>4. ASSUME NEW o \in Objects, Complete(w, o)
      PROVE  TypeOK'
  BY <1>4 DEF Complete, Settled, TypeOK, relayVars, storageVars
<1>5. ASSUME WorkerStops(w)
      PROVE  TypeOK'
  BY <1>5 DEF WorkerStops, TypeOK, relayVars, storageVars
<1> QED
  BY <1>1, <1>2, <1>3, <1>4, <1>5 DEF WorkerStep

LEMMA Typed == ASSUME TypeOK, [Next]_vars PROVE TypeOK'
<1>1. CASE UNCHANGED vars
  BY <1>1 DEF vars, TypeOK, relayVars, storageVars, workerVars
<1> QED
  BY <1>1, RelayTyped, UploadTyped, WorkerTyped DEF Next

-----------------------------------------------------------------------------
(* Who decides an operation *)

\* Different operations have different keys, and a key is of one operation.
LEMMA KeysDiffer ==
    ASSUME NEW op \in Operations, NEW p \in Operations, Key(op) = Key(p)
    PROVE  op = p
BY DEF Key

LEMMA RelayUnchanged ==
    ASSUME TypeOK, RelayInv, UNCHANGED <<generation, tx, event, profileTomb, tombs>>
    PROVE  RelayInv'
BY DEF RelayInv, Current, StillUndecided, OneWinner, Cancelled, Key, Putting

\* A transaction that ends takes nothing with it.
LEMMA RelayEnds ==
    ASSUME TypeOK, RelayInv, NEW op \in Operations, tx' = [tx EXCEPT ![op] = NoTx],
           UNCHANGED <<generation, event, profileTomb, tombs>>
    PROVE  RelayInv'
<1>1. \A p \in Operations : tx'[p] = NoTx \/ tx'[p] = tx[p]
  BY DEF TypeOK
<1>2. Current' /\ StillUndecided'
  BY <1>1 DEF RelayInv, Current, StillUndecided, Cancelled, Key, Putting, NoTx
<1> QED
  BY <1>2 DEF RelayInv, OneWinner, Cancelled

LEMMA RelayDecides ==
    ASSUME TypeOK, RelayInv, RelayStep
    PROVE  RelayInv'
<1>1. ASSUME NEW v \in Envelopes, SendBegin(v)
      PROVE  RelayInv'
  <2> DEFINE op == OpOf[v]
             t == [kind |-> "send", key |-> Key(op), envelope |-> v]
  <2>1. op \in Operations
    BY OperationFenceAssumption DEF OperationFenceAssumption
  <2>2. t.kind = "send" /\ t.key = Key(op)
    OBVIOUS
  <2>3. tx' = [tx EXCEPT ![op] = t]
    BY <1>1 DEF SendBegin
  <2> HIDE DEF t, op
  <2>4. tx'[op] = t /\ \A p \in Operations \ {op} : tx'[p] = tx[p]
    BY <2>1, <2>3 DEF TypeOK
  <2>5. event[Key(op)] = None /\ ~Cancelled(Key(op))
    BY <1>1 DEF SendBegin, Undecided, Cancelled, op
  <2>6. UNCHANGED <<generation, event, profileTomb, tombs>>
    BY <1>1 DEF SendBegin, relayVars
  <2> QED
    BY <2>1, <2>2, <2>4, <2>5, <2>6
       DEF RelayInv, Current, StillUndecided, OneWinner, Cancelled, Key, Putting
<1>2. ASSUME NEW v \in Envelopes, CancelProfile(v)
      PROVE  RelayInv'
  <2> DEFINE op == OpOf[v]
  <2>1. op \in Operations /\ Key(op) \in Keys
    BY OperationFenceAssumption, KeyType DEF OperationFenceAssumption
  <2>2. /\ profileTomb' = [profileTomb EXCEPT ![Key(op)] = v]
        /\ tx[op] = NoTx /\ event[Key(op)] = None
        /\ UNCHANGED <<generation, tx, event, tombs>>
    BY <1>2 DEF CancelProfile, Undecided
  <2> HIDE DEF op
  <2>3. \A k \in Keys : k # Key(op) => Cancelled(k)' = Cancelled(k)
    BY <2>2 DEF Cancelled, TypeOK
  <2>4. OneWinner'
    BY <2>1, <2>2, <2>3 DEF RelayInv, OneWinner
  <2>5. StillUndecided'
    <3> SUFFICES ASSUME NEW p \in Operations
                 PROVE  /\ (tx[p].kind = "send")' => (event[Key(p)] = None)' /\ ~Cancelled(Key(p))'
                        /\ Putting(p)' => (Key(p) \notin tombs)'
      BY DEF StillUndecided
    <3>1. CASE p = op
      BY <2>2, <3>1 DEF Putting, NoTx
    <3>2. CASE p # op
      <4>1. Key(p) # Key(op) /\ Key(p) \in Keys /\ Key(p)' = Key(p)
        BY <2>1, <2>2, <3>2, KeysDiffer, KeyType DEF Key
      <4> QED
        BY <2>2, <2>3, <4>1 DEF RelayInv, StillUndecided, Putting, Cancelled, Key, TypeOK
    <3> QED
      BY <3>1, <3>2
  <2>6. Current'
    BY <2>2 DEF RelayInv, Current, Key
  <2> QED
    BY <2>4, <2>5, <2>6 DEF RelayInv
<1>3. ASSUME NEW op \in Operations, SendCommit(op)
      PROVE  RelayInv'
  <2>1. /\ tx' = [tx EXCEPT ![op] = NoTx]
        /\ event' = [event EXCEPT ![tx[op].key] = tx[op].envelope]
        /\ UNCHANGED <<generation, profileTomb, tombs>>
        /\ tx[op].kind = "send"
    BY <1>3 DEF SendCommit
  <2>2. tx[op].key = Key(op) /\ Key(op) \in Keys /\ ~Cancelled(Key(op))
    BY <2>1, KeyType DEF RelayInv, Current, StillUndecided, NoTx
  <2>3. \A k \in Keys : k # Key(op) => event'[k] = event[k]
    BY <2>1, <2>2 DEF TypeOK
  <2>4. OneWinner'
    BY <2>1, <2>2, <2>3 DEF RelayInv, OneWinner, Cancelled
  <2>5. tx'[op] = NoTx /\ \A p \in Operations \ {op} : tx'[p] = tx[p]
    BY <2>1 DEF TypeOK
  <2>6. \A p \in Operations \ {op} : Key(p) # Key(op) /\ Key(p) \in Keys
    BY KeysDiffer, KeyType
  <2>7. StillUndecided'
    BY <2>1, <2>3, <2>5, <2>6 DEF RelayInv, StillUndecided, Putting, Cancelled, Key, NoTx
  <2>8. Current'
    BY <2>1, <2>5 DEF RelayInv, Current, Key
  <2> QED
    BY <2>4, <2>7, <2>8 DEF RelayInv
<1>4. ASSUME NEW op \in Operations, Abort(op)
      PROVE  RelayInv'
  BY <1>4, RelayEnds DEF Abort, relayVars
<1>5. ASSUME NEW op \in Operations, CancelMedia(op)
      PROVE  RelayInv'
  <2>1. /\ tombs' = tombs \cup {Key(op)}
        /\ tx[op] = NoTx /\ event[Key(op)] = None
        /\ UNCHANGED <<generation, tx, event, profileTomb>>
    BY <1>5 DEF CancelMedia, relayVars
  <2>2. OneWinner'
    BY <2>1 DEF RelayInv, OneWinner, Cancelled
  <2>3. \A p \in Operations \ {op} : Key(p) # Key(op)
    BY KeysDiffer
  <2>4. StillUndecided'
    BY <2>1, <2>3 DEF RelayInv, StillUndecided, Putting, Cancelled, Key, NoTx
  <2>5. Current'
    BY <2>1 DEF RelayInv, Current, Key
  <2> QED
    BY <2>2, <2>4, <2>5 DEF RelayInv
<1>6. ASSUME NEW k \in Keys, Redact(k)
      PROVE  RelayInv'
  BY <1>6, RelayUnchanged DEF Redact
<1>7. ASSUME Verify
      PROVE  RelayInv'
  BY <1>7 DEF Verify, RelayInv, Current, StillUndecided, OneWinner, Cancelled, Putting, NoTx, relayVars
<1> QED
  BY <1>1, <1>2, <1>3, <1>4, <1>5, <1>6, <1>7 DEF RelayStep

LEMMA UploadDecides ==
    ASSUME TypeOK, RelayInv, UploadStep
    PROVE  RelayInv'
<1>1. ASSUME NEW o \in Objects, NEW op \in Operations, NEW c \in Ciphertexts, PutBegin(o, op, c)
      PROVE  RelayInv'
  <2> DEFINE t == [kind |-> "put", key |-> Key(op), object |-> o, body |-> c]
  <2>1. t.kind = "put" /\ t.key = Key(op)
    OBVIOUS
  <2>2. tx' = [tx EXCEPT ![op] = t]
    BY <1>1 DEF PutBegin
  <2> HIDE DEF t
  <2>3. tx'[op] = t /\ \A p \in Operations \ {op} : tx'[p] = tx[p]
    BY <2>2 DEF TypeOK
  <2>4. Key(op) \notin tombs /\ UNCHANGED <<generation, event, profileTomb, tombs>>
    BY <1>1 DEF PutBegin, relayVars
  <2> QED
    BY <2>1, <2>3, <2>4 DEF RelayInv, Current, StillUndecided, OneWinner, Cancelled, Key, Putting
<1>2. ASSUME NEW op \in Operations, Store(op)
      PROVE  RelayInv'
  <2>1. /\ tx' = [tx EXCEPT ![op].kind = "stored"] /\ tx[op].kind = "put"
        /\ UNCHANGED <<generation, event, profileTomb, tombs>>
    BY <1>2 DEF Store, relayVars
  <2>2. /\ tx'[op].kind = "stored" /\ tx'[op].key = tx[op].key
        /\ \A p \in Operations \ {op} : tx'[p] = tx[p]
    BY <2>1, OpenTypes DEF TypeOK, Transactions, NoTx
  <2> QED
    BY <2>1, <2>2 DEF RelayInv, Current, StillUndecided, OneWinner, Cancelled, Key, Putting, NoTx
<1>3. ASSUME NEW op \in Operations, PutCommit(op) \/ LoseTransaction(op)
      PROVE  RelayInv'
  BY <1>3, RelayEnds DEF PutCommit, LoseTransaction, relayVars
<1>4. ASSUME NEW u \in late, LateStore(u)
      PROVE  RelayInv'
  BY <1>4, RelayUnchanged DEF LateStore, relayVars
<1> QED
  BY <1>1, <1>2, <1>3, <1>4 DEF UploadStep

LEMMA Decides == ASSUME TypeOK, RelayInv, [Next]_vars PROVE RelayInv'
<1>1. ASSUME NEW w \in Workers, WorkerStep(w)
      PROVE  RelayInv'
  BY <1>1, RelayUnchanged
     DEF WorkerStep, Claim, Erase, EraseFails, Complete, WorkerStops, relayVars
<1>2. CASE UNCHANGED vars
  BY <1>2, RelayUnchanged DEF vars, relayVars
<1> QED
  BY <1>1, <1>2, RelayDecides, UploadDecides DEF Next

-----------------------------------------------------------------------------
(* Objects and storage *)

\* An object is not cleaned up while an upload of it is open: the upload found
\* no claim or its own, whose operation is not cancelled.
LEMMA UploadUncleaned ==
    ASSUME TypeOK, RelayInv, MediaInv, NEW op \in Operations, Putting(op)
    PROVE  /\ tx[op].object \in Objects /\ work[tx[op].object] = "none"
           /\ tx[op].key = Key(op) /\ Key(op) \notin tombs
           /\ tx[op].body \in Ciphertexts /\ tx[op].body # None
<1>1. tx[op].key = Key(op) /\ Key(op) \notin tombs
  BY DEF RelayInv, Current, StillUndecided, Putting, NoTx
<1>2. tx[op].object \in Objects /\ tx[op].body \in Ciphertexts
  BY OpenTypes
<1>3. row[tx[op].object] = None \/ row[tx[op].object].key = tx[op].key
  <2>1. PICK r : r = row[tx[op].object]
    OBVIOUS
  <2>2. r = None \/ r = [key |-> tx[op].key, digest |-> tx[op].body]
    BY <2>1 DEF MediaInv, OneUpload
  <2> QED
    BY <2>1, <2>2
<1>4. work[tx[op].object] = "none"
  BY <1>1, <1>2, <1>3 DEF MediaInv, CleanedIffCancelled
<1> QED
  BY <1>1, <1>2, <1>4, OperationFenceAssumption DEF OperationFenceAssumption

\* A claim is by a content.
LEMMA Claimed ==
    ASSUME TypeOK, NEW o \in Objects, row[o] # None
    PROVE  row[o].key \in Keys /\ row[o].digest \in Ciphertexts /\ row[o].digest # None
BY OperationFenceAssumption DEF TypeOK, Rows, OperationFenceAssumption

\* Steps of the relay open and close no upload of an object they do not end.
LEMMA MediaFewer ==
    ASSUME MediaInv, \A p \in Operations : Putting(p)' => tx'[p] = tx[p],
           UNCHANGED <<tombs, row, work, storageVars, workerVars>>
    PROVE  MediaInv'
<1> USE DEF storageVars, workerVars
<1>1. OneUpload' /\ StoredStays'
  BY DEF MediaInv, OneUpload, StoredStays, Putting
<1> QED
  BY <1>1 DEF MediaInv, CleanedIffCancelled, WorkersHold, UncleanedKept, ErasedGone

LEMMA Ends ==
    ASSUME TypeOK, NEW op \in Operations, tx' = [tx EXCEPT ![op] = NoTx]
    PROVE  \A p \in Operations : Putting(p)' => tx'[p] = tx[p]
BY DEF TypeOK, Putting, NoTx

LEMMA RelayMedia ==
    ASSUME TypeOK, RelayInv, MediaInv, RelayStep
    PROVE  MediaInv'
<1>1. ASSUME NEW v \in Envelopes, SendBegin(v)
      PROVE  MediaInv'
  <2>1. OpOf[v] \in Operations
    BY OperationFenceAssumption DEF OperationFenceAssumption
  <2>2. \A p \in Operations : Putting(p)' => tx'[p] = tx[p]
    BY <1>1, <2>1 DEF SendBegin, TypeOK, Putting
  <2> QED
    BY <1>1, <2>2, MediaFewer DEF SendBegin
<1>2. ASSUME NEW v \in Envelopes, CancelProfile(v)
      PROVE  MediaInv'
  BY <1>2, MediaFewer DEF CancelProfile, Putting
<1>3. ASSUME NEW op \in Operations, SendCommit(op) \/ Abort(op)
      PROVE  MediaInv'
  <2>1. /\ tx' = [tx EXCEPT ![op] = NoTx]
        /\ UNCHANGED <<tombs, row, work, storageVars, workerVars>>
    BY <1>3 DEF SendCommit, Abort
  <2> QED
    BY <2>1, Ends, MediaFewer
<1>4. ASSUME NEW op \in Operations, CancelMedia(op)
      PROVE  MediaInv'
  <2> DEFINE k == Key(op)
  <2>1. /\ tombs' = tombs \cup {k}
        /\ work' = [o \in Objects |-> IF o \in Unused(k) THEN "pending" ELSE work[o]]
        /\ UNCHANGED <<tx, row, blob, late, lost, claim, erased>>
    BY <1>4 DEF CancelMedia, storageVars, workerVars
  <2> HIDE DEF k
  <2>2. CleanedIffCancelled'
    BY <2>1 DEF MediaInv, CleanedIffCancelled, Unused
  <2>3. \A o \in Objects : /\ work'[o] = "none" => work[o] = "none"
                           /\ work'[o] = "complete" => work[o] = "complete"
    BY <2>1
  <2>4. WorkersHold'
    <3> SUFFICES ASSUME NEW w \in Workers, NEW o \in claim[w] \cup erased[w]
                 PROVE  work'[o] # "none"
      BY <2>1 DEF WorkersHold
    <3>1. o \in Objects /\ work[o] # "none"
      BY DEF TypeOK, MediaInv, WorkersHold
    <3> QED
      BY <2>3, <3>1
  <2>5. UncleanedKept' /\ ErasedGone'
    BY <2>1, <2>3 DEF MediaInv, UncleanedKept, ErasedGone
  <2>6. OneUpload' /\ StoredStays'
    BY <2>1 DEF MediaInv, OneUpload, StoredStays, Putting
  <2> QED
    BY <2>2, <2>4, <2>5, <2>6 DEF MediaInv
<1>5. ASSUME NEW k \in Keys, Redact(k)
      PROVE  MediaInv'
  BY <1>5, MediaFewer DEF Redact, Putting
<1>6. ASSUME Verify
      PROVE  MediaInv'
  BY <1>6, MediaFewer DEF Verify, Putting
<1> QED
  BY <1>1, <1>2, <1>3, <1>4, <1>5, <1>6 DEF RelayStep

LEMMA UploadMedia ==
    ASSUME TypeOK, RelayInv, MediaInv, UploadStep
    PROVE  MediaInv'
<1>1. ASSUME NEW o \in Objects, NEW op \in Operations, NEW c \in Ciphertexts, PutBegin(o, op, c)
      PROVE  MediaInv'
  <2> DEFINE t == [kind |-> "put", key |-> Key(op), object |-> o, body |-> c]
  <2>1. t.kind = "put" /\ t.key = Key(op) /\ t.object = o /\ t.body = c
    OBVIOUS
  <2>2. tx' = [tx EXCEPT ![op] = t]
    BY <1>1 DEF PutBegin
  <2> HIDE DEF t
  <2>3. tx'[op] = t /\ \A p \in Operations \ {op} : tx'[p] = tx[p]
    BY <2>2 DEF TypeOK
  <2>4. /\ row[o] \in {None, [key |-> Key(op), digest |-> c]}
        /\ \A p \in Operations : Putting(p) => tx[p].object # o
        /\ UNCHANGED <<tombs, row, work, blob, late, lost, claim, erased>>
    BY <1>1 DEF PutBegin, Accepts, OpenPuts, Putting, storageVars, workerVars
  <2>5. OneUpload'
    BY <2>1, <2>3, <2>4 DEF MediaInv, OneUpload, Putting
  <2>6. StoredStays'
    BY <2>1, <2>3, <2>4 DEF MediaInv, StoredStays
  <2> QED
    BY <2>4, <2>5, <2>6 DEF MediaInv, CleanedIffCancelled, WorkersHold, UncleanedKept, ErasedGone
<1>2. ASSUME NEW op \in Operations, Store(op)
      PROVE  MediaInv'
  <2> DEFINE o == tx[op].object
  <2>1. /\ tx' = [tx EXCEPT ![op].kind = "stored"] /\ Putting(op) /\ tx[op].kind = "put"
        /\ UNCHANGED <<tombs, row, work, late, lost, claim, erased>>
    BY <1>2 DEF Store, Putting, workerVars
  <2>2. /\ tx'[op].kind = "stored" /\ tx'[op].key = tx[op].key
        /\ tx'[op].object = o /\ tx'[op].body = tx[op].body
        /\ \A p \in Operations \ {op} : tx'[p] = tx[p]
    BY <2>1, OpenTypes DEF TypeOK, Transactions, NoTx
  <2>3. o \in Objects /\ work[o] = "none"
    BY <2>1, UploadUncleaned
  <2>4. blob'[o] = tx[op].body /\ \A p \in Objects \ {o} : blob'[p] = blob[p]
    BY <1>2, <2>3 DEF Store, Saved, TypeOK
  <2>5. OneUpload'
    BY <2>1, <2>2 DEF MediaInv, OneUpload, Putting
  <2>6. StoredStays'
    <3> SUFFICES ASSUME NEW p \in Operations, p # op, tx[p].kind = "stored"
                 PROVE  blob'[tx[p].object] = tx[p].body
      BY <2>2, <2>4 DEF StoredStays
    <3>1. Putting(p) /\ tx[p].object # o
      BY <2>1 DEF MediaInv, OneUpload, Putting
    <3>2. tx[p].object \in Objects
      BY <3>1, OpenTypes
    <3> QED
      BY <2>4, <3>1, <3>2 DEF MediaInv, StoredStays
  <2>7. UncleanedKept'
    <3>1. row[o] # None => row[o].digest = tx[op].body
      <4>1. PICK r : r = row[o]
        OBVIOUS
      <4>2. r = None \/ r = [key |-> tx[op].key, digest |-> tx[op].body]
        BY <2>1, <4>1 DEF MediaInv, OneUpload
      <4> QED
        BY <4>1, <4>2
    <3> QED
      BY <2>1, <2>4, <3>1 DEF MediaInv, UncleanedKept
  <2>8. ErasedGone'
    <3>1. \A w \in Workers : o \notin erased[w] /\ erased[w] \subseteq Objects
      BY <2>3 DEF MediaInv, WorkersHold, TypeOK
    <3> HIDE DEF o
    <3> QED
      BY <2>1, <2>3, <2>4, <3>1 DEF MediaInv, ErasedGone
  <2> QED
    BY <2>1, <2>5, <2>6, <2>7, <2>8 DEF MediaInv, CleanedIffCancelled, WorkersHold
<1>3. ASSUME NEW op \in Operations, PutCommit(op)
      PROVE  MediaInv'
  <2> DEFINE o == tx[op].object
             r == [key |-> tx[op].key, digest |-> tx[op].body]
  <2>1. /\ tx' = [tx EXCEPT ![op] = NoTx] /\ Putting(op) /\ tx[op].kind = "stored"
        /\ row' = [row EXCEPT ![o] = r]
        /\ UNCHANGED <<tombs, work, blob, late, lost, claim, erased>>
    BY <1>3 DEF PutCommit, Putting, storageVars, workerVars
  <2>2. o \in Objects /\ work[o] = "none" /\ tx[op].key \notin tombs /\ blob[o] = tx[op].body
    BY <2>1, UploadUncleaned DEF MediaInv, StoredStays
  <2>3. r.key = tx[op].key /\ r.digest = tx[op].body
    OBVIOUS
  <2>4. row'[o] = r /\ \A p \in Objects \ {o} : row'[p] = row[p]
    BY <2>1, <2>2 DEF TypeOK
  <2>5. \A p \in Operations : Putting(p)' => Putting(p) /\ tx'[p] = tx[p] /\ p # op
    BY <2>1 DEF TypeOK, Putting, NoTx
  <2>6. OneUpload'
    <3> SUFFICES ASSUME NEW p \in Operations, Putting(p)'
                 PROVE  /\ (row[tx[p].object] \in {None, [key |-> tx[p].key, digest |-> tx[p].body]})'
                        /\ \A q \in Operations \ {p} : Putting(q)' => tx'[q].object # tx'[p].object
      BY DEF OneUpload
    <3>1. tx'[p] = tx[p] /\ tx[p].object \in Objects /\ tx[p].object # o
      BY <2>1, <2>5, OpenTypes DEF MediaInv, OneUpload
    <3>2. row'[tx[p].object] = row[tx[p].object]
      BY <2>4, <3>1
    <3> QED
      BY <2>5, <3>1, <3>2 DEF MediaInv, OneUpload
  <2>7. StoredStays'
    BY <2>1, <2>5 DEF MediaInv, StoredStays, Putting
  <2> HIDE DEF r, o
  <2>8. CleanedIffCancelled'
    <3>1. r # None
      BY <2>1, OpenTypes, OperationFenceAssumption DEF OperationFenceAssumption, Rows, r
    <3> QED
      BY <2>1, <2>2, <2>3, <2>4 DEF MediaInv, CleanedIffCancelled
  <2>9. UncleanedKept'
    BY <2>1, <2>2, <2>3, <2>4 DEF MediaInv, UncleanedKept
  <2> QED
    BY <2>1, <2>6, <2>7, <2>8, <2>9 DEF MediaInv, WorkersHold, ErasedGone
<1>4. ASSUME NEW op \in Operations, LoseTransaction(op)
      PROVE  MediaInv'
  <2>1. /\ tx' = [tx EXCEPT ![op] = NoTx]
        /\ UNCHANGED <<tombs, row, work, blob, claim, erased>>
        /\ lost' = lost + 1 /\ lost \in Nat
    BY <1>4, OperationFenceAssumption
       DEF LoseTransaction, workerVars, TypeOK, OperationFenceAssumption
  <2>2. \A p \in Operations : Putting(p)' => tx'[p] = tx[p]
    BY <2>1, Ends
  <2>3. OneUpload' /\ StoredStays'
    BY <2>1, <2>2 DEF MediaInv, OneUpload, StoredStays, Putting
  <2>4. ErasedGone'
    BY <2>1 DEF ErasedGone
  <2> QED
    BY <2>1, <2>3, <2>4 DEF MediaInv, CleanedIffCancelled, WorkersHold, UncleanedKept
<1>5. ASSUME NEW u \in late, LateStore(u)
      PROVE  MediaInv'
  <2>1. /\ UNCHANGED <<tx, tombs, row, work, lost, claim, erased>>
        /\ lost # 0
        /\ \A o \in Objects : blob[o] # None => blob'[o] = blob[o]
    BY <1>5 DEF LateStore, MediaInv, ErasedGone, workerVars, TypeOK
  <2>2. StoredStays'
    <3> SUFFICES ASSUME NEW op \in Operations, tx[op].kind = "stored"
                 PROVE  blob'[tx[op].object] = tx[op].body
      BY <2>1 DEF StoredStays
    <3>1. blob[tx[op].object] = tx[op].body
      BY DEF MediaInv, StoredStays
    <3>2. tx[op].object \in Objects /\ tx[op].body # None
      BY UploadUncleaned DEF Putting
    <3> QED
      BY <2>1, <3>1, <3>2
  <2>3. UncleanedKept'
    BY <2>1, Claimed DEF MediaInv, UncleanedKept
  <2>4. OneUpload' /\ ErasedGone'
    BY <2>1 DEF MediaInv, OneUpload, ErasedGone, Putting
  <2> QED
    BY <2>1, <2>2, <2>3, <2>4 DEF MediaInv, CleanedIffCancelled, WorkersHold
<1> QED
  BY <1>1, <1>2, <1>3, <1>4, <1>5 DEF UploadStep

\* What the cleanup does to the state of objects and to their content: it starts
\* no deletion and takes none back, and it deletes only what it may.
WorkerEffect ==
    /\ UNCHANGED <<tx, tombs, row, late, lost>>
    /\ \A o \in Objects : work'[o] = "none" <=> work[o] = "none"
    /\ \A v \in Workers : \A o \in claim'[v] \cup erased'[v] : o \in Objects /\ work[o] # "none"
    /\ \A o \in Objects : blob'[o] = blob[o] \/ (blob'[o] = None /\ work[o] # "none")
    /\ \A v \in Workers : \A o \in erased'[v] : o \in erased[v] \/ blob'[o] = None
    /\ \A o \in Objects : work'[o] = "complete" =>
            work[o] = "complete" \/ \E v \in Workers : o \in erased[v]

LEMMA WorkerDoes ==
    ASSUME TypeOK, MediaInv, NEW w \in Workers, WorkerStep(w)
    PROVE  WorkerEffect
<1>0. \A v \in Workers : \A o \in claim[v] \cup erased[v] : o \in Objects /\ work[o] # "none"
  BY DEF TypeOK, MediaInv, WorkersHold
<1>1. ASSUME NEW expired \in SUBSET Objects, Claim(w, expired)
      PROVE  WorkerEffect
  <2>1. claim' = [claim EXCEPT ![w] = InState("pending") \cup expired]
    BY <1>1 DEF Claim
  <2>2. \A o \in InState("pending") \cup expired : o \in Objects /\ work[o] \in {"pending", "processing"}
    BY <1>1 DEF Claim, InState
  <2>3. /\ \A o \in claim'[w] : o \in Objects /\ work[o] \in {"pending", "processing"}
        /\ \A v \in Workers \ {w} : claim'[v] = claim[v]
    BY <2>1, <2>2 DEF TypeOK
  <2>4. /\ work' = [o \in Objects |-> IF o \in claim'[w] THEN "processing" ELSE work[o]]
        /\ UNCHANGED <<tx, tombs, row, late, lost, blob, erased>>
    BY <1>1 DEF Claim, storageVars
  <2>5. \A o \in Objects : /\ work'[o] = "none" <=> work[o] = "none"
                           /\ work'[o] = "complete" => work[o] = "complete"
    BY <2>3, <2>4
  <2>6. \A v \in Workers : \A o \in claim'[v] \cup erased'[v] : o \in Objects /\ work[o] # "none"
    BY <1>0, <2>3, <2>4
  <2> QED
    BY <2>4, <2>5, <2>6 DEF WorkerEffect
<1>2. ASSUME NEW o \in Objects, Erase(w, o)
      PROVE  WorkerEffect
  <2>1. /\ UNCHANGED <<tx, tombs, row, late, lost, work, claim>>
        /\ o \in claim[w]
        /\ blob' = [blob EXCEPT ![o] = None] /\ erased' = [erased EXCEPT ![w] = {o}]
    BY <1>2 DEF Erase
  <2>2. blob'[o] = None /\ \A p \in Objects \ {o} : blob'[p] = blob[p]
    BY <2>1 DEF TypeOK
  <2>3. erased'[w] = {o} /\ \A v \in Workers \ {w} : erased'[v] = erased[v]
    BY <2>1 DEF TypeOK
  <2> QED
    BY <1>0, <2>1, <2>2, <2>3 DEF WorkerEffect
<1>3. ASSUME NEW o \in Objects, EraseFails(w, o)
      PROVE  WorkerEffect
  <2>1. /\ UNCHANGED <<tx, tombs, row, late, lost, erased>>
        /\ o \in claim[w]
        /\ blob' \in {blob, [blob EXCEPT ![o] = None]}
        /\ claim' = [claim EXCEPT ![w] = @ \ {o}]
        /\ work' = Settled(o, "pending")
    BY <1>3 DEF EraseFails
  <2>2. \A p \in Objects : blob'[p] = blob[p] \/ (blob'[p] = None /\ p = o)
    BY <2>1 DEF TypeOK
  <2>3. \A v \in Workers : claim'[v] \subseteq claim[v]
    BY <2>1 DEF TypeOK
  <2>4. \A p \in Objects : /\ work'[p] = "none" <=> work[p] = "none"
                           /\ work'[p] = "complete" => work[p] = "complete"
    BY <2>1 DEF TypeOK, Settled
  <2> QED
    BY <1>0, <2>1, <2>2, <2>3, <2>4 DEF WorkerEffect
<1>4. ASSUME NEW o \in Objects, Complete(w, o)
      PROVE  WorkerEffect
  <2>1. /\ UNCHANGED <<tx, tombs, row, late, lost, blob>>
        /\ o \in erased[w]
        /\ claim' = [claim EXCEPT ![w] = @ \ {o}] /\ erased' = [erased EXCEPT ![w] = {}]
        /\ work' = Settled(o, "complete")
    BY <1>4 DEF Complete, storageVars
  <2>2. \A v \in Workers : claim'[v] \subseteq claim[v] /\ erased'[v] \subseteq erased[v]
    BY <2>1 DEF TypeOK
  <2>3. \A p \in Objects : /\ work'[p] = "none" <=> work[p] = "none"
                           /\ work'[p] = "complete" => work[p] = "complete" \/ p = o
    BY <2>1 DEF TypeOK, Settled
  <2> QED
    BY <1>0, <2>1, <2>2, <2>3 DEF WorkerEffect
<1>5. ASSUME WorkerStops(w)
      PROVE  WorkerEffect
  <2>1. /\ UNCHANGED <<tx, tombs, row, late, lost, blob, work>>
        /\ claim' = [claim EXCEPT ![w] = {}] /\ erased' = [erased EXCEPT ![w] = {}]
    BY <1>5 DEF WorkerStops, storageVars
  <2>2. \A v \in Workers : claim'[v] \subseteq claim[v] /\ erased'[v] \subseteq erased[v]
    BY <2>1 DEF TypeOK
  <2> QED
    BY <1>0, <2>1, <2>2 DEF WorkerEffect
<1> QED
  BY <1>1, <1>2, <1>3, <1>4, <1>5 DEF WorkerStep

LEMMA WorkerMedia ==
    ASSUME TypeOK, RelayInv, MediaInv, WorkerEffect
    PROVE  MediaInv'
<1>1. CleanedIffCancelled' /\ OneUpload'
  BY DEF WorkerEffect, MediaInv, CleanedIffCancelled, OneUpload, Putting
<1>2. StoredStays'
  <2> SUFFICES ASSUME NEW op \in Operations, tx[op].kind = "stored"
               PROVE  blob'[tx[op].object] = tx[op].body
    BY DEF StoredStays, WorkerEffect
  <2>1. tx[op].object \in Objects /\ work[tx[op].object] = "none"
    BY UploadUncleaned DEF Putting
  <2> QED
    BY <2>1 DEF WorkerEffect, MediaInv, StoredStays
<1>3. WorkersHold' /\ UncleanedKept'
  BY DEF WorkerEffect, MediaInv, WorkersHold, UncleanedKept
<1>4. ErasedGone'
  <2> SUFFICES ASSUME lost = 0
               PROVE  /\ \A v \in Workers : \A o \in erased'[v] : blob'[o] = None
                      /\ \A o \in Objects : work'[o] = "complete" => blob'[o] = None
    BY DEF ErasedGone, WorkerEffect, MediaInv
  <2>1. ASSUME NEW v \in Workers, NEW o \in erased[v]
        PROVE  o \in Objects /\ blob[o] = None
    BY DEF MediaInv, ErasedGone, TypeOK
  <2>2. \A o \in Objects : blob[o] = None => blob'[o] = None
    BY DEF WorkerEffect
  <2>3. \A o \in Objects : work[o] = "complete" => blob[o] = None
    BY DEF MediaInv, ErasedGone
  <2> QED
    BY <2>1, <2>2, <2>3 DEF WorkerEffect
<1> QED
  BY <1>1, <1>2, <1>3, <1>4 DEF MediaInv

-----------------------------------------------------------------------------
(* The inductive invariant *)

LEMMA InitInv == Init => IInv
<1> SUFFICES ASSUME Init PROVE IInv
  OBVIOUS
<1>1. TypeOK
  <2>1. NoTx \in Transactions /\ 1 \in 1..MaxGeneration /\ 0 \in 0..MaxLost
    BY OperationFenceAssumption DEF OperationFenceAssumption, Transactions
  <2> QED
    BY <2>1 DEF Init, TypeOK
<1>2. RelayInv
  BY DEF Init, RelayInv, Current, StillUndecided, OneWinner, Putting, NoTx
<1>3. MediaInv
  BY DEF Init, MediaInv, CleanedIffCancelled, OneUpload, StoredStays, WorkersHold, UncleanedKept,
         ErasedGone, Putting, NoTx
<1> QED
  BY <1>1, <1>2, <1>3 DEF IInv

LEMMA NextInv == IInv /\ [Next]_vars => IInv'
<1> SUFFICES ASSUME IInv, [Next]_vars PROVE IInv'
  OBVIOUS
<1>1. TypeOK /\ RelayInv /\ MediaInv
  BY DEF IInv
<1>2. TypeOK' /\ RelayInv'
  BY <1>1, Typed, Decides
<1>3. ASSUME NEW w \in Workers, WorkerStep(w)
      PROVE  MediaInv'
  BY <1>1, <1>3, WorkerDoes, WorkerMedia
<1>4. ASSUME UNCHANGED vars
      PROVE  MediaInv'
  BY <1>1, <1>4, MediaFewer DEF vars, Putting
<1>5. MediaInv'
  BY <1>1, <1>3, <1>4, RelayMedia, UploadMedia DEF Next
<1> QED
  BY <1>2, <1>5 DEF IInv

THEOREM Invariance == Spec => []IInv
BY InitInv, NextInv, PTL DEF Spec

-----------------------------------------------------------------------------
(* What follows *)

\* Tables, transactions, storage and workers keep their types.
THEOREM TypeCorrect == Spec => []TypeOK
<1>1. IInv => TypeOK
  BY DEF IInv
<1> QED
  BY <1>1, Invariance, PTL

\* Sent or cancelled, never both, in whatever order sends, uploads and both
\* cancellations arrive and commit (send.go, profile_cancel.go, service.go).
THEOREM OneFate == Spec => []OneWinner
<1>1. IInv => OneWinner
  BY DEF IInv, RelayInv
<1> QED
  BY <1>1, Invariance, PTL

\* Once a media cancellation has committed, nothing uploaded for the operation,
\* before it or at the same time, can be read.
THEOREM CancelledUnreadable == Spec => []ReadsFenced
<1>1. IInv => ReadsFenced
  BY DEF IInv, MediaInv, CleanedIffCancelled, ReadsFenced, Readable
<1> QED
  BY <1>1, Invariance, PTL

\* Storage is written outside the transactions, and yet a claimed object that
\* was not cancelled has its content, and a completed deletion left none,
\* unless an upload outlived its transaction (service.go, cleanup.go).
THEOREM StorageFollowsRows == Spec => []StoreMatchesRows
<1>1. ASSUME IInv PROVE StoreMatchesRows
  <2>1. ASSUME NEW o \in Objects, row[o] # None, work[o] = "none" \/ event[row[o].key] # None
        PROVE  blob[o] = row[o].digest
    <3>1. row[o].key \in Keys
      BY <1>1, <2>1, Claimed DEF IInv
    <3>2. work[o] = "none"
      BY <1>1, <2>1, <3>1
         DEF IInv, RelayInv, OneWinner, Cancelled, MediaInv, CleanedIffCancelled
    <3> QED
      BY <1>1, <2>1, <3>2 DEF IInv, MediaInv, UncleanedKept
  <2>2. CompletedMediaGone
    BY <1>1 DEF IInv, MediaInv, ErasedGone, CompletedMediaGone
  <2> QED
    BY <2>1, <2>2 DEF StoreMatchesRows, ClaimedMediaKept
<1> QED
  BY <1>1, Invariance, PTL

\* What was decided stays decided, and nothing is decided any more for a phone
\* that was replaced, whatever request of it was still open.
THEOREM Final == Spec => StaleGenerationFrozen
<1> DEFINE Frozen(k) ==
        /\ event[k] # None => event'[k] = event[k]
        /\ Cancelled(k) => Cancelled(k)' /\ event'[k] = None
        /\ k[1] < generation =>
              event'[k] = event[k] /\ (Cancelled(k)' => Cancelled(k))
<1>1. ASSUME IInv, [Next]_vars, NEW k \in Keys
      PROVE  Frozen(k)
  <2>1. /\ TypeOK /\ generation \in Nat
        /\ event[k] # None => ~Cancelled(k)
        /\ \A op \in Operations : Key(op)[1] = generation
    BY <1>1 DEF IInv, TypeOK, RelayInv, OneWinner, Key
  <2>2. CASE UNCHANGED <<event, profileTomb, tombs>>
    BY <2>1, <2>2 DEF Cancelled
  <2>3. ASSUME NEW op \in Operations, SendCommit(op)
        PROVE  Frozen(k)
    <3>1. /\ event' = [event EXCEPT ![Key(op)] = tx[op].envelope]
          /\ event[Key(op)] = None /\ ~Cancelled(Key(op))
          /\ UNCHANGED <<profileTomb, tombs>>
      <4>1. tx[op].kind = "send" /\ tx[op] # NoTx
        BY <2>3 DEF SendCommit, NoTx
      <4>2. tx[op].key = Key(op) /\ event[Key(op)] = None /\ ~Cancelled(Key(op))
        BY <1>1, <4>1 DEF IInv, RelayInv, Current, StillUndecided
      <4> QED
        BY <2>3, <4>2 DEF SendCommit
    <3>2. CASE k = Key(op)
      BY <2>1, <3>1, <3>2 DEF Cancelled
    <3>3. CASE k # Key(op)
      <4>1. event'[k] = event[k]
        BY <2>1, <3>1, <3>3 DEF TypeOK
      <4> QED
        BY <2>1, <3>1, <4>1 DEF Cancelled
    <3> QED
      BY <3>2, <3>3
  <2>4. ASSUME NEW v \in Envelopes, CancelProfile(v)
        PROVE  Frozen(k)
    <3>1. PICK q : q = Key(OpOf[v]) /\ q[1] = generation
      BY <2>1, OperationFenceAssumption DEF OperationFenceAssumption
    <3>2. /\ profileTomb' = [profileTomb EXCEPT ![q] = v] /\ profileTomb[q] = None
          /\ event[q] = None /\ UNCHANGED <<event, tombs>>
      BY <2>4, <3>1 DEF CancelProfile, Undecided
    <3>3. v # None
      BY OperationFenceAssumption DEF OperationFenceAssumption
    <3>4. /\ k # q => profileTomb'[k] = profileTomb[k]
          /\ k = q => profileTomb'[k] = v
      BY <2>1, <3>2 DEF TypeOK
    <3> QED
      BY <2>1, <3>1, <3>2, <3>3, <3>4 DEF Cancelled
  <2>5. ASSUME NEW op \in Operations, CancelMedia(op)
        PROVE  Frozen(k)
    <3>1. PICK q : q = Key(op) /\ q[1] = generation
      BY <2>1
    <3>2. tombs' = tombs \cup {q} /\ event[q] = None /\ UNCHANGED <<event, profileTomb>>
      BY <2>5, <3>1 DEF CancelMedia, relayVars
    <3> QED
      BY <2>1, <3>1, <3>2 DEF Cancelled
  <2>6. CASE RelayStep
    <3>1. ASSUME NEW v \in Envelopes, SendBegin(v)
          PROVE  UNCHANGED <<event, profileTomb, tombs>>
      BY <3>1 DEF SendBegin, relayVars
    <3>2. ASSUME NEW op \in Operations, Abort(op)
          PROVE  UNCHANGED <<event, profileTomb, tombs>>
      BY <3>2 DEF Abort, relayVars
    <3>3. ASSUME (\E q \in Keys : Redact(q)) \/ Verify
          PROVE  UNCHANGED <<event, profileTomb, tombs>>
      BY <3>3 DEF Redact, Verify, relayVars
    <3> QED
      BY <2>2, <2>3, <2>4, <2>5, <2>6, <3>1, <3>2, <3>3 DEF RelayStep
  <2>7. CASE UploadStep
    BY <2>2, <2>7 DEF UploadStep, PutBegin, Store, PutCommit, LoseTransaction, LateStore, relayVars
  <2>8. ASSUME NEW w \in Workers, WorkerStep(w)
        PROVE  Frozen(k)
    BY <2>2, <2>8
       DEF WorkerStep, Claim, Erase, EraseFails, Complete, WorkerStops, relayVars
  <2>9. CASE UNCHANGED vars
    BY <2>2, <2>9 DEF vars, relayVars
  <2> QED
    BY <1>1, <2>6, <2>7, <2>8, <2>9 DEF Next
<1>2. IInv /\ [Next]_vars => [\A k \in Keys : Frozen(k)]_vars
  BY <1>1
<1> QED
  BY <1>2, Invariance, PTL DEF Spec, StaleGenerationFrozen

\* FateDecides for every value of the constants: what was sent was not cancelled, and
\* what was cancelled is not read.
THEOREM FateHolds == Spec => []FateDecides
<1>1. OneWinner /\ ReadsFenced => FateDecides
  BY DEF FateDecides
<1> QED
  BY <1>1, OneFate, CancelledUnreadable, PTL
=============================================================================
