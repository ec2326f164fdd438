-------------------------- MODULE PushOutbox_proofs --------------------------
(***************************************************************************)
(* Proofs about PushOutbox: for any accounts, tokens, events and number of  *)
(* dispatchers, what waits in the outbox fits the registered phone, a late  *)
(* answer never takes the row of a live token, and every alert too many is  *)
(* paid for by an answer that was lost or a dispatcher that stopped or lost *)
(* its lease.                                                              *)
(***************************************************************************)
EXTENDS PushOutbox, FiniteSetTheorems, TLAPS

\* What a dispatcher has claimed and not recorded yet.
Carried(w) == batch[w] \cup (IF hand[w] = NoItem THEN {} ELSE {hand[w]})

\* The item of w for e may still lead to an alert.
Unsettled(w, e) ==
    \/ \E i \in batch[w] : i.event = e
    \/ hand[w] # NoItem /\ hand[w].event = e /\ hand[w].answer # "ok"
Unsettlers(e) == {w \in Workers : Unsettled(w, e)}

\* Nobody has the job in hand, or somebody may take it although one has.
Open(e) == Queued(e) /\ (job[e].due \/ ~Held(e))

\* Somebody has the lease that the job's last claim gave.
Leased(e) == \E w \in Workers : \E i \in Carried(w) :
                i.event = e /\ i.attempts = job[e].attempts

\* No row names a phone that the account has not had yet.
DevicesKnown == \A a \in Accounts : device[a].gen <= gen[a]

\* A message being sent holds its recipient's generation, and it alerts a
\* conversation that the phone has not muted unless the phone's row changed.
SendsCurrent ==
    \A e \in Events : tx[e].status = "open" =>
        /\ tx[e].gen = gen[tx[e].account]
        /\ tx[e].alert /\ e \notin raced /\ device[tx[e].account].gen = tx[e].gen
             => EventKey(tx[e].conversation) \notin device[tx[e].account].muted

\* Before its message commits an event has no job, no alert and no dispatcher.
NothingEarly ==
    \A e \in Events : tx[e].status # "done" => ~Queued(e) /\ ~Held(e) /\ oks[e] = 0

\* What a dispatcher carries is the job as it was queued.
Matching ==
    \A w \in Workers : \A i \in Carried(w) :
        Queued(i.event) => i.account = job[i.event].account /\ i.gen = job[i.event].gen

\* A dispatcher carries one item of an event.
OnePerEvent ==
    \A w \in Workers :
        /\ \A i, j \in batch[w] : i.event = j.event => i = j
        /\ hand[w] # NoItem => \A i \in batch[w] : i.event # hand[w].event

\* Expo says that a token is gone only if it is.
AnswersTrue == \A w \in Workers : hand[w].answer = "not-registered" => hand[w].token \in dead

\* An attempt past the limit needs a fault.
AttemptsPaid ==
    \A e \in Events : Queued(e) =>
        /\ job[e].attempts <= MaxAttempts + faults
        /\ job[e].due \/ ~Leased(e) => job[e].attempts < MaxAttempts + faults

\* Alerts given, alerts that may come of what is carried, and the one that a
\* job that is open may add.
Alerted(e) ==
    oks[e] + Cardinality(Unsettlers(e)) + (IF Open(e) THEN 1 ELSE 0) <= 1 + unheard[e] + faults
AlertsPaid == \A e \in Events : Alerted(e)

\* The dispatchers that have yet to send the alert of e.
Senders(e) == {w \in Workers : \E i \in batch[w] : i.event = e}

\* Every alert, given or to be sent, took an attempt of its job.
Costs(e) ==
    /\ oks[e] + Cardinality(Senders(e)) <= MaxAttempts + faults
    /\ Queued(e) => oks[e] + Cardinality(Senders(e)) <= job[e].attempts
AttemptsSpent == \A e \in Events : Costs(e)

PushInv == /\ TypeOK /\ DevicesKnown /\ SendsCurrent /\ NothingEarly /\ Matching
           /\ OnePerEvent /\ AnswersTrue /\ AttemptsPaid /\ AlertsPaid /\ AttemptsSpent
           /\ OutboxFitsDevice

-----------------------------------------------------------------------------
(* Rows, items and numbers *)

\* A device row is absent exactly when it has no generation.
LEMMA DeviceRows ==
    ASSUME TypeOK, NEW a \in Accounts
    PROVE  /\ device[a].gen \in 0..MaxGeneration
           /\ gen[a] \in 1..MaxGeneration
           /\ device[a].gen # 0 => device[a] \in Device
           /\ device[a] # NoDevice => device[a] \in Device
           /\ NoDevice.gen = 0
BY PushAssumption DEF PushAssumption, TypeOK, Device, NoDevice, Generations

\* A queued job has all its columns.
LEMMA JobRows ==
    ASSUME TypeOK, NEW e \in Events
    PROVE  /\ Queued(e) => job[e] \in Job
           /\ job[e] \in Job \cup {NoJob}
           /\ NoJob.queued = FALSE
<1>1. NoJob.queued = FALSE
  BY DEF NoJob
<1>2. job[e] \in Job \cup {NoJob}
  BY DEF TypeOK
<1>3. job[e] = NoJob => ~Queued(e)
  BY <1>1 DEF Queued
<1> QED
  BY <1>1, <1>2, <1>3

\* Attempts are numbers.
LEMMA AttemptNumbers == Attempts \subseteq Nat /\ MaxAttempts \in Nat /\ MaxFaults \in Nat
<1>1. MaxAttempts \in Nat /\ MaxFaults \in Nat
  BY PushAssumption DEF PushAssumption
<1> QED
  BY <1>1 DEF Attempts

\* A dispatcher carries whole items.
LEMMA ItemRows ==
    ASSUME TypeOK, NEW w \in Workers
    PROVE  /\ hand[w] # NoItem <=> hand[w].answer # "none"
           /\ hand[w] # NoItem => hand[w] \in Answered
           /\ \A i \in Carried(w) :
                /\ i.event \in Events /\ i.account \in Accounts /\ i.gen \in Generations
                /\ i.token \in Tokens /\ i.attempts \in Attempts
           /\ hand[w] # NoItem => hand[w] \in Carried(w)
           /\ \A i \in batch[w] : i \in Carried(w) /\ i \in Item
BY DEF TypeOK, Carried, Item, Answered, NoItem

\* An event is held when somebody carries it.
LEMMA HeldCarried ==
    ASSUME NEW e
    PROVE  Held(e) <=> \E w \in Workers : \E i \in Carried(w) : i.event = e
BY DEF Held, Carried

\* How many dispatchers there are in sets that differ by one.
LEMMA Counting ==
    ASSUME NEW S \in SUBSET Workers, NEW T \in SUBSET Workers
    PROVE  /\ Cardinality(S) \in Nat
           /\ T \subseteq S => Cardinality(T) <= Cardinality(S)
           /\ \A w \in Workers : T \subseteq S \cup {w} => Cardinality(T) <= Cardinality(S) + 1
           /\ \A w \in S : T \subseteq S \ {w} => Cardinality(T) <= Cardinality(S) - 1
           /\ S = {} => Cardinality(S) = 0
<1>1. IsFiniteSet(S) /\ IsFiniteSet(T)
  BY PushAssumption, FS_Subset DEF PushAssumption
<1>2. Cardinality(S) \in Nat /\ Cardinality(T) \in Nat
  BY <1>1, FS_CardinalityType
<1>3. T \subseteq S => Cardinality(T) <= Cardinality(S)
  BY <1>1, FS_Subset
<1>4. ASSUME NEW w \in Workers, T \subseteq S \cup {w}
      PROVE  Cardinality(T) <= Cardinality(S) + 1
  <2>1. IsFiniteSet(S \cup {w}) /\ Cardinality(S \cup {w}) <= Cardinality(S) + 1
    BY <1>1, <1>2, FS_AddElement
  <2>2. Cardinality(T) <= Cardinality(S \cup {w}) /\ Cardinality(S \cup {w}) \in Nat
    BY <2>1, <1>4, FS_Subset, FS_CardinalityType
  <2> QED
    BY <2>1, <2>2, <1>2
<1>5. ASSUME NEW w \in S, T \subseteq S \ {w}
      PROVE  Cardinality(T) <= Cardinality(S) - 1
  <2>1. IsFiniteSet(S \ {w}) /\ Cardinality(S \ {w}) = Cardinality(S) - 1
    BY <1>1, FS_RemoveElement
  <2> QED
    BY <2>1, <1>5, FS_Subset
<1> QED
  BY <1>2, <1>3, <1>4, <1>5, FS_EmptySet

\* What the counting of alerts adds up is numbers.
LEMMA AlertNumbers ==
    ASSUME TypeOK, NEW e \in Events
    PROVE  /\ oks[e] \in Nat /\ unheard[e] \in Nat /\ faults \in Nat
           /\ Unsettlers(e) \in SUBSET Workers
           /\ Cardinality(Unsettlers(e)) \in Nat
           /\ ~Held(e) => Cardinality(Unsettlers(e)) = 0
<1>1. Unsettlers(e) \in SUBSET Workers
  BY DEF Unsettlers
<1>2. ~Held(e) => Unsettlers(e) = {}
  BY DEF Unsettlers, Unsettled, Held
<1> QED
  BY <1>1, <1>2, Counting, PushAssumption DEF TypeOK, PushAssumption

-----------------------------------------------------------------------------
(* What changes together *)

\* While nobody claims, sends or records, everybody carries what he carried.
LEMMA SameHands ==
    ASSUME UNCHANGED <<batch, hand>>
    PROVE  /\ \A w \in Workers : Carried(w)' = Carried(w)
           /\ \A e \in Events : Held(e)' = Held(e) /\ Unsettlers(e)' = Unsettlers(e)
BY DEF Carried, Held, Unsettlers, Unsettled

\* Nothing is spent while nobody claims or sends.
LEMMA NothingSpent ==
    ASSUME PushInv, UNCHANGED oks, faults' \in Nat, faults <= faults',
           \A w \in Workers : batch'[w] \subseteq batch[w],
           \A e \in Events : Queued(e)' => Queued(e) /\ job'[e].attempts = job[e].attempts
    PROVE  AttemptsSpent'
<1> SUFFICES ASSUME NEW e \in Events
             PROVE  Costs(e)'
  BY DEF AttemptsSpent
<1>1. Costs(e) /\ oks[e] \in Nat /\ faults \in Nat
  BY AlertNumbers DEF PushInv, AttemptsSpent
<1>2. Senders(e)' \subseteq Senders(e) /\ Senders(e) \in SUBSET Workers
  BY DEF Senders
<1>3. /\ Cardinality(Senders(e)') <= Cardinality(Senders(e))
      /\ Cardinality(Senders(e)') \in Nat /\ Cardinality(Senders(e)) \in Nat
  BY <1>2, Counting
<1>4. oks[e] + Cardinality(Senders(e)') <= MaxAttempts + faults'
  BY <1>1, <1>3, AttemptNumbers DEF Costs
<1>5. Queued(e)' => oks[e] + Cardinality(Senders(e)') <= job'[e].attempts
  <2> SUFFICES ASSUME Queued(e)' PROVE oks[e] + Cardinality(Senders(e)') <= job[e].attempts
    OBVIOUS
  <2>1. Queued(e) /\ job[e].attempts \in Nat
    BY JobRows, AttemptNumbers DEF PushInv, Job
  <2> QED
    BY <2>1, <1>1, <1>3 DEF Costs
<1> QED
  BY <1>4, <1>5 DEF Costs

\* Jobs that go leave what concerns only those that stay.
LEMMA JobsGo ==
    ASSUME PushInv, UNCHANGED <<tx, batch, hand, oks, unheard, faults>>,
           job' \in [Events -> Job \cup {NoJob}],
           \A e \in Events : job'[e] = job[e] \/ job'[e] = NoJob
    PROVE  /\ Matching' /\ OnePerEvent' /\ NothingEarly' /\ AttemptsPaid' /\ AlertsPaid'
           /\ AttemptsSpent'
           /\ \A e \in Events : Queued(e)' => Queued(e) /\ job'[e] = job[e]
<1>1. \A e \in Events : Queued(e)' => Queued(e) /\ job'[e] = job[e]
  BY DEF Queued, NoJob
<1>2. Matching'
  BY <1>1, SameHands, ItemRows DEF Matching, PushInv
<1>3. OnePerEvent'
  BY DEF OnePerEvent, PushInv
<1>4. NothingEarly'
  BY <1>1, SameHands DEF NothingEarly, PushInv
<1>5. AttemptsPaid'
  <2> SUFFICES ASSUME NEW e \in Events, Queued(e)'
               PROVE  /\ job'[e].attempts <= MaxAttempts + faults'
                      /\ job'[e].due \/ ~Leased(e)' => job'[e].attempts < MaxAttempts + faults'
    BY DEF AttemptsPaid
  <2>1. Queued(e) /\ job'[e] = job[e]
    BY <1>1
  <2>2. Leased(e)' <=> Leased(e)
    BY <2>1, SameHands DEF Leased
  <2> QED
    BY <2>1, <2>2 DEF AttemptsPaid, PushInv
<1>6. AlertsPaid'
  <2> SUFFICES ASSUME NEW e \in Events
               PROVE  Alerted(e)'
    BY DEF AlertsPaid
  <2>1. Open(e)' => Open(e)
    BY <1>1, SameHands DEF Open
  <2>2. Alerted(e) /\ Unsettlers(e)' = Unsettlers(e)
    BY SameHands DEF PushInv, AlertsPaid
  <2>3. TypeOK
    BY DEF PushInv
  <2> QED
    BY <2>1, <2>2, <2>3, AlertNumbers DEF Alerted
<1>7. AttemptsSpent'
  BY <1>1, NothingSpent, AlertNumbers, PushAssumption DEF PushInv, TypeOK, PushAssumption
<1> QED
  BY <1>1, <1>2, <1>3, <1>4, <1>5, <1>6, <1>7

\* The outbox without some of its jobs is an outbox.
LEMMA Removed ==
    ASSUME TypeOK, NEW S
    PROVE  /\ Without(S) \in [Events -> Job \cup {NoJob}]
           /\ \A e \in Events : Without(S)[e] = IF e \in S THEN NoJob ELSE job[e]
BY DEF TypeOK, Without

-----------------------------------------------------------------------------
(* The account and its device *)

\* A new phone logs in: no row names its generation yet, and no send is under way.
LEMMA VerifyKeeps ==
    ASSUME PushInv, NEW a \in Accounts, Verify(a)
    PROVE  PushInv'
<1>1. TypeOK /\ UNCHANGED <<device, tx, job, batch, hand, dead, oks, unheard, faults, raced>>
  BY DEF PushInv, Verify
<1>2. /\ gen' \in [Accounts -> Generations]
      /\ \A b \in Accounts : gen[b] <= gen'[b]
      /\ \A b \in Accounts \ {a} : gen'[b] = gen[b]
      /\ gen'[a] = gen[a] + 1
  BY <1>1, PushAssumption DEF Verify, TypeOK, Generations, PushAssumption
<1>3. TypeOK'
  BY <1>1, <1>2 DEF TypeOK
<1>4. DevicesKnown'
  <2> SUFFICES ASSUME NEW b \in Accounts PROVE device[b].gen <= gen'[b]
    BY <1>1 DEF DevicesKnown
  <2>1. device[b].gen <= gen[b] /\ gen[b] <= gen'[b]
    BY <1>2 DEF PushInv, DevicesKnown
  <2> QED
    BY <2>1, <1>1, <1>2, DeviceRows DEF Generations
<1>5. SendsCurrent'
  <2> SUFFICES ASSUME NEW e \in Events, tx[e].status = "open"
               PROVE  /\ tx[e].gen = gen'[tx[e].account]
                      /\ tx[e].alert /\ e \notin raced /\ device[tx[e].account].gen = tx[e].gen
                           => EventKey(tx[e].conversation) \notin device[tx[e].account].muted
    BY <1>1 DEF SendsCurrent
  <2>1. tx[e].account \in Accounts \ {a}
    BY <1>1 DEF Verify, TypeOK, Tx, NoTx
  <2> QED
    BY <2>1, <1>2 DEF PushInv, SendsCurrent
<1>6. OutboxFitsDevice'
  <2>1. OneGeneration'
    <3> SUFFICES ASSUME NEW e \in Events, Queued(e),
                        device[job[e].account].gen = gen'[job[e].account]
                 PROVE  job[e].gen = gen'[job[e].account]
      BY <1>1 DEF OneGeneration, Queued
    <3>1. job[e].account \in Accounts
      BY <1>1, JobRows DEF Job
    <3>2. job[e].account # a
      BY <3>1, <1>1, <1>2, DeviceRows DEF PushInv, DevicesKnown
    <3> QED
      BY <3>1, <3>2, <1>2 DEF PushInv, OutboxFitsDevice, OneGeneration
  <2>2. MutedOnlyByRace'
    BY <1>1 DEF MutedOnlyByRace, PushInv, OutboxFitsDevice, Queued
  <2> QED
    BY <2>1, <2>2 DEF OutboxFitsDevice
<1>7. Matching' /\ OnePerEvent' /\ NothingEarly' /\ AttemptsPaid' /\ AlertsPaid' /\ AttemptsSpent'
  BY <1>1, <1>3, JobsGo DEF TypeOK
<1>8. AnswersTrue'
  BY <1>1 DEF PushInv, AnswersTrue
<1> QED
  BY <1>3, <1>4, <1>5, <1>6, <1>7, <1>8 DEF PushInv

\* What a request about a's device changes, when it leaves no job of a that the
\* row would not have.
LEMMA DeviceChanges ==
    ASSUME PushInv, NEW a \in Accounts, NEW S,
           UNCHANGED <<gen, tx, batch, hand, dead, oks, unheard, faults>>, Racing(a),
           job' = Without(S),
           device' \in [Accounts -> Device \cup {NoDevice}],
           \A b \in Accounts \ {a} : device'[b] = device[b],
           device'[a].gen <= gen[a],
           \A e \in Events :
               /\ Queued(e) /\ e \notin S /\ job[e].account = a
               /\ device'[a].gen = gen[a] \/ device'[a].gen = job[e].gen
               => /\ job[e].gen = gen[a]
                  /\ EventKey(job[e].conversation) \notin device'[a].muted
    PROVE  PushInv'
<1>1. TypeOK
  BY DEF PushInv
<1>2. /\ job' \in [Events -> Job \cup {NoJob}]
      /\ \A e \in Events : job'[e] = IF e \in S THEN NoJob ELSE job[e]
  BY <1>1, Removed
<1>3. /\ Matching' /\ OnePerEvent' /\ NothingEarly' /\ AttemptsPaid' /\ AlertsPaid'
      /\ AttemptsSpent'
      /\ \A e \in Events : Queued(e)' => Queued(e) /\ job'[e] = job[e]
  BY <1>2, JobsGo
<1>4. \A e \in Events : Queued(e)' => e \notin S
  BY <1>2 DEF Queued, NoJob
<1>5. /\ raced \subseteq raced' /\ raced' \subseteq Events
      /\ \A e \in Events : tx[e].status = "open" /\ tx[e].account = a => e \in raced'
  BY <1>1 DEF Racing, TypeOK
<1>6. TypeOK'
  BY <1>1, <1>2, <1>5 DEF TypeOK
<1>7. DevicesKnown'
  BY DEF PushInv, DevicesKnown
<1>8. SendsCurrent'
  <2> SUFFICES ASSUME NEW e \in Events, tx[e].status = "open"
               PROVE  /\ tx[e].gen = gen[tx[e].account]
                      /\ tx[e].alert /\ e \notin raced' /\ device'[tx[e].account].gen = tx[e].gen
                           => EventKey(tx[e].conversation) \notin device'[tx[e].account].muted
    BY DEF SendsCurrent
  <2>1. tx[e].account \in Accounts
    BY <1>1 DEF TypeOK, Tx, NoTx
  <2>2. CASE tx[e].account = a
    BY <2>2, <1>5 DEF PushInv, SendsCurrent
  <2>3. CASE tx[e].account # a
    BY <2>1, <2>3, <1>5 DEF PushInv, SendsCurrent
  <2> QED
    BY <2>2, <2>3
<1>9. OneGeneration'
  <2> SUFFICES ASSUME NEW e \in Events, Queued(e)',
                      device'[job'[e].account].gen = gen[job'[e].account]
               PROVE  job'[e].gen = gen[job'[e].account]
    BY DEF OneGeneration
  <2>1. Queued(e) /\ job'[e] = job[e] /\ e \notin S /\ job[e].account \in Accounts
    BY <1>1, <1>3, <1>4, JobRows DEF Job
  <2>2. CASE job[e].account = a
    BY <2>1, <2>2
  <2>3. CASE job[e].account # a
    BY <2>1, <2>3 DEF PushInv, OutboxFitsDevice, OneGeneration
  <2> QED
    BY <2>2, <2>3
<1>10. MutedOnlyByRace'
  <2> SUFFICES ASSUME NEW e \in Events, Queued(e)',
                      device'[job'[e].account].gen = job'[e].gen,
                      EventKey(job'[e].conversation) \in device'[job'[e].account].muted
               PROVE  e \in raced'
    BY DEF MutedOnlyByRace, EventKey
  <2>1. Queued(e) /\ job'[e] = job[e] /\ e \notin S /\ job[e].account \in Accounts
    BY <1>1, <1>3, <1>4, JobRows DEF Job
  <2>2. CASE job[e].account = a
    BY <2>1, <2>2
  <2>3. CASE job[e].account # a
    BY <2>1, <2>3, <1>5 DEF PushInv, OutboxFitsDevice, MutedOnlyByRace
  <2> QED
    BY <2>2, <2>3
<1>11. AnswersTrue'
  BY DEF PushInv, AnswersTrue
<1> QED
  BY <1>3, <1>6, <1>7, <1>8, <1>9, <1>10, <1>11 DEF PushInv, OutboxFitsDevice

\* Register leaves the jobs of this phone that it has not muted.
LEMMA RegisterKeeps ==
    ASSUME PushInv, NEW a \in Accounts, NEW t \in Tokens, NEW muted \in MuteLists,
           Register(a, t, muted)
    PROVE  PushInv'
<1>1. TypeOK
  BY DEF PushInv
<1>2. [gen |-> gen[a], token |-> t, muted |-> muted] \in Device
  BY <1>1 DEF TypeOK, Device
<1>3. /\ device' \in [Accounts -> Device \cup {NoDevice}]
      /\ \A b \in Accounts \ {a} : device'[b] = device[b]
      /\ device'[a] = [gen |-> gen[a], token |-> t, muted |-> muted]
  BY <1>1, <1>2 DEF Register, TypeOK
<1>4. device'[a].gen = gen[a] /\ device'[a].muted = muted /\ gen[a] \in Nat
  BY <1>1, <1>3, DeviceRows
<1> DEFINE S == {e \in JobsOf(a) : \/ job[e].gen # gen[a]
                                   \/ EventKey(job[e].conversation) \in muted}
<1>5. job' = Without(S)
  BY DEF Register
<1>6. \A e \in Events : Queued(e) /\ e \notin S /\ job[e].account = a
        => job[e].gen = gen[a] /\ EventKey(job[e].conversation) \notin muted
  BY DEF JobsOf
<1>7. UNCHANGED <<gen, tx, batch, hand, dead, oks, unheard, faults>> /\ Racing(a)
  BY DEF Register
<1> HIDE DEF S
<1>8. \A e \in Events :
        /\ Queued(e) /\ e \notin S /\ job[e].account = a
        /\ device'[a].gen = gen[a] \/ device'[a].gen = job[e].gen
        => /\ job[e].gen = gen[a]
           /\ EventKey(job[e].conversation) \notin device'[a].muted
  BY <1>4, <1>6
<1>9. device'[a].gen <= gen[a]
  BY <1>4
<1> QED
  BY <1>3, <1>5, <1>7, <1>8, <1>9, DeviceChanges

\* Unregister leaves no job.
LEMMA UnregisterKeeps ==
    ASSUME PushInv, NEW a \in Accounts, Unregister(a)
    PROVE  PushInv'
<1>1. TypeOK
  BY DEF PushInv
<1>2. /\ device' \in [Accounts -> Device \cup {NoDevice}]
      /\ \A b \in Accounts \ {a} : device'[b] = device[b]
      /\ device'[a] = device[a] \/ device'[a] = NoDevice
  BY <1>1 DEF Unregister, TypeOK
<1>3. device'[a].gen <= gen[a]
  BY <1>1, <1>2, DeviceRows DEF PushInv, DevicesKnown
<1>4. \A e \in Events : Queued(e) /\ job[e].account = a => e \in JobsOf(a)
  BY DEF JobsOf
<1>5. /\ UNCHANGED <<gen, tx, batch, hand, dead, oks, unheard, faults>> /\ Racing(a)
      /\ job' = Without(JobsOf(a))
  BY DEF Unregister
<1>6. \A e \in Events :
        /\ Queued(e) /\ e \notin JobsOf(a) /\ job[e].account = a
        /\ device'[a].gen = gen[a] \/ device'[a].gen = job[e].gen
        => /\ job[e].gen = gen[a]
           /\ EventKey(job[e].conversation) \notin device'[a].muted
  BY <1>4
<1> QED
  BY <1>2, <1>3, <1>5, <1>6, DeviceChanges

\* The row is this phone's, and so are the jobs: those it mutes now go.
LEMMA UpdatePreferencesKeeps ==
    ASSUME PushInv, NEW a \in Accounts, NEW muted \in MuteLists, UpdatePreferences(a, muted)
    PROVE  PushInv'
<1>1. TypeOK
  BY DEF PushInv
<1>2. device[a].gen = gen[a] /\ device[a] \in Device /\ gen[a] \in Nat
  BY <1>1, DeviceRows DEF UpdatePreferences
<1>3. [device[a] EXCEPT !.muted = muted] \in Device
  BY <1>2 DEF Device
<1>4. /\ device' \in [Accounts -> Device \cup {NoDevice}]
      /\ \A b \in Accounts \ {a} : device'[b] = device[b]
      /\ device'[a] = [device[a] EXCEPT !.muted = muted]
  BY <1>1, <1>3 DEF UpdatePreferences, TypeOK
<1>5. device'[a].gen = gen[a] /\ device'[a].muted = muted
  BY <1>2, <1>4 DEF Device
<1> DEFINE S == {e \in JobsOf(a) : /\ job[e].gen = gen[a]
                                   /\ EventKey(job[e].conversation) \in muted}
<1>6. job' = Without(S) /\ UNCHANGED <<gen, tx, batch, hand, dead, oks, unheard, faults>> /\ Racing(a)
  BY DEF UpdatePreferences
<1>7. \A e \in Events : Queued(e) /\ job[e].account = a => job[e].gen = gen[a]
  BY <1>2 DEF PushInv, OutboxFitsDevice, OneGeneration
<1>8. \A e \in Events : Queued(e) /\ e \notin S /\ job[e].account = a
        => job[e].gen = gen[a] /\ EventKey(job[e].conversation) \notin muted
  BY <1>7 DEF JobsOf
<1> HIDE DEF S
<1>9. \A e \in Events :
        /\ Queued(e) /\ e \notin S /\ job[e].account = a
        /\ device'[a].gen = gen[a] \/ device'[a].gen = job[e].gen
        => /\ job[e].gen = gen[a]
           /\ EventKey(job[e].conversation) \notin device'[a].muted
  BY <1>5, <1>8
<1>10. device'[a].gen <= gen[a]
  BY <1>2, <1>5
<1> QED
  BY <1>4, <1>6, <1>9, <1>10, DeviceChanges

-----------------------------------------------------------------------------
(* Message creation *)

\* A send reads the row as it is.
LEMMA QueueRecipientKeeps ==
    ASSUME PushInv, NEW e \in Events, NEW a \in Accounts, NEW c \in Conversations,
           QueueRecipient(e, a, c)
    PROVE  PushInv'
<1>1. TypeOK /\ UNCHANGED <<gen, device, job, batch, hand, dead, oks, unheard, faults, raced>>
  BY DEF PushInv, QueueRecipient
<1> DEFINE row == [status |-> "open", account |-> a, gen |-> gen[a], conversation |-> c,
                   alert |-> device[a].gen = gen[a] /\ EventKey(c) \notin device[a].muted]
<1>2. row \in Tx
  BY <1>1 DEF TypeOK, Tx
<1>3. /\ tx' \in [Events -> Tx \cup {NoTx, [status |-> "done"]}]
      /\ tx'[e] = row
      /\ \A x \in Events \ {e} : tx'[x] = tx[x]
  BY <1>1, <1>2 DEF QueueRecipient, TypeOK
<1>4. TypeOK'
  BY <1>1, <1>3 DEF TypeOK
<1>5. SendsCurrent'
  <2> SUFFICES ASSUME NEW x \in Events, tx'[x].status = "open"
               PROVE  /\ tx'[x].gen = gen[tx'[x].account]
                      /\ tx'[x].alert /\ x \notin raced /\ device[tx'[x].account].gen = tx'[x].gen
                           => EventKey(tx'[x].conversation) \notin device[tx'[x].account].muted
    BY <1>1 DEF SendsCurrent, EventKey
  <2>1. CASE x = e
    <3>1. row.gen = gen[a] /\ row.account = a /\ row.conversation = c
      OBVIOUS
    <3>2. row.alert = (device[a].gen = gen[a] /\ EventKey(c) \notin device[a].muted)
      OBVIOUS
    <3> QED
      BY <2>1, <3>1, <3>2, <1>3
  <2>2. CASE x # e
    BY <2>2, <1>3 DEF PushInv, SendsCurrent
  <2> QED
    BY <2>1, <2>2
<1>6. NothingEarly'
  <2> SUFFICES ASSUME NEW x \in Events, tx'[x].status # "done"
               PROVE  ~Queued(x)' /\ ~Held(x)' /\ oks'[x] = 0
    BY DEF NothingEarly
  <2>1. tx[x].status # "done"
    BY <1>3 DEF QueueRecipient, NoTx
  <2>2. Queued(x)' = Queued(x) /\ Held(x)' = Held(x)
    BY <1>1, SameHands DEF Queued
  <2> QED
    BY <1>1, <2>1, <2>2 DEF PushInv, NothingEarly
<1>7. DevicesKnown' /\ OutboxFitsDevice'
  BY <1>1 DEF PushInv, DevicesKnown, OutboxFitsDevice, OneGeneration, MutedOnlyByRace,
              Queued, EventKey
<1>8. Matching' /\ OnePerEvent'
  BY <1>1, SameHands DEF PushInv, Matching, OnePerEvent, Queued
<1>9. AnswersTrue'
  BY <1>1 DEF PushInv, AnswersTrue
<1>10. AttemptsPaid'
  BY <1>1, SameHands DEF PushInv, AttemptsPaid, Queued, Leased
<1>11. AlertsPaid'
  BY <1>1, SameHands DEF PushInv, AlertsPaid, Alerted, Queued, Open
<1>12. AttemptsSpent'
  BY <1>1, NothingSpent, AlertNumbers, PushAssumption DEF PushInv, TypeOK, PushAssumption, Queued
<1> QED
  BY <1>4, <1>5, <1>6, <1>7, <1>8, <1>9, <1>10, <1>11, <1>12 DEF PushInv

\* The first job of an event, for the generation that the send holds.
LEMMA CommitSendKeeps ==
    ASSUME PushInv, NEW e \in Events, CommitSend(e)
    PROVE  PushInv'
<1>1. TypeOK /\ UNCHANGED <<gen, device, batch, hand, dead, oks, unheard, faults, raced>>
  BY DEF PushInv, CommitSend
<1>2. tx[e] \in Tx /\ tx[e].status = "open"
  BY <1>1 DEF CommitSend, TypeOK, NoTx
<1>3. /\ tx' \in [Events -> Tx \cup {NoTx, [status |-> "done"]}]
      /\ tx'[e] = [status |-> "done"]
      /\ \A x \in Events \ {e} : tx'[x] = tx[x]
  BY <1>1 DEF CommitSend, TypeOK
<1> DEFINE row == [queued |-> TRUE, account |-> tx[e].account, gen |-> tx[e].gen,
                   conversation |-> tx[e].conversation, attempts |-> 0, due |-> TRUE]
<1>4. row \in Job
  BY <1>2, PushAssumption DEF Tx, Job, Attempts, PushAssumption
<1>5. /\ job' \in [Events -> Job \cup {NoJob}]
      /\ tx[e].alert => job'[e] = row
      /\ ~tx[e].alert => job' = job
      /\ \A x \in Events \ {e} : job'[x] = job[x]
  BY <1>1, <1>4 DEF CommitSend, TypeOK
<1>6. TypeOK'
  BY <1>1, <1>3, <1>5 DEF TypeOK
<1>7. ~Queued(e) /\ ~Held(e) /\ oks[e] = 0
  BY <1>2 DEF PushInv, NothingEarly
<1>8. \A x \in Events : Held(x)' = Held(x) /\ Unsettlers(x)' = Unsettlers(x)
  BY <1>1, SameHands
<1>9. Queued(e)' => job'[e] = row /\ tx[e].alert
  BY <1>5, <1>7 DEF Queued
<1>10. \A x \in Events \ {e} : Queued(x)' = Queued(x)
  BY <1>5 DEF Queued
<1>11. SendsCurrent'
  BY <1>1, <1>3 DEF PushInv, SendsCurrent, EventKey
<1>12. NothingEarly'
  BY <1>1, <1>3, <1>8, <1>10 DEF PushInv, NothingEarly
<1>13. DevicesKnown' /\ OnePerEvent' /\ AnswersTrue'
  BY <1>1 DEF PushInv, DevicesKnown, OnePerEvent, AnswersTrue
<1>14. Matching'
  <2>1. \A w \in Workers : \A i \in Carried(w) : i.event \in Events \ {e}
    BY <1>1, <1>7, HeldCarried, ItemRows
  <2> QED
    BY <1>1, <1>5, <1>10, <2>1, SameHands DEF PushInv, Matching
<1>15. AttemptsPaid'
  <2> SUFFICES ASSUME NEW x \in Events, Queued(x)'
               PROVE  /\ job'[x].attempts <= MaxAttempts + faults
                      /\ job'[x].due \/ ~Leased(x)' => job'[x].attempts < MaxAttempts + faults
    BY <1>1 DEF AttemptsPaid
  <2>1. CASE x = e
    <3>1. job'[x].attempts = 0
      BY <2>1, <1>9
    <3> QED
      BY <3>1, <1>1, AlertNumbers, PushAssumption DEF PushAssumption
  <2>2. CASE x # e
    <3>1. job'[x] = job[x] /\ Queued(x) /\ (Leased(x)' <=> Leased(x))
      BY <2>2, <1>1, <1>5, <1>10, SameHands DEF Leased
    <3> QED
      BY <3>1 DEF PushInv, AttemptsPaid
  <2> QED
    BY <2>1, <2>2
<1>16. AlertsPaid'
  <2> SUFFICES ASSUME NEW x \in Events
               PROVE  Alerted(x)'
    BY DEF AlertsPaid
  <2>1. CASE x = e
    BY <2>1, <1>1, <1>7, <1>8, AlertNumbers DEF Alerted
  <2>2. CASE x # e
    <3>1. Open(x)' = Open(x)
      BY <2>2, <1>5, <1>8, <1>10 DEF Open
    <3> QED
      BY <3>1, <1>1, <1>8 DEF PushInv, AlertsPaid, Alerted
  <2> QED
    BY <2>1, <2>2
<1>17. OneGeneration'
  <2> SUFFICES ASSUME NEW x \in Events, Queued(x)',
                      device[job'[x].account].gen = gen[job'[x].account]
               PROVE  job'[x].gen = gen[job'[x].account]
    BY <1>1 DEF OneGeneration
  <2>1. CASE x = e
    BY <2>1, <1>2, <1>9 DEF PushInv, SendsCurrent
  <2>2. CASE x # e
    BY <2>2, <1>5, <1>10 DEF PushInv, OutboxFitsDevice, OneGeneration
  <2> QED
    BY <2>1, <2>2
<1>18. MutedOnlyByRace'
  <2> SUFFICES ASSUME NEW x \in Events, Queued(x)',
                      device[job'[x].account].gen = job'[x].gen,
                      EventKey(job'[x].conversation) \in device[job'[x].account].muted
               PROVE  x \in raced
    BY <1>1 DEF MutedOnlyByRace, EventKey
  <2>1. CASE x = e
    BY <2>1, <1>2, <1>9 DEF PushInv, SendsCurrent
  <2>2. CASE x # e
    BY <2>2, <1>5, <1>10 DEF PushInv, OutboxFitsDevice, MutedOnlyByRace
  <2> QED
    BY <2>1, <2>2
<1>19. AttemptsSpent'
  <2> SUFFICES ASSUME NEW x \in Events
               PROVE  Costs(x)'
    BY DEF AttemptsSpent
  <2>1. Costs(x) /\ Senders(x)' = Senders(x) /\ faults' = faults /\ oks' = oks
    BY <1>1 DEF PushInv, AttemptsSpent, Senders
  <2>2. CASE x = e
    <3>1. Senders(x) = {} /\ Senders(x) \in SUBSET Workers
      BY <2>2, <1>7 DEF Senders, Held
    <3>2. Cardinality(Senders(x)) = 0
      BY <3>1, Counting
    <3>3. Queued(x)' => job'[x].attempts = 0
      BY <2>2, <1>9
    <3> QED
      BY <2>1, <2>2, <3>2, <3>3, <1>7 DEF Costs
  <2>3. CASE x # e
    BY <2>1, <2>3, <1>5, <1>10 DEF Costs
  <2> QED
    BY <2>2, <2>3
<1> QED
  BY <1>6, <1>11, <1>12, <1>13, <1>14, <1>15, <1>16, <1>17, <1>18, <1>19 DEF PushInv, OutboxFitsDevice

-----------------------------------------------------------------------------
(* The dispatchers *)

\* As long as no job changes hands, the outbox fits the devices.
LEMMA StaysFit ==
    ASSUME PushInv, UNCHANGED <<gen, device, tx, raced>>,
           \A e \in Events : Queued(e)' =>
                /\ Queued(e)
                /\ job'[e].account = job[e].account
                /\ job'[e].gen = job[e].gen
                /\ job'[e].conversation = job[e].conversation
    PROVE  DevicesKnown' /\ SendsCurrent' /\ OutboxFitsDevice'
<1>1. DevicesKnown' /\ SendsCurrent'
  BY DEF PushInv, DevicesKnown, SendsCurrent, EventKey
<1>2. OneGeneration'
  BY DEF PushInv, OutboxFitsDevice, OneGeneration
<1>3. MutedOnlyByRace'
  BY DEF PushInv, OutboxFitsDevice, MutedOnlyByRace, EventKey
<1> QED
  BY <1>1, <1>2, <1>3 DEF OutboxFitsDevice

\* A claim takes jobs that are open, one attempt more for each.
LEMMA ClaimKeeps ==
    ASSUME PushInv, NEW w \in Workers, Claim(w)
    PROVE  PushInv'
<1>1. TypeOK /\ UNCHANGED <<gen, device, tx, hand, dead, oks, unheard, faults, raced>>
  BY DEF PushInv, Claim
<1>2. PICK S \in SUBSET Ready \ {{}} :
        /\ batch' = [batch EXCEPT ![w] = Items(S)]
        /\ job' = [e \in Events |->
                    IF e \in S THEN [job[e] EXCEPT !.attempts = @ + 1, !.due = FALSE] ELSE job[e]]
  BY DEF Claim
<1>3. \A e \in S : /\ e \in Events /\ Queued(e) /\ job[e].due /\ job[e] \in Job
                   /\ device[job[e].account].gen = job[e].gen
  BY <1>1, JobRows DEF Ready
<1>4. \A e \in S : job[e].attempts + 1 <= MaxAttempts + faults
  <2> SUFFICES ASSUME NEW e \in S PROVE job[e].attempts + 1 <= MaxAttempts + faults
    OBVIOUS
  <2>1. e \in Events /\ job[e].attempts < MaxAttempts + faults
    BY <1>3 DEF PushInv, AttemptsPaid
  <2>2. job[e].attempts \in Nat /\ MaxAttempts \in Nat /\ faults \in Nat
    BY <1>1, <1>3, <2>1, AttemptNumbers, AlertNumbers DEF Job
  <2> QED
    BY <2>1, <2>2
<1>5. \A e \in S : job[e].attempts + 1 \in Attempts
  <2> SUFFICES ASSUME NEW e \in S PROVE job[e].attempts + 1 \in Attempts
    OBVIOUS
  <2>1. job[e].attempts \in Nat /\ MaxAttempts \in Nat /\ faults \in 0..MaxFaults
    BY <1>1, <1>3, AttemptNumbers DEF TypeOK, Job
  <2> QED
    BY <2>1, <1>4, AttemptNumbers DEF Attempts
<1>6. \A e \in S : /\ job'[e] \in Job
                   /\ job'[e].queued = TRUE
                   /\ job'[e].account = job[e].account
                   /\ job'[e].gen = job[e].gen
                   /\ job'[e].conversation = job[e].conversation
                   /\ job'[e].attempts = job[e].attempts + 1
                   /\ job'[e].due = FALSE
  BY <1>2, <1>3, <1>5 DEF Job
<1>7. \A e \in Events \ S : job'[e] = job[e]
  BY <1>2
<1>8. job' \in [Events -> Job \cup {NoJob}]
  BY <1>1, <1>2, <1>6, <1>7 DEF TypeOK
<1>9. \A i \in Items(S) :
        /\ i.event \in S
        /\ i = [event |-> i.event, account |-> job[i.event].account, gen |-> job[i.event].gen,
                token |-> device[job[i.event].account].token,
                attempts |-> job[i.event].attempts + 1]
  BY DEF Items
<1>10. \A e \in S : \E i \in Items(S) : i.event = e /\ i.attempts = job[e].attempts + 1
  <2> SUFFICES ASSUME NEW e \in S
               PROVE  \E i \in Items(S) : i.event = e /\ i.attempts = job[e].attempts + 1
    OBVIOUS
  <2> DEFINE i == [event |-> e, account |-> job[e].account, gen |-> job[e].gen,
                   token |-> device[job[e].account].token, attempts |-> job[e].attempts + 1]
  <2>1. i \in Items(S)
    BY DEF Items
  <2> QED
    BY <2>1
<1>11. Items(S) \subseteq Item
  <2> SUFFICES ASSUME NEW i \in Items(S) PROVE i \in Item
    OBVIOUS
  <2>1. /\ i.event \in S /\ job[i.event].account \in Accounts
        /\ job[i.event].gen \in Generations /\ job[i.event].attempts + 1 \in Attempts
    BY <1>3, <1>5, <1>9 DEF Job
  <2>2. device[job[i.event].account].token \in Tokens
    BY <2>1, <1>1, <1>3, DeviceRows DEF Device, Generations
  <2> QED
    BY <1>3, <1>9, <2>1, <2>2 DEF Item
<1>12. /\ batch' \in [Workers -> SUBSET Item]
       /\ batch'[w] = Items(S)
       /\ \A v \in Workers \ {w} : batch'[v] = batch[v]
  BY <1>1, <1>2, <1>11 DEF TypeOK
<1>13. TypeOK'
  BY <1>1, <1>8, <1>12 DEF TypeOK
<1>14. batch[w] = {} /\ hand[w] = NoItem /\ hand'[w] = NoItem
  BY <1>1 DEF Claim, Idle
<1>15. /\ Carried(w) = {} /\ Carried(w)' = Items(S)
       /\ \A v \in Workers \ {w} : Carried(v)' = Carried(v)
  BY <1>1, <1>12, <1>14 DEF Carried
<1>16. \A e \in Events : Queued(e)' <=> Queued(e)
  BY <1>3, <1>6, <1>7 DEF Queued
<1>17. \A e \in Events : Held(e)' <=> Held(e) \/ e \in S
  <2>1. \A e : Held(e)' <=> \E v \in Workers : \E i \in Carried(v)' : i.event = e
    BY <1>1 DEF Held, Carried
  <2> QED
    BY <2>1, <1>9, <1>10, <1>15, HeldCarried
<1>18. DevicesKnown' /\ SendsCurrent' /\ OutboxFitsDevice'
  <2>1. \A e \in Events : Queued(e)' =>
                /\ Queued(e)
                /\ job'[e].account = job[e].account
                /\ job'[e].gen = job[e].gen
                /\ job'[e].conversation = job[e].conversation
    BY <1>6, <1>7, <1>16
  <2> QED
    BY <2>1, <1>1, StaysFit
<1>19. NothingEarly'
  BY <1>1, <1>3, <1>16, <1>17 DEF PushInv, NothingEarly
<1>20. Matching'
  <2> SUFFICES ASSUME NEW v \in Workers, NEW i \in Carried(v)', Queued(i.event)'
               PROVE  i.account = job'[i.event].account /\ i.gen = job'[i.event].gen
    BY DEF Matching
  <2>1. CASE v = w
    <3>1. i \in Items(S)
      BY <2>1, <1>15
    <3>2. i.event \in S /\ i.account = job[i.event].account /\ i.gen = job[i.event].gen
      BY <3>1, <1>9
    <3> QED
      BY <3>2, <1>6
  <2>2. CASE v # w
    <3>1. i \in Carried(v) /\ i.event \in Events
      BY <2>2, <1>1, <1>15, ItemRows
    <3>2. Queued(i.event)
      BY <3>1, <1>16
    <3> QED
      BY <3>1, <3>2, <1>6, <1>7 DEF PushInv, Matching
  <2> QED
    BY <2>1, <2>2
<1>21. OnePerEvent'
  <2>1. \A i, j \in Items(S) : i.event = j.event => i = j
    BY <1>9
  <2> QED
    BY <2>1, <1>1, <1>12, <1>14 DEF PushInv, OnePerEvent
<1>22. AnswersTrue'
  BY <1>1 DEF PushInv, AnswersTrue
<1>23. AttemptsPaid'
  <2> SUFFICES ASSUME NEW e \in Events, Queued(e)'
               PROVE  /\ job'[e].attempts <= MaxAttempts + faults
                      /\ job'[e].due \/ ~Leased(e)' => job'[e].attempts < MaxAttempts + faults
    BY <1>1 DEF AttemptsPaid
  <2>1. CASE e \in S
    <3>1. Leased(e)'
      BY <2>1, <1>6, <1>10, <1>15 DEF Leased
    <3> QED
      BY <3>1, <2>1, <1>4, <1>6
  <2>2. CASE e \notin S
    <3>1. job'[e] = job[e] /\ Queued(e)
      BY <2>2, <1>7, <1>16
    <3>2. Leased(e) => Leased(e)'
      BY <3>1, <1>15 DEF Leased
    <3> QED
      BY <3>1, <3>2 DEF PushInv, AttemptsPaid
  <2> QED
    BY <2>1, <2>2
<1>24. AlertsPaid'
  <2> SUFFICES ASSUME NEW e \in Events
               PROVE  Alerted(e)'
    BY DEF AlertsPaid
  <2>1. /\ Alerted(e) /\ Unsettlers(e) \in SUBSET Workers /\ Unsettlers(e)' \in SUBSET Workers
        /\ oks[e] \in Nat /\ unheard[e] \in Nat /\ faults \in Nat
    BY <1>1, AlertNumbers DEF PushInv, AlertsPaid, Unsettlers
  <2>2. CASE e \in S
    <3>1. Open(e)
      BY <2>2, <1>3 DEF Open
    <3>2. ~Open(e)'
      BY <2>2, <1>6, <1>17 DEF Open
    <3>3. Unsettlers(e)' \subseteq Unsettlers(e) \cup {w}
      BY <1>1, <1>12 DEF Unsettlers, Unsettled
    <3>4. Cardinality(Unsettlers(e)') <= Cardinality(Unsettlers(e)) + 1
      BY <2>1, <3>3, Counting
    <3> QED
      BY <2>1, <3>1, <3>2, <3>4, <1>1, Counting DEF Alerted
  <2>3. CASE e \notin S
    <3>1. Open(e)' <=> Open(e)
      BY <2>3, <1>7, <1>16, <1>17 DEF Open
    <3>2. Unsettlers(e)' = Unsettlers(e)
      <4>1. ~Unsettled(w, e)' /\ ~Unsettled(w, e)
        BY <2>3, <1>9, <1>12, <1>14 DEF Unsettled
      <4>2. \A v \in Workers \ {w} : Unsettled(v, e)' <=> Unsettled(v, e)
        BY <1>1, <1>12 DEF Unsettled
      <4> QED
        BY <4>1, <4>2 DEF Unsettlers
    <3> QED
      BY <2>1, <3>1, <3>2, <1>1 DEF Alerted
  <2> QED
    BY <2>2, <2>3
<1>25. AttemptsSpent'
  <2> SUFFICES ASSUME NEW e \in Events
               PROVE  Costs(e)'
    BY DEF AttemptsSpent
  <2>1. /\ Costs(e) /\ Senders(e) \in SUBSET Workers /\ Senders(e)' \in SUBSET Workers
        /\ oks[e] \in Nat /\ faults \in Nat
    BY <1>1, AlertNumbers DEF PushInv, AttemptsSpent, Senders
  <2>2. CASE e \in S
    <3>1. Senders(e)' \subseteq Senders(e) \cup {w}
      BY <1>12 DEF Senders
    <3>2. Cardinality(Senders(e)') <= Cardinality(Senders(e)) + 1
      BY <2>1, <3>1, Counting
    <3>3. /\ oks[e] + Cardinality(Senders(e)) <= job[e].attempts
          /\ job[e].attempts \in Nat
      BY <2>1, <2>2, <1>3, AttemptNumbers DEF Costs, Job
    <3>4. /\ Cardinality(Senders(e)') \in Nat /\ Cardinality(Senders(e)) \in Nat
          /\ job'[e].attempts = job[e].attempts + 1
          /\ job[e].attempts + 1 <= MaxAttempts + faults
      BY <2>1, <2>2, <1>4, <1>6, Counting
    <3>5. oks[e] + Cardinality(Senders(e)') <= job[e].attempts + 1
      BY <2>1, <3>2, <3>3, <3>4
    <3>6. oks[e] + Cardinality(Senders(e)') <= MaxAttempts + faults
      BY <2>1, <3>3, <3>4, <3>5, AttemptNumbers
    <3> QED
      BY <3>4, <3>5, <3>6, <1>1 DEF Costs
  <2>3. CASE e \notin S
    <3>1. Senders(e)' = Senders(e)
      <4>1. ~(\E i \in batch'[w] : i.event = e) /\ ~(\E i \in batch[w] : i.event = e)
        BY <2>3, <1>9, <1>12, <1>14
      <4> QED
        BY <4>1, <1>12 DEF Senders
    <3> QED
      BY <2>1, <2>3, <3>1, <1>1, <1>7, <1>16 DEF Costs
  <2> QED
    BY <2>2, <2>3
<1> QED
  BY <1>13, <1>18, <1>19, <1>20, <1>21, <1>22, <1>23, <1>24, <1>25 DEF PushInv

\* Nothing is claimed: what a dispatcher carries afterwards is what he carried.
LEMMA CarriedSame ==
    ASSUME PushInv, UNCHANGED <<gen, tx, job, faults, raced>>,
           \A v \in Workers : \A i \in Carried(v)' : \E k \in Carried(v) :
               /\ k.event = i.event /\ k.account = i.account
               /\ k.gen = i.gen /\ k.attempts = i.attempts,
           \A v \in Workers : \A k \in Carried(v) : \E i \in Carried(v)' :
               k.event = i.event /\ k.attempts = i.attempts
    PROVE  /\ Matching' /\ AttemptsPaid'
           /\ \A e \in Events : Held(e)' <=> Held(e)
<1>1. \A e : Held(e)' <=> \E v \in Workers : \E i \in Carried(v)' : i.event = e
  BY DEF Held, Carried
<1>2. \A e \in Events : Held(e)' <=> Held(e)
  BY <1>1, HeldCarried
<1>3. Matching'
  BY DEF PushInv, Matching, Queued
<1>4. \A e \in Events : Leased(e)' <=> Leased(e)
  BY DEF Leased
<1>5. AttemptsPaid'
  BY <1>4 DEF PushInv, AttemptsPaid, Queued
<1> QED
  BY <1>2, <1>3, <1>5

\* An alert that is accepted was one that could still come.
LEMMA SendKeeps ==
    ASSUME PushInv, NEW w \in Workers, Send(w)
    PROVE  PushInv'
<1>1. TypeOK /\ UNCHANGED <<gen, device, tx, job, dead, faults, raced>> /\ hand[w] = NoItem
  BY DEF PushInv, Send
<1>2. PICK i \in batch[w], answer \in {"ok", "failed", "not-registered"}, accepted \in BOOLEAN :
        /\ answer = "ok" => accepted
        /\ answer = "not-registered" => i.token \in dead
        /\ batch' = [batch EXCEPT ![w] = @ \ {i}]
        /\ hand' = [hand EXCEPT ![w] = [answer |-> answer, event |-> i.event, account |-> i.account,
                                        gen |-> i.gen, token |-> i.token, attempts |-> i.attempts]]
        /\ oks' = IF accepted THEN [oks EXCEPT ![i.event] = @ + 1] ELSE oks
        /\ unheard' = IF accepted /\ answer # "ok"
                      THEN [unheard EXCEPT ![i.event] = @ + 1] ELSE unheard
  BY DEF Send
<1>3. i \in Item
  BY <1>1, ItemRows
<1>4. /\ batch' \in [Workers -> SUBSET Item]
      /\ batch'[w] = batch[w] \ {i}
      /\ \A v \in Workers \ {w} : batch'[v] = batch[v]
  BY <1>1, <1>2 DEF TypeOK
<1> DEFINE h == [answer |-> answer, event |-> i.event, account |-> i.account,
                 gen |-> i.gen, token |-> i.token, attempts |-> i.attempts]
<1>5. h \in Answered
  BY <1>3 DEF Item, Answered
<1>6. /\ hand' \in [Workers -> Answered \cup {NoItem}]
      /\ hand'[w] = h
      /\ \A v \in Workers \ {w} : hand'[v] = hand[v]
  BY <1>1, <1>2, <1>5 DEF TypeOK
<1>7. /\ hand'[w].answer = answer /\ hand'[w].event = i.event /\ hand'[w].account = i.account
      /\ hand'[w].gen = i.gen /\ hand'[w].token = i.token /\ hand'[w].attempts = i.attempts
      /\ hand'[w] # NoItem
  <2>1. hand'[w].answer = answer
    BY <1>6
  <2>2. hand'[w] # NoItem
    BY <2>1 DEF NoItem
  <2> QED
    BY <1>6, <2>1, <2>2
<1>8. /\ oks' \in [Events -> Nat]
      /\ unheard' \in [Events -> Nat]
      /\ \A e \in Events :
            /\ oks'[e] = IF accepted /\ e = i.event THEN oks[e] + 1 ELSE oks[e]
            /\ unheard'[e] = IF accepted /\ answer # "ok" /\ e = i.event
                             THEN unheard[e] + 1 ELSE unheard[e]
  BY <1>1, <1>2, <1>3 DEF TypeOK, Item
<1> HIDE DEF h
<1>9. TypeOK'
  BY <1>1, <1>4, <1>6, <1>8 DEF TypeOK
<1>10. /\ Carried(w) = batch[w] /\ Carried(w)' = (batch[w] \ {i}) \cup {hand'[w]}
       /\ \A v \in Workers \ {w} : Carried(v)' = Carried(v)
  BY <1>1, <1>4, <1>6, <1>7 DEF Carried
<1>11. \A v \in Workers : \A j \in Carried(v)' : \E k \in Carried(v) :
               /\ k.event = j.event /\ k.account = j.account
               /\ k.gen = j.gen /\ k.attempts = j.attempts
  BY <1>7, <1>10
<1>12. \A v \in Workers : \A k \in Carried(v) : \E j \in Carried(v)' :
               k.event = j.event /\ k.attempts = j.attempts
  BY <1>7, <1>10
<1>13. Matching' /\ AttemptsPaid' /\ \A e \in Events : Held(e)' <=> Held(e)
  BY <1>1, <1>11, <1>12, CarriedSame
<1>14. DevicesKnown' /\ SendsCurrent' /\ OutboxFitsDevice'
  BY <1>1, StaysFit DEF Queued
<1>15. i.event \in Events /\ Held(i.event)
  BY <1>3 DEF Item, Held
<1>16. NothingEarly'
  BY <1>1, <1>8, <1>13, <1>15 DEF PushInv, NothingEarly, Queued
<1>17. OnePerEvent'
  <2>1. \A j \in batch[w] \ {i} : j.event # i.event
    BY DEF PushInv, OnePerEvent
  <2> QED
    BY <2>1, <1>4, <1>6, <1>7 DEF PushInv, OnePerEvent
<1>18. AnswersTrue'
  BY <1>1, <1>2, <1>6, <1>7 DEF PushInv, AnswersTrue
<1>19. AlertsPaid'
  <2> SUFFICES ASSUME NEW e \in Events
               PROVE  Alerted(e)'
    BY DEF AlertsPaid
  <2>1. /\ Alerted(e) /\ Unsettlers(e) \in SUBSET Workers /\ Unsettlers(e)' \in SUBSET Workers
        /\ oks[e] \in Nat /\ unheard[e] \in Nat /\ faults \in Nat
    BY <1>1, AlertNumbers DEF PushInv, AlertsPaid, Unsettlers
  <2>2. Open(e)' <=> Open(e)
    BY <1>1, <1>13 DEF Open, Queued
  <2>3. \A v \in Workers \ {w} : Unsettled(v, e)' <=> Unsettled(v, e)
    BY <1>4, <1>6 DEF Unsettled
  <2>4. CASE answer = "ok" /\ e = i.event
    <3>1. Unsettled(w, e)
      BY <2>4 DEF Unsettled
    <3>2. ~Unsettled(w, e)'
      <4>1. \A j \in batch'[w] : j.event # e
        BY <2>4, <1>4 DEF PushInv, OnePerEvent
      <4> QED
        BY <4>1, <2>4, <1>7 DEF Unsettled
    <3>3. w \in Unsettlers(e) /\ Unsettlers(e)' \subseteq Unsettlers(e) \ {w}
      BY <3>1, <3>2, <2>3 DEF Unsettlers
    <3>4. Cardinality(Unsettlers(e)') <= Cardinality(Unsettlers(e)) - 1
      BY <2>1, <3>3, Counting
    <3>5. oks'[e] = oks[e] + 1 /\ unheard'[e] = unheard[e]
      BY <2>4, <1>2, <1>8
    <3> QED
      BY <2>1, <2>2, <3>4, <3>5, <1>1, Counting DEF Alerted
  <2>5. CASE ~(answer = "ok" /\ e = i.event)
    <3>1. Unsettled(w, e)' => Unsettled(w, e)
      BY <1>4, <1>7 DEF Unsettled
    <3>2. Unsettlers(e)' \subseteq Unsettlers(e)
      BY <3>1, <2>3 DEF Unsettlers
    <3>3. Cardinality(Unsettlers(e)') <= Cardinality(Unsettlers(e))
      BY <2>1, <3>2, Counting
    <3>4. \/ oks'[e] = oks[e] /\ unheard'[e] = unheard[e]
          \/ oks'[e] = oks[e] + 1 /\ unheard'[e] = unheard[e] + 1
      BY <2>5, <1>2, <1>8
    <3> QED
      BY <2>1, <2>2, <3>3, <3>4, <1>1, Counting DEF Alerted
  <2> QED
    BY <2>4, <2>5
<1>20. AttemptsSpent'
  <2> SUFFICES ASSUME NEW e \in Events
               PROVE  Costs(e)'
    BY DEF AttemptsSpent
  <2>1. /\ Costs(e) /\ Senders(e) \in SUBSET Workers /\ Senders(e)' \in SUBSET Workers
        /\ oks[e] \in Nat /\ faults \in Nat
    BY <1>1, AlertNumbers DEF PushInv, AttemptsSpent, Senders
  <2>2. Queued(e) => job[e].attempts \in Nat
    BY <1>1, JobRows, AttemptNumbers DEF Job
  <2>3. /\ Cardinality(Senders(e)) \in Nat /\ Cardinality(Senders(e)') \in Nat
        /\ oks'[e] + Cardinality(Senders(e)') <= oks[e] + Cardinality(Senders(e))
    <3>1. CASE e = i.event
      <4>1. w \in Senders(e) /\ Senders(e)' \subseteq Senders(e) \ {w}
        BY <3>1, <1>4 DEF Senders, PushInv, OnePerEvent
      <4>2. /\ Cardinality(Senders(e)') <= Cardinality(Senders(e)) - 1
            /\ Cardinality(Senders(e)) \in Nat /\ Cardinality(Senders(e)') \in Nat
        BY <2>1, <4>1, Counting
      <4>3. oks'[e] = oks[e] \/ oks'[e] = oks[e] + 1
        BY <1>8
      <4> QED
        BY <2>1, <4>2, <4>3
    <3>2. CASE e # i.event
      <4>1. Senders(e)' \subseteq Senders(e) /\ oks'[e] = oks[e]
        BY <3>2, <1>4, <1>8 DEF Senders
      <4>2. /\ Cardinality(Senders(e)') <= Cardinality(Senders(e))
            /\ Cardinality(Senders(e)) \in Nat /\ Cardinality(Senders(e)') \in Nat
        BY <2>1, <4>1, Counting
      <4> QED
        BY <2>1, <4>1, <4>2
    <3> QED
      BY <3>1, <3>2
  <2>4. Queued(e)' = Queued(e) /\ job' = job /\ faults' = faults /\ oks'[e] \in Nat
    BY <1>1, <1>8, <2>1 DEF Queued
  <2> QED
    BY <2>1, <2>2, <2>3, <2>4, AttemptNumbers DEF Costs
<1> QED
  BY <1>9, <1>13, <1>14, <1>16, <1>17, <1>18, <1>19, <1>20 DEF PushInv

\* When w records its answer, everybody else carries on.
LEMMA HandGoes ==
    ASSUME TypeOK, OnePerEvent, NEW w \in Workers, hand[w] # NoItem,
           UNCHANGED batch, hand' = [hand EXCEPT ![w] = NoItem]
    PROVE  /\ hand' \in [Workers -> Answered \cup {NoItem}]
           /\ hand'[w] = NoItem /\ \A v \in Workers \ {w} : hand'[v] = hand[v]
           /\ \A v \in Workers : Carried(v)' \subseteq Carried(v)
           /\ \A v \in Workers : \A i \in Carried(v) : i \in Carried(v)' \/ i = hand[w]
           /\ \A e \in Events : Held(e)' => Held(e)
           /\ \A e \in Events : e # hand[w].event => (Held(e) => Held(e)')
           /\ \A e \in Events : Unsettlers(e)' \subseteq Unsettlers(e)
           /\ \A e \in Events : e = hand[w].event /\ hand[w].answer # "ok" =>
                w \in Unsettlers(e) /\ Unsettlers(e)' \subseteq Unsettlers(e) \ {w}
<1>1. /\ hand' \in [Workers -> Answered \cup {NoItem}]
      /\ hand'[w] = NoItem /\ \A v \in Workers \ {w} : hand'[v] = hand[v]
  BY DEF TypeOK
<1>2. /\ Carried(w)' = batch[w] /\ Carried(w) = batch[w] \cup {hand[w]}
      /\ \A v \in Workers \ {w} : Carried(v)' = Carried(v)
  BY <1>1 DEF Carried
<1>3. \A e : Held(e)' <=> \E v \in Workers : \E i \in Carried(v)' : i.event = e
  BY DEF Held, Carried
<1>4. \A e \in Events : Held(e)' => Held(e)
  BY <1>2, <1>3, HeldCarried
<1>5. \A e \in Events : e # hand[w].event => (Held(e) => Held(e)')
  BY <1>2, <1>3, HeldCarried
<1>6. \A v \in Workers : \A e : Unsettled(v, e)' => Unsettled(v, e)
  BY <1>1 DEF Unsettled
<1>7. \A e : Unsettlers(e)' \subseteq Unsettlers(e)
  BY <1>6 DEF Unsettlers
<1>8. ASSUME NEW e \in Events, e = hand[w].event, hand[w].answer # "ok"
      PROVE  w \in Unsettlers(e) /\ Unsettlers(e)' \subseteq Unsettlers(e) \ {w}
  <2>1. \A i \in batch[w] : i.event # e
    BY <1>8 DEF OnePerEvent
  <2>2. ~Unsettled(w, e)'
    BY <2>1, <1>1 DEF Unsettled
  <2>3. Unsettled(w, e)
    BY <1>8 DEF Unsettled
  <2> QED
    BY <2>2, <2>3, <1>7 DEF Unsettlers
<1>9. \A v \in Workers : Carried(v)' \subseteq Carried(v)
  BY <1>2
<1>10. \A v \in Workers : \A i \in Carried(v) : i \in Carried(v)' \/ i = hand[w]
  BY <1>2
<1> QED
  BY <1>1, <1>4, <1>5, <1>7, <1>8, <1>9, <1>10

\* An answer that ends its job, and maybe others with it.
LEMMA AnswerEnds ==
    ASSUME PushInv, NEW w \in Workers, hand[w] # NoItem,
           hand' = [hand EXCEPT ![w] = NoItem],
           UNCHANGED <<gen, device, tx, batch, dead, oks, unheard, faults, raced>>,
           job' \in [Events -> Job \cup {NoJob}],
           \A e \in Events : job'[e] = job[e] \/ job'[e] = NoJob,
           \A e \in Events : e = hand[w].event => ~Queued(e)'
    PROVE  PushInv'
<1>1. TypeOK /\ OnePerEvent /\ UNCHANGED batch
  BY DEF PushInv
<1>2. \A e \in Events : Queued(e)' => Queued(e) /\ job'[e] = job[e] /\ e # hand[w].event
  BY DEF Queued, NoJob
<1>3. /\ hand' \in [Workers -> Answered \cup {NoItem}]
      /\ hand'[w] = NoItem /\ \A v \in Workers \ {w} : hand'[v] = hand[v]
      /\ \A v \in Workers : Carried(v)' \subseteq Carried(v)
      /\ \A v \in Workers : \A i \in Carried(v) : i \in Carried(v)' \/ i = hand[w]
      /\ \A e \in Events : Held(e)' => Held(e)
      /\ \A e \in Events : e # hand[w].event => (Held(e) => Held(e)')
      /\ \A e \in Events : Unsettlers(e)' \subseteq Unsettlers(e)
  BY <1>1, HandGoes
<1>4. TypeOK'
  BY <1>1, <1>3 DEF TypeOK
<1>5. DevicesKnown' /\ SendsCurrent' /\ OutboxFitsDevice'
  BY <1>2, StaysFit
<1>6. NothingEarly'
  BY <1>2, <1>3 DEF PushInv, NothingEarly
<1>7. Matching'
  BY <1>1, <1>2, <1>3, ItemRows DEF PushInv, Matching
<1>8. OnePerEvent'
  BY <1>3 DEF PushInv, OnePerEvent
<1>9. AnswersTrue'
  BY <1>3 DEF PushInv, AnswersTrue, NoItem
<1>10. AttemptsPaid'
  <2> SUFFICES ASSUME NEW e \in Events, Queued(e)'
               PROVE  /\ job'[e].attempts <= MaxAttempts + faults
                      /\ job'[e].due \/ ~Leased(e)' => job'[e].attempts < MaxAttempts + faults
    BY DEF AttemptsPaid
  <2>1. Queued(e) /\ job'[e] = job[e] /\ e # hand[w].event
    BY <1>2
  <2>2. Leased(e) => Leased(e)'
    BY <2>1, <1>3 DEF Leased
  <2> QED
    BY <2>1, <2>2 DEF PushInv, AttemptsPaid
<1>11. AlertsPaid'
  <2> SUFFICES ASSUME NEW e \in Events
               PROVE  Alerted(e)'
    BY DEF AlertsPaid
  <2>1. /\ Alerted(e) /\ Unsettlers(e) \in SUBSET Workers /\ Unsettlers(e)' \in SUBSET Workers
        /\ oks[e] \in Nat /\ unheard[e] \in Nat /\ faults \in Nat
    BY <1>1, AlertNumbers DEF PushInv, AlertsPaid, Unsettlers
  <2>2. Open(e)' => Open(e)
    BY <1>2, <1>3 DEF Open
  <2>3. Cardinality(Unsettlers(e)') <= Cardinality(Unsettlers(e))
    BY <1>3, <2>1, Counting
  <2> QED
    BY <2>1, <2>2, <2>3, Counting DEF Alerted
<1>12. AttemptsSpent'
  BY <1>2, NothingSpent, AlertNumbers, PushAssumption DEF PushInv, TypeOK, PushAssumption
<1> QED
  BY <1>4, <1>5, <1>6, <1>7, <1>8, <1>9, <1>10, <1>11, <1>12 DEF PushInv

\* The job of a recorded answer goes.
LEMMA DiscardKeeps ==
    ASSUME PushInv, NEW w \in Workers, Discard(w)
    PROVE  PushInv'
<1>1. TypeOK /\ hand[w] # NoItem
  BY DEF PushInv, Discard, NoItem
<1>2. hand' = [hand EXCEPT ![w] = NoItem] /\ job' = [job EXCEPT ![hand[w].event] = NoJob]
  BY DEF Discard
<1>3. hand[w].event \in Events
  BY <1>1, ItemRows
<1>4. /\ job' \in [Events -> Job \cup {NoJob}]
      /\ job'[hand[w].event] = NoJob
      /\ \A e \in Events : job'[e] = job[e] \/ job'[e] = NoJob
  BY <1>1, <1>2, <1>3 DEF TypeOK
<1>5. \A e \in Events : e = hand[w].event => ~Queued(e)'
  BY <1>4 DEF Queued, NoJob
<1>6. UNCHANGED <<gen, device, tx, batch, dead, oks, unheard, faults, raced>>
  BY DEF Discard
<1> QED
  BY <1>1, <1>2, <1>4, <1>5, <1>6, AnswerEnds

\* The job of the answer is one of its phone's jobs, and all of these go.
LEMMA DropJobsKeeps ==
    ASSUME PushInv, NEW w \in Workers, DropJobs(w)
    PROVE  PushInv'
<1>1. TypeOK /\ hand[w] # NoItem
  BY DEF PushInv, DropJobs, NoItem
<1> DEFINE S == {e \in JobsOf(hand[w].account) : job[e].gen = hand[w].gen}
<1>2. hand' = [hand EXCEPT ![w] = NoItem] /\ job' = Without(S)
  BY DEF DropJobs
<1>3. \A e \in Events : e = hand[w].event /\ Queued(e) => e \in S
  BY <1>1, ItemRows DEF PushInv, Matching, JobsOf
<1> HIDE DEF S
<1>4. /\ job' \in [Events -> Job \cup {NoJob}]
      /\ \A e \in Events : job'[e] = IF e \in S THEN NoJob ELSE job[e]
  BY <1>1, <1>2, Removed
<1>5. \A e \in Events : e = hand[w].event => ~Queued(e)'
  BY <1>3, <1>4 DEF Queued, NoJob
<1>6. UNCHANGED <<gen, device, tx, batch, dead, oks, unheard, faults, raced>>
  BY DEF DropJobs
<1> QED
  BY <1>1, <1>2, <1>4, <1>5, <1>6, AnswerEnds

\* A job that is retried has lost the item that failed.
LEMMA RetryKeeps ==
    ASSUME PushInv, NEW w \in Workers, Retry(w)
    PROVE  PushInv'
<1>1. /\ TypeOK /\ OnePerEvent /\ UNCHANGED batch /\ hand[w] # NoItem
      /\ hand[w].answer = "failed" /\ hand[w].attempts < MaxAttempts
      /\ UNCHANGED <<gen, device, tx, batch, dead, oks, unheard, faults, raced>>
      /\ hand' = [hand EXCEPT ![w] = NoItem]
  BY DEF PushInv, Retry, NoItem
<1>2. PICK x \in Events : x = hand[w].event
  BY <1>1, ItemRows
<1>3. job' = IF Queued(x) THEN [job EXCEPT ![x].due = FALSE] ELSE job
  BY <1>2 DEF Retry
<1>4. Queued(x) => [job[x] EXCEPT !.due = FALSE] \in Job
  BY <1>1, JobRows DEF Job
<1>5. /\ job' \in [Events -> Job \cup {NoJob}]
      /\ \A e \in Events \ {x} : job'[e] = job[e]
      /\ job'[x] = IF Queued(x) THEN [job[x] EXCEPT !.due = FALSE] ELSE job[x]
  BY <1>1, <1>3, <1>4 DEF TypeOK
<1>6. Queued(x) => /\ job'[x].due = FALSE /\ job'[x].queued = TRUE
                   /\ job'[x].attempts = job[x].attempts
                   /\ job'[x].account = job[x].account
                   /\ job'[x].gen = job[x].gen
                   /\ job'[x].conversation = job[x].conversation
  BY <1>1, <1>5, JobRows DEF Job
<1>7. \A e \in Events : Queued(e)' <=> Queued(e)
  BY <1>5, <1>6 DEF Queued
<1>8. /\ hand' \in [Workers -> Answered \cup {NoItem}]
      /\ hand'[w] = NoItem /\ \A v \in Workers \ {w} : hand'[v] = hand[v]
      /\ \A v \in Workers : Carried(v)' \subseteq Carried(v)
      /\ \A v \in Workers : \A i \in Carried(v) : i \in Carried(v)' \/ i = hand[w]
      /\ \A e \in Events : Held(e)' => Held(e)
      /\ \A e \in Events : e # x => (Held(e) => Held(e)')
      /\ \A e \in Events : Unsettlers(e)' \subseteq Unsettlers(e)
      /\ w \in Unsettlers(x)
      /\ Unsettlers(x)' \subseteq Unsettlers(x) \ {w}
  BY <1>1, <1>2, HandGoes
<1>9. TypeOK'
  BY <1>1, <1>5, <1>8 DEF TypeOK
<1>10. \A e \in Events : Queued(e)' =>
                /\ Queued(e)
                /\ job'[e].account = job[e].account
                /\ job'[e].gen = job[e].gen
                /\ job'[e].conversation = job[e].conversation
  BY <1>5, <1>6, <1>7
<1>11. DevicesKnown' /\ SendsCurrent' /\ OutboxFitsDevice'
  BY <1>1, <1>10, StaysFit
<1>12. NothingEarly'
  BY <1>1, <1>7, <1>8 DEF PushInv, NothingEarly
<1>13. Matching'
  BY <1>1, <1>8, <1>10, ItemRows DEF PushInv, Matching
<1>14. OnePerEvent' /\ AnswersTrue'
  BY <1>1, <1>8 DEF PushInv, OnePerEvent, AnswersTrue, NoItem
<1>15. AttemptsPaid'
  <2> SUFFICES ASSUME NEW e \in Events, Queued(e)'
               PROVE  /\ job'[e].attempts <= MaxAttempts + faults
                      /\ job'[e].due \/ ~Leased(e)' => job'[e].attempts < MaxAttempts + faults
    BY <1>1 DEF AttemptsPaid
  <2>1. Queued(e)
    BY <1>7
  <2>2. CASE e = x
    <3>1. job'[e].due = FALSE /\ job'[e].attempts = job[e].attempts
      BY <2>1, <2>2, <1>6
    <3>2. job[e].attempts <= MaxAttempts + faults
      BY <2>1 DEF PushInv, AttemptsPaid
    <3>3. CASE job[e].attempts = hand[w].attempts
      <4>1. hand[w].attempts \in Nat /\ faults \in Nat /\ MaxAttempts \in Nat
        BY <1>1, AttemptNumbers, AlertNumbers, ItemRows
      <4>2. hand[w].attempts < MaxAttempts + faults
        BY <4>1, <1>1
      <4> QED
        BY <3>1, <3>2, <3>3, <4>2
    <3>4. CASE job[e].attempts # hand[w].attempts
      <4>1. Leased(e) => Leased(e)'
        BY <3>1, <3>4, <1>8 DEF Leased
      <4> QED
        BY <3>1, <3>2, <4>1, <2>1 DEF PushInv, AttemptsPaid
    <3> QED
      BY <3>3, <3>4
  <2>3. CASE e # x
    <3>1. job'[e] = job[e]
      BY <2>3, <1>5
    <3>2. Leased(e) => Leased(e)'
      BY <3>1, <2>3, <1>2, <1>8 DEF Leased
    <3> QED
      BY <2>1, <3>1, <3>2 DEF PushInv, AttemptsPaid
  <2> QED
    BY <2>2, <2>3
<1>16. AlertsPaid'
  <2> SUFFICES ASSUME NEW e \in Events
               PROVE  Alerted(e)'
    BY DEF AlertsPaid
  <2>1. /\ Alerted(e) /\ Unsettlers(e) \in SUBSET Workers /\ Unsettlers(e)' \in SUBSET Workers
        /\ oks[e] \in Nat /\ unheard[e] \in Nat /\ faults \in Nat
    BY <1>1, AlertNumbers DEF PushInv, AlertsPaid, Unsettlers
  <2>2. CASE e = x
    <3>1. Cardinality(Unsettlers(e)') <= Cardinality(Unsettlers(e)) - 1
      BY <2>1, <2>2, <1>8, Counting
    <3> QED
      BY <2>1, <3>1, <1>1, Counting DEF Alerted
  <2>3. CASE e # x
    <3>1. Open(e)' => Open(e)
      BY <2>3, <1>5, <1>7, <1>8 DEF Open
    <3>2. Cardinality(Unsettlers(e)') <= Cardinality(Unsettlers(e))
      BY <2>1, <1>8, Counting
    <3> QED
      BY <2>1, <3>1, <3>2, <1>1, Counting DEF Alerted
  <2> QED
    BY <2>2, <2>3
<1>17. AttemptsSpent'
  <2>1. \A e \in Events : Queued(e)' => Queued(e) /\ job'[e].attempts = job[e].attempts
    BY <1>5, <1>6, <1>7
  <2> QED
    BY <2>1, <1>1, NothingSpent, AlertNumbers, PushAssumption DEF PushInv, TypeOK, PushAssumption
<1> QED
  BY <1>9, <1>11, <1>12, <1>13, <1>14, <1>15, <1>16, <1>17 DEF PushInv

\* A row that goes fits every job.
LEMMA DropDeviceKeeps ==
    ASSUME PushInv, NEW w \in Workers, DropDevice(w)
    PROVE  PushInv'
<1>1. /\ TypeOK /\ hand[w] # NoItem /\ hand[w].answer = "not-registered"
      /\ UNCHANGED <<gen, tx, job, batch, dead, oks, unheard, faults, raced>>
  BY DEF PushInv, DropDevice, NoItem
<1>2. hand[w] \in Answered
  BY <1>1, ItemRows
<1>3. PICK h : h = [hand[w] EXCEPT !.answer = "dropped"]
  OBVIOUS
<1>4. /\ h \in Answered /\ h.answer = "dropped" /\ h.event = hand[w].event
      /\ h.account = hand[w].account /\ h.gen = hand[w].gen /\ h.attempts = hand[w].attempts
      /\ h.token = hand[w].token
  BY <1>2, <1>3 DEF Answered
<1>5. h # NoItem
  BY <1>4 DEF NoItem
<1>6. hand' = [hand EXCEPT ![w] = h]
  BY <1>3 DEF DropDevice
<1>7. /\ hand' \in [Workers -> Answered \cup {NoItem}]
      /\ hand'[w] = h /\ \A v \in Workers \ {w} : hand'[v] = hand[v]
  BY <1>1, <1>4, <1>6 DEF TypeOK
<1>8. /\ device' \in [Accounts -> Device \cup {NoDevice}]
      /\ \A a \in Accounts : device'[a] = device[a] \/ device'[a] = NoDevice
  BY <1>1 DEF DropDevice, TypeOK
<1>9. TypeOK'
  BY <1>1, <1>7, <1>8 DEF TypeOK
<1>10. \A a \in Accounts : device'[a].gen # 0 => device'[a] = device[a]
  BY <1>8 DEF NoDevice
<1>11. \A a \in Accounts : gen[a] # 0 /\ gen[a] \in Nat
  BY <1>1, DeviceRows
<1>12. DevicesKnown'
  BY <1>1, <1>8, <1>11 DEF PushInv, DevicesKnown, NoDevice
<1>13. SendsCurrent'
  <2> SUFFICES ASSUME NEW e \in Events, tx[e].status = "open"
               PROVE  /\ tx[e].gen = gen[tx[e].account]
                      /\ tx[e].alert /\ e \notin raced /\ device'[tx[e].account].gen = tx[e].gen
                           => EventKey(tx[e].conversation) \notin device'[tx[e].account].muted
    BY <1>1 DEF SendsCurrent
  <2>1. tx[e].account \in Accounts /\ tx[e].gen = gen[tx[e].account]
    BY <1>1 DEF PushInv, SendsCurrent, TypeOK, Tx, NoTx
  <2>2. device'[tx[e].account].gen = tx[e].gen => device'[tx[e].account] = device[tx[e].account]
    BY <2>1, <1>10, <1>11
  <2> QED
    BY <2>1, <2>2 DEF PushInv, SendsCurrent
<1>14. \A e \in Events : Queued(e)' = Queued(e)
  BY <1>1 DEF Queued
<1>15. \A e \in Events : Queued(e) => job[e].account \in Accounts /\ job[e].gen # 0
  <2> SUFFICES ASSUME NEW e \in Events, Queued(e)
               PROVE  job[e].account \in Accounts /\ job[e].gen # 0
    OBVIOUS
  <2>1. job[e].account \in Accounts /\ job[e].gen \in 1..MaxGeneration
    BY <1>1, JobRows DEF Job, Generations
  <2> QED
    BY <2>1, PushAssumption DEF PushAssumption
<1>16. OneGeneration'
  BY <1>1, <1>10, <1>11, <1>14, <1>15 DEF PushInv, OutboxFitsDevice, OneGeneration
<1>17. MutedOnlyByRace'
  <2> SUFFICES ASSUME NEW e \in Events, Queued(e), device'[job[e].account].gen = job[e].gen,
                      EventKey(job[e].conversation) \in device'[job[e].account].muted
               PROVE  e \in raced
    BY <1>1, <1>14 DEF MutedOnlyByRace
  <2>1. device'[job[e].account] = device[job[e].account]
    BY <1>10, <1>15
  <2> QED
    BY <2>1 DEF PushInv, OutboxFitsDevice, MutedOnlyByRace
<1>18. /\ Carried(w) = batch[w] \cup {hand[w]} /\ Carried(w)' = batch[w] \cup {h}
       /\ \A v \in Workers \ {w} : Carried(v)' = Carried(v)
  BY <1>1, <1>5, <1>7 DEF Carried
<1>19. \A v \in Workers : \A j \in Carried(v)' : \E k \in Carried(v) :
               /\ k.event = j.event /\ k.account = j.account
               /\ k.gen = j.gen /\ k.attempts = j.attempts
  BY <1>4, <1>18
<1>20. \A v \in Workers : \A k \in Carried(v) : \E j \in Carried(v)' :
               k.event = j.event /\ k.attempts = j.attempts
  BY <1>4, <1>18
<1>21. Matching' /\ AttemptsPaid' /\ \A e \in Events : Held(e)' <=> Held(e)
  BY <1>1, <1>19, <1>20, CarriedSame
<1>22. NothingEarly'
  BY <1>1, <1>14, <1>21 DEF PushInv, NothingEarly
<1>23. OnePerEvent'
  BY <1>1, <1>4, <1>7 DEF PushInv, OnePerEvent
<1>24. AnswersTrue'
  BY <1>1, <1>4, <1>7 DEF PushInv, AnswersTrue
<1>25. AlertsPaid'
  <2> SUFFICES ASSUME NEW e \in Events
               PROVE  Alerted(e)'
    BY DEF AlertsPaid
  <2>1. \A v \in Workers : Unsettled(v, e)' <=> Unsettled(v, e)
    BY <1>1, <1>4, <1>5, <1>7 DEF Unsettled
  <2>2. Unsettlers(e)' = Unsettlers(e)
    BY <2>1 DEF Unsettlers
  <2>3. Open(e)' <=> Open(e)
    BY <1>1, <1>14, <1>21 DEF Open
  <2> QED
    BY <2>2, <2>3, <1>1 DEF PushInv, AlertsPaid, Alerted
<1>26. AttemptsSpent'
  BY <1>1, NothingSpent, AlertNumbers, PushAssumption DEF PushInv, TypeOK, PushAssumption, Queued
<1> QED
  BY <1>9, <1>12, <1>13, <1>16, <1>17, <1>21, <1>22, <1>23, <1>24, <1>25, <1>26 DEF PushInv, OutboxFitsDevice

\* A stop loses items, and is counted.
LEMMA StopKeeps ==
    ASSUME PushInv, NEW w \in Workers, Stop(w)
    PROVE  PushInv'
<1>1. TypeOK /\ UNCHANGED <<gen, device, tx, job, dead, oks, unheard, raced>>
  BY DEF PushInv, Stop
<1>2. faults' = faults + 1 /\ faults' \in 0..MaxFaults /\ faults \in Nat
  BY <1>1, AttemptNumbers DEF Stop, TypeOK
<1>3. /\ batch' \in [Workers -> SUBSET Item] /\ batch'[w] = {}
      /\ \A v \in Workers \ {w} : batch'[v] = batch[v]
      /\ hand' \in [Workers -> Answered \cup {NoItem}] /\ hand'[w] = NoItem
      /\ \A v \in Workers \ {w} : hand'[v] = hand[v]
  BY <1>1 DEF Stop, TypeOK
<1>4. TypeOK'
  BY <1>1, <1>2, <1>3 DEF TypeOK
<1>5. Carried(w)' = {} /\ \A v \in Workers \ {w} : Carried(v)' = Carried(v)
  BY <1>3 DEF Carried
<1>6. \A e : Held(e)' <=> \E v \in Workers : \E i \in Carried(v)' : i.event = e
  BY DEF Held, Carried
<1>7. \A e \in Events : Held(e)' => Held(e)
  BY <1>5, <1>6, HeldCarried
<1>8. DevicesKnown' /\ SendsCurrent' /\ OutboxFitsDevice'
  BY <1>1, StaysFit DEF Queued
<1>9. NothingEarly'
  BY <1>1, <1>7 DEF PushInv, NothingEarly, Queued
<1>10. Matching'
  BY <1>1, <1>5 DEF PushInv, Matching, Queued
<1>11. OnePerEvent' /\ AnswersTrue'
  BY <1>1, <1>3 DEF PushInv, OnePerEvent, AnswersTrue, NoItem
<1>12. AttemptsPaid'
  <2> SUFFICES ASSUME NEW e \in Events, Queued(e)
               PROVE  job[e].attempts < MaxAttempts + faults'
    <3>1. \A e \in Events : Queued(e)' = Queued(e) /\ job'[e] = job[e]
      BY <1>1 DEF Queued
    <3>2. \A e \in Events : Queued(e) => job[e].attempts \in Nat
      BY <1>1, JobRows, AttemptNumbers DEF Job
    <3> QED
      BY <3>1, <3>2, <1>2, AttemptNumbers DEF AttemptsPaid
  <2>1. job[e].attempts <= MaxAttempts + faults
    BY DEF PushInv, AttemptsPaid
  <2>2. job[e].attempts \in Nat
    BY <1>1, JobRows, AttemptNumbers DEF Job
  <2> QED
    BY <2>1, <2>2, <1>2, AttemptNumbers
<1>13. AlertsPaid'
  <2> SUFFICES ASSUME NEW e \in Events
               PROVE  Alerted(e)'
    BY DEF AlertsPaid
  <2>1. /\ Alerted(e) /\ Unsettlers(e) \in SUBSET Workers /\ Unsettlers(e)' \in SUBSET Workers
        /\ oks[e] \in Nat /\ unheard[e] \in Nat
    BY <1>1, AlertNumbers DEF PushInv, AlertsPaid, Unsettlers
  <2>2. \A v \in Workers : Unsettled(v, e)' => Unsettled(v, e)
    BY <1>3 DEF Unsettled
  <2>3. Cardinality(Unsettlers(e)') <= Cardinality(Unsettlers(e))
    BY <2>1, <2>2, Counting DEF Unsettlers
  <2> QED
    BY <2>1, <2>3, <1>1, <1>2, Counting DEF Alerted
<1>14. AttemptsSpent'
  BY <1>1, <1>2, <1>3, NothingSpent DEF Queued
<1> QED
  BY <1>4, <1>8, <1>9, <1>10, <1>11, <1>12, <1>13, <1>14 DEF PushInv

\* The delay of a job ends, and whoever holds it has one fault more to answer for.
LEMMA DelayEnds ==
    ASSUME PushInv, NEW x \in Events, Queued(x),
           job' = [job EXCEPT ![x].due = TRUE],
           UNCHANGED <<gen, device, tx, batch, hand, dead, oks, unheard, raced>>,
           \/ ~Held(x) /\ faults' = faults
           \/ faults < MaxFaults /\ faults' = faults + 1
    PROVE  PushInv'
<1>1. TypeOK
  BY DEF PushInv
<1>2. faults' \in 0..MaxFaults /\ faults \in Nat /\ faults' \in Nat /\ faults <= faults'
  BY <1>1, AttemptNumbers DEF TypeOK
<1>3. [job[x] EXCEPT !.due = TRUE] \in Job
  BY <1>1, JobRows DEF Job
<1>4. /\ job' \in [Events -> Job \cup {NoJob}]
      /\ \A e \in Events \ {x} : job'[e] = job[e]
      /\ job'[x] = [job[x] EXCEPT !.due = TRUE]
  BY <1>1, <1>3 DEF TypeOK
<1>5. /\ job'[x].due = TRUE /\ job'[x].queued = TRUE
      /\ job'[x].attempts = job[x].attempts
      /\ job'[x].account = job[x].account
      /\ job'[x].gen = job[x].gen
      /\ job'[x].conversation = job[x].conversation
  BY <1>1, <1>4, JobRows DEF Job
<1>6. \A e \in Events : Queued(e)' <=> Queued(e)
  BY <1>4, <1>5 DEF Queued
<1>7. /\ \A w \in Workers : Carried(w)' = Carried(w)
      /\ \A e \in Events : Held(e)' = Held(e) /\ Unsettlers(e)' = Unsettlers(e)
  BY SameHands
<1>8. TypeOK'
  BY <1>1, <1>2, <1>4 DEF TypeOK
<1>9. \A e \in Events : Queued(e)' =>
                /\ Queued(e)
                /\ job'[e].account = job[e].account
                /\ job'[e].gen = job[e].gen
                /\ job'[e].conversation = job[e].conversation
  BY <1>4, <1>5, <1>6
<1>10. DevicesKnown' /\ SendsCurrent' /\ OutboxFitsDevice'
  BY <1>9, StaysFit
<1>11. NothingEarly'
  BY <1>6, <1>7 DEF PushInv, NothingEarly
<1>12. Matching'
  BY <1>1, <1>7, <1>9, ItemRows DEF PushInv, Matching
<1>13. OnePerEvent' /\ AnswersTrue'
  BY DEF PushInv, OnePerEvent, AnswersTrue
<1>14. \A e \in Events : Queued(e) => job[e].attempts \in Nat
  BY <1>1, JobRows, AttemptNumbers DEF Job
<1>15. AttemptsPaid'
  <2> SUFFICES ASSUME NEW e \in Events, Queued(e)'
               PROVE  /\ job'[e].attempts <= MaxAttempts + faults'
                      /\ job'[e].due \/ ~Leased(e)' => job'[e].attempts < MaxAttempts + faults'
    BY DEF AttemptsPaid
  <2>1. /\ Queued(e) /\ job'[e].attempts = job[e].attempts /\ job[e].attempts \in Nat
        /\ MaxAttempts \in Nat
    BY <1>4, <1>5, <1>6, <1>14, AttemptNumbers
  <2>2. /\ job[e].attempts <= MaxAttempts + faults
        /\ job[e].due \/ ~Leased(e) => job[e].attempts < MaxAttempts + faults
    BY <2>1 DEF PushInv, AttemptsPaid
  <2>3. CASE e = x
    <3>1. CASE ~Held(x) /\ faults' = faults
      <4>1. ~Leased(e)
        BY <2>3, <3>1, HeldCarried DEF Leased
      <4> QED
        BY <4>1, <2>1, <2>2, <3>1
    <3>2. CASE faults' = faults + 1
      BY <3>2, <2>1, <2>2, <1>2
    <3> QED
      BY <3>1, <3>2
  <2>4. CASE e # x
    <3>1. job'[e] = job[e] /\ (Leased(e)' <=> Leased(e))
      BY <2>4, <1>4, <1>7 DEF Leased
    <3>2. job[e].attempts <= MaxAttempts + faults'
      BY <2>1, <2>2, <1>2
    <3>3. job[e].due \/ ~Leased(e) => job[e].attempts < MaxAttempts + faults'
      BY <2>1, <2>2, <1>2
    <3> QED
      BY <3>1, <3>2, <3>3
  <2> QED
    BY <2>3, <2>4
<1>16. AlertsPaid'
  <2> SUFFICES ASSUME NEW e \in Events
               PROVE  Alerted(e)'
    BY DEF AlertsPaid
  <2>1. /\ Alerted(e) /\ oks[e] \in Nat /\ unheard[e] \in Nat /\ Cardinality(Unsettlers(e)) \in Nat
    BY <1>1, AlertNumbers DEF PushInv, AlertsPaid
  <2>2. CASE e = x /\ ~Held(x) /\ faults' = faults
    <3>1. Open(e)
      BY <2>2 DEF Open
    <3>2. oks[e] + Cardinality(Unsettlers(e)) + 1 <= 1 + unheard[e] + faults
      BY <3>1, <2>1 DEF Alerted
    <3>3. oks[e]' = oks[e] /\ unheard[e]' = unheard[e]
          /\ Cardinality(Unsettlers(e))' = Cardinality(Unsettlers(e))
      BY <1>7
    <3> QED
      BY <3>2, <3>3, <2>1, <2>2, <1>2 DEF Alerted
  <2>3. CASE e = x /\ faults' = faults + 1
    BY <2>1, <2>3, <1>2, <1>7 DEF Alerted
  <2>4. CASE e # x
    <3>1. Open(e)' <=> Open(e)
      BY <2>4, <1>4, <1>6, <1>7 DEF Open
    <3> QED
      BY <3>1, <2>1, <1>2, <1>7 DEF Alerted
  <2> QED
    BY <2>2, <2>3, <2>4
<1>17. AttemptsSpent'
  BY <1>2, <1>4, <1>5, <1>6, NothingSpent
<1> QED
  BY <1>8, <1>10, <1>11, <1>12, <1>13, <1>15, <1>16, <1>17 DEF PushInv

\* A delay ends for nothing, a lease in use for one fault.
LEMMA BecomeDueKeeps ==
    ASSUME PushInv, NEW e \in Events, BecomeDue(e) \/ Lapse(e)
    PROVE  PushInv'
<1>1. CASE BecomeDue(e)
  BY <1>1, DelayEnds DEF BecomeDue
<1>2. CASE Lapse(e)
  BY <1>2, DelayEnds DEF Lapse
<1> QED
  BY <1>1, <1>2

\* Only tokens die.
LEMMA RetireKeeps ==
    ASSUME PushInv, NEW t \in Tokens, Retire(t)
    PROVE  PushInv'
<1>1. TypeOK /\ UNCHANGED <<gen, device, tx, job, batch, hand, oks, unheard, faults, raced>>
  BY DEF PushInv, Retire
<1>2. TypeOK'
  BY <1>1 DEF TypeOK, Retire
<1>3. DevicesKnown' /\ SendsCurrent' /\ OutboxFitsDevice'
  BY <1>1, StaysFit DEF Queued
<1>4. Matching' /\ OnePerEvent' /\ NothingEarly' /\ AttemptsPaid' /\ AlertsPaid' /\ AttemptsSpent'
  BY <1>1, JobsGo DEF TypeOK
<1>5. AnswersTrue'
  BY <1>1 DEF PushInv, AnswersTrue, Retire
<1> QED
  BY <1>2, <1>3, <1>4, <1>5 DEF PushInv

-----------------------------------------------------------------------------
(* The specification *)

\* Nothing is registered and nothing queued.
LEMMA PushInit == Init => PushInv
<1> SUFFICES ASSUME Init PROVE PushInv
  OBVIOUS
<1>1. TypeOK
  BY PushAssumption, AttemptNumbers DEF Init, TypeOK, Generations, PushAssumption
<1>2. \A e \in Events : ~Queued(e) /\ ~Held(e) /\ oks[e] = 0
  BY DEF Init, Queued, Held, NoJob
<1>3. \A w \in Workers : batch[w] = {} /\ hand[w] = NoItem /\ Carried(w) = {}
  BY DEF Init, Carried
<1>4. DevicesKnown /\ SendsCurrent /\ NothingEarly
  BY <1>2 DEF Init, DevicesKnown, SendsCurrent, NothingEarly, NoDevice, NoTx
<1>5. Matching /\ OnePerEvent /\ AnswersTrue
  BY <1>3 DEF Matching, OnePerEvent, AnswersTrue, NoItem
<1>6. AttemptsPaid /\ OutboxFitsDevice
  BY <1>2 DEF AttemptsPaid, OutboxFitsDevice, OneGeneration, MutedOnlyByRace
<1>7. AlertsPaid
  <2> SUFFICES ASSUME NEW e \in Events
               PROVE  Alerted(e)
    BY DEF AlertsPaid
  <2>1. /\ Cardinality(Unsettlers(e)) = 0 /\ faults = 0 /\ ~Open(e)
        /\ oks[e] = 0 /\ unheard[e] = 0
    BY <1>1, <1>2, AlertNumbers DEF Init, Open
  <2> QED
    BY <2>1 DEF Alerted
<1>8. AttemptsSpent
  <2> SUFFICES ASSUME NEW e \in Events
               PROVE  Costs(e)
    BY DEF AttemptsSpent
  <2>1. Senders(e) = {} /\ Senders(e) \in SUBSET Workers
    BY <1>3 DEF Senders
  <2>2. Cardinality(Senders(e)) = 0 /\ oks[e] = 0 /\ faults = 0 /\ ~Queued(e)
    BY <2>1, <1>2, Counting DEF Init
  <2> QED
    BY <2>2, AttemptNumbers DEF Costs
<1> QED
  BY <1>1, <1>4, <1>5, <1>6, <1>7, <1>8 DEF PushInv

\* Every step keeps the invariant.
LEMMA PushNext == PushInv /\ [Next]_vars => PushInv'
<1> SUFFICES ASSUME PushInv, [Next]_vars PROVE PushInv'
  OBVIOUS
<1>1. CASE UNCHANGED vars
  <2>1. UNCHANGED <<gen, device, tx, job, batch, hand, dead, oks, unheard, faults, raced>>
    BY <1>1 DEF vars
  <2>2. TypeOK'
    BY <2>1 DEF PushInv, TypeOK
  <2>3. DevicesKnown' /\ SendsCurrent' /\ OutboxFitsDevice'
    BY <2>1, StaysFit DEF Queued
  <2>4. Matching' /\ OnePerEvent' /\ NothingEarly' /\ AttemptsPaid' /\ AlertsPaid' /\ AttemptsSpent'
    BY <2>1, <2>2, JobsGo DEF TypeOK
  <2>5. AnswersTrue'
    BY <2>1 DEF PushInv, AnswersTrue
  <2> QED
    BY <2>2, <2>3, <2>4, <2>5 DEF PushInv
<1>2. ASSUME NEW a \in Accounts, Phone(a)
      PROVE  PushInv'
  BY <1>2, VerifyKeeps, RegisterKeeps, UnregisterKeeps, UpdatePreferencesKeeps DEF Phone
<1>3. ASSUME NEW w \in Workers, Dispatch(w) \/ Stop(w)
      PROVE  PushInv'
  BY <1>3, ClaimKeeps, SendKeeps, DiscardKeeps, RetryKeeps, DropDeviceKeeps, DropJobsKeeps,
     StopKeeps DEF Dispatch
<1>4. ASSUME NEW e \in Events, CommitSend(e) \/ BecomeDue(e) \/ Lapse(e)
      PROVE  PushInv'
  BY <1>4, CommitSendKeeps, BecomeDueKeeps
<1> QED
  BY <1>1, <1>2, <1>3, <1>4, QueueRecipientKeeps, RetireKeeps DEF Next

\* The outbox, the device rows and what the dispatchers carry always agree.
THEOREM PushAlways == Spec => []PushInv
BY PushInit, PushNext, PTL DEF Spec

\* An alert is for the phone that is registered, a muted conversation alerts only
\* through a race with the mute, an event alerts twice only after an accepted
\* alert was answered as failed or a dispatcher stopped or lost its lease, and an
\* event costs no more alerts than attempts and faults: for any number of
\* accounts, dispatchers, tokens and events.
THEOREM AlertsAlwaysFit == Spec => []AlertsFit
<1>1. PushInv => AlertsFit
  <2> SUFFICES ASSUME PushInv PROVE NoSpareAlert /\ AlertsBounded
    BY DEF PushInv, AlertsFit
  <2> SUFFICES ASSUME NEW e \in Events
               PROVE  oks[e] <= 1 + unheard[e] + faults /\ oks[e] <= MaxAttempts + faults
    BY DEF NoSpareAlert, AlertsBounded
  <2>1. /\ Alerted(e) /\ oks[e] \in Nat /\ unheard[e] \in Nat /\ faults \in Nat
        /\ Cardinality(Unsettlers(e)) \in Nat
    BY AlertNumbers DEF PushInv, AlertsPaid
  <2>2. Costs(e) /\ Senders(e) \in SUBSET Workers
    BY DEF PushInv, AttemptsSpent, Senders
  <2>3. oks[e] <= 1 + unheard[e] + faults
    BY <2>1 DEF Alerted
  <2>4. oks[e] <= MaxAttempts + faults
    BY <2>1, <2>2, Counting, AttemptNumbers DEF Costs
  <2> QED
    BY <2>3, <2>4
<1> QED
  BY <1>1, PushAlways, PTL

\* A late answer about a token never takes the row of a phone that Expo delivers
\* to, however the phone's requests and the dispatchers interleave.
THEOREM LiveTokensStay == Spec => LiveTokenKept
<1>1. ASSUME PushInv, NEW w \in Workers, NEW a \in Accounts,
             DropDevice(w), device[a] # NoDevice, device[a].token \notin dead
      PROVE  device'[a] = device[a]
  <2>1. TypeOK /\ hand[w].answer = "not-registered" /\ hand[w].token \in dead
    BY <1>1 DEF PushInv, AnswersTrue, DropDevice
  <2>2. CASE a = hand[w].account
    BY <2>1, <2>2, <1>1 DEF DropDevice
  <2>3. CASE a # hand[w].account
    BY <2>1, <2>3, <1>1 DEF DropDevice, TypeOK
  <2> QED
    BY <2>2, <2>3
<1>2. PushInv /\ [Next]_vars =>
        [\A w \in Workers, a \in Accounts :
            DropDevice(w) /\ device[a] # NoDevice /\ device[a].token \notin dead
                => device'[a] = device[a]]_vars
  BY <1>1
<1> QED
  BY <1>2, PushAlways, PTL DEF Spec, LiveTokenKept
=============================================================================
