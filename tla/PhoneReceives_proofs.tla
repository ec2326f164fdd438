------------------------ MODULE PhoneReceives_proofs ------------------------
(***************************************************************************)
(* Proofs about what a phone has and receives, component by component: an   *)
(* inductive invariant of each, that its steps keep it, and at the end the    *)
(* theorems of the whole.                                                   *)
(***************************************************************************)
EXTENDS PhoneReceives, FiniteSetTheorems, FunctionTheorems, SequenceTheorems, WellFoundedInduction, TLAPS

-----------------------------------------------------------------------------
(* PART 1.  The calls of the service.  The inductive invariant: the answer    *)
(* on its way is true, as is what the caller was told.                       *)

Garbled == {"nothing", "page", "error page"}

OnItsWay == /\ serviceAnswer = "ok" => acted
            /\ serviceAnswer \in Call!Refusals(api) => refused
            /\ serviceAnswer \in Garbled \cup {Call!Waiting, "ok"} \cup api.known
CallInv == Call!CallTypeOK /\ OnItsWay /\ Call!AnswersBelong

\* The codes that an API makes up are none of its refusals.
LEMMA MadeUp ==
    ASSUME NEW of \in Call!APIs
    PROVE  /\ {"nothing", "page", "error page", "waiting", "ok", "none"} \cap Call!Refusals(of) = {}
           /\ {"NETWORK", "INVALID_RESPONSE", of.unread} \cap (Call!Refusals(of) \cup {"ok"}) = {}
           /\ of.changed # "" => {of.gone, of.changed} \cap (Call!Refusals(of) \cup {"ok"}) = {}
           /\ "ok" \notin of.known
<1> USE DEF Call!API, Call!Common, Call!Refusals, Call!Unsure
<1>1. CASE of = Call!AuthRequest
  BY <1>1 DEF Call!AuthRequest
<1>2. CASE of = Call!MessageRequest
  BY <1>2 DEF Call!MessageRequest
<1>3. CASE of = Call!CircleMediaRequest
  BY <1>3 DEF Call!CircleMediaRequest
<1>4. CASE of = Call!SocialRequest
  BY <1>4 DEF Call!SocialRequest
<1>5. CASE of = Call!NotificationRequest
  BY <1>5 DEF Call!NotificationRequest
<1>6. CASE of = Call!ReportRequest
  BY <1>6 DEF Call!ReportRequest
<1>7. CASE of = Call!KeyRequest
  BY <1>7 DEF Call!KeyRequest
<1>8. CASE of = Call!DriveRequest
  BY <1>8 DEF Call!DriveRequest
<1> QED
  BY <1>1, <1>2, <1>3, <1>4, <1>5, <1>6, <1>7, <1>8 DEF Call!APIs, Call!PrivateMediaRequest

LEMMA CallInitInv ==
    ASSUME MaxCalls \in Nat, NEW apis \in SUBSET Call!APIs, NEW signedIn \in SUBSET Sessions, Call!CallInit(apis, signedIn)
    PROVE  CallInv
<1>1. api \in Call!APIs /\ serviceAnswer = "nothing" /\ serviceTold = Call!Nothing
  BY DEF Call!CallInit
<1>2. "nothing" \notin Call!Refusals(api) /\ "none" \notin Call!Refusals(api)
  BY <1>1, MadeUp
<1> QED
  BY <1>1, <1>2 DEF Call!CallInit, CallInv, Call!CallTypeOK, OnItsWay, Call!AnswersBelong, Call!Nothing, Garbled

\* An answer that the caller is told as it is was read for the session it is in.
LEMMA ReadTrue ==
    ASSUME CallInv, Call!Read(api) \in Call!Refusals(api) \cup {"ok"}
    PROVE  Call!Read(api) = serviceAnswer /\ (api.changed = "" \/ session = asked)
<1>1. api \in Call!APIs
  BY DEF CallInv, Call!CallTypeOK
<1> HIDE DEF CallInv
<1>2. CASE serviceAnswer = "nothing"
  BY <1>1, <1>2, MadeUp DEF Call!Read
<1>3. CASE serviceAnswer # "nothing" /\ api.changed # "" /\ session = Gone
  BY <1>1, <1>3, MadeUp DEF Call!Read
<1>4. CASE serviceAnswer # "nothing" /\ api.changed # "" /\ session # Gone /\ session # asked
  BY <1>1, <1>4, MadeUp DEF Call!Read
<1>5. CASE serviceAnswer # "nothing" /\ (api.changed = "" \/ (session = asked /\ session # Gone))
  <2>1. Call!Read(api) = CASE serviceAnswer = "page" -> "INVALID_RESPONSE" [] serviceAnswer = "error page" -> api.unread [] OTHER -> serviceAnswer
    BY <1>5 DEF Call!Read
  <2> QED  BY <1>1, <1>5, <2>1, MadeUp
<1> QED  BY <1>2, <1>3, <1>4, <1>5

LEMMA TakeInv == ASSUME CallInv, Call!Take PROVE CallInv'
<1>1. /\ serviceTold' = [code |-> Call!Read(api), own |-> api.changed = "" \/ session = asked]
      /\ asked' = Gone /\ serviceAnswer' = "nothing" /\ UNCHANGED <<session, api, acted, refused, calls>>
  BY DEF Call!Take
<1>2. Call!CallTypeOK'
  BY <1>1 DEF CallInv, Call!CallTypeOK
<1>3. OnItsWay'
  BY <1>1, MadeUp DEF CallInv, Call!CallTypeOK, OnItsWay, Garbled
<1>4. serviceTold'.code = Call!Read(api) /\ serviceTold'.own = (api.changed = "" \/ session = asked)
  BY <1>1
<1>5. CASE Call!Read(api) \in Call!Refusals(api)
  <2>1. serviceTold'.own /\ serviceAnswer \in Call!Refusals(api)
    BY <1>4, <1>5, ReadTrue
  <2>2. refused'
    BY <1>1, <2>1 DEF CallInv, OnItsWay
  <2>3. serviceTold'.code # "ok"
    BY <1>4, <1>5, MadeUp DEF CallInv, Call!CallTypeOK
  <2> QED  BY <1>2, <1>3, <2>1, <2>2, <2>3 DEF CallInv, Call!AnswersBelong
<1>6. CASE Call!Read(api) = "ok"
  <2>1. serviceTold'.own /\ acted'
    BY <1>1, <1>4, <1>6, ReadTrue DEF CallInv, OnItsWay
  <2>2. serviceTold'.code \notin Call!Refusals(api)'
    BY <1>1, <1>4, <1>6, MadeUp DEF CallInv, Call!CallTypeOK
  <2> QED  BY <1>2, <1>3, <2>1, <2>2 DEF CallInv, Call!AnswersBelong
<1>7. CASE Call!Read(api) \notin Call!Refusals(api) \cup {"ok"}
  BY <1>1, <1>2, <1>3, <1>4, <1>7 DEF CallInv, Call!AnswersBelong, Call!Refusals
<1> QED  BY <1>5, <1>6, <1>7

LEMMA CallNextInv == ASSUME MaxCalls \in Nat, CallInv, [Call!CallNext]_(Call!callVars) PROVE CallInv'
<1>1. CASE Call!Call
  <2>1. api \in Call!APIs /\ "waiting" \notin Call!Refusals(api)
    BY MadeUp DEF CallInv, Call!CallTypeOK
  <2> QED  BY <1>1, <2>1 DEF Call!Call, CallInv, Call!CallTypeOK, OnItsWay, Call!AnswersBelong, Call!Waiting
<1>2. CASE Call!Act
  BY <1>2, MadeUp DEF Call!Act, CallInv, Call!CallTypeOK, OnItsWay, Call!AnswersBelong, Call!Waiting, Call!Refusals
<1>3. CASE Call!Refuse
  BY <1>3, MadeUp DEF Call!Refuse, CallInv, Call!CallTypeOK, OnItsWay, Call!AnswersBelong, Call!Waiting, Call!Refusals
<1>4. CASE Call!Distort
  BY <1>4, MadeUp DEF Call!Distort, CallInv, Call!CallTypeOK, OnItsWay, Call!AnswersBelong, Garbled, Call!Refusals
<1>5. CASE Call!Take
  BY <1>5, TakeInv
<1>6. CASE Call!ActLate
  BY <1>6, MadeUp DEF Call!ActLate, CallInv, Call!CallTypeOK, OnItsWay, Call!AnswersBelong, Call!Refusals
<1>7. CASE Call!ChangeSession
  BY <1>7 DEF Call!ChangeSession, CallInv, Call!CallTypeOK, OnItsWay, Call!AnswersBelong, Call!Refusals
<1>8. CASE UNCHANGED Call!callVars
  BY <1>8 DEF Call!callVars, CallInv, Call!CallTypeOK, OnItsWay, Call!AnswersBelong, Call!Refusals
<1> QED
  BY <1>1, <1>2, <1>3, <1>4, <1>5, <1>6, <1>7, <1>8 DEF Call!CallNext

-----------------------------------------------------------------------------
(* PART 2.  The database of the history.  The inductive invariant: the journal  *)
(* names what the app was told, and the app works with what it names.          *)

Places == {"closed", "connect", "initialize", "created", "open", "insert", "switch", "delete"}
\* The app works with a file.
Works == app.at \in Places \ {"closed", "connect"}
Staged == app.at \in {"insert", "switch"}

-----------------------------------------------------------------------------
(* The inductive invariant.                                                 *)

JournalType == journal \in [active : 0..made, previous : 0..made, creating : BOOLEAN]
AppType == app \in [at : Places, db : 0..made, other : 0..made]
Files == [schema : {0, 1}, holds : SUBSET Nat, whole : BOOLEAN]
DiskType == DOMAIN disk \subseteq 1..made /\ disk \in [DOMAIN disk -> Files]
ToldType == told \in [1..MaxGenerations -> SUBSET (1..records)]
Counts == made \in 0..MaxGenerations /\ records \in Nat
Types == JournalType /\ AppType /\ DiskType /\ ToldType /\ Counts

\* The journal names different generations; the one before is on the disk.
JournalInv ==
    /\ journal.active = 0 => journal.previous = 0
    /\ journal.previous # 0 => journal.previous # journal.active /\ journal.previous \in DOMAIN disk

\* What the journal names holds what was told; a file not made yet holds nothing.
ContentInv ==
    /\ journal.active \in DOMAIN disk => disk[journal.active].holds = told[journal.active]
    /\ journal.active # 0 /\ journal.active \notin DOMAIN disk => told[journal.active] = {}
    /\ journal.previous # 0 => disk[journal.previous].holds = told[journal.previous]
Bounded == \A g \in DOMAIN disk : disk[g].holds \subseteq 1..records

\* The app works with the active generation; a staged one is another.
AppInv ==
    /\ app.at = "closed" => app = Closed
    /\ app.at # "closed" => app.db = journal.active /\ app.db # 0
    /\ Works => app.db \in DOMAIN disk
    /\ Staged => app.other \in DOMAIN disk /\ app.other # journal.active /\ journal.previous = 0
    /\ app.at = "insert" => disk[app.other].holds = {}
    /\ app.at = "switch" => disk[app.other].holds = told[app.other]
    /\ app.at = "delete" => app.other # journal.active /\ journal.previous = 0

HistoryInv == Types /\ JournalInv /\ ContentInv /\ Bounded /\ AppInv

\* What the invariant is for.
LEMMA HistoryInvImplies == HistoryInv => OpenIsWhole
  BY DEF HistoryInv, Types, JournalType, AppType, Files, DiskType, ToldType, Counts, JournalInv, ContentInv, Bounded, AppInv, HistoryTypeOK, Whole, OpenIsWhole, Ready, Works, Places

LEMMA HistoryInitInv == MaxGenerations \in Nat /\ HistoryInit => HistoryInv
  BY DEF HistoryInit, HistoryInv, Types, JournalType, AppType, Files, DiskType, ToldType, Counts, JournalInv, ContentInv, Bounded, AppInv, NoJournal, Closed, Works, Staged, Places

-----------------------------------------------------------------------------
\* Opening a file that is there leaves the disk as it is; one that is missing is made.
LEMMA Opening ==
    ASSUME HistoryInv, NEW g \in 1..made
    PROVE  /\ g \in DOMAIN disk => With(g, File(g)) = disk
           /\ g \notin DOMAIN disk => /\ With(g, File(g))[g] = Fresh
                                     /\ \A h \in DOMAIN disk : With(g, File(g))[h] = disk[h]
           /\ DOMAIN With(g, File(g)) = DOMAIN disk \cup {g}
           /\ With(g, File(g)) \in [DOMAIN disk \cup {g} -> Files]
<1>1. disk = [h \in DOMAIN disk |-> disk[h]]
  BY DEF HistoryInv, Types, DiskType
<1>2. CASE g \in DOMAIN disk
  <2>1. DOMAIN disk \cup {g} = DOMAIN disk
    BY <1>2
  <2>2. With(g, File(g)) = [h \in DOMAIN disk |-> disk[h]]
    BY <1>2, <2>1 DEF With, File
  <2> QED  BY <1>1, <1>2, <2>1, <2>2 DEF HistoryInv, Types, DiskType
<1>3. CASE g \notin DOMAIN disk
  BY <1>3, <1>1 DEF With, File, Fresh, Files, HistoryInv, Types, DiskType
<1> QED  BY <1>2, <1>3

\* What a generation was told is a set of record numbers.
LEMMA ToldNumbers == ASSUME HistoryInv, NEW g \in 1..MaxGenerations PROVE told[g] \in SUBSET Nat
  BY DEF HistoryInv, Types, ToldType, Counts

\* Records put into a file leave the others, and the rest of it, as they are.
LEMMA Inserting ==
    ASSUME HistoryInv, NEW g \in DOMAIN disk, NEW r \in SUBSET Nat
    PROVE  /\ Insert(g, r) \in [DOMAIN disk -> Files]
           /\ Insert(g, r)[g].holds = disk[g].holds \cup r
           /\ \A h \in DOMAIN disk \ {g} : Insert(g, r)[h] = disk[h]
<1> DEFINE file == [disk[g] EXCEPT !.holds = @ \cup r]
<1>1. disk[g] \in Files /\ disk \in [DOMAIN disk -> Files]
  BY DEF HistoryInv, Types, DiskType
<1>2. file \in Files /\ file.holds = disk[g].holds \cup r
  BY <1>1 DEF Files
<1>3. Insert(g, r) = [disk EXCEPT ![g] = file]
  BY DEF Insert
<1> HIDE DEF file
<1> QED  BY <1>1, <1>2, <1>3

LEMMA Journals ==
    ASSUME NEW n, NEW a \in 0..n, NEW p \in 0..n, NEW c \in BOOLEAN
    PROVE  [active |-> a, previous |-> p, creating |-> c] \in [active : 0..n, previous : 0..n, creating : BOOLEAN]
  OBVIOUS

\* Opening, step by step.
LEMMA HistoryOpenInv == ASSUME MaxGenerations \in Nat, HistoryInv, OpenStep PROVE HistoryInv'
<1>1. CASE OpenActive
  <2>1. journal.active \in 1..made /\ journal.active = journal.active /\ disk' = With(journal.active, File(journal.active))
    BY <1>1 DEF OpenActive, Starts, HistoryInv, Types, JournalType, JournalInv, AppInv, AppType, Works, Staged, Places
  <2>2. /\ journal.active \in DOMAIN disk => disk' = disk
        /\ journal.active \notin DOMAIN disk => disk'[journal.active] = Fresh /\ \A h \in DOMAIN disk : disk'[h] = disk[h]
        /\ DOMAIN disk' = DOMAIN disk \cup {journal.active} /\ disk' \in [DOMAIN disk \cup {journal.active} -> Files]
    BY <2>1, Opening
  <2>3. app' = [at |-> "initialize", db |-> journal.active, other |-> 0] /\ UNCHANGED <<journal, made, records, told>>
    BY <1>1 DEF OpenActive
  <2>4. JournalType'
    BY <2>1, <2>2, <2>3 DEF HistoryInv, Types, JournalType, Counts
  <2>5. AppType'
    BY <2>1, <2>2, <2>3 DEF HistoryInv, Types, AppType, Counts, Places
  <2>6. DiskType'
    BY <2>1, <2>2, <2>3 DEF HistoryInv, Types, DiskType, Counts
  <2>7. ToldType' /\ Counts'
    BY <2>1, <2>2, <2>3 DEF HistoryInv, Types, ToldType, Counts
  <2>8. JournalInv'
    BY <2>1, <2>2, <2>3 DEF HistoryInv, Types, JournalInv
  <2>9. ContentInv'
    <3>1. journal.active \in DOMAIN disk' /\ disk'[journal.active].holds = told[journal.active]
      BY <2>1, <2>2 DEF HistoryInv, ContentInv, Fresh
    <3>2. journal.previous # 0 => disk'[journal.previous] = disk[journal.previous]
      BY <2>1, <2>2 DEF HistoryInv, JournalInv
    <3>3. UNCHANGED <<journal, told>>
      BY <2>3
    <3> QED  BY <2>1, <3>1, <3>2, <3>3 DEF HistoryInv, ContentInv
  <2>10. Bounded'
    BY <2>1, <2>2, <2>3 DEF HistoryInv, Types, Bounded, DiskType, Counts, Fresh
  <2>11. AppInv'
    BY <2>1, <2>2, <2>3 DEF HistoryInv, Types, AppInv, Works, Staged, Places, JournalInv, AppType, Closed
  <2> QED  BY <2>4, <2>5, <2>6, <2>7, <2>8, <2>9, <2>10, <2>11 DEF HistoryInv, Types
<1>2. CASE OpenPrevious
  <2> USE <1>2 DEF OpenPrevious, Persist, HistoryInv, Types, JournalType, AppType, Files, DiskType, ToldType, Counts, JournalInv, ContentInv, Bounded, AppInv, Works, Staged, Places, NoJournal, Closed, Fresh
  <2>1. JournalType'
    <3>1. journal' = [active |-> journal.previous, previous |-> 0, creating |-> FALSE]
      OBVIOUS
    <3>2. journal.previous \in 0..made' /\ 0 \in 0..made'
      OBVIOUS
    <3> HIDE DEF HistoryInv, Types, JournalType, AppType, Files, DiskType, ToldType, Counts, JournalInv, ContentInv, Bounded, AppInv, Works, Staged, Places, NoJournal, Closed, Fresh
    <3>3. [active |-> journal.previous, previous |-> 0, creating |-> FALSE] \in [active : 0..made', previous : 0..made', creating : BOOLEAN]
      BY <3>2, Journals
    <3> QED  BY <3>1, <3>3 DEF JournalType
  <2>2. AppType'
    OBVIOUS
  <2>3. DiskType'
    OBVIOUS
  <2>4. ToldType' /\ Counts'
    OBVIOUS
  <2>5. JournalInv'
    OBVIOUS
  <2>6. ContentInv'
    OBVIOUS
  <2>7. Bounded'
    OBVIOUS
  <2>8. AppInv'
    OBVIOUS
  <2> QED  BY <2>1, <2>2, <2>3, <2>4, <2>5, <2>6, <2>7, <2>8 DEF HistoryInv, Types
<1>3. CASE OpenFirst
  <2> USE <1>3 DEF OpenFirst, Create, Persist, HistoryInv, Types, JournalType, AppType, Files, DiskType, ToldType, Counts, JournalInv, ContentInv, Bounded, AppInv, Works, Staged, Places, NoJournal, Closed, Fresh
  <2>1. JournalType'
    <3>1. journal' = [active |-> made + 1, previous |-> 0, creating |-> TRUE]
      OBVIOUS
    <3>2. made + 1 \in 0..made' /\ 0 \in 0..made'
      OBVIOUS
    <3> HIDE DEF HistoryInv, Types, JournalType, AppType, Files, DiskType, ToldType, Counts, JournalInv, ContentInv, Bounded, AppInv, Works, Staged, Places, NoJournal, Closed, Fresh
    <3>3. [active |-> made + 1, previous |-> 0, creating |-> TRUE] \in [active : 0..made', previous : 0..made', creating : BOOLEAN]
      BY <3>2, Journals
    <3> QED  BY <3>1, <3>3 DEF JournalType
  <2>2. AppType'
    OBVIOUS
  <2>3. DiskType'
    OBVIOUS
  <2>4. ToldType' /\ Counts'
    OBVIOUS
  <2>5. JournalInv'
    OBVIOUS
  <2>6. ContentInv'
    OBVIOUS
  <2>7. Bounded'
    OBVIOUS
  <2>8. AppInv'
    OBVIOUS
  <2> QED  BY <2>1, <2>2, <2>3, <2>4, <2>5, <2>6, <2>7, <2>8 DEF HistoryInv, Types
<1>4. CASE Connect
  <2>1. app.db \in 1..made /\ app.db = journal.active /\ disk' = With(app.db, File(app.db))
    BY <1>4 DEF Connect, HistoryInv, Types, JournalType, JournalInv, AppInv, AppType, Works, Staged, Places
  <2>2. /\ app.db \in DOMAIN disk => disk' = disk
        /\ app.db \notin DOMAIN disk => disk'[app.db] = Fresh /\ \A h \in DOMAIN disk : disk'[h] = disk[h]
        /\ DOMAIN disk' = DOMAIN disk \cup {app.db} /\ disk' \in [DOMAIN disk \cup {app.db} -> Files]
    BY <2>1, Opening
  <2>3. app.at = "connect" /\ app' = [app EXCEPT !.at = "initialize"] /\ UNCHANGED <<journal, made, records, told>>
    BY <1>4 DEF Connect, Goes
  <2>4. JournalType'
    BY <2>1, <2>2, <2>3 DEF HistoryInv, Types, JournalType, Counts
  <2>5. AppType'
    BY <2>1, <2>2, <2>3 DEF HistoryInv, Types, AppType, Counts, Places
  <2>6. DiskType'
    BY <2>1, <2>2, <2>3 DEF HistoryInv, Types, DiskType, Counts
  <2>7. ToldType' /\ Counts'
    BY <2>1, <2>2, <2>3 DEF HistoryInv, Types, ToldType, Counts
  <2>8. JournalInv'
    BY <2>1, <2>2, <2>3 DEF HistoryInv, Types, JournalInv
  <2>9. ContentInv'
    <3>1. app.db \in DOMAIN disk' /\ disk'[app.db].holds = told[app.db]
      BY <2>1, <2>2 DEF HistoryInv, ContentInv, Fresh
    <3>2. journal.previous # 0 => disk'[journal.previous] = disk[journal.previous]
      BY <2>1, <2>2 DEF HistoryInv, JournalInv
    <3>3. UNCHANGED <<journal, told>>
      BY <2>3
    <3> QED  BY <2>1, <3>1, <3>2, <3>3 DEF HistoryInv, ContentInv
  <2>10. Bounded'
    BY <2>1, <2>2, <2>3 DEF HistoryInv, Types, Bounded, DiskType, Counts, Fresh
  <2>11. AppInv'
    BY <2>1, <2>2, <2>3 DEF HistoryInv, Types, AppInv, Works, Staged, Places, JournalInv, AppType, Closed
  <2> QED  BY <2>4, <2>5, <2>6, <2>7, <2>8, <2>9, <2>10, <2>11 DEF HistoryInv, Types
<1>5. CASE Initialize
  <2> USE <1>5 DEF Initialize, Goes, HistoryInv, Types, JournalType, AppType, Files, DiskType, ToldType, Counts, JournalInv, ContentInv, Bounded, AppInv, Works, Staged, Places, NoJournal, Closed, Fresh
  <2>1. JournalType'
    OBVIOUS
  <2>2. AppType'
    OBVIOUS
  <2>3. DiskType'
    OBVIOUS
  <2>4. ToldType' /\ Counts'
    OBVIOUS
  <2>5. JournalInv'
    OBVIOUS
  <2>6. ContentInv'
    OBVIOUS
  <2>7. Bounded'
    OBVIOUS
  <2>8. AppInv'
    OBVIOUS
  <2> QED  BY <2>1, <2>2, <2>3, <2>4, <2>5, <2>6, <2>7, <2>8 DEF HistoryInv, Types
<1>6. CASE Created
  <2> USE <1>6 DEF Created, Persist, Goes, HistoryInv, Types, JournalType, AppType, Files, DiskType, ToldType, Counts, JournalInv, ContentInv, Bounded, AppInv, Works, Staged, Places, NoJournal, Closed, Fresh
  <2>1. JournalType'
    <3>1. journal' = [active |-> journal.active, previous |-> 0, creating |-> FALSE]
      OBVIOUS
    <3>2. journal.active \in 0..made' /\ 0 \in 0..made'
      OBVIOUS
    <3> HIDE DEF HistoryInv, Types, JournalType, AppType, Files, DiskType, ToldType, Counts, JournalInv, ContentInv, Bounded, AppInv, Works, Staged, Places, NoJournal, Closed, Fresh
    <3>3. [active |-> journal.active, previous |-> 0, creating |-> FALSE] \in [active : 0..made', previous : 0..made', creating : BOOLEAN]
      BY <3>2, Journals
    <3> QED  BY <3>1, <3>3 DEF JournalType
  <2>2. AppType'
    OBVIOUS
  <2>3. DiskType'
    OBVIOUS
  <2>4. ToldType' /\ Counts'
    OBVIOUS
  <2>5. JournalInv'
    OBVIOUS
  <2>6. ContentInv'
    OBVIOUS
  <2>7. Bounded'
    OBVIOUS
  <2>8. AppInv'
    OBVIOUS
  <2> QED  BY <2>1, <2>2, <2>3, <2>4, <2>5, <2>6, <2>7, <2>8 DEF HistoryInv, Types
<1> QED  BY <1>1, <1>2, <1>3, <1>4, <1>5, <1>6 DEF OpenStep

\* An import, and the generation that it replaces.
LEMMA HistoryWorkInv == ASSUME MaxGenerations \in Nat, HistoryInv, WorkStep PROVE HistoryInv'
<1>1. CASE FillStaged
  <2>1. app.other \in DOMAIN disk /\ told[app.other] \in SUBSET Nat /\ disk' = Insert(app.other, told[app.other])
    BY <1>1, ToldNumbers DEF FillStaged, HistoryInv, Types, JournalType, JournalInv, AppInv, AppType, Works, Staged, Places, DiskType, Counts
  <2>2. /\ DOMAIN disk' = DOMAIN disk /\ disk' \in [DOMAIN disk -> Files]
        /\ disk'[app.other].holds = disk[app.other].holds \cup told[app.other]
        /\ \A h \in DOMAIN disk \ {app.other} : disk'[h] = disk[h]
    BY <2>1, Inserting
  <2>3. app.at = "insert" /\ app' = [app EXCEPT !.at = "switch"] /\ UNCHANGED <<journal, made, records, told>>
    BY <1>1 DEF FillStaged, Goes
  <2>4. app.other # journal.active /\ journal.previous = 0 /\ disk[app.other].holds = {} /\ told[app.other] \subseteq 1..records
    BY <2>3 DEF HistoryInv, Types, AppInv, Staged, ToldType, AppType, DiskType, Counts, Works, Places
  <2>5. JournalType'
    BY <2>1, <2>2, <2>3, <2>4 DEF HistoryInv, Types, JournalType, Counts
  <2>6. AppType'
    BY <2>1, <2>2, <2>3, <2>4 DEF HistoryInv, Types, AppType, Counts, Places
  <2>7. DiskType'
    BY <2>1, <2>2, <2>3, <2>4 DEF HistoryInv, Types, DiskType, Counts
  <2>8. ToldType' /\ Counts'
    BY <2>1, <2>2, <2>3, <2>4 DEF HistoryInv, Types, ToldType, Counts
  <2>9. JournalInv'
    BY <2>1, <2>2, <2>3, <2>4 DEF HistoryInv, Types, JournalInv
  <2>10. ContentInv'
    BY <2>1, <2>2, <2>3, <2>4 DEF HistoryInv, Types, ContentInv, JournalInv, JournalType, Counts, ToldType, DiskType
  <2>11. Bounded'
    BY <2>1, <2>2, <2>3, <2>4 DEF HistoryInv, Types, Bounded, DiskType, Counts
  <2>12. AppInv'
    BY <2>1, <2>2, <2>3, <2>4 DEF HistoryInv, Types, AppInv, Works, Staged, Places, JournalInv, AppType, Closed
  <2> QED  BY <2>5, <2>6, <2>7, <2>8, <2>9, <2>10, <2>11, <2>12 DEF HistoryInv, Types
<1>2. CASE Switch
  <2> USE <1>2 DEF Switch, Persist, HistoryInv, Types, JournalType, AppType, Files, DiskType, ToldType, Counts, JournalInv, ContentInv, Bounded, AppInv, Works, Staged, Places, NoJournal, Closed, Fresh
  <2>1. JournalType'
    <3>1. journal' = [active |-> app.other, previous |-> journal.active, creating |-> FALSE]
      OBVIOUS
    <3>2. app.other \in 0..made' /\ journal.active \in 0..made'
      OBVIOUS
    <3> HIDE DEF HistoryInv, Types, JournalType, AppType, Files, DiskType, ToldType, Counts, JournalInv, ContentInv, Bounded, AppInv, Works, Staged, Places, NoJournal, Closed, Fresh
    <3>3. [active |-> app.other, previous |-> journal.active, creating |-> FALSE] \in [active : 0..made', previous : 0..made', creating : BOOLEAN]
      BY <3>2, Journals
    <3> QED  BY <3>1, <3>3 DEF JournalType
  <2>2. AppType'
    OBVIOUS
  <2>3. DiskType'
    OBVIOUS
  <2>4. ToldType' /\ Counts'
    OBVIOUS
  <2>5. JournalInv'
    OBVIOUS
  <2>6. ContentInv'
    OBVIOUS
  <2>7. Bounded'
    OBVIOUS
  <2>8. AppInv'
    OBVIOUS
  <2> QED  BY <2>1, <2>2, <2>3, <2>4, <2>5, <2>6, <2>7, <2>8 DEF HistoryInv, Types
<1>3. CASE DeletePrevious
  <2> USE <1>3 DEF DeletePrevious, Without, HistoryInv, Types, JournalType, AppType, Files, DiskType, ToldType, Counts, JournalInv, ContentInv, Bounded, AppInv, Works, Staged, Places, NoJournal, Closed, Fresh
  <2>1. JournalType'
    OBVIOUS
  <2>2. AppType'
    OBVIOUS
  <2>3. DiskType'
    OBVIOUS
  <2>4. ToldType' /\ Counts'
    OBVIOUS
  <2>5. JournalInv'
    OBVIOUS
  <2>6. ContentInv'
    OBVIOUS
  <2>7. Bounded'
    OBVIOUS
  <2>8. AppInv'
    OBVIOUS
  <2> QED  BY <2>1, <2>2, <2>3, <2>4, <2>5, <2>6, <2>7, <2>8 DEF HistoryInv, Types
<1> QED  BY <1>1, <1>2, <1>3 DEF WorkStep

\* The operations, and what goes wrong.
LEMMA HistoryNextInv == ASSUME MaxGenerations \in Nat, HistoryInv, [HistoryNext]_historyVars PROVE HistoryInv'
<1>1. CASE AppendRecord
  <2>1. app.db \in DOMAIN disk /\ {records + 1} \in SUBSET Nat /\ disk' = Insert(app.db, {records + 1})
    BY <1>1, ToldNumbers DEF AppendRecord, Ready, HistoryInv, Types, JournalType, JournalInv, AppInv, AppType, Works, Staged, Places, DiskType, Counts
  <2>2. /\ DOMAIN disk' = DOMAIN disk /\ disk' \in [DOMAIN disk -> Files]
        /\ disk'[app.db].holds = disk[app.db].holds \cup {records + 1}
        /\ \A h \in DOMAIN disk \ {app.db} : disk'[h] = disk[h]
    BY <2>1, Inserting
  <2>3. /\ records' = records + 1 /\ told' = [told EXCEPT ![app.db] = @ \cup {records + 1}]
        /\ app.at = "open" /\ UNCHANGED <<journal, app, made>>
    BY <1>1 DEF AppendRecord, Ready
  <2>4. app.db = journal.active /\ app.db \in 1..MaxGenerations /\ journal.previous # app.db
    BY <2>1, <2>3 DEF HistoryInv, Types, AppInv, JournalInv, JournalType, AppType, DiskType, Counts, Works, Places
  <2>5. JournalType'
    BY <2>1, <2>2, <2>3, <2>4 DEF HistoryInv, Types, JournalType, Counts
  <2>6. AppType'
    BY <2>1, <2>2, <2>3, <2>4 DEF HistoryInv, Types, AppType, Counts, Places
  <2>7. DiskType'
    BY <2>1, <2>2, <2>3, <2>4 DEF HistoryInv, Types, DiskType, Counts
  <2>8. ToldType' /\ Counts'
    BY <2>1, <2>2, <2>3, <2>4 DEF HistoryInv, Types, ToldType, Counts
  <2>9. JournalInv'
    BY <2>1, <2>2, <2>3, <2>4 DEF HistoryInv, Types, JournalInv
  <2>10. ContentInv'
    <3>1. told'[app.db] = told[app.db] \cup {records + 1}
      BY <2>3, <2>4 DEF HistoryInv, Types, ToldType
    <3>2. disk'[app.db].holds = told'[app.db]
      BY <2>1, <2>2, <2>4, <3>1 DEF HistoryInv, ContentInv
    <3>3. journal.previous # 0 => /\ journal.previous \in DOMAIN disk \ {app.db}
                                  /\ told'[journal.previous] = told[journal.previous]
      BY <2>3, <2>4 DEF HistoryInv, Types, JournalInv, ToldType
    <3>4. journal.previous # 0 => disk'[journal.previous].holds = told'[journal.previous]
      BY <2>2, <3>3 DEF HistoryInv, ContentInv
    <3>5. journal' = journal
      BY <2>3
    <3> QED  BY <2>1, <2>2, <2>4, <3>2, <3>4, <3>5 DEF ContentInv
  <2>11. Bounded'
    <3>1. 1..records \subseteq 1..records' /\ records + 1 \in 1..records'
      BY <2>3 DEF HistoryInv, Types, Counts
    <3>2. ASSUME NEW h \in DOMAIN disk PROVE disk'[h].holds \subseteq 1..records'
      <4>1. disk[h].holds \subseteq 1..records'
        BY <3>1 DEF HistoryInv, Bounded
      <4> QED  BY <2>2, <3>1, <4>1
    <3> QED  BY <2>2, <3>2 DEF Bounded
  <2>12. AppInv'
    BY <2>1, <2>2, <2>3, <2>4 DEF HistoryInv, Types, AppInv, Works, Staged, Places, JournalInv, AppType, Closed
  <2> QED  BY <2>5, <2>6, <2>7, <2>8, <2>9, <2>10, <2>11, <2>12 DEF HistoryInv, Types
<1>2. CASE StageImport
  <2> USE <1>2 DEF StageImport, Ready, With, NextStaged, HistoryInv, Types, JournalType, AppType, Files, DiskType, ToldType, Counts, JournalInv, ContentInv, Bounded, AppInv, Works, Staged, Places, NoJournal, Closed, Fresh
  <2>1. JournalType'
    OBVIOUS
  <2>2. AppType'
    <3>1. app' = [at |-> "insert", db |-> app.db, other |-> made + 1]
      OBVIOUS
    <3> QED  BY <3>1
  <2>3. DiskType'
    <3>1. [Fresh EXCEPT !.schema = 1] \in Files
      OBVIOUS
    <3>2. disk' = [h \in DOMAIN disk \cup {made + 1} |-> IF h = made + 1 THEN [Fresh EXCEPT !.schema = 1] ELSE disk[h]]
      OBVIOUS
    <3>3. DOMAIN disk \cup {made + 1} \subseteq 1..made'
      OBVIOUS
    <3>4. disk \in [DOMAIN disk -> Files]
      OBVIOUS
    <3> HIDE <1>2 DEF HistoryInv, Types, JournalType, AppType, Files, DiskType, ToldType, Counts, JournalInv, ContentInv, Bounded, AppInv, Works, Staged, Places, NoJournal, Closed, Fresh
    <3> QED  BY <3>1, <3>2, <3>3, <3>4 DEF DiskType
  <2>4. ToldType' /\ Counts'
    OBVIOUS
  <2>5. JournalInv'
    OBVIOUS
  <2>6. ContentInv'
    OBVIOUS
  <2>7. Bounded'
    OBVIOUS
  <2>8. AppInv'
    <3>1. app' = [at |-> "insert", db |-> app.db, other |-> made + 1] /\ app.at = "open"
      OBVIOUS
    <3>2. disk'[made + 1].holds = {} /\ DOMAIN disk' = DOMAIN disk \cup {made + 1}
      OBVIOUS
    <3>3. journal' = journal /\ journal.previous = 0 /\ made + 1 # journal.active
      OBVIOUS
    <3>4. app.db = journal.active /\ app.db # 0 /\ app.db \in DOMAIN disk
      OBVIOUS
    <3> HIDE <1>2 DEF HistoryInv, Types, JournalType, AppType, Files, DiskType, ToldType, Counts, JournalInv, ContentInv, Bounded, AppInv
    <3> QED  BY <3>1, <3>2, <3>3, <3>4 DEF AppInv
  <2> QED  BY <2>1, <2>2, <2>3, <2>4, <2>5, <2>6, <2>7, <2>8 DEF HistoryInv, Types
<1>3. CASE Unstage
  <2> USE <1>3 DEF Unstage, Without, HistoryInv, Types, JournalType, AppType, Files, DiskType, ToldType, Counts, JournalInv, ContentInv, Bounded, AppInv, Works, Staged, Places, NoJournal, Closed, Fresh
  <2>1. JournalType'
    OBVIOUS
  <2>2. AppType'
    OBVIOUS
  <2>3. DiskType'
    OBVIOUS
  <2>4. ToldType' /\ Counts'
    OBVIOUS
  <2>5. JournalInv'
    OBVIOUS
  <2>6. ContentInv'
    OBVIOUS
  <2>7. Bounded'
    OBVIOUS
  <2>8. AppInv'
    OBVIOUS
  <2> QED  BY <2>1, <2>2, <2>3, <2>4, <2>5, <2>6, <2>7, <2>8 DEF HistoryInv, Types
<1>4. CASE ConfirmStartup
  <2> USE <1>4 DEF ConfirmStartup, Ready, Persist, HistoryInv, Types, JournalType, AppType, Files, DiskType, ToldType, Counts, JournalInv, ContentInv, Bounded, AppInv, Works, Staged, Places, NoJournal, Closed, Fresh
  <2>1. JournalType'
    <3>1. journal' = [active |-> journal.active, previous |-> 0, creating |-> FALSE]
      OBVIOUS
    <3>2. journal.active \in 0..made' /\ 0 \in 0..made'
      OBVIOUS
    <3> HIDE DEF HistoryInv, Types, JournalType, AppType, Files, DiskType, ToldType, Counts, JournalInv, ContentInv, Bounded, AppInv, Works, Staged, Places, NoJournal, Closed, Fresh
    <3>3. [active |-> journal.active, previous |-> 0, creating |-> FALSE] \in [active : 0..made', previous : 0..made', creating : BOOLEAN]
      BY <3>2, Journals
    <3> QED  BY <3>1, <3>3 DEF JournalType
  <2>2. AppType'
    OBVIOUS
  <2>3. DiskType'
    OBVIOUS
  <2>4. ToldType' /\ Counts'
    OBVIOUS
  <2>5. JournalInv'
    OBVIOUS
  <2>6. ContentInv'
    OBVIOUS
  <2>7. Bounded'
    OBVIOUS
  <2>8. AppInv'
    OBVIOUS
  <2> QED  BY <2>1, <2>2, <2>3, <2>4, <2>5, <2>6, <2>7, <2>8 DEF HistoryInv, Types
<1>5. CASE Close
  <2> USE <1>5 DEF Close, Ready, HistoryInv, Types, JournalType, AppType, Files, DiskType, ToldType, Counts, JournalInv, ContentInv, Bounded, AppInv, Works, Staged, Places, NoJournal, Closed, Fresh
  <2>1. JournalType'
    OBVIOUS
  <2>2. AppType'
    OBVIOUS
  <2>3. DiskType'
    OBVIOUS
  <2>4. ToldType' /\ Counts'
    OBVIOUS
  <2>5. JournalInv'
    OBVIOUS
  <2>6. ContentInv'
    OBVIOUS
  <2>7. Bounded'
    OBVIOUS
  <2>8. AppInv'
    OBVIOUS
  <2> QED  BY <2>1, <2>2, <2>3, <2>4, <2>5, <2>6, <2>7, <2>8 DEF HistoryInv, Types
<1>6. CASE Crash
  <2> USE <1>6 DEF Crash, HistoryInv, Types, JournalType, AppType, Files, DiskType, ToldType, Counts, JournalInv, ContentInv, Bounded, AppInv, Works, Staged, Places, NoJournal, Closed, Fresh
  <2>1. JournalType'
    OBVIOUS
  <2>2. AppType'
    OBVIOUS
  <2>3. DiskType'
    OBVIOUS
  <2>4. ToldType' /\ Counts'
    OBVIOUS
  <2>5. JournalInv'
    OBVIOUS
  <2>6. ContentInv'
    OBVIOUS
  <2>7. Bounded'
    OBVIOUS
  <2>8. AppInv'
    OBVIOUS
  <2> QED  BY <2>1, <2>2, <2>3, <2>4, <2>5, <2>6, <2>7, <2>8 DEF HistoryInv, Types
<1>7. CASE Damage
  <2> USE <1>7 DEF Damage, HistoryInv, Types, JournalType, AppType, Files, DiskType, ToldType, Counts, JournalInv, ContentInv, Bounded, AppInv, Works, Staged, Places, NoJournal, Closed, Fresh
  <2>1. JournalType'
    OBVIOUS
  <2>2. AppType'
    OBVIOUS
  <2>3. DiskType'
    OBVIOUS
  <2>4. ToldType' /\ Counts'
    OBVIOUS
  <2>5. JournalInv'
    OBVIOUS
  <2>6. ContentInv'
    OBVIOUS
  <2>7. Bounded'
    OBVIOUS
  <2>8. AppInv'
    OBVIOUS
  <2> QED  BY <2>1, <2>2, <2>3, <2>4, <2>5, <2>6, <2>7, <2>8 DEF HistoryInv, Types
<1>8. CASE UNCHANGED historyVars
  <2> USE <1>8 DEF historyVars, HistoryInv, Types, JournalType, AppType, Files, DiskType, ToldType, Counts, JournalInv, ContentInv, Bounded, AppInv, Works, Staged, Places, NoJournal, Closed, Fresh
  <2>1. JournalType'
    OBVIOUS
  <2>2. AppType'
    OBVIOUS
  <2>3. DiskType'
    OBVIOUS
  <2>4. ToldType' /\ Counts'
    OBVIOUS
  <2>5. JournalInv'
    OBVIOUS
  <2>6. ContentInv'
    OBVIOUS
  <2>7. Bounded'
    OBVIOUS
  <2>8. AppInv'
    OBVIOUS
  <2> QED  BY <2>1, <2>2, <2>3, <2>4, <2>5, <2>6, <2>7, <2>8 DEF HistoryInv, Types
<1> QED
  BY <1>1, <1>2, <1>3, <1>4, <1>5, <1>6, <1>7, <1>8, HistoryOpenInv, HistoryWorkInv DEF HistoryNext

-----------------------------------------------------------------------------
(* PART 3.  The lists that follow the account.  The inductive invariant: a     *)
(* call that still counts was made for the account that is signed in, and      *)
(* brings nothing that was answered; an answer under way keeps an invitation's  *)
(* reads out.                                                                *)

ReadRecords == [number : 1..MaxReads, account : 1..MaxSignIns, live : BOOLEAN, more : BOOLEAN,
                before : SUBSET Stores!Items, page : [items : SUBSET Stores!Items, served : BOOLEAN]]
Views == [phase : {"idle", "loading", "ready", "error"}, items : SUBSET Stores!Items,
          reading : BOOLEAN, busy : BOOLEAN]
Unanswered == [account |-> 0, id |-> 0]

StoreTypes ==
    /\ store \in Stores!Stores
    /\ account \in [now : 0..MaxSignIns, last : 0..MaxSignIns] /\ account.now \in {0, account.last}
    /\ atServer \in [1..MaxSignIns -> SUBSET Stores!Items]
    /\ view \in Views
    /\ reads \in SUBSET ReadRecords
    /\ storesAnswer \in [of : Stores!Items \cup {Unanswered}, under : 0..MaxSignIns, done : BOOLEAN]
    /\ closed \in SUBSET Stores!Items
Numbered == \A r, s \in reads : r.number = s.number => r = s

\* What the relay lists is the account's own, and never what was answered.
ServerInv == \A a \in 1..MaxSignIns : atServer[a] \subseteq Stores!ItemsOf(a) /\ atServer[a] \cap closed = {}

\* A call that counts is of the account signed in, and has nothing that was answered.
Current(r) == /\ account.now # 0 /\ r.account = account.now
              /\ \A i \in r.before \cup r.page.items : i.account = account.now
              /\ (r.before \cup r.page.items) \cap closed = {}
LiveReads == \A r \in reads : r.live => Current(r)

\* The invitations have one call at a time, and none while an answer is under way.
BusyReads == store = "invitations" =>
    /\ \A r \in reads : r.live => view.busy
    /\ \A r, s \in reads : r.live /\ s.live => r = s
UnderWay == storesAnswer # Stores!NoAnswer =>
    /\ store \in Stores!Answered /\ storesAnswer.of \in Stores!Items
    /\ storesAnswer.under # 0 /\ storesAnswer.under <= account.last
    /\ storesAnswer.done => storesAnswer.of \notin atServer[storesAnswer.of.account]
    /\ store = "invitations" /\ account.now = storesAnswer.under => view.busy /\ \A r \in reads : ~r.live

StoreInv == /\ StoreTypes /\ Numbered /\ ServerInv /\ LiveReads /\ BusyReads /\ UnderWay
            /\ Stores!OwnItems /\ Stores!AnsweredStays

LEMMA StoreInitInv ==
    ASSUME MaxSignIns \in Nat, MaxReads \in Nat,
           NEW studied \in SUBSET Stores!Stores, Stores!StoreInit(studied)
    PROVE  StoreInv
  BY DEF Stores!StoreInit, Stores!EmptyView, Stores!NoAnswer, Stores!Items, Stores!ItemsOf, StoreInv, StoreTypes,
         ReadRecords, Views, Unanswered, Numbered, ServerInv, LiveReads, BusyReads, UnderWay,
         Stores!OwnItems, Stores!AnsweredStays, Stores!Stores

\* The calls under way are no more than there are numbers for them.
LEMMA FewReads == ASSUME MaxReads \in Nat, StoreTypes, Numbered PROVE Cardinality(reads) <= MaxReads
<1> DEFINE f == [r \in reads |-> r.number]
<1>1. f \in Injection(reads, 1..MaxReads)
  BY DEF StoreTypes, ReadRecords, Numbered, Injection, IsInjective
<1>2. IsFiniteSet(1..MaxReads) /\ Cardinality(1..MaxReads) = MaxReads
  BY FS_Interval
<1> QED  BY <1>1, <1>2, FS_Injection

\* What the invariant is for.
LEMMA StoreInvImplies ==
    ASSUME MaxReads \in Nat, StoreInv
    PROVE  Stores!StoreTypeOK /\ Stores!OwnItems /\ Stores!AnsweredStays
<1>1. Cardinality(reads) <= MaxReads
  BY FewReads DEF StoreInv
<1>2. account.now \in {0, account.last} /\ account.last \in 0..MaxSignIns
  BY DEF StoreInv, StoreTypes
<1>3. view.items \subseteq Stores!Items /\ view.phase \in {"idle", "loading", "ready", "error"}
  BY DEF StoreInv, StoreTypes, Views
<1>4. \A r \in reads : r.account \in 1..MaxSignIns
  BY DEF StoreInv, StoreTypes, ReadRecords
<1>5. Stores!Cardinality(reads) = Cardinality(reads)
  BY DEF Cardinality, Stores!Cardinality
<1> QED  BY <1>1, <1>2, <1>3, <1>4, <1>5 DEF StoreInv, StoreTypes, Stores!StoreTypeOK

\* The calls that a new ticket drops keep their numbers and count no more.
LEMMA DroppedReads ==
    ASSUME StoreTypes, Numbered
    PROVE  /\ Stores!Dropped \in SUBSET ReadRecords
           /\ \A d \in Stores!Dropped : ~d.live /\ \E r \in reads : r.number = d.number
           /\ \A d, e \in Stores!Dropped : d.number = e.number => d = e
<1> DEFINE D(r) == [r EXCEPT !.live = FALSE, !.before = {}, !.page = Stores!NotServed]
<1>1. \A r \in reads : D(r) \in ReadRecords /\ D(r).number = r.number /\ ~D(r).live
  BY DEF StoreTypes, ReadRecords, Stores!NotServed
<1>2. Stores!Dropped = {D(r) : r \in reads}
  BY DEF Stores!Dropped
<1> HIDE DEF D
<1> QED  BY <1>1, <1>2 DEF Numbered

-----------------------------------------------------------------------------
LEMMA SigningInv == ASSUME MaxSignIns \in Nat, StoreInv, Stores!SignOut \/ Stores!SignIn PROVE StoreInv'
<1> USE DEF StoreInv
<1>1. /\ reads' = Stores!Dropped /\ view' = Stores!EmptyView /\ UNCHANGED <<store, atServer, storesAnswer, closed>>
      /\ account' \in [now : 0..MaxSignIns, last : 0..MaxSignIns] /\ account'.now \in {0, account'.last}
      /\ account'.last >= account.last
      /\ account'.now # 0 => account'.now > account.last
  BY DEF Stores!SignOut, Stores!SignIn, Stores!Reset, StoreTypes
<1>2. StoreTypes'
  BY <1>1, DroppedReads DEF StoreTypes, Stores!EmptyView, Views
<1>3. Numbered' /\ LiveReads' /\ BusyReads'
  BY <1>1, DroppedReads DEF Numbered, LiveReads, BusyReads
<1>4. ServerInv'
  BY <1>1 DEF ServerInv
<1>5. UnderWay'
  BY <1>1, DroppedReads DEF UnderWay, StoreTypes
<1>6. Stores!OwnItems' /\ Stores!AnsweredStays'
  BY <1>1 DEF Stores!EmptyView, Stores!OwnItems, Stores!AnsweredStays
<1> QED  BY <1>2, <1>3, <1>4, <1>5, <1>6

LEMMA ReadInv == ASSUME MaxReads \in Nat, StoreInv, NEW more \in BOOLEAN, Stores!Read(more) PROVE StoreInv'
<1> USE DEF StoreInv
<1> DEFINE n == CHOOSE k \in Stores!FreeNumbers : TRUE
           kept == IF store \in Stores!OneAtATime THEN reads ELSE Stores!Dropped
           new == [number |-> n, account |-> account.now, live |-> TRUE, more |-> more,
                   before |-> view.items, page |-> Stores!NotServed]
<1>1. n \in 1..MaxReads /\ \A r \in reads : r.number # n
  BY DEF Stores!Read, Stores!FreeNumbers
<1>2. reads' = kept \cup {new} /\ UNCHANGED <<store, account, atServer, storesAnswer, closed>>
  BY DEF Stores!Read, Stores!Begun
<1>3. new \in ReadRecords /\ new.number = n
  <2>1. account.now \in 1..MaxSignIns
    BY DEF Stores!Read, Stores!SignedIn, StoreTypes
  <2> QED  BY <1>1, <2>1 DEF StoreTypes, ReadRecords, Stores!NotServed, Views
<1>4. Current(new)
  BY DEF Current, Stores!Read, Stores!SignedIn, Stores!OwnItems, Stores!AnsweredStays, Stores!NotServed
<1>5. /\ kept \in SUBSET ReadRecords
      /\ \A r \in kept : r.number # n
      /\ \A r, s \in kept : r.number = s.number => r = s
      /\ \A r \in kept : r.live => r \in reads
  BY <1>1, DroppedReads DEF StoreTypes, Numbered
<1>6. /\ view' \in Views /\ view'.items \subseteq view.items
      /\ store = "invitations" => view'.busy /\ ~view.busy /\ kept = reads
      /\ view.busy => view'.busy
  BY DEF Stores!Read, Stores!Reading, Stores!OneAtATime, StoreTypes, Views
<1> HIDE DEF n, kept, new
<1>7. StoreTypes'
  BY <1>2, <1>3, <1>5, <1>6 DEF StoreTypes
<1>8. Numbered'
  BY <1>2, <1>3, <1>5 DEF Numbered
<1>9. LiveReads'
  BY <1>2, <1>4, <1>5 DEF LiveReads, Current
<1>10. ServerInv'
  BY <1>2 DEF ServerInv
<1>11. BusyReads' /\ UnderWay'
  BY <1>2, <1>5, <1>6 DEF BusyReads, UnderWay
<1>12. Stores!OwnItems' /\ Stores!AnsweredStays'
  BY <1>2, <1>6 DEF Stores!OwnItems, Stores!AnsweredStays
<1> QED  BY <1>7, <1>8, <1>9, <1>10, <1>11, <1>12

LEMMA ServeInv == ASSUME StoreInv, Stores!Serve PROVE StoreInv'
<1> USE DEF StoreInv
<1>A. PICK r \in reads : \E pg \in SUBSET atServer[r.account] :
         /\ r.live
         /\ reads' = (reads \ {r}) \cup {[r EXCEPT !.page = [items |-> pg, served |-> TRUE]]}
         /\ UNCHANGED <<store, account, atServer, view, storesAnswer, closed>>
  BY DEF Stores!Serve
<1>1. PICK page \in SUBSET atServer[r.account] :
         /\ r.live
         /\ reads' = (reads \ {r}) \cup {[r EXCEPT !.page = [items |-> page, served |-> TRUE]]}
         /\ UNCHANGED <<store, account, atServer, view, storesAnswer, closed>>
  BY <1>A
<1> DEFINE new == [r EXCEPT !.page = [items |-> page, served |-> TRUE]]
<1>2. r \in ReadRecords /\ r.account = account.now /\ r.account \in 1..MaxSignIns
  BY <1>1 DEF StoreTypes, ReadRecords, LiveReads, Current
<1>3. /\ new \in ReadRecords /\ new.number = r.number /\ new.live
      /\ reads' = (reads \ {r}) \cup {new}
  BY <1>1, <1>2 DEF StoreTypes, ReadRecords
<1>4. Current(new)
  <2>1. \A i \in page : i.account = account.now /\ i \notin closed
    BY <1>2 DEF ServerInv, Stores!ItemsOf
  <2> QED  BY <1>1, <1>2, <2>1 DEF LiveReads, Current, ReadRecords
<1> HIDE DEF new
<1>5. StoreTypes' /\ Numbered'
  BY <1>1, <1>3 DEF StoreTypes, Numbered
<1>6. LiveReads'
  BY <1>1, <1>3, <1>4 DEF LiveReads, Current
<1>7. BusyReads' /\ UnderWay'
  BY <1>1, <1>3 DEF BusyReads, UnderWay
<1>8. ServerInv' /\ Stores!OwnItems' /\ Stores!AnsweredStays'
  BY <1>1 DEF ServerInv, Stores!OwnItems, Stores!AnsweredStays
<1> QED  BY <1>5, <1>6, <1>7, <1>8

LEMMA ReturnInv == ASSUME StoreInv, Stores!Return PROVE StoreInv'
<1> USE DEF StoreInv
<1>1. PICK r \in reads :
         /\ reads' = reads \ {r} /\ UNCHANGED <<store, account, atServer, storesAnswer, closed>>
         /\ view' \in IF ~r.live THEN {view}
                      ELSE {[view EXCEPT !.phase = IF @ = "ready" \/ r.before # {} THEN "ready" ELSE "error",
                                         !.items = IF store = "saved" THEN {} ELSE @,
                                         !.reading = FALSE, !.busy = @ /\ store # "invitations"]}
                           \cup (IF r.page.served THEN {Stores!Page(r)} ELSE {})
  BY DEF Stores!Return
<1>2. r \in ReadRecords
  BY DEF StoreTypes
<1>3. /\ view' \in Views
      /\ view'.items \subseteq view.items \cup (IF r.live THEN r.before \cup r.page.items ELSE {})
      /\ ~r.live \/ store # "invitations" => view'.busy = view.busy
  <2>1. CASE ~r.live
    BY <1>1, <2>1 DEF StoreTypes
  <2>2. CASE r.live /\ view' = [view EXCEPT !.phase = IF @ = "ready" \/ r.before # {} THEN "ready" ELSE "error",
                                            !.items = IF store = "saved" THEN {} ELSE @,
                                            !.reading = FALSE, !.busy = @ /\ store # "invitations"]
    <3>1. view \in Views /\ (view.busy /\ store # "invitations") \in BOOLEAN
      BY DEF StoreTypes
    <3> QED  BY <2>2, <3>1 DEF Views
  <2>3. CASE r.live /\ view' = Stores!Page(r)
    <3>1. view \in Views /\ (view.busy /\ store # "invitations") \in BOOLEAN
      BY DEF StoreTypes
    <3>2. r.before \in SUBSET Stores!Items /\ r.page.items \in SUBSET Stores!Items
      BY <1>2 DEF ReadRecords
    <3> QED  BY <2>3, <3>1, <3>2 DEF Views, Stores!Page
  <2> QED  BY <1>1, <2>1, <2>2, <2>3
<1>4. StoreTypes' /\ Numbered' /\ LiveReads' /\ ServerInv'
  BY <1>1, <1>3 DEF StoreTypes, Numbered, LiveReads, Current, ServerInv
<1>5. BusyReads' /\ UnderWay'
  BY <1>1, <1>3 DEF BusyReads, UnderWay
<1>6. Stores!OwnItems' /\ Stores!AnsweredStays'
  BY <1>1, <1>3 DEF Stores!OwnItems, Stores!AnsweredStays, LiveReads, Current
<1> QED  BY <1>4, <1>5, <1>6

-----------------------------------------------------------------------------
LEMMA RespondInv == ASSUME StoreInv, NEW item \in Stores!Items, Stores!Respond(item) PROVE StoreInv'
<1> USE DEF StoreInv
<1>1. /\ store \in Stores!Answered /\ ~view.busy /\ account.now # 0
      /\ storesAnswer' = [of |-> item, under |-> account.last, done |-> FALSE]
      /\ view' = [view EXCEPT !.busy = TRUE]
      /\ UNCHANGED <<store, account, atServer, reads, closed>>
  BY DEF Stores!Respond, Stores!SignedIn
<1>2. StoreTypes' /\ view'.busy /\ view'.items = view.items
  BY <1>1 DEF StoreTypes, Views
<1>3. BusyReads' /\ UnderWay'
  BY <1>1, <1>2 DEF BusyReads, UnderWay, StoreTypes
<1> QED
  BY <1>1, <1>2, <1>3 DEF Numbered, LiveReads, Current, ServerInv, Stores!OwnItems, Stores!AnsweredStays

LEMMA CommitInv == ASSUME StoreInv, Stores!Commit PROVE StoreInv'
<1> USE DEF StoreInv
<1> DEFINE a == storesAnswer.of.account
<1>1. /\ storesAnswer # Stores!NoAnswer
      /\ atServer' = [atServer EXCEPT ![a] = @ \ {storesAnswer.of}]
      /\ storesAnswer' = [storesAnswer EXCEPT !.done = TRUE]
      /\ UNCHANGED <<store, account, view, reads, closed>>
  BY DEF Stores!Commit
<1>2. storesAnswer.of \in Stores!Items /\ a \in 1..MaxSignIns
  BY <1>1 DEF UnderWay, Stores!Items
<1>3. atServer' \in [1..MaxSignIns -> SUBSET Stores!Items] /\ \A b \in 1..MaxSignIns : atServer'[b] \subseteq atServer[b]
  BY <1>1, <1>2 DEF StoreTypes
<1>4. StoreTypes' /\ ServerInv'
  BY <1>1, <1>3 DEF StoreTypes, ServerInv
<1>5. storesAnswer'.of \notin atServer'[storesAnswer'.of.account]
  BY <1>1, <1>2 DEF StoreTypes
<1>6. UnderWay'
  BY <1>1, <1>5 DEF UnderWay, StoreTypes
<1> QED
  BY <1>1, <1>4, <1>6 DEF Numbered, LiveReads, Current, BusyReads, Stores!OwnItems, Stores!AnsweredStays

LEMMA CommittedInv == ASSUME MaxSignIns \in Nat, StoreInv, Stores!Committed PROVE StoreInv'
<1> USE DEF StoreInv
<1> DEFINE item == storesAnswer.of
<1>1. /\ storesAnswer.done /\ account.now = storesAnswer.under
      /\ reads' = IF store = "friends" THEN Stores!Dropped ELSE reads
      /\ view' = [view EXCEPT !.items = @ \ {item}, !.busy = FALSE, !.reading = FALSE,
                              !.phase = IF @ = "loading" THEN "idle" ELSE @]
      /\ closed' = closed \cup {item} /\ storesAnswer' = Stores!NoAnswer
      /\ UNCHANGED <<store, account, atServer>>
  BY DEF Stores!Committed, Stores!DropReads
<1>2. storesAnswer # Stores!NoAnswer
  BY <1>1 DEF Stores!NoAnswer
<1>3. /\ item \in Stores!Items /\ store \in {"friends", "invitations"}
      /\ item \notin atServer[item.account]
      /\ store = "invitations" => \A r \in reads : ~r.live
  BY <1>1, <1>2 DEF UnderWay, Stores!Answered
<1>4. /\ reads' \in SUBSET ReadRecords /\ \A r \in reads' : ~r.live
      /\ \A r, s \in reads' : r.number = s.number => r = s
  BY <1>1, <1>3, DroppedReads DEF StoreTypes, Numbered
<1>5. view' \in Views /\ view'.items = view.items \ {item}
  BY <1>1 DEF StoreTypes, Views
<1>6. StoreTypes'
  BY <1>1, <1>3, <1>4, <1>5 DEF StoreTypes, Stores!NoAnswer, Unanswered
<1>7. Numbered' /\ LiveReads' /\ BusyReads' /\ UnderWay'
  BY <1>1, <1>4 DEF Numbered, LiveReads, BusyReads, UnderWay
<1>8. ServerInv'
  BY <1>1, <1>3 DEF ServerInv, Stores!ItemsOf, Stores!Items
<1>9. Stores!OwnItems' /\ Stores!AnsweredStays'
  BY <1>1, <1>5 DEF Stores!OwnItems, Stores!AnsweredStays
<1> QED  BY <1>6, <1>7, <1>8, <1>9

LEMMA UnconfirmedInv == ASSUME MaxSignIns \in Nat, StoreInv, Stores!Unconfirmed PROVE StoreInv'
<1> USE DEF StoreInv
<1>1. /\ storesAnswer # Stores!NoAnswer /\ storesAnswer' = Stores!NoAnswer
      /\ view' = IF account.now = storesAnswer.under THEN [view EXCEPT !.busy = FALSE] ELSE view
      /\ UNCHANGED <<store, account, atServer, reads, closed>>
  BY DEF Stores!Unconfirmed
<1>2. /\ view' \in Views /\ view'.items = view.items
      /\ account.now # storesAnswer.under => view'.busy = view.busy
  BY <1>1 DEF StoreTypes, Views
<1>3. StoreTypes'
  BY <1>1, <1>2 DEF StoreTypes, Stores!NoAnswer, Unanswered
<1>4. BusyReads' /\ UnderWay'
  BY <1>1, <1>2 DEF BusyReads, UnderWay
<1> QED
  BY <1>1, <1>2, <1>3, <1>4 DEF Numbered, LiveReads, Current, ServerInv, Stores!OwnItems, Stores!AnsweredStays

LEMMA StoreNextInv ==
    ASSUME MaxSignIns \in Nat, MaxReads \in Nat, StoreInv, [Stores!StoreNext]_(Stores!storeVars)
    PROVE  StoreInv'
<1>1. CASE UNCHANGED Stores!storeVars
  BY <1>1 DEF Stores!storeVars, StoreInv, StoreTypes, Numbered, ServerInv, LiveReads, Current, BusyReads, UnderWay,
              Stores!OwnItems, Stores!AnsweredStays
<1> QED
  BY <1>1, SigningInv, ReadInv, ServeInv, ReturnInv, RespondInv, CommitInv, CommittedInv, UnconfirmedInv
  DEF Stores!StoreNext

-----------------------------------------------------------------------------
(* PART 4.  The session.  The inductive invariant follows the running call:   *)
(* which phase it leaves the flow in, that its session is the saved one while   *)
(* the encryption is prepared for it, and who the server still accepts while   *)
(* no answer was lost.                                                       *)

Steps == {"none", "read", "ask", "bind", "publish", "start", "verify", "write", "disown",
          "revoke", "clear", "clear unsure"}
CodeNumbers == Numbers \cup {Session!None}
ServerType ==
    /\ issued \in Seq(CodeNumbers) /\ live \subseteq 1..Len(issued)
    /\ saved \in 0..Len(issued) /\ current \in {Session!None, saved}
    /\ syncing \in 0..Len(issued) /\ lost \in Nat
PhaseType ==
    /\ status \in {"signed-out", "checking", "ready", "offline", "locked"}
    /\ phase \in {"phone", "code", "preparing", "ready", "offline", "locked"}
    /\ attempt \in CodeNumbers
Challenges == {Session!NoChallenge} \cup [kind : {"sent", "pending", "consumed"}, number : CodeNumbers]
CallRecords == [job : {"none", "check", "restore", "prepare", "submit", "verify", "sign out"}, at : Steps, token : Nat]
ChallengeType == challenge \in Challenges
CallType == call \in CallRecords /\ call.token <= Len(issued)
SessionTypes == ServerType /\ PhaseType /\ ChallengeType /\ CallType

\* The phase that a running call started in, and the session it works for.
PhaseOfCall ==
    /\ call.at = "start" => phase \in {"phone", "code"}
    /\ call.at \in {"verify", "write", "disown"} => phase = "code"
    /\ call.at \in {"bind", "publish"} => status = "ready" /\ phase = "preparing"
    /\ call.at = "publish" => bound = current
    /\ call.at \in {"revoke", "clear", "clear unsure"} => phase = "ready"
    /\ call.at \in {"read", "ask"} => status # "ready"
    /\ call.at = "write" => call.token # saved /\ call.token # 0
HoldsSaved == status = "ready" /\ call.at # "write" => current # Session!None

\* While no answer was lost, a session that the server accepts is the saved one, or
\* the one that is being saved.
Accepted ==
    /\ call.at \notin {"write", "disown"} => live \subseteq {saved}
    /\ call.at \in {"write", "disown"} => live \subseteq {call.token} /\ saved \notin live
    /\ phase \in {"phone", "code"} => saved \notin live
    /\ call.at = "clear" => live = {}
    /\ call.at # "clear unsure"
    /\ phase = "ready" => current # Session!None \/ call.at \in {"read", "ask"}
NobodyElse == lost = 0 => Accepted

SessionInv == SessionTypes /\ PhaseOfCall /\ HoldsSaved /\ NobodyElse /\ Session!ReadyIsBound

LEMMA SessionInitInv == ASSUME Session!SessionInit PROVE SessionInv
  BY DEF Session!SessionInit, SessionInv, SessionTypes, ServerType, PhaseType, ChallengeType, CallType, Challenges, CallRecords, PhaseOfCall, HoldsSaved,
         NobodyElse, Accepted, Steps, CodeNumbers,
         Session!ReadyIsBound, Session!Authenticated, Session!Idle, Session!None, Session!NoChallenge

\* A call that is not under way is at no step.
LEMMA IdleCall == /\ Session!Idle \in CallRecords /\ Session!Idle.at = "none" /\ Session!Idle.token = 0
                  /\ call = Session!Idle => call.at = "none"
  BY DEF Session!Idle, Session!None, CallRecords, Steps

LEMMA SessionInvImplies == ASSUME SessionInv PROVE Session!SessionTypeOK /\ Session!ReadyIsBound /\ Session!NothingLeftAlive
<1>1. Session!SessionTypeOK
  BY DEF SessionInv, SessionTypes, ServerType, PhaseType, Session!SessionTypeOK
<1>2. Session!NothingLeftAlive
  BY IdleCall DEF SessionInv, NobodyElse, Accepted, Session!NothingLeftAlive, Session!Busy
<1> QED  BY <1>1, <1>2 DEF SessionInv

-----------------------------------------------------------------------------
(* What becomes of the running call: it ends, goes on, or begins.            *)

Ends(to) == call' \in CallRecords /\ call'.at = "none" /\ call'.token = 0 /\ phase' = to /\ attempt' \in {attempt, Session!None}
Runs(at) == call' \in CallRecords /\ call'.at = at /\ call'.token = call.token
Begins(at) == /\ call.at = "none"
              /\ call' \in CallRecords /\ call'.at = at /\ call'.token = 0

LEMMA Going == ASSUME CallType, NEW at \in Steps, Session!Go(at) PROVE Runs(at)
  BY DEF CallType, CallRecords, Session!Go, Runs

LEMMA Beginning ==
    ASSUME NEW job \in {"check", "restore", "prepare", "submit", "verify", "sign out"}, NEW at \in Steps, Session!Begin(job, at)
    PROVE  Begins(at)
<1>1. call = [job |-> "none", at |-> "none", token |-> 0] /\ call' = [job |-> job, at |-> at, token |-> 0]
  BY DEF Session!Begin, Session!Busy, Session!Idle, Session!None
<1> QED  BY <1>1 DEF Begins, CallRecords

\* The codes and the answers are of numbers that were asked for.
LEMMA AskedNumber ==
    ASSUME SessionInv
    PROVE  {[kind |-> "sent", number |-> attempt], [kind |-> "pending", number |-> attempt]} \subseteq Challenges
  BY DEF SessionInv, SessionTypes, PhaseType, Challenges
LEMMA Issuing ==
    ASSUME SessionInv, challenge.kind = "sent"
    PROVE  /\ challenge.number \in CodeNumbers
           /\ [challenge EXCEPT !.kind = "consumed"] \in Challenges
           /\ Append(issued, challenge.number) \in Seq(CodeNumbers)
           /\ Len(Append(issued, challenge.number)) = Len(issued) + 1
  BY DEF SessionInv, SessionTypes, ServerType, ChallengeType, Challenges, Session!NoChallenge
LEMMA Lengths == ASSUME SessionInv
                 PROVE  Len(issued) \in Nat /\ call.token \in 0..Len(issued) /\ live \subseteq 1..Len(issued) /\ 0 \notin live
<1>1. Len(issued) \in Nat /\ live \subseteq 1..Len(issued)
  BY DEF SessionInv, SessionTypes, ServerType
<1>2. call.token \in Nat /\ call.token <= Len(issued)
  BY DEF SessionInv, SessionTypes, CallType, CallRecords
<1> QED  BY <1>1, <1>2

\* The invariant is about these variables only.
LEMMA SessionUnchanged ==
    ASSUME SessionInv, UNCHANGED <<issued, live, saved, current, status, phase, attempt, challenge, call, bound, lost>>,
           syncing' \in {syncing, current, 0}
    PROVE  SessionInv'
<1>1. ServerType' /\ PhaseType' /\ ChallengeType' /\ CallType'
  BY DEF SessionInv, SessionTypes, ServerType, PhaseType, ChallengeType, CallType, Session!None
<1>2. PhaseOfCall' /\ HoldsSaved' /\ NobodyElse' /\ Session!ReadyIsBound'
  BY DEF SessionInv, PhaseOfCall, HoldsSaved, NobodyElse, Accepted, Session!ReadyIsBound, Session!Authenticated
<1> QED  BY <1>1, <1>2 DEF SessionInv, SessionTypes

-----------------------------------------------------------------------------
(* What each step does to what the invariant speaks of, and that it keeps it. *)

LEMMA ReadVaultInv == ASSUME SessionInv, Session!ReadVault PROVE SessionInv'
<1>1. CallType
  BY DEF SessionInv, SessionTypes
<1>2. /\ call.at = "read" /\ UNCHANGED <<issued, live, bound, syncing, lost>>
      /\ challenge' \in {challenge, Session!NoChallenge}
      /\ \/ Ends("locked") /\ status' = "locked" /\ current' \in {current, Session!None} /\ saved' = saved
         \/ /\ Ends("phone") /\ status' = "signed-out" /\ (saved = Session!None \/ saved \notin live)
            /\ saved' = Session!None /\ ((saved = Session!None /\ current' = current) \/ current' = Session!None)
         \/ Runs("ask") /\ UNCHANGED <<saved, status, current, phase, attempt, challenge>>
  BY <1>1, IdleCall, Going DEF Ends, Session!Finish, Session!None, Session!ReadVault, Session!ClearOwner, Session!Break, Steps, Session!serverVars, Session!ownerVars, Session!flowVars, Session!syncVars, Session!faults
<1>3. ServerType'
  BY <1>2, Lengths DEF SessionInv, SessionTypes, ServerType, Session!None, Ends, Runs, Begins
<1>4. PhaseType'
  BY <1>2 DEF SessionInv, SessionTypes, PhaseType, CodeNumbers, Session!None, Ends, Runs, Begins
<1>5. ChallengeType'
  BY <1>2 DEF SessionInv, SessionTypes, ChallengeType, Challenges, Session!None, Ends, Runs, Begins
<1>6. CallType'
  BY <1>2, Lengths DEF SessionInv, SessionTypes, ServerType, CallType, Ends, Runs, Begins
<1>7. PhaseOfCall' /\ HoldsSaved'
  BY <1>2, Lengths DEF SessionInv, SessionTypes, ServerType, PhaseType, PhaseOfCall, HoldsSaved, Session!None, Ends, Runs, Begins
<1>8. NobodyElse'
  <2> SUFFICES ASSUME lost' = 0 PROVE Accepted'
    BY DEF NobodyElse
  <2>1. lost = 0 /\ Accepted
    BY <1>2 DEF SessionInv, SessionTypes, ServerType, NobodyElse
  <2>2. current \in {Session!None, saved}
    BY DEF SessionInv, SessionTypes, ServerType
  <2> QED  BY <1>2, <2>1, <2>2, Lengths DEF SessionInv, PhaseOfCall, Accepted, Session!None, Ends, Runs, Begins
<1>9. Session!ReadyIsBound'
  BY <1>2 DEF SessionInv, PhaseOfCall, Session!ReadyIsBound, Session!Authenticated, Session!None, Ends, Runs, Begins
<1> QED  BY <1>3, <1>4, <1>5, <1>6, <1>7, <1>8, <1>9 DEF SessionInv, SessionTypes

LEMMA AskInv == ASSUME SessionInv, Session!Ask PROVE SessionInv'
<1>1. CallType
  BY DEF SessionInv, SessionTypes
<1>2. /\ call.at = "ask" /\ UNCHANGED <<issued, live, bound, syncing>>
      /\ challenge' \in {challenge, Session!NoChallenge}
      /\ \/ /\ Ends("phone") /\ status' = "signed-out" /\ saved \notin live /\ lost' = lost
            /\ saved' = Session!None /\ current' = Session!None
         \/ /\ Ends("locked") /\ status' = "locked" /\ saved \notin live /\ lost' = lost
            /\ saved' = saved /\ current' = Session!None
         \/ Ends("offline") /\ lost' = lost + 1 /\ status' = "offline" /\ current' = saved /\ saved' = saved
         \/ Ends(phase) /\ lost' = lost + 1 /\ status' = "locked" /\ UNCHANGED <<saved, current>>
         \/ /\ Runs("bind") /\ saved \in live /\ current' = saved /\ status' = "ready" /\ phase' = "preparing"
            /\ UNCHANGED <<saved, attempt, lost>>
  BY <1>1, IdleCall, Going DEF Ends, Session!Finish, Session!None, Session!Ask, Session!ClearOwner, Session!Break, Session!Lose, Session!Prepare, Steps, Session!serverVars, Session!ownerVars, Session!flowVars, Session!syncVars, Session!faults
<1>3. ServerType'
  BY <1>2, Lengths DEF SessionInv, SessionTypes, ServerType, Session!None, Ends, Runs, Begins
<1>4. PhaseType'
  BY <1>2 DEF SessionInv, SessionTypes, PhaseType, CodeNumbers, Session!None, Ends, Runs, Begins
<1>5. ChallengeType'
  BY <1>2 DEF SessionInv, SessionTypes, ChallengeType, Challenges, Session!None, Ends, Runs, Begins
<1>6. CallType'
  BY <1>2, Lengths DEF SessionInv, SessionTypes, ServerType, CallType, Ends, Runs, Begins
<1>7. PhaseOfCall' /\ HoldsSaved'
  BY <1>2, Lengths DEF SessionInv, SessionTypes, ServerType, PhaseType, PhaseOfCall, HoldsSaved, Session!None, Ends, Runs, Begins
<1>8. NobodyElse'
  <2> SUFFICES ASSUME lost' = 0 PROVE Accepted'
    BY DEF NobodyElse
  <2>1. lost = 0 /\ Accepted
    BY <1>2 DEF SessionInv, SessionTypes, ServerType, NobodyElse
  <2>2. current \in {Session!None, saved}
    BY DEF SessionInv, SessionTypes, ServerType
  <2>3. live \subseteq {saved} /\ live' = live
    BY <1>2, <2>1 DEF Accepted
  <2>4. CASE Ends("phone") /\ saved \notin live
    BY <1>2, <2>3, <2>4 DEF Accepted, Ends
  <2>5. CASE Ends("locked") /\ saved \notin live
    BY <1>2, <2>3, <2>5 DEF Accepted, Ends
  <2>6. CASE Runs("bind") /\ phase' = "preparing" /\ saved' = saved
    BY <2>3, <2>6 DEF Accepted, Runs
  <2> QED  BY <1>2, <2>1, <2>4, <2>5, <2>6
<1>9. Session!ReadyIsBound'
  BY <1>2 DEF SessionInv, PhaseOfCall, Session!ReadyIsBound, Session!Authenticated, Session!None, Ends, Runs, Begins
<1> QED  BY <1>3, <1>4, <1>5, <1>6, <1>7, <1>8, <1>9 DEF SessionInv, SessionTypes

LEMMA BindInv == ASSUME SessionInv, Session!Bind PROVE SessionInv'
<1>1. CallType
  BY DEF SessionInv, SessionTypes
<1>2. /\ call.at = "bind" /\ UNCHANGED <<issued, live, saved, status, current, challenge, syncing>>
      /\ \/ Ends("phone") /\ current \notin live /\ UNCHANGED <<bound, lost>>
         \/ Ends(phase) /\ lost' = lost + 1 /\ UNCHANGED bound
         \/ Runs("publish") /\ bound' = current /\ UNCHANGED <<phase, attempt, lost>>
  BY <1>1, IdleCall, Going DEF Ends, Session!Finish, Session!None, Session!Bind, Session!Lose, Steps, Session!serverVars, Session!ownerVars, Session!flowVars, Session!syncVars, Session!faults
<1>3. ServerType'
  BY <1>2, Lengths DEF SessionInv, SessionTypes, ServerType, Session!None, Ends, Runs, Begins
<1>4. PhaseType'
  BY <1>2 DEF SessionInv, SessionTypes, PhaseType, CodeNumbers, Session!None, Ends, Runs, Begins
<1>5. ChallengeType'
  BY <1>2 DEF SessionInv, SessionTypes, ChallengeType, Challenges, Session!None, Ends, Runs, Begins
<1>6. CallType'
  BY <1>2, Lengths DEF SessionInv, SessionTypes, ServerType, CallType, Ends, Runs, Begins
<1>7. PhaseOfCall' /\ HoldsSaved'
  BY <1>2, Lengths DEF SessionInv, SessionTypes, ServerType, PhaseType, PhaseOfCall, HoldsSaved, Session!None, Ends, Runs, Begins
<1>8. NobodyElse'
  <2> SUFFICES ASSUME lost' = 0 PROVE Accepted'
    BY DEF NobodyElse
  <2>1. lost = 0 /\ Accepted
    BY <1>2 DEF SessionInv, SessionTypes, ServerType, NobodyElse
  <2>2. current \in {Session!None, saved}
    BY DEF SessionInv, SessionTypes, ServerType
  <2>3. live' \subseteq {saved} /\ saved' = saved /\ (phase' \in {"phone", "code"} => saved \notin live)
    BY <1>2, <2>1, <2>2 DEF SessionInv, PhaseOfCall, HoldsSaved, Accepted, Session!None, Ends, Runs
  <2> QED  BY <1>2, <2>1, <2>3 DEF SessionInv, PhaseOfCall, Accepted, Ends, Runs
<1>9. Session!ReadyIsBound'
  BY <1>2 DEF SessionInv, PhaseOfCall, Session!ReadyIsBound, Session!Authenticated, Session!None, Ends, Runs, Begins
<1> QED  BY <1>3, <1>4, <1>5, <1>6, <1>7, <1>8, <1>9 DEF SessionInv, SessionTypes

LEMMA PublishAccountKeysInv == ASSUME SessionInv, Session!PublishAccountKeys PROVE SessionInv'
<1>1. CallType
  BY DEF SessionInv, SessionTypes
<1>2. /\ call.at = "publish" /\ UNCHANGED <<issued, live, saved, status, current, challenge, bound, syncing>>
      /\ \/ Ends(phase) /\ lost' \in {lost, lost + 1}
         \/ Ends("ready") /\ current \in live /\ lost' = lost
  BY <1>1, IdleCall, Going DEF Ends, Session!Finish, Session!None, Session!PublishAccountKeys, Session!Lose, Steps, Session!serverVars, Session!ownerVars, Session!flowVars, Session!syncVars, Session!faults
<1>3. ServerType'
  BY <1>2, Lengths DEF SessionInv, SessionTypes, ServerType, Session!None, Ends, Runs, Begins
<1>4. PhaseType'
  BY <1>2 DEF SessionInv, SessionTypes, PhaseType, CodeNumbers, Session!None, Ends, Runs, Begins
<1>5. ChallengeType'
  BY <1>2 DEF SessionInv, SessionTypes, ChallengeType, Challenges, Session!None, Ends, Runs, Begins
<1>6. CallType'
  BY <1>2, Lengths DEF SessionInv, SessionTypes, ServerType, CallType, Ends, Runs, Begins
<1>7. PhaseOfCall' /\ HoldsSaved'
  BY <1>2, Lengths DEF SessionInv, SessionTypes, ServerType, PhaseType, PhaseOfCall, HoldsSaved, Session!None, Ends, Runs, Begins
<1>8. NobodyElse'
  <2> SUFFICES ASSUME lost' = 0 PROVE Accepted'
    BY DEF NobodyElse
  <2>1. lost = 0 /\ Accepted
    BY <1>2 DEF SessionInv, SessionTypes, ServerType, NobodyElse
  <2>2. current \in {Session!None, saved}
    BY DEF SessionInv, SessionTypes, ServerType
  <2> QED  BY <1>2, <2>1, <2>2, Lengths DEF SessionInv, PhaseOfCall, Accepted, Session!None, Ends, Runs, Begins
<1>9. Session!ReadyIsBound'
  BY <1>2 DEF SessionInv, PhaseOfCall, HoldsSaved, Session!ReadyIsBound, Session!Authenticated, Session!None, Ends, Runs, Begins
<1> QED  BY <1>3, <1>4, <1>5, <1>6, <1>7, <1>8, <1>9 DEF SessionInv, SessionTypes

LEMMA SendInv == ASSUME SessionInv, Session!Send PROVE SessionInv'
<1>1. CallType
  BY DEF SessionInv, SessionTypes
<1>2. /\ call.at = "start" /\ UNCHANGED <<issued, live, saved, status, current, bound, syncing>>
      /\ challenge' \in {challenge, [kind |-> "sent", number |-> attempt], [kind |-> "pending", number |-> attempt]}
      /\ \/ Ends("code") /\ lost' = lost
         \/ Ends(phase) /\ lost' \in {lost, lost + 1}
  BY <1>1, IdleCall, Going DEF Ends, Session!Finish, Session!None, Session!Send, Session!Lose, Steps, Session!serverVars, Session!ownerVars, Session!flowVars, Session!syncVars, Session!faults
<1>3. ServerType'
  BY <1>2, Lengths, AskedNumber DEF SessionInv, SessionTypes, ServerType, Session!None, Ends, Runs, Begins
<1>4. PhaseType'
  BY <1>2, AskedNumber DEF SessionInv, SessionTypes, PhaseType, CodeNumbers, Session!None, Ends, Runs, Begins
<1>5. ChallengeType'
  BY <1>2, AskedNumber DEF SessionInv, SessionTypes, ChallengeType, Challenges, Session!None, Ends, Runs, Begins
<1>6. CallType'
  BY <1>2, Lengths, AskedNumber DEF SessionInv, SessionTypes, ServerType, CallType, Ends, Runs, Begins
<1>7. PhaseOfCall' /\ HoldsSaved'
  BY <1>2, Lengths DEF SessionInv, SessionTypes, ServerType, PhaseType, PhaseOfCall, HoldsSaved, Session!None, Ends, Runs, Begins
<1>8. NobodyElse'
  <2> SUFFICES ASSUME lost' = 0 PROVE Accepted'
    BY DEF NobodyElse
  <2>1. lost = 0 /\ Accepted
    BY <1>2 DEF SessionInv, SessionTypes, ServerType, NobodyElse
  <2>2. current \in {Session!None, saved}
    BY DEF SessionInv, SessionTypes, ServerType
  <2> QED  BY <1>2, <2>1, <2>2, Lengths DEF SessionInv, PhaseOfCall, Accepted, Session!None, Ends, Runs, Begins
<1>9. Session!ReadyIsBound'
  BY <1>2 DEF SessionInv, PhaseOfCall, Session!ReadyIsBound, Session!Authenticated, Session!None, Ends, Runs, Begins
<1> QED  BY <1>3, <1>4, <1>5, <1>6, <1>7, <1>8, <1>9 DEF SessionInv, SessionTypes

LEMMA VerifyAnswerInv == ASSUME SessionInv, Session!VerifyAnswer PROVE SessionInv'
<1>1. CallType
  BY DEF SessionInv, SessionTypes
<1>2. /\ call.at = "verify" /\ UNCHANGED <<saved, status, bound, syncing>>
      /\ \/ /\ Ends(phase) \/ Ends("phone")
            /\ UNCHANGED <<issued, live, challenge, current, lost>>
         \/ /\ issued' = Append(issued, challenge.number) /\ live' \subseteq live \cup {Len(issued) + 1}
            /\ challenge.kind = "sent" /\ challenge' = Session!NoChallenge /\ current' = Session!None
            /\ call' \in CallRecords /\ call'.at = "write" /\ call'.token = Len(issued) + 1
            /\ UNCHANGED <<phase, attempt, lost>>
         \/ /\ issued' = Append(issued, challenge.number) /\ live' \subseteq live \cup {Len(issued) + 1}
            /\ challenge.kind = "sent" /\ challenge' = [challenge EXCEPT !.kind = "consumed"]
            /\ Ends(phase) /\ lost' = lost + 1 /\ current' = current
  <2> DEFINE writing == [call EXCEPT !.at = "write", !.token = Len(issued) + 1]
  <2>1. writing \in CallRecords /\ writing.at = "write" /\ writing.token = Len(issued) + 1
    <3>1. "write" \in Steps /\ Len(issued) + 1 \in Nat /\ call \in CallRecords
      BY <1>1, Lengths DEF CallType, Steps
    <3> QED  BY <3>1 DEF CallRecords
  <2>2. challenge.kind \in {"none", "sent", "pending", "consumed"}
    BY DEF SessionInv, SessionTypes, ChallengeType, Challenges, Session!NoChallenge
  <2>3. call.at = "verify" /\ UNCHANGED <<saved, status, bound, syncing>>
    BY DEF Session!VerifyAnswer
  <2>4. CASE challenge.kind # "sent"
    BY <2>2, <2>3, <2>4, IdleCall DEF Ends, Session!Finish, Session!None, Session!VerifyAnswer, Session!serverVars, Session!faults
  <2>5. CASE challenge.kind = "sent"
    <3> HIDE DEF writing
    <3>1. \/ Session!Finish(phase, "INVALID_CODE") /\ UNCHANGED <<issued, live, challenge, current, lost>>
          \/ /\ Session!Issue(challenge.number) /\ challenge' = Session!NoChallenge /\ current' = Session!None
             /\ call' = writing /\ UNCHANGED <<phase, attempt, lost>>
          \/ /\ Session!Issue(challenge.number) /\ challenge' = [challenge EXCEPT !.kind = "consumed"]
             /\ lost' = lost + 1 /\ Session!Finish(phase, "NETWORK") /\ UNCHANGED current
      BY <2>5 DEF writing, Session!VerifyAnswer, Session!serverVars, Session!faults, Session!Lose
    <3> QED  BY <2>1, <2>3, <2>5, <3>1, IdleCall DEF Ends, Session!Finish, Session!None, Session!Issue
  <2> QED  BY <2>4, <2>5
<1>3. ServerType'
  <2>1. issued' \in Seq(CodeNumbers)
    BY <1>2, Lengths, Issuing DEF SessionInv, SessionTypes, ServerType
  <2>2. live' \subseteq 1..Len(issued')
    BY <1>2, Lengths, Issuing
  <2>3. saved' \in 0..Len(issued') /\ current' \in {Session!None, saved'} /\ syncing' \in 0..Len(issued') /\ lost' \in Nat
    BY <1>2, Lengths, Issuing DEF SessionInv, SessionTypes, ServerType, Session!None
  <2> QED  BY <2>1, <2>2, <2>3 DEF ServerType
<1>4. PhaseType'
  BY <1>2, Issuing DEF SessionInv, SessionTypes, PhaseType, CodeNumbers, Session!None, Ends, Runs, Begins
<1>5. ChallengeType'
  BY <1>2, Issuing DEF SessionInv, SessionTypes, ChallengeType, Challenges, Session!None, Ends, Runs, Begins
<1>6. CallType'
  BY <1>2, Lengths, Issuing DEF SessionInv, SessionTypes, ServerType, CallType, Ends, Runs, Begins
<1>7. PhaseOfCall' /\ HoldsSaved'
  <2>1. saved # Len(issued) + 1 /\ Len(issued) + 1 # 0
    BY Lengths DEF SessionInv, SessionTypes, ServerType
  <2>2. phase = "code"
    BY <1>2 DEF SessionInv, PhaseOfCall
  <2>3. HoldsSaved'
    BY <1>2 DEF SessionInv, HoldsSaved, Ends
  <2> QED  BY <1>2, <2>1, <2>2, <2>3 DEF PhaseOfCall, Ends
<1>8. NobodyElse'
  <2> SUFFICES ASSUME lost' = 0 PROVE Accepted'
    BY DEF NobodyElse
  <2>1. lost = 0 /\ Accepted
    BY <1>2 DEF SessionInv, SessionTypes, ServerType, NobodyElse
  <2>2. current \in {Session!None, saved}
    BY DEF SessionInv, SessionTypes, ServerType
  <2>3. live \subseteq {saved} /\ saved \notin live /\ phase = "code"
    BY <1>2, <2>1 DEF SessionInv, PhaseOfCall, Accepted
  <2>4. saved' = saved /\ saved # Len(issued) + 1
    BY <1>2, Lengths DEF SessionInv, SessionTypes, ServerType
  <2>5. CASE (Ends(phase) \/ Ends("phone")) /\ live' = live
    BY <2>3, <2>4, <2>5 DEF Accepted, Ends
  <2>6. CASE /\ live' \subseteq live \cup {Len(issued) + 1} /\ phase' = phase
             /\ call'.at = "write" /\ call'.token = Len(issued) + 1
    BY <2>3, <2>4, <2>6 DEF Accepted
  <2> QED  BY <1>2, <2>1, <2>5, <2>6
<1>9. Session!ReadyIsBound'
  BY <1>2 DEF SessionInv, PhaseOfCall, Session!ReadyIsBound, Session!Authenticated, Session!None, Ends, Runs, Begins
<1> QED  BY <1>3, <1>4, <1>5, <1>6, <1>7, <1>8, <1>9 DEF SessionInv, SessionTypes

LEMMA SaveSessionInv == ASSUME SessionInv, Session!SaveSession PROVE SessionInv'
<1>1. CallType
  BY DEF SessionInv, SessionTypes
<1>2. /\ call.at = "write" /\ UNCHANGED <<issued, live, challenge, attempt, bound, syncing, lost>>
      /\ \/ /\ Runs("bind") /\ saved' = call.token /\ current' = call.token /\ status' = "ready" /\ phase' = "preparing"
         \/ /\ Runs("disown") /\ status' = "locked" /\ UNCHANGED <<saved, current, phase>>
  BY <1>1, IdleCall, Going DEF Ends, Session!Finish, Session!None, Session!SaveSession, Session!Prepare, Session!Break, Steps, Session!serverVars, Session!ownerVars, Session!flowVars, Session!syncVars, Session!faults
<1>3. ServerType'
  BY <1>2, Lengths DEF SessionInv, SessionTypes, ServerType, Session!None, Ends, Runs, Begins
<1>4. PhaseType'
  BY <1>2 DEF SessionInv, SessionTypes, PhaseType, CodeNumbers, Session!None, Ends, Runs, Begins
<1>5. ChallengeType'
  BY <1>2 DEF SessionInv, SessionTypes, ChallengeType, Challenges, Session!None, Ends, Runs, Begins
<1>6. CallType'
  BY <1>2, Lengths DEF SessionInv, SessionTypes, ServerType, CallType, Ends, Runs, Begins
<1>7. PhaseOfCall' /\ HoldsSaved'
  BY <1>2, Lengths DEF SessionInv, SessionTypes, ServerType, PhaseType, PhaseOfCall, HoldsSaved, Session!None, Ends, Runs, Begins
<1>8. NobodyElse'
  <2> SUFFICES ASSUME lost' = 0 PROVE Accepted'
    BY DEF NobodyElse
  <2>1. lost = 0 /\ Accepted
    BY <1>2 DEF SessionInv, SessionTypes, ServerType, NobodyElse
  <2>2. current \in {Session!None, saved}
    BY DEF SessionInv, SessionTypes, ServerType
  <2> QED  BY <1>2, <2>1, <2>2, Lengths DEF SessionInv, PhaseOfCall, Accepted, Session!None, Ends, Runs, Begins
<1>9. Session!ReadyIsBound'
  BY <1>2 DEF SessionInv, PhaseOfCall, Session!ReadyIsBound, Session!Authenticated, Session!None, Ends, Runs, Begins
<1> QED  BY <1>3, <1>4, <1>5, <1>6, <1>7, <1>8, <1>9 DEF SessionInv, SessionTypes

LEMMA DisownInv == ASSUME SessionInv, Session!Disown PROVE SessionInv'
<1>1. CallType
  BY DEF SessionInv, SessionTypes
<1>2. /\ call.at = "disown" /\ UNCHANGED <<issued, saved, status, current, challenge, bound, syncing>>
      /\ Ends("locked")
      /\ \/ live' = live \ {call.token} /\ lost' = lost
         \/ live' = live /\ lost' = lost + 1
  BY <1>1, IdleCall, Going DEF Ends, Session!Finish, Session!None, Session!Disown, Session!Lose, Steps, Session!serverVars, Session!ownerVars, Session!flowVars, Session!syncVars, Session!faults
<1>3. ServerType'
  <2>1. issued' \in Seq(CodeNumbers)
    BY <1>2, Lengths DEF SessionInv, SessionTypes, ServerType
  <2>2. live' \subseteq 1..Len(issued')
    BY <1>2, Lengths
  <2>3. saved' \in 0..Len(issued') /\ current' \in {Session!None, saved'} /\ syncing' \in 0..Len(issued') /\ lost' \in Nat
    BY <1>2, Lengths DEF SessionInv, SessionTypes, ServerType, Session!None
  <2> QED  BY <2>1, <2>2, <2>3 DEF ServerType
<1>4. PhaseType'
  BY <1>2 DEF SessionInv, SessionTypes, PhaseType, CodeNumbers, Session!None, Ends, Runs, Begins
<1>5. ChallengeType'
  BY <1>2 DEF SessionInv, SessionTypes, ChallengeType, Challenges, Session!None, Ends, Runs, Begins
<1>6. CallType'
  BY <1>2, Lengths DEF SessionInv, SessionTypes, ServerType, CallType, Ends, Runs, Begins
<1>7. PhaseOfCall' /\ HoldsSaved'
  BY <1>2, Lengths DEF SessionInv, SessionTypes, ServerType, PhaseType, PhaseOfCall, HoldsSaved, Session!None, Ends, Runs, Begins
<1>8. NobodyElse'
  <2> SUFFICES ASSUME lost' = 0 PROVE Accepted'
    BY DEF NobodyElse
  <2>1. lost = 0 /\ Accepted
    BY <1>2 DEF SessionInv, SessionTypes, ServerType, NobodyElse
  <2>2. current \in {Session!None, saved}
    BY DEF SessionInv, SessionTypes, ServerType
  <2> QED  BY <1>2, <2>1, <2>2, Lengths DEF SessionInv, PhaseOfCall, Accepted, Session!None, Ends, Runs, Begins
<1>9. Session!ReadyIsBound'
  BY <1>2 DEF SessionInv, PhaseOfCall, Session!ReadyIsBound, Session!Authenticated, Session!None, Ends, Runs, Begins
<1> QED  BY <1>3, <1>4, <1>5, <1>6, <1>7, <1>8, <1>9 DEF SessionInv, SessionTypes

LEMMA RevokeInv == ASSUME SessionInv, Session!Revoke PROVE SessionInv'
<1>1. CallType
  BY DEF SessionInv, SessionTypes
<1>2. /\ call.at = "revoke" /\ UNCHANGED <<issued, saved, status, current, challenge, phase, attempt, bound, syncing>>
      /\ \/ Runs("clear") /\ live' = live \ {current} /\ lost' = lost
         \/ Runs("clear unsure") /\ live' \subseteq live /\ lost' = lost + 1
  BY <1>1, IdleCall, Going DEF Ends, Session!Finish, Session!None, Session!Revoke, Session!Lose, Steps, Session!serverVars, Session!ownerVars, Session!flowVars, Session!syncVars, Session!faults
<1>3. ServerType'
  <2>1. issued' \in Seq(CodeNumbers)
    BY <1>2, Lengths DEF SessionInv, SessionTypes, ServerType
  <2>2. live' \subseteq 1..Len(issued')
    BY <1>2, Lengths
  <2>3. saved' \in 0..Len(issued') /\ current' \in {Session!None, saved'} /\ syncing' \in 0..Len(issued')
    BY <1>2, Lengths DEF SessionInv, SessionTypes, ServerType, Session!None
  <2>4. lost' \in Nat
    <3>1. lost' = lost \/ lost' = lost + 1
      BY <1>2
    <3>2. lost \in Nat
      BY DEF SessionInv, SessionTypes, ServerType
    <3> QED  BY <3>1, <3>2
  <2> QED  BY <2>1, <2>2, <2>3, <2>4 DEF ServerType
<1>4. PhaseType'
  BY <1>2 DEF SessionInv, SessionTypes, PhaseType, CodeNumbers, Session!None, Ends, Runs, Begins
<1>5. ChallengeType'
  BY <1>2 DEF SessionInv, SessionTypes, ChallengeType, Challenges, Session!None, Ends, Runs, Begins
<1>6. CallType'
  BY <1>2, Lengths DEF SessionInv, SessionTypes, ServerType, CallType, Ends, Runs, Begins
<1>7. PhaseOfCall' /\ HoldsSaved'
  BY <1>2, Lengths DEF SessionInv, SessionTypes, ServerType, PhaseType, PhaseOfCall, HoldsSaved, Session!None, Ends, Runs, Begins
<1>8. NobodyElse'
  <2> SUFFICES ASSUME lost' = 0 PROVE Accepted'
    BY DEF NobodyElse
  <2>1. lost = 0 /\ Accepted
    <3>1. lost \in Nat
      BY DEF SessionInv, SessionTypes, ServerType
    <3>2. lost' = lost \/ lost' = lost + 1
      BY <1>2
    <3>3. lost = 0
      BY <3>1, <3>2
    <3> QED  BY <3>3 DEF SessionInv, NobodyElse
  <2>2. current \in {Session!None, saved}
    BY DEF SessionInv, SessionTypes, ServerType
  <2>3. phase = "ready" /\ current = saved /\ live \subseteq {saved}
    BY <1>2, <2>1, <2>2 DEF SessionInv, PhaseOfCall, Accepted
  <2>4. Runs("clear") /\ live' = live \ {current} /\ lost' = lost
    <3>1. lost \in Nat
      BY DEF SessionInv, SessionTypes, ServerType
    <3> QED  BY <1>2, <2>1, <3>1
  <2>5. live' = {} /\ saved' = saved /\ phase' = "ready" /\ current' # Session!None
    BY <1>2, <2>1, <2>3, <2>4 DEF Accepted
  <2> QED  BY <2>4, <2>5 DEF Accepted, Runs
<1>9. Session!ReadyIsBound'
  BY <1>2 DEF SessionInv, PhaseOfCall, Session!ReadyIsBound, Session!Authenticated, Session!None, Ends, Runs, Begins
<1> QED  BY <1>3, <1>4, <1>5, <1>6, <1>7, <1>8, <1>9 DEF SessionInv, SessionTypes

LEMMA SignedOutInv == ASSUME SessionInv, Session!SignedOut PROVE SessionInv'
<1>1. CallType
  BY DEF SessionInv, SessionTypes
<1>2. /\ call.at \in {"clear", "clear unsure"} /\ UNCHANGED <<issued, live, bound, syncing, lost>>
      /\ current' = Session!None /\ challenge' = Session!NoChallenge
      /\ \/ Ends("phone") /\ saved' = Session!None /\ status' = "signed-out"
         \/ Ends("locked") /\ saved' = saved /\ status' = "locked"
  BY <1>1, IdleCall DEF Session!Finish, Session!None, Session!SignedOut, Session!Break, Steps, Session!serverVars, Session!ownerVars, Session!flowVars, Session!syncVars, Session!faults, Ends
<1>3. ServerType'
  <2>1. issued' \in Seq(CodeNumbers)
    BY <1>2, Lengths DEF SessionInv, SessionTypes, ServerType
  <2>2. live' \subseteq 1..Len(issued')
    BY <1>2, Lengths
  <2>3. saved' \in 0..Len(issued') /\ current' \in {Session!None, saved'} /\ syncing' \in 0..Len(issued') /\ lost' \in Nat
    <3>1. saved \in 0..Len(issued) /\ syncing \in 0..Len(issued) /\ lost \in Nat
      BY DEF SessionInv, SessionTypes, ServerType
    <3>2. UNCHANGED <<issued, syncing, lost>> /\ current' = Session!None /\ saved' \in {saved, Session!None}
      BY <1>2
    <3> QED  BY <3>1, <3>2, Lengths DEF Session!None
  <2> QED  BY <2>1, <2>2, <2>3 DEF ServerType
<1>4. PhaseType'
  BY <1>2 DEF SessionInv, SessionTypes, PhaseType, CodeNumbers, Session!None, Ends, Runs, Begins
<1>5. ChallengeType'
  BY <1>2 DEF SessionInv, SessionTypes, ChallengeType, Challenges, Session!None, Ends, Runs, Begins
<1>6. CallType'
  <2>1. call' \in CallRecords /\ call'.token = 0 /\ issued' = issued
    BY <1>2 DEF Ends
  <2> QED  BY <2>1, Lengths DEF CallType
<1>7. PhaseOfCall' /\ HoldsSaved'
  BY <1>2, Lengths DEF SessionInv, SessionTypes, ServerType, PhaseType, PhaseOfCall, HoldsSaved, Session!None, Ends, Runs, Begins
<1>8. NobodyElse'
  <2> SUFFICES ASSUME lost' = 0 PROVE Accepted'
    BY DEF NobodyElse
  <2>1. lost = 0 /\ Accepted
    BY <1>2 DEF SessionInv, SessionTypes, ServerType, NobodyElse
  <2>2. current \in {Session!None, saved}
    BY DEF SessionInv, SessionTypes, ServerType
  <2> QED  BY <1>2, <2>1, <2>2, Lengths DEF SessionInv, PhaseOfCall, Accepted, Session!None, Ends, Runs, Begins
<1>9. Session!ReadyIsBound'
  BY <1>2 DEF SessionInv, PhaseOfCall, Session!ReadyIsBound, Session!Authenticated, Session!None, Ends, Runs, Begins
<1> QED  BY <1>3, <1>4, <1>5, <1>6, <1>7, <1>8, <1>9 DEF SessionInv, SessionTypes

LEMMA RestoreInv == ASSUME SessionInv, Session!Restore PROVE SessionInv'
<1>1. CallType
  BY DEF SessionInv, SessionTypes
<1>2. /\ Begins("read") /\ phase # "ready" /\ current' = Session!None /\ status' = "checking"
      /\ UNCHANGED <<issued, live, saved, challenge, phase, attempt, bound, syncing, lost>>
  BY <1>1, Beginning DEF Session!Restore, Session!RestoreBegin, Steps, Session!serverVars, Session!ownerVars, Session!flowVars, Session!syncVars, Session!faults
<1>3. ServerType'
  BY <1>2, Lengths DEF SessionInv, SessionTypes, ServerType, Session!None, Ends, Runs, Begins
<1>4. PhaseType'
  BY <1>2 DEF SessionInv, SessionTypes, PhaseType, CodeNumbers, Session!None, Ends, Runs, Begins
<1>5. ChallengeType'
  BY <1>2 DEF SessionInv, SessionTypes, ChallengeType, Challenges, Session!None, Ends, Runs, Begins
<1>6. CallType'
  BY <1>2, Lengths DEF SessionInv, SessionTypes, ServerType, CallType, Ends, Runs, Begins
<1>7. PhaseOfCall' /\ HoldsSaved'
  BY <1>2, Lengths DEF SessionInv, SessionTypes, ServerType, PhaseType, PhaseOfCall, HoldsSaved, Session!None, Ends, Runs, Begins
<1>8. NobodyElse'
  <2> SUFFICES ASSUME lost' = 0 PROVE Accepted'
    BY DEF NobodyElse
  <2>1. lost = 0 /\ Accepted
    BY <1>2 DEF SessionInv, SessionTypes, ServerType, NobodyElse
  <2>2. current \in {Session!None, saved}
    BY DEF SessionInv, SessionTypes, ServerType
  <2> QED  BY <1>2, <2>1, <2>2, Lengths DEF SessionInv, PhaseOfCall, Accepted, Session!None, Ends, Runs, Begins
<1>9. Session!ReadyIsBound'
  BY <1>2 DEF SessionInv, PhaseOfCall, Session!ReadyIsBound, Session!Authenticated, Session!None, Ends, Runs, Begins
<1> QED  BY <1>3, <1>4, <1>5, <1>6, <1>7, <1>8, <1>9 DEF SessionInv, SessionTypes

LEMMA RetryPreparationInv == ASSUME SessionInv, Session!RetryPreparation PROVE SessionInv'
<1>1. CallType
  BY DEF SessionInv, SessionTypes
<1>2. /\ Begins("bind") /\ phase = "preparing" /\ status = "ready"
      /\ UNCHANGED <<issued, live, saved, status, current, challenge, phase, attempt, bound, syncing, lost>>
  BY <1>1, Beginning DEF Session!RetryPreparation, Steps, Session!serverVars, Session!ownerVars, Session!flowVars, Session!syncVars, Session!faults
<1>3. ServerType'
  BY <1>2, Lengths DEF SessionInv, SessionTypes, ServerType, Session!None, Ends, Runs, Begins
<1>4. PhaseType'
  BY <1>2 DEF SessionInv, SessionTypes, PhaseType, CodeNumbers, Session!None, Ends, Runs, Begins
<1>5. ChallengeType'
  BY <1>2 DEF SessionInv, SessionTypes, ChallengeType, Challenges, Session!None, Ends, Runs, Begins
<1>6. CallType'
  BY <1>2, Lengths DEF SessionInv, SessionTypes, ServerType, CallType, Ends, Runs, Begins
<1>7. PhaseOfCall' /\ HoldsSaved'
  BY <1>2, Lengths DEF SessionInv, SessionTypes, ServerType, PhaseType, PhaseOfCall, HoldsSaved, Session!None, Ends, Runs, Begins
<1>8. NobodyElse'
  <2> SUFFICES ASSUME lost' = 0 PROVE Accepted'
    BY DEF NobodyElse
  <2>1. lost = 0 /\ Accepted
    BY <1>2 DEF SessionInv, SessionTypes, ServerType, NobodyElse
  <2>2. current \in {Session!None, saved}
    BY DEF SessionInv, SessionTypes, ServerType
  <2> QED  BY <1>2, <2>1, <2>2, Lengths DEF SessionInv, PhaseOfCall, Accepted, Session!None, Ends, Runs, Begins
<1>9. Session!ReadyIsBound'
  BY <1>2 DEF SessionInv, PhaseOfCall, Session!ReadyIsBound, Session!Authenticated, Session!None, Ends, Runs, Begins
<1> QED  BY <1>3, <1>4, <1>5, <1>6, <1>7, <1>8, <1>9 DEF SessionInv, SessionTypes

LEMMA SubmitPhoneInv == ASSUME SessionInv, Session!SubmitPhone PROVE SessionInv'
<1>1. CallType
  BY DEF SessionInv, SessionTypes
<1>2. /\ Begins("start") /\ phase = "phone" /\ attempt' \in Numbers /\ challenge' = Session!NoChallenge
      /\ UNCHANGED <<issued, live, saved, status, current, phase, bound, syncing, lost>>
  BY <1>1, Beginning DEF Session!SubmitPhone, Session!Request, Steps, Session!serverVars, Session!ownerVars, Session!flowVars, Session!syncVars, Session!faults
<1>3. ServerType'
  BY <1>2, Lengths DEF SessionInv, SessionTypes, ServerType, Session!None, Ends, Runs, Begins
<1>4. PhaseType'
  BY <1>2 DEF SessionInv, SessionTypes, PhaseType, CodeNumbers, Session!None, Ends, Runs, Begins
<1>5. ChallengeType'
  BY <1>2 DEF SessionInv, SessionTypes, ChallengeType, Challenges, Session!None, Ends, Runs, Begins
<1>6. CallType'
  BY <1>2, Lengths DEF SessionInv, SessionTypes, ServerType, CallType, Ends, Runs, Begins
<1>7. PhaseOfCall' /\ HoldsSaved'
  BY <1>2, Lengths DEF SessionInv, SessionTypes, ServerType, PhaseType, PhaseOfCall, HoldsSaved, Session!None, Ends, Runs, Begins
<1>8. NobodyElse'
  <2> SUFFICES ASSUME lost' = 0 PROVE Accepted'
    BY DEF NobodyElse
  <2>1. lost = 0 /\ Accepted
    BY <1>2 DEF SessionInv, SessionTypes, ServerType, NobodyElse
  <2>2. current \in {Session!None, saved}
    BY DEF SessionInv, SessionTypes, ServerType
  <2> QED  BY <1>2, <2>1, <2>2, Lengths DEF SessionInv, PhaseOfCall, Accepted, Session!None, Ends, Runs, Begins
<1>9. Session!ReadyIsBound'
  BY <1>2 DEF SessionInv, PhaseOfCall, Session!ReadyIsBound, Session!Authenticated, Session!None, Ends, Runs, Begins
<1> QED  BY <1>3, <1>4, <1>5, <1>6, <1>7, <1>8, <1>9 DEF SessionInv, SessionTypes

LEMMA ResendInv == ASSUME SessionInv, Session!Resend PROVE SessionInv'
<1>1. CallType
  BY DEF SessionInv, SessionTypes
<1>2. /\ Begins("start") /\ phase = "code" /\ attempt' = attempt /\ challenge' = Session!NoChallenge
      /\ UNCHANGED <<issued, live, saved, status, current, phase, bound, syncing, lost>>
  BY <1>1, Beginning DEF Session!Resend, Session!Request, Steps, Session!serverVars, Session!ownerVars, Session!flowVars, Session!syncVars, Session!faults
<1>3. ServerType'
  BY <1>2, Lengths DEF SessionInv, SessionTypes, ServerType, Session!None, Ends, Runs, Begins
<1>4. PhaseType'
  BY <1>2 DEF SessionInv, SessionTypes, PhaseType, CodeNumbers, Session!None, Ends, Runs, Begins
<1>5. ChallengeType'
  BY <1>2 DEF SessionInv, SessionTypes, ChallengeType, Challenges, Session!None, Ends, Runs, Begins
<1>6. CallType'
  BY <1>2, Lengths DEF SessionInv, SessionTypes, ServerType, CallType, Ends, Runs, Begins
<1>7. PhaseOfCall' /\ HoldsSaved'
  BY <1>2, Lengths DEF SessionInv, SessionTypes, ServerType, PhaseType, PhaseOfCall, HoldsSaved, Session!None, Ends, Runs, Begins
<1>8. NobodyElse'
  <2> SUFFICES ASSUME lost' = 0 PROVE Accepted'
    BY DEF NobodyElse
  <2>1. lost = 0 /\ Accepted
    BY <1>2 DEF SessionInv, SessionTypes, ServerType, NobodyElse
  <2>2. current \in {Session!None, saved}
    BY DEF SessionInv, SessionTypes, ServerType
  <2> QED  BY <1>2, <2>1, <2>2, Lengths DEF SessionInv, PhaseOfCall, Accepted, Session!None, Ends, Runs, Begins
<1>9. Session!ReadyIsBound'
  BY <1>2 DEF SessionInv, PhaseOfCall, Session!ReadyIsBound, Session!Authenticated, Session!None, Ends, Runs, Begins
<1> QED  BY <1>3, <1>4, <1>5, <1>6, <1>7, <1>8, <1>9 DEF SessionInv, SessionTypes

LEMMA ChangeNumberInv == ASSUME SessionInv, Session!ChangeNumber PROVE SessionInv'
<1>1. CallType
  BY DEF SessionInv, SessionTypes
<1>2. /\ phase = "code" /\ phase' = "phone" /\ attempt' = Session!None /\ call.at = "none"
      /\ UNCHANGED <<issued, live, saved, status, current, challenge, call, bound, syncing, lost>>
  BY <1>1, IdleCall DEF Session!ChangeNumber, Session!Busy, Steps, Session!serverVars, Session!ownerVars, Session!flowVars, Session!syncVars, Session!faults
<1>3. ServerType'
  BY <1>2, Lengths DEF SessionInv, SessionTypes, ServerType, Session!None, Ends, Runs, Begins
<1>4. PhaseType'
  BY <1>2 DEF SessionInv, SessionTypes, PhaseType, CodeNumbers, Session!None, Ends, Runs, Begins
<1>5. ChallengeType'
  BY <1>2 DEF SessionInv, SessionTypes, ChallengeType, Challenges, Session!None, Ends, Runs, Begins
<1>6. CallType'
  BY <1>2, Lengths DEF SessionInv, SessionTypes, ServerType, CallType, Ends, Runs, Begins
<1>7. PhaseOfCall' /\ HoldsSaved'
  BY <1>2, Lengths DEF SessionInv, SessionTypes, ServerType, PhaseType, PhaseOfCall, HoldsSaved, Session!None, Ends, Runs, Begins
<1>8. NobodyElse'
  <2> SUFFICES ASSUME lost' = 0 PROVE Accepted'
    BY DEF NobodyElse
  <2>1. lost = 0 /\ Accepted
    BY <1>2 DEF SessionInv, SessionTypes, ServerType, NobodyElse
  <2>2. current \in {Session!None, saved}
    BY DEF SessionInv, SessionTypes, ServerType
  <2> QED  BY <1>2, <2>1, <2>2, Lengths DEF SessionInv, PhaseOfCall, Accepted, Session!None, Ends, Runs, Begins
<1>9. Session!ReadyIsBound'
  BY <1>2 DEF SessionInv, PhaseOfCall, Session!ReadyIsBound, Session!Authenticated, Session!None, Ends, Runs, Begins
<1> QED  BY <1>3, <1>4, <1>5, <1>6, <1>7, <1>8, <1>9 DEF SessionInv, SessionTypes

LEMMA VerifyInv == ASSUME SessionInv, Session!Verify PROVE SessionInv'
<1>1. CallType
  BY DEF SessionInv, SessionTypes
<1>2. /\ Begins("verify") /\ phase = "code"
      /\ UNCHANGED <<issued, live, saved, status, current, challenge, phase, attempt, bound, syncing, lost>>
  BY <1>1, Beginning DEF Session!Verify, Steps, Session!serverVars, Session!ownerVars, Session!flowVars, Session!syncVars, Session!faults
<1>3. ServerType'
  BY <1>2, Lengths DEF SessionInv, SessionTypes, ServerType, Session!None, Ends, Runs, Begins
<1>4. PhaseType'
  BY <1>2 DEF SessionInv, SessionTypes, PhaseType, CodeNumbers, Session!None, Ends, Runs, Begins
<1>5. ChallengeType'
  BY <1>2 DEF SessionInv, SessionTypes, ChallengeType, Challenges, Session!None, Ends, Runs, Begins
<1>6. CallType'
  BY <1>2, Lengths DEF SessionInv, SessionTypes, ServerType, CallType, Ends, Runs, Begins
<1>7. PhaseOfCall' /\ HoldsSaved'
  BY <1>2, Lengths DEF SessionInv, SessionTypes, ServerType, PhaseType, PhaseOfCall, HoldsSaved, Session!None, Ends, Runs, Begins
<1>8. NobodyElse'
  <2> SUFFICES ASSUME lost' = 0 PROVE Accepted'
    BY DEF NobodyElse
  <2>1. lost = 0 /\ Accepted
    BY <1>2 DEF SessionInv, SessionTypes, ServerType, NobodyElse
  <2>2. current \in {Session!None, saved}
    BY DEF SessionInv, SessionTypes, ServerType
  <2> QED  BY <1>2, <2>1, <2>2, Lengths DEF SessionInv, PhaseOfCall, Accepted, Session!None, Ends, Runs, Begins
<1>9. Session!ReadyIsBound'
  BY <1>2 DEF SessionInv, PhaseOfCall, Session!ReadyIsBound, Session!Authenticated, Session!None, Ends, Runs, Begins
<1> QED  BY <1>3, <1>4, <1>5, <1>6, <1>7, <1>8, <1>9 DEF SessionInv, SessionTypes

LEMMA SignOutInv == ASSUME SessionInv, Session!SignOut PROVE SessionInv'
<1>1. /\ phase = "ready"
      /\ UNCHANGED <<issued, live, saved, status, current, challenge, phase, attempt, bound, syncing, lost>>
  BY DEF Session!SignOut, Session!serverVars, Session!ownerVars, Session!syncVars, Session!faults
<1>2. /\ phase = "ready" /\ ((Begins("revoke") /\ current # Session!None) \/ (Begins("clear") /\ current = Session!None))
      /\ UNCHANGED <<issued, live, saved, status, current, challenge, phase, attempt, bound, syncing, lost>>
  <2>1. CASE current = Session!None
    <3>1. Session!Begin("sign out", "clear")
      BY <2>1 DEF Session!SignOut
    <3>2. Begins("clear")
      BY <3>1, Beginning DEF Steps
    <3> QED  BY <1>1, <2>1, <3>2
  <2>2. CASE current # Session!None
    <3>1. Session!Begin("sign out", "revoke")
      BY <2>2 DEF Session!SignOut
    <3>2. Begins("revoke")
      BY <3>1, Beginning DEF Steps
    <3>3. Begins("revoke") /\ current # Session!None
      BY <2>2, <3>2
    <3> QED  BY <1>1, <3>3
  <2> QED  BY <2>1, <2>2
<1>3. ServerType'
  BY <1>2, Lengths DEF SessionInv, SessionTypes, ServerType, Session!None, Ends, Runs, Begins
<1>4. PhaseType'
  BY <1>2 DEF SessionInv, SessionTypes, PhaseType, CodeNumbers, Session!None, Ends, Runs, Begins
<1>5. ChallengeType'
  BY <1>2 DEF SessionInv, SessionTypes, ChallengeType, Challenges, Session!None, Ends, Runs, Begins
<1>6. CallType'
  BY <1>2, Lengths DEF SessionInv, SessionTypes, ServerType, CallType, Ends, Runs, Begins
<1>7. PhaseOfCall' /\ HoldsSaved'
  BY <1>2, Lengths DEF SessionInv, SessionTypes, ServerType, PhaseType, PhaseOfCall, HoldsSaved, Session!None, Ends, Runs, Begins
<1>8. NobodyElse'
  <2> SUFFICES ASSUME lost' = 0 PROVE Accepted'
    BY DEF NobodyElse
  <2>1. lost = 0 /\ Accepted
    BY <1>2 DEF SessionInv, SessionTypes, ServerType, NobodyElse
  <2>2. current \in {Session!None, saved}
    BY DEF SessionInv, SessionTypes, ServerType
  <2> QED  BY <1>2, <2>1, <2>2, Lengths DEF SessionInv, PhaseOfCall, Accepted, Session!None, Ends, Runs, Begins
<1>9. Session!ReadyIsBound'
  BY <1>2 DEF SessionInv, PhaseOfCall, Session!ReadyIsBound, Session!Authenticated, Session!None, Ends, Runs, Begins
<1> QED  BY <1>3, <1>4, <1>5, <1>6, <1>7, <1>8, <1>9 DEF SessionInv, SessionTypes

LEMMA ResumeInv == ASSUME SessionInv, Session!Resume PROVE SessionInv'
<1>1. CallType
  BY DEF SessionInv, SessionTypes
<1>2. \/ UNCHANGED <<issued, live, saved, status, current, challenge, phase, attempt, call, bound, syncing, lost>>
      \/ /\ Begins("read") /\ current' = Session!None /\ status' = "checking"
         /\ UNCHANGED <<issued, live, saved, challenge, phase, attempt, bound, syncing, lost>>
  BY <1>1, Beginning DEF Session!Resume, Session!RestoreBegin, Steps, Session!serverVars, Session!ownerVars, Session!flowVars, Session!syncVars, Session!faults
<1>3. ServerType'
  BY <1>2, Lengths DEF SessionInv, SessionTypes, ServerType, Session!None, Ends, Runs, Begins
<1>4. PhaseType'
  BY <1>2 DEF SessionInv, SessionTypes, PhaseType, CodeNumbers, Session!None, Ends, Runs, Begins
<1>5. ChallengeType'
  BY <1>2 DEF SessionInv, SessionTypes, ChallengeType, Challenges, Session!None, Ends, Runs, Begins
<1>6. CallType'
  BY <1>2, Lengths DEF SessionInv, SessionTypes, ServerType, CallType, Ends, Runs, Begins
<1>7. PhaseOfCall' /\ HoldsSaved'
  BY <1>2, Lengths DEF SessionInv, SessionTypes, ServerType, PhaseType, PhaseOfCall, HoldsSaved, Session!None, Ends, Runs, Begins
<1>8. NobodyElse'
  <2> SUFFICES ASSUME lost' = 0 PROVE Accepted'
    BY DEF NobodyElse
  <2>1. lost = 0 /\ Accepted
    BY <1>2 DEF SessionInv, SessionTypes, ServerType, NobodyElse
  <2>2. current \in {Session!None, saved}
    BY DEF SessionInv, SessionTypes, ServerType
  <2> QED  BY <1>2, <2>1, <2>2, Lengths DEF SessionInv, PhaseOfCall, Accepted, Session!None, Ends, Runs, Begins
<1>9. Session!ReadyIsBound'
  BY <1>2 DEF SessionInv, PhaseOfCall, Session!ReadyIsBound, Session!Authenticated, Session!None, Ends, Runs, Begins
<1> QED  BY <1>3, <1>4, <1>5, <1>6, <1>7, <1>8, <1>9 DEF SessionInv, SessionTypes

LEMMA RestartInv == ASSUME SessionInv, Session!Restart PROVE SessionInv'
<1>1. CallType
  BY DEF SessionInv, SessionTypes
<1>2. /\ lost' = lost + 1 /\ status' = "signed-out" /\ current' = Session!None /\ challenge' = Session!NoChallenge
      /\ phase' = "phone" /\ attempt' = Session!None /\ syncing' = 0
      /\ call' \in CallRecords /\ call'.at = "read" /\ call'.token = 0
      /\ UNCHANGED <<issued, live, saved>>
  BY <1>1 DEF Session!Restart, Session!Lose, Session!None, Steps, Session!serverVars, Session!ownerVars, Session!flowVars, Session!syncVars, Session!faults, CallRecords
<1>3. ServerType'
  BY <1>2, Lengths DEF SessionInv, SessionTypes, ServerType, Session!None, Ends, Runs, Begins
<1>4. PhaseType'
  BY <1>2 DEF SessionInv, SessionTypes, PhaseType, CodeNumbers, Session!None, Ends, Runs, Begins
<1>5. ChallengeType'
  BY <1>2 DEF SessionInv, SessionTypes, ChallengeType, Challenges, Session!None, Ends, Runs, Begins
<1>6. CallType'
  BY <1>2, Lengths DEF SessionInv, SessionTypes, ServerType, CallType, Ends, Runs, Begins
<1>7. PhaseOfCall' /\ HoldsSaved'
  BY <1>2, Lengths DEF SessionInv, SessionTypes, ServerType, PhaseType, PhaseOfCall, HoldsSaved, Session!None, Ends, Runs, Begins
<1>8. NobodyElse'
  BY <1>2 DEF SessionInv, SessionTypes, ServerType, NobodyElse
<1>9. Session!ReadyIsBound'
  BY <1>2 DEF SessionInv, PhaseOfCall, Session!ReadyIsBound, Session!Authenticated, Session!None, Ends, Runs, Begins
<1> QED  BY <1>3, <1>4, <1>5, <1>6, <1>7, <1>8, <1>9 DEF SessionInv, SessionTypes

LEMMA LapseInv == ASSUME SessionInv, Session!Lapse PROVE SessionInv'
<1>1. CallType
  BY DEF SessionInv, SessionTypes
<1>2. /\ live' \subseteq live
      /\ UNCHANGED <<issued, saved, status, current, challenge, phase, attempt, call, bound, syncing, lost>>
  BY <1>1 DEF Session!Lapse, Steps, Session!serverVars, Session!ownerVars, Session!flowVars, Session!syncVars, Session!faults
<1>3. ServerType'
  BY <1>2, Lengths DEF SessionInv, SessionTypes, ServerType, Session!None, Ends, Runs, Begins
<1>4. PhaseType'
  BY <1>2 DEF SessionInv, SessionTypes, PhaseType, CodeNumbers, Session!None, Ends, Runs, Begins
<1>5. ChallengeType'
  BY <1>2 DEF SessionInv, SessionTypes, ChallengeType, Challenges, Session!None, Ends, Runs, Begins
<1>6. CallType'
  BY <1>2, Lengths DEF SessionInv, SessionTypes, ServerType, CallType, Ends, Runs, Begins
<1>7. PhaseOfCall' /\ HoldsSaved'
  BY <1>2, Lengths DEF SessionInv, SessionTypes, ServerType, PhaseType, PhaseOfCall, HoldsSaved, Session!None, Ends, Runs, Begins
<1>8. NobodyElse'
  <2> SUFFICES ASSUME lost' = 0 PROVE Accepted'
    BY DEF NobodyElse
  <2>1. lost = 0 /\ Accepted
    BY <1>2 DEF SessionInv, SessionTypes, ServerType, NobodyElse
  <2>2. current \in {Session!None, saved}
    BY DEF SessionInv, SessionTypes, ServerType
  <2> QED  BY <1>2, <2>1, <2>2, Lengths DEF SessionInv, PhaseOfCall, Accepted, Session!None, Ends, Runs, Begins
<1>9. Session!ReadyIsBound'
  BY <1>2 DEF SessionInv, PhaseOfCall, Session!ReadyIsBound, Session!Authenticated, Session!None, Ends, Runs, Begins
<1> QED  BY <1>3, <1>4, <1>5, <1>6, <1>7, <1>8, <1>9 DEF SessionInv, SessionTypes


LEMMA SessionNextInv == ASSUME SessionInv, [Session!SessionNext]_(Session!sessionVars) PROVE SessionInv'
<1> USE DEF Session!serverVars, Session!ownerVars, Session!flowVars, Session!syncVars, Session!faults
<1>1. CASE Session!FlowStep
  BY <1>1, ReadVaultInv, AskInv, BindInv, PublishAccountKeysInv, SendInv, VerifyAnswerInv, SaveSessionInv,
     DisownInv, RevokeInv, SignedOutInv DEF Session!FlowStep
<1>2. CASE Session!UserStep
  BY <1>2, RestoreInv, RetryPreparationInv, SubmitPhoneInv, ResendInv, ChangeNumberInv, VerifyInv, SignOutInv
     DEF Session!UserStep
<1>3. CASE Session!AppStep
  <2>1. CASE Session!Pause
    BY <2>1, SessionUnchanged DEF Session!Pause
  <2> QED  BY <1>3, <2>1, ResumeInv, RestartInv DEF Session!AppStep
<1>4. CASE Session!StartSync
  BY <1>4, SessionUnchanged DEF Session!StartSync, Session!None
<1>5. CASE Session!EndSync
  BY <1>5, SessionUnchanged DEF Session!EndSync, Session!None
<1>6. CASE Session!Lapse
  BY <1>6, LapseInv
<1>7. CASE UNCHANGED Session!sessionVars
  BY <1>7, SessionUnchanged DEF Session!sessionVars
<1> QED  BY <1>1, <1>2, <1>3, <1>4, <1>5, <1>6, <1>7 DEF Session!SessionNext

-----------------------------------------------------------------------------
(* PART 5.  The inbox and the keys of its peers.  The inductive invariant:     *)
(* what a worker still has to do is the rest of its page, everything before it  *)
(* is received, and a page follows its cursor without a gap; the keys that are  *)
(* pinned are keys of the peer.                                              *)

Deliveries == [from : Peers, keys : Nat, opens : BOOLEAN, chain : {"me", "peer"}]
Pins == [current : Nat, pending : Nat, seen : Nat, locked : BOOLEAN]
KeysType ==
    /\ relay \in Seq(Deliveries) /\ phones \in [Peers -> Nat] /\ pins \in [Peers -> Pins]
    /\ review \in [of : Peers \cup {0}, pending : Nat, job : {"none", "accept", "accepting"}]
KeysOfPeers ==
    /\ \A k \in DOMAIN relay : relay[k].keys <= phones[relay[k].from]
    /\ \A p \in Peers : pins[p].current <= phones[p] /\ pins[p].pending <= phones[p]
Reviewing == (review.job # "none" \/ review.pending # 0) => review.of \in Peers
KeysInv == KeysType /\ KeysOfPeers /\ Reviewing

Taking == {"check", "observe", "open", "ack"}
WorkRecords == [at : Taking \cup {"idle", "done"}, todo : Seq(Nat), page : Seq(Nat), of : Peers \cup {0}]
BoxType ==
    /\ work \in [Inbox!Workers -> WorkRecords]
    /\ pages \in [Peers -> [before : Nat, top : Nat, more : BOOLEAN]]
    /\ Len(relay) <= MaxMessages /\ received \subseteq DOMAIN relay
    /\ cursor \in 0..Len(relay)

\* What is still to do is the end of the page; what was taken is received.
TakenOf(w) == Len(work[w].page) - Len(work[w].todo)
Rest(w) ==
    /\ work[w].at \in Taking <=> Len(work[w].todo) > 0
    /\ work[w].at # "idle" =>
          /\ Len(work[w].todo) <= Len(work[w].page)
          /\ \A i \in 1..Len(work[w].todo) : work[w].todo[i] = work[w].page[TakenOf(w) + i]
          /\ \A i \in 1..Len(work[w].page) : work[w].page[i] \in DOMAIN relay
          /\ \A i \in 1..TakenOf(w) : work[w].page[i] \in received
    /\ work[w].at = "ack" => w = "inbox" /\ work[w].todo[1] \in received
RestOfPage == \A w \in Inbox!Workers : Rest(w)
\* The page of the inbox follows its cursor.
InboxPage ==
    work["inbox"].at # "idle" =>
       /\ Len(work["inbox"].page) > 0
       /\ \A i \in 1..Len(work["inbox"].page) : work["inbox"].page[i] = cursor + i
\* The page of a conversation has its newest deliveries before those that are loaded.
Below(p, n) == {k \in DOMAIN relay : relay[k].from = p /\ k < n}
Latest(p, n, k) == k \in Below(p, n) /\ \A j \in Below(p, n) : j <= k
Loaded(p, page) ==
    /\ Len(page) <= 2
    /\ pages[p].top # 0 /\ Len(page) = 0 => Below(p, pages[p].before) = {}
    /\ pages[p].top # 0 /\ Len(page) > 0 => Latest(p, pages[p].before, page[1])
    /\ Len(page) > 0 => relay[page[1]].from = p
    /\ Len(page) = 2 => Latest(p, page[1], page[2])
PagerPage ==
    work["pager"].at # "idle" =>
       /\ work["pager"].of \in Peers
       /\ Loaded(work["pager"].of, work["pager"].page)
Conversation(p) ==
    /\ pages[p].top = 0 => pages[p].before = MaxMessages + 1
    /\ pages[p].top # 0 =>
          /\ pages[p].before \in DOMAIN relay /\ pages[p].top \in DOMAIN relay
          /\ \A k \in Below(p, pages[p].top + 1) : pages[p].before <= k => k \in received
          /\ pages[p].more \/ Below(p, pages[p].before) = {}
Conversations == \A p \in Peers : Conversation(p)
Followed == \A n \in DOMAIN relay : (n <= cursor \/ n \in acked) => n \in received
Acked == acked \subseteq received
BoxInv == BoxType /\ RestOfPage /\ InboxPage /\ PagerPage /\ Conversations /\ Followed /\ Acked
InboxInv == KeysInv /\ BoxInv

LEMMA InboxInitInv == ASSUME Inbox!InboxInit, MaxMessages \in Nat PROVE InboxInv
<1> USE DEF Inbox!InboxInit, Inbox!NoWork, Inbox!NoPin, Inbox!NoReview
<1>1. KeysType
  BY DEF KeysType, Pins, Deliveries
<1>2. KeysOfPeers /\ Reviewing
  BY DEF KeysOfPeers, Reviewing
<1>3. /\ work \in [Inbox!Workers -> WorkRecords]
      /\ \A w \in Inbox!Workers : work[w].at = "idle" /\ Len(work[w].todo) = 0
  BY DEF WorkRecords
<1>4. BoxType
  BY <1>3 DEF BoxType
<1>5. RestOfPage /\ InboxPage /\ PagerPage
  BY <1>3 DEF RestOfPage, Rest, InboxPage, PagerPage, Inbox!Workers, Taking
<1>6. Conversations /\ Followed /\ Acked
  BY DEF Conversations, Conversation, Followed, Acked
<1> QED  BY <1>1, <1>2, <1>4, <1>5, <1>6 DEF InboxInv, KeysInv, BoxInv

LEMMA InboxInvImplies == ASSUME InboxInv PROVE Inbox!InboxTypeOK /\ Inbox!NothingSkipped
<1>1. received \cup acked \subseteq DOMAIN relay /\ cursor \in 0..Len(relay)
  BY DEF InboxInv, BoxInv, BoxType, Acked
<1>2. ASSUME NEW w \in Inbox!Workers PROVE \A k \in DOMAIN work[w].todo : work[w].todo[k] \in DOMAIN relay
  <2>1. /\ work[w].todo \in Seq(Nat) /\ work[w].page \in Seq(Nat)
        /\ work[w].at \in Taking \cup {"idle", "done"} /\ Rest(w)
    BY DEF InboxInv, BoxInv, BoxType, RestOfPage, WorkRecords
  <2>2. CASE Len(work[w].todo) = 0
    BY <2>1, <2>2
  <2>3. CASE Len(work[w].todo) > 0
    <3>1. work[w].at # "idle"
      BY <2>1, <2>3 DEF Rest, Taking
    <3>2. TAKE k \in DOMAIN work[w].todo
    <3>3. k \in 1..Len(work[w].todo) /\ TakenOf(w) + k \in 1..Len(work[w].page)
      <4>1. Len(work[w].todo) \in Nat /\ Len(work[w].page) \in Nat /\ k \in 1..Len(work[w].todo)
        BY <2>1, LenProperties
      <4>2. Len(work[w].todo) <= Len(work[w].page)
        BY <2>1, <3>1 DEF Rest
      <4>3. TakenOf(w) \in Nat /\ TakenOf(w) + Len(work[w].todo) = Len(work[w].page)
        BY <4>1, <4>2 DEF TakenOf
      <4> QED  BY <4>1, <4>3
    <3> QED  BY <2>1, <3>1, <3>3 DEF Rest
  <2> QED  BY <2>1, <2>2, <2>3
<1>3. ASSUME NEW p \in Peers PROVE pins[p].current \in 0..phones[p] /\ pins[p].pending \in 0..phones[p]
  <2>1. pins[p] \in Pins /\ phones[p] \in Nat /\ pins[p].current <= phones[p] /\ pins[p].pending <= phones[p]
    BY DEF InboxInv, KeysInv, KeysType, KeysOfPeers
  <2> QED  BY <2>1 DEF Pins
<1>4. ASSUME NEW p \in Peers, ~pages[p].more, NEW n \in Inbox!Of(p, pages[p].top + 1) PROVE n \in received
  <2>1. Conversation(p) /\ pages[p].before \in Nat /\ pages[p].top \in Nat
    BY DEF InboxInv, BoxInv, Conversations, BoxType
  <2>2. n \in Below(p, pages[p].top + 1) /\ n \in 1..Len(relay)
    BY DEF Inbox!Of, Below, InboxInv, KeysInv, KeysType
  <2>3. pages[p].top # 0
    BY <2>1, <2>2 DEF Below
  <2>4. pages[p].before <= n
    BY <1>4, <2>1, <2>2, <2>3 DEF Conversation, Below
  <2> QED  BY <2>1, <2>2, <2>3, <2>4 DEF Conversation
<1>5. Inbox!NothingSkipped
  BY <1>4 DEF Inbox!NothingSkipped, InboxInv, BoxInv, Followed
<1> QED  BY <1>1, <1>2, <1>3, <1>5 DEF Inbox!InboxTypeOK

-----------------------------------------------------------------------------
(* What becomes of a worker's page.                                         *)

LEMMA GoesTo ==
    ASSUME work \in [Inbox!Workers -> WorkRecords], NEW w \in Inbox!Workers, NEW at \in Taking \cup {"idle", "done"}, Inbox!Goes(w, at)
    PROVE  /\ work' \in [Inbox!Workers -> WorkRecords]
           /\ work'[w].at = at /\ work'[w].todo = work[w].todo /\ work'[w].page = work[w].page /\ work'[w].of = work[w].of
           /\ \A v \in Inbox!Workers \ {w} : work'[v] = work[v]
  BY DEF Inbox!Goes, WorkRecords

LEMMA StopsAt ==
    ASSUME work \in [Inbox!Workers -> WorkRecords], NEW w \in Inbox!Workers, Inbox!Stops(w)
    PROVE  /\ work' \in [Inbox!Workers -> WorkRecords]
           /\ work'[w].at = "idle" /\ Len(work'[w].todo) = 0
           /\ \A v \in Inbox!Workers \ {w} : work'[v] = work[v]
  BY DEF Inbox!Stops, Inbox!NoWork, WorkRecords

LEMMA TakesOne ==
    ASSUME work \in [Inbox!Workers -> WorkRecords], NEW w \in Inbox!Workers, Inbox!Taken(w), Len(work[w].todo) > 0
    PROVE  /\ work' \in [Inbox!Workers -> WorkRecords]
           /\ work'[w].at \in {"check", "done"} /\ (work'[w].at = "check" <=> Len(work'[w].todo) > 0)
           /\ work'[w].page = work[w].page /\ work'[w].of = work[w].of
           /\ Len(work'[w].todo) = Len(work[w].todo) - 1
           /\ \A i \in 1..Len(work'[w].todo) : work'[w].todo[i] = work[w].todo[i + 1]
           /\ \A v \in Inbox!Workers \ {w} : work'[v] = work[v]
<1> DEFINE t == work[w].todo
<1>1. t \in Seq(Nat) /\ t # <<>>
  BY DEF WorkRecords
<1>2. /\ Tail(t) \in Seq(Nat) /\ Len(Tail(t)) = Len(t) - 1
      /\ \A i \in 1..Len(Tail(t)) : Tail(t)[i] = t[i + 1]
      /\ Tail(t) = <<>> <=> Len(Tail(t)) = 0
  <2>1. Tail(t) \in Seq(Nat) /\ Len(Tail(t)) = Len(t) - 1
    BY <1>1
  <2>2. \A i \in 1..Len(Tail(t)) : Tail(t)[i] = t[i + 1]
    BY <1>1
  <2>3. Tail(t) = <<>> <=> Len(Tail(t)) = 0
    BY <2>1, EmptySeq
  <2> QED  BY <2>1, <2>2, <2>3
<1>3. Inbox!Next1(Tail(t)) \in {"check", "done"} /\ (Inbox!Next1(Tail(t)) = "check" <=> Len(Tail(t)) > 0)
  <2> HIDE DEF t
  <2>1. Len(Tail(t)) \in Nat
    BY <1>2
  <2>2. CASE Tail(t) = <<>>
    <3>1. ~(Len(Tail(t)) > 0)
      BY <1>2, <2>1, <2>2
    <3> QED  BY <2>2, <3>1 DEF Inbox!Next1
  <2>3. CASE Tail(t) # <<>>
    <3>1. Len(Tail(t)) > 0
      BY <1>2, <2>1, <2>3
    <3> QED  BY <2>3, <3>1 DEF Inbox!Next1
  <2> QED  BY <2>2, <2>3
<1>4. work' = [work EXCEPT ![w].todo = Tail(t), ![w].at = Inbox!Next1(Tail(t))]
  BY DEF Inbox!Taken, Inbox!Task
<1>5. /\ work' \in [Inbox!Workers -> WorkRecords]
      /\ work'[w].todo = Tail(t) /\ work'[w].at = Inbox!Next1(Tail(t))
      /\ work'[w].page = work[w].page /\ work'[w].of = work[w].of
      /\ \A v \in Inbox!Workers \ {w} : work'[v] = work[v]
  <2> HIDE DEF t
  <2>1. Inbox!Next1(Tail(t)) \in Taking \cup {"idle", "done"}
    BY <1>3 DEF Taking
  <2> QED  BY <1>2, <1>4, <2>1 DEF WorkRecords
<1> HIDE DEF t
<1>6. Len(work'[w].todo) = Len(t) - 1 /\ \A i \in 1..Len(work'[w].todo) : work'[w].todo[i] = t[i + 1]
  BY <1>2, <1>5
<1> QED  BY <1>3, <1>5, <1>6 DEF t

LEMMA Worker ==
    ASSUME BoxInv, NEW w \in Inbox!Workers
    PROVE  /\ work \in [Inbox!Workers -> WorkRecords] /\ Rest(w)
           /\ work[w].at \in Taking \cup {"idle", "done"} /\ work[w].of \in Peers \cup {0}
           /\ work[w].todo \in Seq(Nat) /\ work[w].page \in Seq(Nat)
           /\ Len(work[w].todo) \in Nat /\ Len(work[w].page) \in Nat
           /\ work[w].at # "idle" => TakenOf(w) \in Nat /\ TakenOf(w) + Len(work[w].todo) = Len(work[w].page)
           /\ work[w].at \in Taking => Inbox!Now(w) = work[w].todo[1] /\ Inbox!Now(w) \in DOMAIN relay
<1>1. /\ work \in [Inbox!Workers -> WorkRecords] /\ Rest(w)
      /\ work[w].at \in Taking \cup {"idle", "done"} /\ work[w].of \in Peers \cup {0}
      /\ work[w].todo \in Seq(Nat) /\ work[w].page \in Seq(Nat)
  BY DEF BoxInv, BoxType, RestOfPage, WorkRecords
<1>2. Len(work[w].todo) \in Nat /\ Len(work[w].page) \in Nat
  BY <1>1
<1>3. work[w].at # "idle" => TakenOf(w) \in Nat /\ TakenOf(w) + Len(work[w].todo) = Len(work[w].page)
  <2> SUFFICES ASSUME work[w].at # "idle" PROVE TakenOf(w) \in Nat /\ TakenOf(w) + Len(work[w].todo) = Len(work[w].page)
    OBVIOUS
  <2>1. Len(work[w].todo) <= Len(work[w].page)
    BY <1>1 DEF Rest
  <2> QED  BY <1>2, <2>1 DEF TakenOf
<1>4. ASSUME work[w].at \in Taking PROVE Inbox!Now(w) = work[w].todo[1] /\ Inbox!Now(w) \in DOMAIN relay
  <2>1. work[w].at # "idle" /\ Len(work[w].todo) > 0
    BY <1>1, <1>4 DEF Rest, Taking
  <2>2. 1 \in 1..Len(work[w].todo) /\ TakenOf(w) + 1 \in 1..Len(work[w].page)
    BY <1>2, <1>3, <2>1
  <2>3. work[w].todo[1] = work[w].page[TakenOf(w) + 1] /\ work[w].page[TakenOf(w) + 1] \in DOMAIN relay
    BY <1>1, <2>1, <2>2 DEF Rest
  <2>4. Inbox!Now(w) = work[w].todo[1]
    BY <1>1, <2>1 DEF Inbox!Now, Inbox!Task
  <2> QED  BY <2>3, <2>4
<1> QED  BY <1>1, <1>2, <1>3, <1>4

LEMMA RestKept ==
    ASSUME BoxInv, NEW w \in Inbox!Workers, work'[w] = work[w], DOMAIN relay \subseteq DOMAIN relay', received \subseteq received'
    PROVE  Rest(w)'
<1>1. Rest(w)
  BY Worker
<1> QED  BY <1>1 DEF Rest, TakenOf

\* The worker goes on with the delivery it is at.
LEMMA RestStays ==
    ASSUME BoxInv, NEW w \in Inbox!Workers, work[w].at \in Taking, work'[w].at \in Taking,
           work'[w].todo = work[w].todo, work'[w].page = work[w].page, relay' = relay, received \subseteq received',
           work'[w].at = "ack" => w = "inbox" /\ Inbox!Now(w) \in received'
    PROVE  Rest(w)'
<1>1. Rest(w) /\ Inbox!Now(w) = work[w].todo[1]
  BY Worker
<1> QED  BY <1>1 DEF Rest, TakenOf, Taking

\* It is done with it, since it is received.
LEMMA RestTaken ==
    ASSUME BoxInv, NEW w \in Inbox!Workers, work[w].at \in Taking, Inbox!Taken(w),
           relay' = relay, received \subseteq received', Inbox!Now(w) \in received'
    PROVE  Rest(w)'
<1> DEFINE n == Len(work[w].todo)
           g == TakenOf(w)
<1>1. /\ Rest(w) /\ Inbox!Now(w) = work[w].todo[1] /\ n \in Nat /\ Len(work[w].page) \in Nat
      /\ work[w].at # "idle" /\ n > 0 /\ g \in Nat /\ g + n = Len(work[w].page)
  <2>1. Rest(w) /\ work[w].at # "idle" /\ n > 0
    BY Worker DEF Rest, Taking
  <2> QED  BY <2>1, Worker
<1>2. /\ work'[w].at \in {"check", "done"} /\ (work'[w].at = "check" <=> Len(work'[w].todo) > 0)
      /\ work'[w].page = work[w].page /\ Len(work'[w].todo) = n - 1
      /\ \A i \in 1..Len(work'[w].todo) : work'[w].todo[i] = work[w].todo[i + 1]
  BY <1>1, Worker, TakesOne
<1>3. TakenOf(w)' = g + 1
  BY <1>1, <1>2 DEF TakenOf
<1>4. /\ \A i \in 1..n : work[w].todo[i] = work[w].page[g + i]
      /\ \A i \in 1..(g + n) : work[w].page[i] \in DOMAIN relay
      /\ \A i \in 1..g : work[w].page[i] \in received
  BY <1>1 DEF Rest
<1> HIDE DEF n, g
<1>5. \A i \in 1..Len(work'[w].todo) : work'[w].todo[i] = work'[w].page[TakenOf(w)' + i]
  <2> TAKE i \in 1..Len(work'[w].todo)
  <2>1. i \in 1..(n - 1) /\ i + 1 \in 1..n /\ g + (i + 1) = (g + 1) + i
    BY <1>1, <1>2
  <2>2. work'[w].todo[i] = work[w].todo[i + 1] /\ work[w].todo[i + 1] = work[w].page[g + (i + 1)]
    BY <1>2, <1>4, <2>1
  <2> QED  BY <1>2, <1>3, <2>1, <2>2
<1>6. \A i \in 1..TakenOf(w)' : work'[w].page[i] \in received'
  <2> TAKE i \in 1..TakenOf(w)'
  <2>1. CASE i \in 1..g
    BY <1>2, <1>4, <2>1
  <2>2. CASE i = g + 1
    <3>1. work[w].todo[1] = work[w].page[g + 1]
      BY <1>1, <1>4
    <3> QED  BY <1>1, <1>2, <2>2, <3>1
  <2>3. i \in 1..g \/ i = g + 1
    BY <1>1, <1>3
  <2> QED  BY <2>1, <2>2, <2>3
<1>7. /\ Len(work'[w].todo) <= Len(work'[w].page) /\ work'[w].at # "ack"
      /\ work'[w].at \in Taking <=> Len(work'[w].todo) > 0
      /\ \A i \in 1..Len(work'[w].page) : work'[w].page[i] \in DOMAIN relay'
  BY <1>1, <1>2, <1>4 DEF Taking
<1> QED  BY <1>5, <1>6, <1>7 DEF Rest

\* A worker goes on; nothing else changes but what is received and acknowledged.
LEMMA Forward ==
    ASSUME BoxInv, UNCHANGED <<relay, pages, cursor>>,
           received \subseteq received', received' \subseteq DOMAIN relay, acked' \subseteq received',
           NEW w \in Inbox!Workers, work' \in [Inbox!Workers -> WorkRecords], \A v \in Inbox!Workers \ {w} : work'[v] = work[v],
           work[w].at # "idle", work'[w].page = work[w].page, work'[w].of = work[w].of, Rest(w)'
    PROVE  BoxInv'
<1>1. BoxType'
  BY DEF BoxInv, BoxType
<1>2. RestOfPage'
  BY RestKept DEF RestOfPage
<1>3. InboxPage'
  BY DEF BoxInv, InboxPage, Inbox!Workers
<1>4. PagerPage'
  BY DEF BoxInv, PagerPage, Loaded, Below, Latest, Inbox!Workers
<1>5. Conversations' /\ Followed' /\ Acked'
  BY DEF BoxInv, Conversations, Conversation, Followed, Acked, Below
<1> QED  BY <1>1, <1>2, <1>3, <1>4, <1>5 DEF BoxInv

LEMMA Halted ==
    ASSUME BoxInv, UNCHANGED <<relay, pages, cursor, received>>, acked' \subseteq received,
           NEW w \in Inbox!Workers, Inbox!Stops(w)
    PROVE  BoxInv'
<1>1. /\ work' \in [Inbox!Workers -> WorkRecords]
      /\ work'[w].at = "idle" /\ Len(work'[w].todo) = 0
      /\ \A v \in Inbox!Workers \ {w} : work'[v] = work[v]
  BY StopsAt DEF BoxInv, BoxType
<1>2. BoxType'
  BY <1>1 DEF BoxInv, BoxType
<1>3. RestOfPage'
  <2>1. Rest(w)'
    BY <1>1 DEF Rest, Taking
  <2> QED  BY <1>1, <2>1, RestKept DEF RestOfPage
<1>4. InboxPage'
  BY <1>1 DEF BoxInv, InboxPage, Inbox!Workers
<1>5. PagerPage'
  BY <1>1 DEF BoxInv, PagerPage, Loaded, Below, Latest, Inbox!Workers
<1>6. Conversations' /\ Followed' /\ Acked'
  BY DEF BoxInv, Conversations, Conversation, Followed, Acked, Below
<1> QED  BY <1>2, <1>3, <1>4, <1>5, <1>6 DEF BoxInv

\* The inbox is as it was.
LEMMA BoxKept ==
    ASSUME BoxInv, UNCHANGED <<relay, pages, cursor, received, acked, work>>
    PROVE  BoxInv'
<1>1. RestOfPage'
  BY RestKept DEF RestOfPage
<1> QED  BY <1>1 DEF BoxInv, BoxType, InboxPage, PagerPage, Loaded, Latest, Below, Conversations, Conversation, Followed, Acked

-----------------------------------------------------------------------------
(* The steps of the workers.                                                *)

LEMMA CheckInv == ASSUME InboxInv, NEW w \in Inbox!Workers, Inbox!CheckCommitted(w) PROVE BoxInv'
<1> USE DEF Inbox!CheckCommitted, Inbox!peerVars, Inbox!trustVars
<1>1. BoxInv /\ work[w].at = "check" /\ UNCHANGED <<relay, received, acked, cursor, pages>>
  BY DEF InboxInv, Inbox!Task
<1>2. received \subseteq DOMAIN relay /\ acked \subseteq received
  BY <1>1 DEF BoxInv, BoxType, Acked
<1>3. CASE Inbox!Goes(w, "observe")
  <2>1. /\ work' \in [Inbox!Workers -> WorkRecords] /\ work'[w].at = "observe" /\ work'[w].todo = work[w].todo
        /\ work'[w].page = work[w].page /\ work'[w].of = work[w].of /\ \A v \in Inbox!Workers \ {w} : work'[v] = work[v]
    BY <1>1, <1>3, Worker, GoesTo DEF Taking
  <2>2. Rest(w)'
    BY <1>1, <2>1, RestStays DEF Taking
  <2> QED  BY <1>1, <1>2, <2>1, <2>2, Forward
<1>4. CASE w = "inbox" /\ Inbox!Goes(w, "ack") /\ Inbox!Now(w) \in received
  <2>1. /\ work' \in [Inbox!Workers -> WorkRecords] /\ work'[w].at = "ack" /\ work'[w].todo = work[w].todo
        /\ work'[w].page = work[w].page /\ work'[w].of = work[w].of /\ \A v \in Inbox!Workers \ {w} : work'[v] = work[v]
    BY <1>1, <1>4, Worker, GoesTo DEF Taking
  <2>2. Rest(w)'
    BY <1>1, <1>4, <2>1, RestStays DEF Taking
  <2> QED  BY <1>1, <1>2, <2>1, <2>2, Forward
<1>5. CASE Inbox!Taken(w) /\ Inbox!Now(w) \in received
  <2>1. Len(work[w].todo) > 0 /\ work[w].at \in Taking
    BY <1>1, Worker DEF Rest, Taking
  <2>2. /\ work' \in [Inbox!Workers -> WorkRecords]
        /\ work'[w].page = work[w].page /\ work'[w].of = work[w].of /\ \A v \in Inbox!Workers \ {w} : work'[v] = work[v]
    BY <1>1, <1>5, <2>1, Worker, TakesOne
  <2>3. Rest(w)'
    BY <1>1, <1>5, <2>1, RestTaken
  <2> QED  BY <1>1, <1>2, <2>2, <2>3, Forward
<1> QED  BY <1>3, <1>4, <1>5 DEF Inbox!Check

LEMMA ObserveInv == ASSUME InboxInv, NEW w \in Inbox!Workers, Inbox!ObserveSender(w) PROVE BoxInv'
<1>1. /\ BoxInv /\ work[w].at = "observe" /\ UNCHANGED <<relay, received, acked, cursor, pages>>
      /\ Inbox!Goes(w, "open")
  BY DEF InboxInv, Inbox!Task, Inbox!ObserveSender, Inbox!peerVars
<1>2. received \subseteq DOMAIN relay /\ acked \subseteq received
  BY <1>1 DEF BoxInv, BoxType, Acked
<1>3. /\ work' \in [Inbox!Workers -> WorkRecords] /\ work'[w].at = "open" /\ work'[w].todo = work[w].todo
      /\ work'[w].page = work[w].page /\ work'[w].of = work[w].of /\ \A v \in Inbox!Workers \ {w} : work'[v] = work[v]
  BY <1>1, Worker, GoesTo DEF Taking
<1>4. Rest(w)'
  BY <1>1, <1>3, RestStays DEF Taking
<1> QED  BY <1>1, <1>2, <1>3, <1>4, Forward

LEMMA ReceiveInv == ASSUME InboxInv, NEW w \in Inbox!Workers, Inbox!Receive(w) PROVE BoxInv'
<1>1. BoxInv /\ work[w].at = "open" /\ UNCHANGED <<relay, acked, cursor, pages>>
  BY DEF InboxInv, Inbox!Task, Inbox!Receive, Inbox!peerVars
<1>2. /\ received \subseteq DOMAIN relay /\ acked \subseteq received /\ work[w].at \in Taking
      /\ Inbox!Now(w) \in DOMAIN relay
  BY <1>1, Worker DEF BoxInv, BoxType, Acked, Taking
<1>3. CASE Inbox!Stops(w) /\ received' = received
  BY <1>1, <1>2, <1>3, Halted
<1>4. CASE w = "inbox" /\ Inbox!Goes(w, "ack") /\ received' = received \cup {Inbox!Now(w)}
  <2>1. /\ work' \in [Inbox!Workers -> WorkRecords] /\ work'[w].at = "ack" /\ work'[w].todo = work[w].todo
        /\ work'[w].page = work[w].page /\ work'[w].of = work[w].of /\ \A v \in Inbox!Workers \ {w} : work'[v] = work[v]
    BY <1>1, <1>4, Worker, GoesTo DEF Taking
  <2>2. Rest(w)'
    BY <1>1, <1>2, <1>4, <2>1, RestStays DEF Taking
  <2>3. received' \subseteq DOMAIN relay /\ acked' \subseteq received' /\ received \subseteq received'
    BY <1>1, <1>2, <1>4
  <2> QED  BY <1>1, <2>1, <2>2, <2>3, Forward
<1>5. CASE Inbox!Taken(w) /\ received' = received \cup {Inbox!Now(w)}
  <2>1. Len(work[w].todo) > 0
    BY <1>1, Worker DEF Rest, Taking
  <2>2. /\ work' \in [Inbox!Workers -> WorkRecords]
        /\ work'[w].page = work[w].page /\ work'[w].of = work[w].of /\ \A v \in Inbox!Workers \ {w} : work'[v] = work[v]
    BY <1>1, <1>5, <2>1, Worker, TakesOne
  <2>3. received' \subseteq DOMAIN relay /\ acked' \subseteq received' /\ received \subseteq received' /\ Inbox!Now(w) \in received'
    BY <1>1, <1>2, <1>5
  <2>4. Rest(w)'
    BY <1>1, <1>2, <1>5, <2>3, RestTaken
  <2> QED  BY <1>1, <2>1, <2>2, <2>3, <2>4, Forward
<1> QED  BY <1>3, <1>4, <1>5 DEF Inbox!Receive, Inbox!Refused

LEMMA AcknowledgeInv == ASSUME InboxInv, Inbox!Acknowledge PROVE BoxInv'
<1> DEFINE w == "inbox"
<1>1. /\ BoxInv /\ w \in Inbox!Workers /\ work[w].at = "ack" /\ UNCHANGED <<relay, received, cursor, pages>>
      /\ acked' = acked \cup {Inbox!Now(w)} /\ Inbox!Taken(w)
  BY DEF InboxInv, Inbox!Task, Inbox!Acknowledge, Inbox!peerVars, Inbox!Workers
<1> HIDE DEF w
<1>2. /\ received \subseteq DOMAIN relay /\ acked \subseteq received /\ work[w].at \in Taking
      /\ Inbox!Now(w) \in received /\ Len(work[w].todo) > 0
  BY <1>1, Worker DEF BoxInv, BoxType, Acked, Taking, Rest
<1>3. /\ work' \in [Inbox!Workers -> WorkRecords]
      /\ work'[w].page = work[w].page /\ work'[w].of = work[w].of /\ \A v \in Inbox!Workers \ {w} : work'[v] = work[v]
  BY <1>1, <1>2, Worker, TakesOne
<1>4. Rest(w)'
  BY <1>1, <1>2, RestTaken
<1>5. received' \subseteq DOMAIN relay /\ acked' \subseteq received' /\ received \subseteq received'
  BY <1>1, <1>2
<1> QED  BY <1>1, <1>2, <1>3, <1>4, <1>5, Forward DEF Taking

LEMMA FailInv == ASSUME InboxInv, NEW w \in Inbox!Workers, Inbox!Fail(w) PROVE BoxInv'
<1>1. /\ BoxInv /\ UNCHANGED <<relay, received, cursor, pages>> /\ Inbox!Stops(w)
      /\ acked' = IF work[w].at = "ack" THEN acked \cup {Inbox!Now(w)} ELSE acked
  BY DEF InboxInv, Inbox!Task, Inbox!Fail, Inbox!peerVars
<1>2. acked \subseteq received /\ (work[w].at = "ack" => Inbox!Now(w) \in received)
  BY <1>1, Worker DEF BoxInv, Acked, Rest, Taking
<1> QED  BY <1>1, <1>2, Halted

-----------------------------------------------------------------------------
(* The pages that are asked for.                                            *)

\* A set of deliveries has a newest one.
LEMMA NewestOf ==
    ASSUME NEW n \in Nat, NEW S \in SUBSET (1..n), S # {}
    PROVE  Inbox!Newest(S) \in S /\ \A j \in S : j <= Inbox!Newest(S)
<1> DEFINE T == {n - k : k \in S}
<1>1. T \in SUBSET Nat /\ T # {}
  <2>1. \A k \in S : n - k \in Nat
    OBVIOUS
  <2> QED  BY <2>1
<1>2. \E t \in T : \A m \in T : t <= m
  <2> HIDE DEF T
  <2>1. IsWellFoundedOn(OpToRel(<, Nat), Nat)
    BY NatLessThanWellFounded
  <2>2. \E t \in T : \A m \in T : ~(<<m, t>> \in OpToRel(<, Nat))
    BY <1>1, <2>1, WFMin
  <2>3. PICK t \in T : \A m \in T : ~(<<m, t>> \in OpToRel(<, Nat))
    BY <2>2
  <2>4. \A m \in T : t <= m
    <3> TAKE m \in T
    <3>1. m \in Nat /\ t \in Nat
      BY <1>1
    <3>2. ~(m < t)
      BY <2>3, <3>1, Zenon DEF OpToRel
    <3> QED  BY <3>1, <3>2
  <2> QED  BY <2>4
<1>3. PICK k \in S : \A m \in T : n - k <= m
  BY <1>2
<1>4. \A j \in S : j <= k
  <2> TAKE j \in S
  <2>1. n - j \in T
    OBVIOUS
  <2>2. n - k <= n - j
    <3> HIDE DEF T
    <3> QED  BY <1>3, <2>1
  <2> QED  BY <2>2
<1> QED  BY <1>4 DEF Inbox!Newest

LEMMA LatestOf ==
    ASSUME InboxInv, NEW p \in Peers, NEW n \in Nat, Inbox!Of(p, n) # {}
    PROVE  LET k == Inbox!Newest(Inbox!Of(p, n)) IN k \in DOMAIN relay /\ k \in Nat /\ relay[k].from = p /\ Latest(p, n, k)
<1>1. Len(relay) \in Nat /\ DOMAIN relay = 1..Len(relay)
  BY DEF InboxInv, KeysInv, KeysType
<1>2. Inbox!Of(p, n) = Below(p, n) /\ Inbox!Of(p, n) \in SUBSET (1..Len(relay))
  BY <1>1 DEF Inbox!Of, Below
<1>3. Inbox!Newest(Inbox!Of(p, n)) \in Below(p, n) /\ \A j \in Below(p, n) : j <= Inbox!Newest(Inbox!Of(p, n))
  BY <1>1, <1>2, NewestOf
<1> QED  BY <1>1, <1>3 DEF Latest, Below

LEMMA PageOfConversation ==
    ASSUME InboxInv, NEW p \in Peers, NEW n \in Nat
    PROVE  LET page == Inbox!PageOf(p, n) IN
           /\ page \in Seq(Nat) /\ Len(page) <= 2
           /\ \A i \in 1..Len(page) : page[i] \in DOMAIN relay
           /\ Len(page) = 0 => Below(p, n) = {}
           /\ Len(page) > 0 => relay[page[1]].from = p /\ Latest(p, n, page[1])
           /\ Len(page) = 2 => Latest(p, page[1], page[2])
<1> DEFINE first == Inbox!Newest(Inbox!Of(p, n))
           second == Inbox!Newest(Inbox!Of(p, first))
           page == Inbox!PageOf(p, n)
<1>1. CASE Inbox!Of(p, n) = {}
  <2>1. page = <<>> /\ Below(p, n) = {}
    BY <1>1 DEF Inbox!PageOf, Inbox!Of, Below
  <2>2. page \in Seq(Nat) /\ Len(page) = 0
    BY <2>1, EmptySeq
  <2> QED  BY <2>1, <2>2
<1>2. CASE Inbox!Of(p, n) # {}
  <2>1. first \in DOMAIN relay /\ first \in Nat /\ relay[first].from = p /\ Latest(p, n, first)
    BY <1>2, LatestOf
  <2>2. CASE page = <<first>>
    <3>1. page \in Seq(Nat) /\ Len(page) = 1 /\ page[1] = first
      <4> HIDE DEF first
      <4> QED  BY <2>1, <2>2
    <3> HIDE DEF first
    <3> QED  BY <2>1, <3>1
  <2>3. CASE page = <<first, second>> /\ Inbox!Of(p, first) # {}
    <3>1. second \in DOMAIN relay /\ second \in Nat /\ Latest(p, first, second)
      <4> HIDE DEF first
      <4> QED  BY <2>1, <2>3, LatestOf
    <3>2. page \in Seq(Nat) /\ Len(page) = 2 /\ page[1] = first /\ page[2] = second
      <4> HIDE DEF first, second
      <4> QED  BY <2>1, <2>3, <3>1
    <3> HIDE DEF first, second
    <3> QED  BY <2>1, <3>1, <3>2
  <2> QED  BY <1>2, <2>2, <2>3 DEF Inbox!PageOf
<1> QED  BY <1>1, <1>2

LEMMA PageOfInbox ==
    ASSUME InboxInv, PageSize \in Nat, Inbox!After(cursor) # <<>>
    PROVE  LET page == Inbox!After(cursor) IN
           /\ page \in Seq(Nat) /\ Len(page) > 0
           /\ \A i \in 1..Len(page) : page[i] = cursor + i /\ page[i] \in DOMAIN relay
<1> DEFINE left == Len(relay) - cursor
           n == IF left < PageSize THEN left ELSE PageSize
           page == Inbox!After(cursor)
<1>1. Len(relay) \in Nat /\ DOMAIN relay = 1..Len(relay) /\ cursor \in 0..Len(relay)
  BY DEF InboxInv, KeysInv, KeysType, BoxInv, BoxType
<1>2. n \in Nat /\ cursor + n <= Len(relay)
  BY <1>1
<1>3. page = [k \in 1..n |-> cursor + k]
  BY DEF Inbox!After
<1> HIDE DEF n, page
<1>4. page \in Seq(Nat) /\ Len(page) = n /\ \A i \in 1..n : page[i] = cursor + i
  BY <1>1, <1>2, <1>3
<1>5. n # 0
  BY <1>4, EmptySeq DEF page
<1> QED  BY <1>1, <1>2, <1>4, <1>5 DEF page

-----------------------------------------------------------------------------
(* The other steps of the inbox.                                            *)

\* A page is begun.
LEMMA Fetched ==
    ASSUME InboxInv, UNCHANGED <<relay, received, acked, cursor, pages>>, NEW w \in Inbox!Workers,
           NEW at, NEW page \in Seq(Nat), NEW p \in Peers \cup {0},
           work' = [work EXCEPT ![w] = [at |-> at, todo |-> page, page |-> page, of |-> p]],
           at = IF Len(page) = 0 THEN "done" ELSE "check",
           \A i \in 1..Len(page) : page[i] \in DOMAIN relay,
           IF w = "inbox" THEN Len(page) > 0 /\ \A i \in 1..Len(page) : page[i] = cursor + i
           ELSE p \in Peers /\ Loaded(p, page)
    PROVE  BoxInv'
<1>1. BoxInv /\ Len(page) \in Nat
  BY DEF InboxInv
<1>2. /\ work' \in [Inbox!Workers -> WorkRecords] /\ \A v \in Inbox!Workers \ {w} : work'[v] = work[v]
      /\ work'[w].at = at /\ work'[w].todo = page /\ work'[w].page = page /\ work'[w].of = p
  BY <1>1, Worker DEF WorkRecords, Taking
<1>3. BoxType'
  BY <1>1, <1>2 DEF BoxInv, BoxType
<1>4. RestOfPage'
  <2>1. TakenOf(w)' = 0
    BY <1>1, <1>2 DEF TakenOf
  <2>2. Rest(w)'
    BY <1>1, <1>2, <2>1 DEF Rest, Taking
  <2> QED  BY <1>1, <1>2, <2>2, RestKept DEF RestOfPage
<1>5. InboxPage'
  BY <1>1, <1>2 DEF BoxInv, InboxPage, Inbox!Workers
<1>6. PagerPage'
  BY <1>1, <1>2 DEF BoxInv, PagerPage, Loaded, Below, Latest, Inbox!Workers
<1>7. Conversations' /\ Followed' /\ Acked'
  BY <1>1 DEF BoxInv, Conversations, Conversation, Followed, Acked, Below
<1> QED  BY <1>3, <1>4, <1>5, <1>6, <1>7 DEF BoxInv

LEMMA FetchInboxInv == ASSUME InboxInv, PageSize \in Nat, Inbox!FetchInbox PROVE BoxInv'
<1> DEFINE page == Inbox!After(cursor)
<1>1. page \in Seq(Nat) /\ Len(page) > 0 /\ \A i \in 1..Len(page) : page[i] = cursor + i /\ page[i] \in DOMAIN relay
  BY PageOfInbox DEF Inbox!FetchInbox
<1>2. /\ work' = [work EXCEPT !["inbox"] = [at |-> "check", todo |-> page, page |-> page, of |-> 0]]
      /\ UNCHANGED <<relay, received, acked, cursor, pages>> /\ "inbox" \in Inbox!Workers
  BY DEF Inbox!FetchInbox, Inbox!peerVars, Inbox!Workers
<1> HIDE DEF page
<1>3. "check" = IF Len(page) = 0 THEN "done" ELSE "check"
  BY <1>1
<1>4. 0 \in Peers \cup {0}
  OBVIOUS
<1> QED  BY <1>1, <1>2, <1>3, <1>4, Fetched

LEMMA LoadHistoryInv == ASSUME InboxInv, NEW p \in Peers, Inbox!LoadHistory(p) PROVE BoxInv'
<1> DEFINE page == Inbox!PageOf(p, pages[p].before)
<1>1. pages[p].before \in Nat
  BY DEF InboxInv, BoxInv, BoxType
<1>2. /\ page \in Seq(Nat) /\ Len(page) <= 2
      /\ \A i \in 1..Len(page) : page[i] \in DOMAIN relay
      /\ Len(page) = 0 => Below(p, pages[p].before) = {}
      /\ Len(page) > 0 => relay[page[1]].from = p /\ Latest(p, pages[p].before, page[1])
      /\ Len(page) = 2 => Latest(p, page[1], page[2])
  BY <1>1, PageOfConversation
<1>3. /\ work' = [work EXCEPT !["pager"] = [at |-> Inbox!Next1(page), todo |-> page, page |-> page, of |-> p]]
      /\ UNCHANGED <<relay, received, acked, cursor, pages>> /\ "pager" \in Inbox!Workers
  BY DEF Inbox!LoadHistory, Inbox!peerVars, Inbox!Workers
<1> HIDE DEF page
<1>4. Loaded(p, page)
  BY <1>2 DEF Loaded
<1>5. Inbox!Next1(page) = IF Len(page) = 0 THEN "done" ELSE "check"
  <2>1. Len(page) = 0 <=> page = <<>>
    BY <1>2, EmptySeq
  <2> QED  BY <2>1 DEF Inbox!Next1
<1> QED  BY <1>2, <1>3, <1>4, <1>5, Fetched

LEMMA AdvanceInv == ASSUME InboxInv, Inbox!Advance PROVE BoxInv'
<1> DEFINE w == "inbox"
           page == work["inbox"].page
<1>1. /\ BoxInv /\ w \in Inbox!Workers /\ work[w].at = "done" /\ UNCHANGED <<relay, received, acked, pages>>
      /\ cursor' = page[Len(page)] /\ Inbox!Stops(w)
  BY DEF InboxInv, Inbox!Task, Inbox!Advance, Inbox!peerVars, Inbox!Workers
<1>2. Len(relay) \in Nat /\ DOMAIN relay = 1..Len(relay) /\ cursor \in 0..Len(relay)
  BY DEF InboxInv, KeysInv, KeysType, BoxInv, BoxType
<1>3. /\ Len(page) \in Nat /\ Len(page) > 0 /\ TakenOf(w) = Len(page)
      /\ \A i \in 1..Len(page) : page[i] = cursor + i /\ page[i] \in DOMAIN relay /\ page[i] \in received
  <2>1. Rest(w) /\ work[w].at # "idle" /\ work[w].at \notin Taking /\ Len(work[w].todo) \in Nat /\ Len(page) \in Nat
    BY <1>1, Worker DEF Taking
  <2>2. Len(work[w].todo) = 0
    BY <2>1 DEF Rest
  <2>3. TakenOf(w) = Len(page)
    BY <2>1, <2>2 DEF TakenOf
  <2>4. Len(page) > 0 /\ \A i \in 1..Len(page) : page[i] = cursor + i
    BY <1>1, <2>1 DEF BoxInv, InboxPage
  <2> QED  BY <2>1, <2>3, <2>4 DEF Rest
<1> HIDE DEF page
<1>4. cursor' = cursor + Len(page) /\ cursor' \in 0..Len(relay)
  <2>1. Len(page) \in 1..Len(page)
    BY <1>3
  <2> QED  BY <1>1, <1>2, <1>3, <2>1
<1>5. \A n \in DOMAIN relay : n <= cursor' => n \in received
  <2> SUFFICES ASSUME NEW n \in DOMAIN relay, n <= cursor', n > cursor PROVE n \in received
    BY <1>1, <1>2, <1>4 DEF BoxInv, Followed
  <2>1. n - cursor \in 1..Len(page) /\ cursor + (n - cursor) = n
    BY <1>2, <1>3, <1>4
  <2> QED  BY <1>3, <2>1
<1>6. /\ work' \in [Inbox!Workers -> WorkRecords] /\ work'[w].at = "idle" /\ Len(work'[w].todo) = 0
      /\ \A v \in Inbox!Workers \ {w} : work'[v] = work[v]
  BY <1>1, Worker, StopsAt
<1>7. BoxType'
  BY <1>1, <1>4, <1>6 DEF BoxInv, BoxType
<1>8. RestOfPage'
  <2>1. Rest(w)'
    BY <1>6 DEF Rest, Taking
  <2> QED  BY <1>1, <1>6, <2>1, RestKept DEF RestOfPage
<1>9. InboxPage' /\ PagerPage'
  BY <1>1, <1>6 DEF BoxInv, InboxPage, PagerPage, Loaded, Below, Latest, Inbox!Workers
<1>10. Conversations' /\ Followed' /\ Acked'
  BY <1>1, <1>5 DEF BoxInv, Conversations, Conversation, Followed, Acked, Below
<1> QED  BY <1>7, <1>8, <1>9, <1>10 DEF BoxInv

LEMMA LeaveInv == ASSUME InboxInv, MaxMessages \in Nat, NEW p \in Peers, Inbox!Leave(p) PROVE BoxInv'
<1> DEFINE left == [before |-> MaxMessages + 1, top |-> 0, more |-> TRUE]
<1>1. /\ BoxInv /\ UNCHANGED <<relay, received, acked, cursor, work>> /\ work["pager"].at = "idle"
      /\ pages' = [pages EXCEPT ![p] = left]
  BY DEF InboxInv, Inbox!Task, Inbox!Leave, Inbox!peerVars
<1>2. left \in [before : Nat, top : Nat, more : BOOLEAN] /\ left.top = 0 /\ left.before = MaxMessages + 1
  OBVIOUS
<1> HIDE DEF left
<1>3. BoxType'
  BY <1>1, <1>2 DEF BoxInv, BoxType
<1>4. RestOfPage' /\ InboxPage' /\ PagerPage'
  BY <1>1, RestKept DEF BoxInv, RestOfPage, InboxPage, PagerPage
<1>5. Conversations'
  <2>1. ASSUME NEW q \in Peers PROVE Conversation(q)'
    <3>1. CASE q = p
      BY <1>1, <1>2, <3>1 DEF BoxInv, BoxType, Conversation
    <3>2. CASE q # p
      <4>1. pages'[q] = pages[q] /\ Conversation(q)
        BY <1>1, <3>2 DEF BoxInv, BoxType, Conversations
      <4> QED  BY <1>1, <4>1 DEF Conversation, Below
    <3> QED  BY <3>1, <3>2
  <2> QED  BY <2>1 DEF Conversations
<1>6. Followed' /\ Acked'
  BY <1>1 DEF BoxInv, Followed, Acked
<1> QED  BY <1>3, <1>4, <1>5, <1>6 DEF BoxInv

\* What is written later is below nothing that was loaded.
LEMMA PeerSendsInv == ASSUME InboxInv, NEW p \in Peers, Inbox!PeerSends(p), MaxMessages \in Nat PROVE BoxInv'
<1>1. /\ BoxInv /\ UNCHANGED <<received, acked, cursor, work, pages>> /\ Len(relay) < MaxMessages
      /\ \E d : relay' = Append(relay, d)
  BY DEF InboxInv, Inbox!PeerSends, Inbox!boxVars
<1>2. Len(relay) \in Nat /\ DOMAIN relay = 1..Len(relay) /\ relay \in Seq(Deliveries)
  BY DEF InboxInv, KeysInv, KeysType
<1>3. /\ DOMAIN relay' = 1..(Len(relay) + 1) /\ Len(relay') = Len(relay) + 1
      /\ \A k \in DOMAIN relay : relay'[k] = relay[k]
  BY <1>1, <1>2
<1>4. ASSUME NEW q \in Peers, NEW n \in Nat, n <= Len(relay) + 1 PROVE Below(q, n)' = Below(q, n)
  BY <1>2, <1>3, <1>4 DEF Below
<1>5. BoxType'
  BY <1>1, <1>2, <1>3 DEF BoxInv, BoxType
<1>6. RestOfPage'
  BY <1>1, <1>2, <1>3, RestKept DEF RestOfPage
<1>7. InboxPage' /\ Followed' /\ Acked'
  BY <1>1, <1>2, <1>3 DEF BoxInv, BoxType, InboxPage, Followed, Acked
<1>8. Conversations'
  <2> SUFFICES ASSUME NEW q \in Peers PROVE Conversation(q)'
    BY DEF Conversations
  <2>1. Conversation(q)
    BY <1>1 DEF BoxInv, Conversations
  <2>2. CASE pages[q].top = 0
    BY <1>1, <2>1, <2>2 DEF Conversation
  <2>3. CASE pages[q].top # 0
    <3>1. pages[q].top \in DOMAIN relay /\ pages[q].before \in DOMAIN relay
      BY <2>1, <2>3 DEF Conversation
    <3>2. Below(q, pages[q].top + 1)' = Below(q, pages[q].top + 1) /\ Below(q, pages[q].before)' = Below(q, pages[q].before)
      BY <1>1, <1>2, <1>4, <3>1
    <3> QED  BY <1>1, <1>2, <1>3, <2>1, <2>3, <3>1, <3>2 DEF Conversation
  <2> QED  BY <2>2, <2>3
<1>9. PagerPage'
  <2> SUFFICES ASSUME work["pager"].at # "idle" PROVE work["pager"].of \in Peers /\ Loaded(work["pager"].of, work["pager"].page)'
    BY <1>1 DEF PagerPage
  <2>a. PICK q \in Peers : q = work["pager"].of
    BY <1>1 DEF BoxInv, PagerPage
  <2>b. work["pager"].page \in Seq(Nat)
    BY <1>1, Worker DEF Inbox!Workers
  <2>c. PICK page \in Seq(Nat) : page = work["pager"].page
    BY <2>b
  <2>1. Loaded(q, page) /\ Conversation(q) /\ Len(page) \in Nat
    BY <1>1, <2>a, <2>c DEF BoxInv, PagerPage, Conversations
  <2>2. \A i \in 1..Len(page) : page[i] \in DOMAIN relay
    BY <1>1, <2>c, Worker DEF Rest, Inbox!Workers
  <2>3. pages[q].top # 0 => Below(q, pages[q].before)' = Below(q, pages[q].before)
    BY <1>2, <1>4, <2>1, <1>1 DEF Conversation
  <2>4. Len(page) > 0 => Below(q, page[1])' = Below(q, page[1]) /\ relay'[page[1]] = relay[page[1]]
    BY <1>2, <1>3, <1>4, <2>1, <2>2
  <2>5. Loaded(q, page)'
    <3>1. (pages[q].top # 0 /\ Len(page) = 0 => Below(q, pages[q].before) = {})'
      BY <1>1, <2>1, <2>3 DEF Loaded
    <3>2. (pages[q].top # 0 /\ Len(page) > 0 => Latest(q, pages[q].before, page[1]))'
      <4>1. pages[q].top # 0 /\ Len(page) > 0 => Latest(q, pages[q].before, page[1])
        BY <2>1 DEF Loaded
      <4> QED  BY <1>1, <2>3, <4>1 DEF Latest
    <3>3. (Len(page) > 0 => relay[page[1]].from = q)'
      BY <2>1, <2>4 DEF Loaded
    <3>4. (Len(page) = 2 => Latest(q, page[1], page[2]))'
      <4>1. Len(page) = 2 => Latest(q, page[1], page[2])
        BY <2>1 DEF Loaded
      <4> QED  BY <2>4, <4>1 DEF Latest
    <3> QED  BY <2>1, <3>1, <3>2, <3>3, <3>4 DEF Loaded
  <2> QED  BY <1>1, <2>a, <2>c, <2>5
<1> QED  BY <1>5, <1>6, <1>7, <1>8, <1>9 DEF BoxInv

\* A page of a conversation that was taken whole has everything down to its last.
LEMMA LoadedDown ==
    ASSUME InboxInv, NEW p \in Peers, NEW page \in Seq(Nat), Loaded(p, page), Len(page) > 0,
           \A i \in 1..Len(page) : page[i] \in DOMAIN relay /\ page[i] \in received,
           NEW top, top = IF pages[p].top = 0 THEN page[1] ELSE pages[p].top,
           NEW k \in Below(p, top + 1), page[Len(page)] <= k
    PROVE  k \in received
<1>1. /\ Len(relay) \in Nat /\ DOMAIN relay = 1..Len(relay) /\ k \in 1..Len(relay) /\ relay[k].from = p
      /\ pages[p].before \in Nat /\ pages[p].top \in Nat /\ Conversation(p) /\ Len(page) \in Nat
  BY DEF InboxInv, KeysInv, KeysType, BoxInv, BoxType, Conversations, Below
<1>2. /\ page[1] \in DOMAIN relay /\ page[1] \in received /\ page[1] \in Nat
      /\ Len(page) = 2 => page[2] \in DOMAIN relay /\ page[2] \in received /\ page[2] \in Nat
  BY <1>1
<1>3. Len(page) = 1 \/ Len(page) = 2
  <2>1. Len(page) <= 2
    BY DEF Loaded
  <2>2. Len(page) \in Nat /\ Len(page) > 0
    BY <1>1
  <2>3. \A n \in Nat : n > 0 /\ n <= 2 => n = 1 \/ n = 2
    OBVIOUS
  <2> QED  BY <2>1, <2>2, <2>3
<1>4. k < top + 1 /\ top \in Nat
  BY <1>1, <1>2 DEF Below
<1>5. CASE k <= page[1]
  <2>1. CASE k = page[1]
    BY <1>2, <2>1
  <2>2. CASE k < page[1]
    <3>1. Len(page) = 2
      BY <1>1, <1>2, <1>3, <2>2
    <3>2. k \in Below(p, page[1]) /\ Latest(p, page[1], page[2])
      BY <1>1, <2>2, <3>1 DEF Below, Loaded
    <3>3. k <= page[2] /\ page[2] <= k
      BY <3>1, <3>2 DEF Latest
    <3> QED  BY <1>1, <1>2, <3>1, <3>3
  <2> QED  BY <1>1, <1>2, <1>5, <2>1, <2>2
<1>6. CASE k > page[1]
  <2>1. pages[p].top # 0 /\ top = pages[p].top
    BY <1>1, <1>2, <1>4, <1>6
  <2>2. Latest(p, pages[p].before, page[1])
    BY <1>1, <1>3, <2>1 DEF Loaded
  <2>3. k \notin Below(p, pages[p].before)
    BY <1>1, <1>2, <1>6, <2>2 DEF Latest
  <2>4. pages[p].before <= k
    BY <1>1, <2>3 DEF Below
  <2> QED  BY <1>1, <2>1, <2>4 DEF Conversation
<1> QED  BY <1>1, <1>2, <1>5, <1>6

LEMMA HistoryLoadedInv == ASSUME InboxInv, Inbox!HistoryLoaded PROVE BoxInv'
<1> DEFINE w == "pager"
<1>1. /\ BoxInv /\ w \in Inbox!Workers /\ work[w].at = "done" /\ UNCHANGED <<relay, received, acked, cursor>>
      /\ Inbox!Stops(w)
  BY DEF InboxInv, Inbox!Task, Inbox!HistoryLoaded, Inbox!peerVars, Inbox!Workers
<1>2. PICK p \in Peers : p = work[w].of
  BY <1>1 DEF BoxInv, PagerPage
<1>3. work[w].page \in Seq(Nat)
  BY <1>1, Worker
<1>4. PICK page \in Seq(Nat) : page = work[w].page
  BY <1>3
<1>5. /\ Len(page) \in Nat /\ Loaded(p, page)
      /\ \A i \in 1..Len(page) : page[i] \in DOMAIN relay /\ page[i] \in received
  <2>1. Rest(w) /\ work[w].at # "idle" /\ work[w].at \notin Taking /\ Len(work[w].todo) \in Nat /\ Len(page) \in Nat
    BY <1>1, <1>4, Worker DEF Taking
  <2>2. Len(work[w].todo) = 0
    BY <2>1 DEF Rest
  <2>3. TakenOf(w) = Len(page)
    BY <1>4, <2>1, <2>2 DEF TakenOf
  <2> QED  BY <1>1, <1>2, <1>4, <2>1, <2>3 DEF Rest, BoxInv, PagerPage
<1> DEFINE last == page[Len(page)]
           new == [before |-> IF page = <<>> THEN pages[p].before ELSE last,
                   top |-> IF pages[p].top = 0 /\ page # <<>> THEN page[1] ELSE pages[p].top,
                   more |-> page # <<>> /\ Inbox!Of(p, last) # {}]
<1>6. pages' = [pages EXCEPT ![p] = new]
  BY <1>2, <1>4 DEF Inbox!HistoryLoaded, Inbox!Task
<1>7. page = <<>> <=> Len(page) = 0
  BY EmptySeq
<1>8. /\ pages[p] \in [before : Nat, top : Nat, more : BOOLEAN] /\ Conversation(p)
      /\ Len(relay) \in Nat /\ DOMAIN relay = 1..Len(relay)
  BY DEF InboxInv, KeysInv, KeysType, BoxInv, BoxType, Conversations
<1>9. Len(page) > 0 => /\ page[1] \in DOMAIN relay /\ last \in DOMAIN relay /\ page[1] \in Nat /\ last \in Nat
                       /\ Inbox!Of(p, last) = Below(p, last)
  BY <1>5, <1>8 DEF Inbox!Of, Below
<1>10. /\ new \in [before : Nat, top : Nat, more : BOOLEAN]
       /\ Len(page) = 0 => new.before = pages[p].before /\ new.top = pages[p].top /\ ~new.more
       /\ Len(page) > 0 => new.before = last /\ new.top = (IF pages[p].top = 0 THEN page[1] ELSE pages[p].top)
                           /\ (new.more \/ Below(p, last) = {})
  <2> HIDE DEF last
  <2>1. pages[p].before \in Nat /\ pages[p].top \in Nat
    BY <1>8
  <2>a. /\ new.before = (IF page = <<>> THEN pages[p].before ELSE last)
        /\ new.top = (IF pages[p].top = 0 /\ page # <<>> THEN page[1] ELSE pages[p].top)
        /\ new.more = (page # <<>> /\ Inbox!Of(p, last) # {})
    OBVIOUS
  <2>b. new.before \in Nat /\ new.top \in Nat /\ new.more \in BOOLEAN => new \in [before : Nat, top : Nat, more : BOOLEAN]
    OBVIOUS
  <2> HIDE DEF new
  <2>2. CASE Len(page) = 0
    BY <1>7, <2>1, <2>2, <2>a, <2>b
  <2>3. CASE Len(page) > 0
    BY <1>7, <1>9, <2>1, <2>3, <2>a, <2>b
  <2> QED  BY <1>5, <2>2, <2>3
<1> HIDE DEF new, last
<1>11. /\ pages' \in [Peers -> [before : Nat, top : Nat, more : BOOLEAN]] /\ pages'[p] = new
       /\ \A q \in Peers \ {p} : pages'[q] = pages[q]
  BY <1>6, <1>10 DEF InboxInv, BoxInv, BoxType
<1>12. /\ work' \in [Inbox!Workers -> WorkRecords] /\ work'[w].at = "idle" /\ Len(work'[w].todo) = 0
       /\ \A v \in Inbox!Workers \ {w} : work'[v] = work[v]
  BY <1>1, Worker, StopsAt
<1>13. BoxType'
  BY <1>1, <1>11, <1>12 DEF BoxInv, BoxType
<1>14. RestOfPage'
  <2>1. Rest(w)'
    BY <1>12 DEF Rest, Taking
  <2> QED  BY <1>1, <1>12, <2>1, RestKept DEF RestOfPage
<1>15. InboxPage' /\ PagerPage' /\ Followed' /\ Acked'
  BY <1>1, <1>12 DEF BoxInv, InboxPage, PagerPage, Followed, Acked, Inbox!Workers
<1>16. Conversation(p)'
  <2>1. CASE Len(page) = 0
    <3>1. pages[p].top # 0 => Below(p, pages[p].before) = {}
      BY <1>5, <2>1 DEF Loaded
    <3> QED  BY <1>1, <1>8, <1>10, <1>11, <2>1, <3>1 DEF Conversation, Below
  <2>2. CASE Len(page) > 0
    <3>1. new.top # 0 /\ new.top \in DOMAIN relay /\ new.before \in DOMAIN relay /\ (new.more \/ Below(p, new.before) = {})
      BY <1>8, <1>9, <1>10, <2>2 DEF Conversation
    <3>2. \A k \in Below(p, new.top + 1) : new.before <= k => k \in received
      BY <1>5, <1>10, <2>2, LoadedDown DEF last
    <3> QED  BY <1>1, <1>11, <3>1, <3>2 DEF Conversation, Below
  <2> QED  BY <1>5, <2>1, <2>2
<1>17. Conversations'
  <2>1. ASSUME NEW q \in Peers \ {p} PROVE Conversation(q)'
    <3>1. Conversation(q) /\ pages'[q] = pages[q]
      BY <1>1, <1>11 DEF BoxInv, Conversations
    <3> QED  BY <1>1, <3>1 DEF Conversation, Below
  <2> QED  BY <1>16, <2>1 DEF Conversations
<1> QED  BY <1>13, <1>14, <1>15, <1>17 DEF BoxInv

-----------------------------------------------------------------------------
(* The keys.                                                                *)

LEMMA PinObserved ==
    ASSUME NEW pin \in Pins, NEW k \in Nat, NEW n \in Nat, pin.current <= n, pin.pending <= n, k <= n
    PROVE  /\ Inbox!Observed(pin, k) \in Pins
           /\ Inbox!Observed(pin, k).current <= n /\ Inbox!Observed(pin, k).pending <= n
           /\ pin.current # 0 => Inbox!Observed(pin, k).current = pin.current
<1> DEFINE o == Inbox!Observed(pin, k)
<1>1. \/ o = [current |-> k, pending |-> 0, seen |-> 1, locked |-> FALSE] /\ pin.current = 0
      \/ o = pin
      \/ o = [pin EXCEPT !.locked = TRUE]
      \/ o = [pin EXCEPT !.pending = k, !.seen = @ + 1]
  BY DEF Inbox!Observed, Inbox!NoPin
<1> DEFINE u == [pin EXCEPT !.pending = k, !.seen = @ + 1]
<1>2. u \in Pins /\ u.current = pin.current /\ u.pending = k
  <2> DEFINE v == [pin EXCEPT !.pending = k]
  <2>1. v \in Pins /\ v.current = pin.current /\ v.pending = k
    BY DEF Pins
  <2>2. u = [v EXCEPT !.seen = @ + 1]
    OBVIOUS
  <2> HIDE DEF u, v
  <2> QED  BY <2>1, <2>2 DEF Pins
<1> HIDE DEF o
<1>3. o \in Pins /\ o.current <= n /\ o.pending <= n /\ (pin.current # 0 => o.current = pin.current)
  <2>1. CASE o = [current |-> k, pending |-> 0, seen |-> 1, locked |-> FALSE] /\ pin.current = 0
    BY <2>1 DEF Pins
  <2>2. CASE o = pin
    BY <2>2
  <2>3. CASE o = [pin EXCEPT !.locked = TRUE]
    BY <2>3 DEF Pins
  <2>4. CASE o = u
    <3> HIDE DEF u
    <3> QED  BY <1>2, <2>4
  <2> QED  BY <1>1, <2>1, <2>2, <2>3, <2>4
<1> QED  BY <1>3 DEF o

\* New keys of a peer are observed: by the owner, the panel or a worker.
LEMMA PinsObserved ==
    ASSUME KeysInv, NEW p \in Peers, NEW k \in Nat, k <= phones[p],
           pins' = [pins EXCEPT ![p] = Inbox!Observed(@, k)]
    PROVE  /\ pins' \in [Peers -> Pins] /\ pins'[p].pending <= phones[p] /\ pins'[p].pending \in Nat
           /\ \A q \in Peers : pins'[q].current <= phones[q] /\ pins'[q].pending <= phones[q]
           /\ \A q \in Peers : pins[q].current # 0 => pins'[q].current = pins[q].current
<1>1. /\ pins \in [Peers -> Pins] /\ phones \in [Peers -> Nat]
      /\ \A q \in Peers : pins[q].current <= phones[q] /\ pins[q].pending <= phones[q]
  BY DEF KeysInv, KeysType, KeysOfPeers
<1> DEFINE pin == Inbox!Observed(pins[p], k)
<1>2. /\ pin \in Pins /\ pin.current <= phones[p] /\ pin.pending <= phones[p]
      /\ pins[p].current # 0 => pin.current = pins[p].current
  BY <1>1, PinObserved
<1>3. pins' = [pins EXCEPT ![p] = pin]
  OBVIOUS
<1> HIDE DEF pin
<1>4. pins' \in [Peers -> Pins] /\ pins'[p] = pin /\ \A q \in Peers \ {p} : pins'[q] = pins[q]
  BY <1>1, <1>2, <1>3
<1>5. pin.pending \in Nat
  BY <1>2 DEF Pins
<1> QED  BY <1>1, <1>2, <1>4, <1>5

LEMMA KeysKept ==
    ASSUME KeysInv, UNCHANGED <<relay, phones, pins, review>>
    PROVE  KeysInv'
  BY DEF KeysInv, KeysType, KeysOfPeers, Reviewing

LEMMA KeysObserved ==
    ASSUME KeysInv, UNCHANGED <<relay, phones>>, NEW p \in Peers, NEW k \in Nat, k <= phones[p],
           pins' = [pins EXCEPT ![p] = Inbox!Observed(@, k)],
           review' \in [of : Peers \cup {0}, pending : Nat, job : {"none", "accept", "accepting"}],
           (review'.job # "none" \/ review'.pending # 0) => review'.of \in Peers
    PROVE  KeysInv'
<1>1. /\ pins' \in [Peers -> Pins]
      /\ \A q \in Peers : pins'[q].current <= phones[q] /\ pins'[q].pending <= phones[q]
  BY PinsObserved
<1> QED  BY <1>1 DEF KeysInv, KeysType, KeysOfPeers, Reviewing

LEMMA PeerSendsKeys == ASSUME KeysInv, NEW p \in Peers, Inbox!PeerSends(p) PROVE KeysInv'
<1> DEFINE d == [from |-> p, keys |-> phones[p], opens |-> theirs[p] \in {"none", "opening"},
                 chain |-> IF theirs[p] = "me" THEN "me" ELSE "peer"]
<1>1. relay' = Append(relay, d) /\ UNCHANGED <<phones, pins, review>>
  BY DEF Inbox!PeerSends, Inbox!trustVars
<1>2. d \in Deliveries /\ d.from = p /\ d.keys = phones[p] /\ phones[p] \in Nat
  BY DEF KeysInv, KeysType, Deliveries
<1> HIDE DEF d
<1>3. relay \in Seq(Deliveries)
  BY DEF KeysInv, KeysType
<1>4. /\ relay' \in Seq(Deliveries) /\ DOMAIN relay' = 1..(Len(relay) + 1) /\ relay'[Len(relay) + 1] = d
      /\ DOMAIN relay = 1..Len(relay) /\ Len(relay) \in Nat
      /\ \A k \in 1..Len(relay) : relay'[k] = relay[k]
  BY <1>1, <1>2, <1>3
<1>5. \A k \in DOMAIN relay' : relay'[k].keys <= phones[relay'[k].from]
  <2> TAKE k \in DOMAIN relay'
  <2>1. CASE k = Len(relay) + 1
    BY <1>2, <1>4, <2>1
  <2>2. CASE k \in DOMAIN relay
    BY <1>4, <2>2 DEF KeysInv, KeysOfPeers
  <2> QED  BY <1>4, <2>1, <2>2
<1> QED  BY <1>1, <1>4, <1>5 DEF KeysInv, KeysType, KeysOfPeers, Reviewing

LEMMA PeerMovesKeys == ASSUME KeysInv, NEW p \in Peers, Inbox!PeerMoves(p) PROVE KeysInv'
<1>1. UNCHANGED <<relay, pins, review>> /\ phones' = [phones EXCEPT ![p] = @ + 1]
  BY DEF Inbox!PeerMoves, Inbox!trustVars
<1>2. phones \in [Peers -> Nat]
  BY DEF KeysInv, KeysType
<1>3. phones' \in [Peers -> Nat] /\ \A q \in Peers : phones[q] <= phones'[q]
  BY <1>1, <1>2
<1>4. relay \in Seq(Deliveries) /\ pins \in [Peers -> Pins]
  BY DEF KeysInv, KeysType
<1>5. \A k \in DOMAIN relay : relay[k].from \in Peers /\ relay[k].keys \in Nat
  <2> TAKE k \in DOMAIN relay
  <2>1. relay[k] \in Deliveries
    BY <1>4
  <2> QED  BY <2>1 DEF Deliveries
<1>6. \A q \in Peers : pins[q].current \in Nat /\ pins[q].pending \in Nat
  BY <1>4 DEF Pins
<1>7. KeysOfPeers'
  BY <1>1, <1>2, <1>3, <1>5, <1>6 DEF KeysInv, KeysOfPeers
<1> QED  BY <1>1, <1>3, <1>7 DEF KeysInv, KeysType, Reviewing

LEMMA ObserveKeys == ASSUME InboxInv, NEW w \in Inbox!Workers, Inbox!ObserveSender(w) PROVE KeysInv'
<1>1. /\ KeysInv /\ BoxInv /\ work[w].at = "observe" /\ UNCHANGED <<relay, phones, review>>
      /\ pins' = [pins EXCEPT ![relay[Inbox!Now(w)].from] = Inbox!Observed(@, relay[Inbox!Now(w)].keys)]
  BY DEF InboxInv, Inbox!Task, Inbox!ObserveSender, Inbox!peerVars
<1>2. Inbox!Now(w) \in DOMAIN relay
  BY <1>1, Worker DEF Taking
<1>3. PICK p \in Peers, k \in Nat : p = relay[Inbox!Now(w)].from /\ k = relay[Inbox!Now(w)].keys /\ k <= phones[p]
  <2>1. relay \in Seq(Deliveries)
    BY <1>1 DEF KeysInv, KeysType
  <2>2. relay[Inbox!Now(w)] \in Deliveries
    BY <1>2, <2>1
  <2>3. relay[Inbox!Now(w)].from \in Peers /\ relay[Inbox!Now(w)].keys \in Nat
    BY <2>2 DEF Deliveries
  <2> QED  BY <1>1, <1>2, <2>3 DEF KeysInv, KeysOfPeers
<1>4. /\ review' \in [of : Peers \cup {0}, pending : Nat, job : {"none", "accept", "accepting"}]
      /\ (review'.job # "none" \/ review'.pending # 0) => review'.of \in Peers
  BY <1>1 DEF KeysInv, KeysType, Reviewing
<1> QED  BY <1>1, <1>3, <1>4, KeysObserved

LEMMA WriteToKeys == ASSUME KeysInv, NEW p \in Peers, Inbox!WriteTo(p) PROVE KeysInv'
<1>1. UNCHANGED <<relay, phones, review>> /\ pins' = [pins EXCEPT ![p] = Inbox!Observed(@, phones[p])]
  BY DEF Inbox!WriteTo, Inbox!peerVars
<1>2. /\ review' \in [of : Peers \cup {0}, pending : Nat, job : {"none", "accept", "accepting"}]
      /\ (review'.job # "none" \/ review'.pending # 0) => review'.of \in Peers
      /\ phones[p] \in Nat /\ phones[p] <= phones[p]
  BY <1>1 DEF KeysInv, KeysType, Reviewing
<1> QED  BY <1>1, <1>2, KeysObserved

LEMMA RefreshKeys == ASSUME KeysInv, NEW p \in Peers, Inbox!Refresh(p) PROVE KeysInv'
<1>1. /\ UNCHANGED <<relay, phones>> /\ pins' = [pins EXCEPT ![p] = Inbox!Observed(@, phones[p])]
      /\ review' = [of |-> p, pending |-> pins'[p].pending, job |-> "none"]
      /\ phones[p] \in Nat /\ phones[p] <= phones[p]
  BY DEF Inbox!Refresh, Inbox!peerVars, KeysInv, KeysType
<1>2. pins'[p].pending \in Nat
  BY <1>1, PinsObserved
<1> QED  BY <1>1, <1>2, KeysObserved

LEMMA TapAcceptKeys == ASSUME KeysInv, Inbox!TapAccept PROVE KeysInv'
<1>1. /\ UNCHANGED <<relay, phones, pins>> /\ review' = [review EXCEPT !.job = "accept"] /\ review.pending # 0
  BY DEF Inbox!TapAccept, Inbox!peerVars, Inbox!trustVars
<1> QED  BY <1>1 DEF KeysInv, KeysType, KeysOfPeers, Reviewing

LEMMA ReviewAgainKeys == ASSUME KeysInv, Inbox!ReviewAgain PROVE KeysInv'
<1>1. PICK p \in Peers : p = review.of
  BY DEF KeysInv, Reviewing, Inbox!ReviewAgain
<1> DEFINE pin == Inbox!Observed(pins[p], phones[p])
<1>2. /\ UNCHANGED <<relay, phones>> /\ pins' = [pins EXCEPT ![p] = pin] /\ review.job = "accept"
      /\ \/ review' = [review EXCEPT !.job = "accepting"]
         \/ review' = [of |-> p, pending |-> pin.pending, job |-> "none"]
  BY <1>1 DEF Inbox!ReviewAgain, Inbox!peerVars
<1>3. phones[p] \in Nat /\ phones[p] <= phones[p] /\ pins' = [pins EXCEPT ![p] = Inbox!Observed(@, phones[p])]
  BY <1>2 DEF KeysInv, KeysType
<1>4. pins'[p] = pin /\ pin.pending \in Nat
  <2>1. pins'[p] = pin
    BY <1>2 DEF KeysInv, KeysType
  <2> QED  BY <1>3, <2>1, PinsObserved
<1> HIDE DEF pin
<1>5. /\ review' \in [of : Peers \cup {0}, pending : Nat, job : {"none", "accept", "accepting"}]
      /\ (review'.job # "none" \/ review'.pending # 0) => review'.of \in Peers
  <2>1. CASE review' = [review EXCEPT !.job = "accepting"]
    BY <1>1, <2>1 DEF KeysInv, KeysType
  <2>2. CASE review' = [of |-> p, pending |-> pin.pending, job |-> "none"]
    BY <1>4, <2>2
  <2> QED  BY <1>2, <2>1, <2>2
<1> QED  BY <1>2, <1>3, <1>5, KeysObserved

\* What the owner accepts is what the panel showed.
LEMMA AcceptKeysKeys ==
    ASSUME KeysInv, Inbox!AcceptKeys
    PROVE  /\ KeysInv'
           /\ \A p \in Peers : pins[p].current \notin {0, pins'[p].current} =>
                 review.of = p /\ review.job # "none" /\ pins'[p].current = review.pending
<1>1. PICK p \in Peers : p = review.of
  BY DEF KeysInv, Reviewing, Inbox!AcceptKeys
<1> DEFINE agrees == ~pins[p].locked /\ pins[p].pending = review.pending
           pin == [pins[p] EXCEPT !.current = pins[p].pending, !.pending = 0]
<1>2. /\ UNCHANGED <<relay, phones>> /\ review.job = "accepting"
      /\ pins' = (IF agrees THEN [pins EXCEPT ![p] = pin] ELSE pins)
      /\ review' = [review EXCEPT !.pending = pins'[p].pending, !.job = "none"]
  BY <1>1 DEF Inbox!AcceptKeys, Inbox!peerVars, Inbox!Shows, Inbox!Accepted
<1>3. pins \in [Peers -> Pins] /\ phones \in [Peers -> Nat] /\ pins[p].pending \in Nat /\ pins[p].pending <= phones[p]
  BY DEF KeysInv, KeysType, KeysOfPeers, Pins
<1>4. pin \in Pins /\ pin.current = pins[p].pending /\ pin.pending = 0 /\ pin.pending <= phones[p]
  <2> DEFINE old == pins[p]
  <2>1. old \in Pins
    BY <1>3
  <2> DEFINE v == [old EXCEPT !.current = old.pending]
  <2>2. v \in Pins /\ v.current = old.pending
    BY <2>1 DEF Pins
  <2>3. pin = [v EXCEPT !.pending = 0]
    OBVIOUS
  <2>4. 0 <= phones[p]
    BY <1>3
  <2> HIDE DEF pin, v
  <2> QED  BY <2>2, <2>3, <2>4 DEF Pins
<1> HIDE DEF pin
<1>5. /\ pins' \in [Peers -> Pins] /\ pins'[p].pending \in Nat
      /\ \A q \in Peers : pins'[q].current <= phones[q] /\ pins'[q].pending <= phones[q]
      /\ \A q \in Peers : pins'[q] # pins[q] => agrees /\ q = p /\ pins'[q].current = pins[p].pending
  <2>1. CASE agrees
    BY <1>2, <1>3, <1>4, <2>1 DEF KeysInv, KeysOfPeers
  <2>2. CASE ~agrees
    BY <1>2, <1>3, <2>2 DEF KeysInv, KeysOfPeers
  <2> QED  BY <2>1, <2>2
<1>6. /\ review' \in [of : Peers \cup {0}, pending : Nat, job : {"none", "accept", "accepting"}]
      /\ review'.of = p /\ review'.job = "none"
  BY <1>1, <1>2, <1>5 DEF KeysInv, KeysType
<1>7. KeysInv'
  BY <1>2, <1>5, <1>6 DEF KeysInv, KeysType, KeysOfPeers, Reviewing
<1> QED  BY <1>1, <1>2, <1>5, <1>7

-----------------------------------------------------------------------------
\* The invariant, and that new keys are relied on only when they are accepted.
Reviewed == \A p \in Peers : pins[p].current \notin {0, pins'[p].current} =>
                 review.of = p /\ review.job # "none" /\ pins'[p].current = review.pending

LEMMA ObservedIsReviewed ==
    ASSUME KeysInv, NEW p \in Peers, NEW k \in Nat, k <= phones[p],
           pins' = [pins EXCEPT ![p] = Inbox!Observed(@, k)]
    PROVE  Reviewed
  BY PinsObserved DEF Reviewed

LEMMA InboxNextInv ==
    ASSUME InboxInv, MaxMessages \in Nat, PageSize \in Nat, [Inbox!InboxNext]_(Inbox!inboxVars)
    PROVE  InboxInv' /\ Reviewed
<1> USE DEF Inbox!peerVars, Inbox!trustVars, Inbox!boxVars
<1>1. KeysInv /\ BoxInv /\ \A q \in Peers : phones[q] \in Nat /\ phones[q] <= phones[q]
  BY DEF InboxInv, KeysInv, KeysType
<1>2. ASSUME UNCHANGED pins PROVE Reviewed
  BY <1>2 DEF Reviewed
<1>3. ASSUME NEW p \in Peers, Inbox!PeerSends(p) PROVE InboxInv' /\ Reviewed
  <2>1. UNCHANGED pins
    BY <1>3 DEF Inbox!PeerSends
  <2> QED  BY <1>1, <1>2, <1>3, <2>1, PeerSendsInv, PeerSendsKeys DEF InboxInv
<1>4. ASSUME NEW p \in Peers, Inbox!PeerReads(p) PROVE InboxInv' /\ Reviewed
  <2>1. UNCHANGED <<relay, phones, pins, review, pages, cursor, received, acked, work>>
    BY <1>4 DEF Inbox!PeerReads
  <2> QED  BY <1>1, <1>2, <2>1, KeysKept, BoxKept DEF InboxInv
<1>5. ASSUME NEW p \in Peers, Inbox!PeerMoves(p) PROVE InboxInv' /\ Reviewed
  <2>1. UNCHANGED <<relay, pins, pages, cursor, received, acked, work>>
    BY <1>5 DEF Inbox!PeerMoves
  <2> QED  BY <1>1, <1>2, <1>5, <2>1, PeerMovesKeys, BoxKept DEF InboxInv
<1>6. ASSUME NEW p \in Peers, Inbox!WriteTo(p) PROVE InboxInv' /\ Reviewed
  <2>1. UNCHANGED <<relay, pages, cursor, received, acked, work>> /\ pins' = [pins EXCEPT ![p] = Inbox!Observed(@, phones[p])]
    BY <1>6 DEF Inbox!WriteTo
  <2> QED  BY <1>1, <1>6, <2>1, WriteToKeys, BoxKept, ObservedIsReviewed DEF InboxInv
<1>7. ASSUME NEW p \in Peers, Inbox!LoadHistory(p) PROVE InboxInv' /\ Reviewed
  <2>1. UNCHANGED <<relay, phones, pins, review>>
    BY <1>7 DEF Inbox!LoadHistory
  <2> QED  BY <1>1, <1>2, <1>7, <2>1, LoadHistoryInv, KeysKept DEF InboxInv
<1>8. ASSUME NEW p \in Peers, Inbox!Leave(p) PROVE InboxInv' /\ Reviewed
  <2>1. UNCHANGED <<relay, phones, pins, review>>
    BY <1>8 DEF Inbox!Leave
  <2> QED  BY <1>1, <1>2, <1>8, <2>1, LeaveInv, KeysKept DEF InboxInv
<1>9. ASSUME NEW p \in Peers, Inbox!Refresh(p) PROVE InboxInv' /\ Reviewed
  <2>1. UNCHANGED <<relay, pages, cursor, received, acked, work>> /\ pins' = [pins EXCEPT ![p] = Inbox!Observed(@, phones[p])]
    BY <1>9 DEF Inbox!Refresh
  <2> QED  BY <1>1, <1>9, <2>1, RefreshKeys, BoxKept, ObservedIsReviewed DEF InboxInv
<1>10. ASSUME NEW w \in Inbox!Workers, Inbox!WorkStep(w) PROVE InboxInv' /\ Reviewed
  <2>1. CASE Inbox!CheckCommitted(w)
    <3>1. UNCHANGED <<relay, phones, pins, review>>
      BY <2>1 DEF Inbox!CheckCommitted
    <3> QED  BY <1>1, <1>2, <2>1, <3>1, CheckInv, KeysKept DEF InboxInv
  <2>2. CASE Inbox!Receive(w)
    <3>1. UNCHANGED <<relay, phones, pins, review>>
      BY <2>2 DEF Inbox!Receive
    <3> QED  BY <1>1, <1>2, <2>2, <3>1, ReceiveInv, KeysKept DEF InboxInv
  <2>3. CASE Inbox!ObserveSender(w)
    <3>1. Inbox!Now(w) \in DOMAIN relay
      BY <1>1, <2>3, Worker DEF Inbox!ObserveSender, Inbox!Task, Taking
    <3>2. relay \in Seq(Deliveries)
      BY <1>1 DEF KeysInv, KeysType
    <3>3. relay[Inbox!Now(w)] \in Deliveries
      BY <3>1, <3>2
    <3>4. /\ relay[Inbox!Now(w)].from \in Peers /\ relay[Inbox!Now(w)].keys \in Nat
          /\ relay[Inbox!Now(w)].keys <= phones[relay[Inbox!Now(w)].from]
      BY <1>1, <3>1, <3>3 DEF KeysInv, KeysOfPeers, Deliveries
    <3>5. pins' = [pins EXCEPT ![relay[Inbox!Now(w)].from] = Inbox!Observed(@, relay[Inbox!Now(w)].keys)]
      BY <2>3 DEF Inbox!ObserveSender
    <3>6. Reviewed
      BY <1>1, <3>4, <3>5, ObservedIsReviewed
    <3> QED  BY <2>3, <3>6, ObserveInv, ObserveKeys DEF InboxInv
  <2> QED  BY <1>10, <2>1, <2>2, <2>3 DEF Inbox!WorkStep
<1>11. CASE Inbox!InboxStep
  <2>1. CASE Inbox!FetchInbox
    <3>1. UNCHANGED <<relay, phones, pins, review>>
      BY <2>1 DEF Inbox!FetchInbox
    <3> QED  BY <1>1, <1>2, <2>1, <3>1, FetchInboxInv, KeysKept DEF InboxInv
  <2>2. CASE Inbox!Acknowledge
    <3>1. UNCHANGED <<relay, phones, pins, review>>
      BY <2>2 DEF Inbox!Acknowledge
    <3> QED  BY <1>1, <1>2, <2>2, <3>1, AcknowledgeInv, KeysKept DEF InboxInv
  <2>3. CASE Inbox!Advance
    <3>1. UNCHANGED <<relay, phones, pins, review>>
      BY <2>3 DEF Inbox!Advance
    <3> QED  BY <1>1, <1>2, <2>3, <3>1, AdvanceInv, KeysKept DEF InboxInv
  <2> QED  BY <1>10, <1>11, <2>1, <2>2, <2>3 DEF Inbox!InboxStep, Inbox!Workers
<1>12. CASE Inbox!PagerStep
  <2>1. CASE Inbox!HistoryLoaded
    <3>1. UNCHANGED <<relay, phones, pins, review>>
      BY <2>1 DEF Inbox!HistoryLoaded
    <3> QED  BY <1>1, <1>2, <2>1, <3>1, HistoryLoadedInv, KeysKept DEF InboxInv
  <2> QED  BY <1>10, <1>12, <2>1 DEF Inbox!PagerStep, Inbox!Workers
<1>13. CASE Inbox!ReviewStep
  <2>1. CASE Inbox!TapAccept
    <3>1. UNCHANGED <<relay, pins, pages, cursor, received, acked, work>>
      BY <2>1 DEF Inbox!TapAccept
    <3> QED  BY <1>1, <1>2, <2>1, <3>1, TapAcceptKeys, BoxKept DEF InboxInv
  <2>2. CASE Inbox!ReviewAgain
    <3>1. UNCHANGED <<relay, pages, cursor, received, acked, work>>
      BY <2>2 DEF Inbox!ReviewAgain
    <3>2. PICK p \in Peers : p = review.of
      BY <1>1, <2>2 DEF KeysInv, Reviewing, Inbox!ReviewAgain
    <3>3. pins' = [pins EXCEPT ![p] = Inbox!Observed(@, phones[p])]
      BY <2>2, <3>2 DEF Inbox!ReviewAgain
    <3> QED  BY <1>1, <2>2, <3>1, <3>3, ReviewAgainKeys, BoxKept, ObservedIsReviewed DEF InboxInv
  <2>3. CASE Inbox!AcceptKeys
    <3>1. UNCHANGED <<relay, pages, cursor, received, acked, work>>
      BY <2>3 DEF Inbox!AcceptKeys
    <3> QED  BY <1>1, <2>3, <3>1, AcceptKeysKeys, BoxKept DEF InboxInv, Reviewed
  <2> QED  BY <1>13, <2>1, <2>2, <2>3 DEF Inbox!ReviewStep
<1>14. ASSUME NEW w \in Inbox!Workers, Inbox!Fail(w) PROVE InboxInv' /\ Reviewed
  <2>1. UNCHANGED <<relay, phones, pins, review>>
    BY <1>14 DEF Inbox!Fail
  <2> QED  BY <1>1, <1>2, <1>14, <2>1, FailInv, KeysKept DEF InboxInv
<1>15. CASE UNCHANGED Inbox!inboxVars
  BY <1>1, <1>2, <1>15, KeysKept, BoxKept DEF InboxInv, Inbox!inboxVars
<1> QED
  BY <1>3, <1>4, <1>5, <1>6, <1>7, <1>8, <1>9, <1>11, <1>12, <1>13, <1>14, <1>15 DEF Inbox!InboxNext

-----------------------------------------------------------------------------
(* PART 6.  The whole.  A step of one component leaves the state of the others  *)
(* alone, so the invariants hold together.                                    *)

PhoneInv == SessionInv /\ CallInv /\ HistoryInv /\ StoreInv /\ InboxInv

LEMMA NaturalBounds ==
    /\ MaxCalls \in Nat /\ MaxSignIns \in Nat /\ MaxReads \in Nat /\ MaxMessages \in Nat /\ PageSize \in Nat
    /\ MaxGenerations \in Nat
  BY ReceiveBounds

LEMMA PhoneInitInv == Init => PhoneInv
<1> SUFFICES ASSUME Init PROVE PhoneInv
  OBVIOUS
<1>1. SessionInv /\ HistoryInv /\ InboxInv
  BY NaturalBounds, SessionInitInv, HistoryInitInv, InboxInitInv DEF Init
<1>2. CallInv
  <2>1. CASE part = "service"
    <3>1. Call!CallInit(Call!APIs, Sessions)
      BY <2>1 DEF Init
    <3> QED  BY <3>1, NaturalBounds, CallInitInv
  <2>2. CASE part # "service"
    <3> DEFINE one == CHOOSE s \in Sessions : TRUE
    <3>1. Call!CallInit({Call!MessageRequest}, {one})
      BY <2>2 DEF Init
    <3>2. {one} \in SUBSET Sessions
      BY ReceiveBounds
    <3>3. {Call!MessageRequest} \in SUBSET Call!APIs
      BY DEF Call!APIs
    <3> HIDE DEF one
    <3> QED  BY <3>1, <3>2, <3>3, NaturalBounds, CallInitInv
  <2> QED  BY <2>1, <2>2
<1>3. StoreInv
  <2>1. CASE part = "stores"
    <3>1. Stores!StoreInit(Stores!Stores)
      BY <2>1 DEF Init
    <3> QED  BY <3>1, NaturalBounds, StoreInitInv
  <2>2. CASE part # "stores"
    <3>1. Stores!StoreInit({"circles"})
      BY <2>2 DEF Init
    <3>2. {"circles"} \in SUBSET Stores!Stores
      BY DEF Stores!Stores
    <3> QED  BY <3>1, <3>2, NaturalBounds, StoreInitInv
  <2> QED  BY <2>1, <2>2
<1> QED  BY <1>1, <1>2, <1>3 DEF PhoneInv

\* The state that is looked at is that of the component.
LEMMA SameState ==
    /\ UNCHANGED sessionState => UNCHANGED Session!sessionVars
    /\ UNCHANGED serviceState => UNCHANGED Call!callVars
    /\ UNCHANGED storesState => UNCHANGED Stores!storeVars
    /\ UNCHANGED inboxState => UNCHANGED Inbox!inboxVars
  BY DEF sessionState, serviceState, storesState, inboxState, Session!sessionVars, Session!serverVars, Session!ownerVars,
         Session!flowVars, Session!syncVars, Session!faults, Call!callVars, Stores!storeVars, Inbox!inboxVars,
         Inbox!peerVars, Inbox!trustVars, Inbox!boxVars

\* A step of the phone is a step, or none, of each component.
LEMMA PhoneSteps ==
    ASSUME [Next]_phoneVars
    PROVE  /\ [Session!SessionNext]_(Session!sessionVars) /\ [Call!CallNext]_(Call!callVars)
           /\ [Stores!StoreNext]_(Stores!storeVars) /\ [Inbox!InboxNext]_(Inbox!inboxVars) /\ [HistoryNext]_historyVars
<1>1. CASE SessionStep
  BY <1>1, SameState DEF SessionStep
<1>2. CASE CallStep
  BY <1>2, SameState DEF CallStep
<1>3. CASE StoresStep
  BY <1>3, SameState DEF StoresStep
<1>4. CASE InboxStep
  BY <1>4, SameState DEF InboxStep
<1>5. CASE HistoryStep
  BY <1>5, SameState DEF HistoryStep
<1>6. CASE UNCHANGED phoneVars
  BY <1>6, SameState DEF phoneVars
<1> QED  BY <1>1, <1>2, <1>3, <1>4, <1>5, <1>6 DEF Next

LEMMA PhoneNextInv == PhoneInv /\ [Next]_phoneVars => PhoneInv'
<1> SUFFICES ASSUME PhoneInv, [Next]_phoneVars PROVE PhoneInv'
  OBVIOUS
<1> QED
  BY NaturalBounds, PhoneSteps, SessionNextInv, CallNextInv, StoreNextInv, InboxNextInv, HistoryNextInv DEF PhoneInv

\* All of it holds in every state of the phone.
THEOREM PhoneAlways == PhoneSpec => []PhoneInv
  BY PhoneInitInv, PhoneNextInv, PTL DEF PhoneSpec

\* Whenever the app lets its user in, the encryption it hands out is that of the account
\* and generation that are signed in; and while every answer arrives, no session is left
\* alive on the server that the phone does not hold (session-owner.ts, login-flow.ts).
THEOREM SessionAlwaysSafe == PhoneSpec => []SessionSafe
<1>1. PhoneInv => SessionSafe
  BY SessionInvImplies DEF PhoneInv, SessionSafe
<1> QED  BY <1>1, PhoneAlways, PTL

\* Whatever is lost, replaced or late on the way, and however the session changes, what a
\* caller is told of its operation is true and meant for the session it is in; and a list
\* shows what was listed for the account that is signed in, and nothing again that was
\* answered (messages/api.ts and the other APIs, friends-flow.ts and the other lists).
THEOREM AnswersAlwaysCurrent == PhoneSpec => []AnswersAreCurrent
<1>1. PhoneInv => AnswersAreCurrent
  BY NaturalBounds, StoreInvImplies DEF PhoneInv, AnswersAreCurrent, CallInv
<1> QED  BY <1>1, PhoneAlways, PTL

\* The cursor of the inbox never passes a delivery that is not in the history, only such
\* deliveries are acknowledged, and a conversation that says it has no more has all from its
\* newest one down, for any number of peers, deliveries and failures (inbox-sync.ts, receive.ts).
THEOREM NothingEverSkipped == PhoneSpec => []NothingSkipped
<1>1. PhoneInv => NothingSkipped
  BY InboxInvImplies DEF PhoneInv, NothingSkipped
<1> QED  BY <1>1, PhoneAlways, PTL

\* New keys of a peer are relied on only when they are those that its owner has accepted on
\* the screen, whatever the server and the inbox say meanwhile (identity-review.ts).
THEOREM TrustAlwaysReviewed == PhoneSpec => TrustIsReviewed
<1>1. PhoneInv /\ [Next]_phoneVars => [Reviewed]_(Inbox!inboxVars)
  BY NaturalBounds, PhoneSteps, InboxNextInv DEF PhoneInv
<1>2. [Reviewed]_(Inbox!inboxVars) <=>
      [\A p \in Peers : pins[p].current \notin {0, pins'[p].current} =>
                          /\ review.of = p /\ review.job # "none"
                          /\ pins'[p].current = review.pending]_(Inbox!inboxVars)
  BY DEF Reviewed
<1> QED  BY <1>1, <1>2, PhoneAlways, PTL DEF PhoneSpec, TrustIsReviewed, Inbox!TrustIsReviewed

\* The database that the app works with holds what the app was told that it holds,
\* whatever died, failed or was damaged, for any number of generations
\* (encrypted-history.native.ts).
THEOREM OpenAlwaysWhole == PhoneSpec => []OpenIsWhole
<1>1. PhoneInv => OpenIsWhole
  BY HistoryInvImplies DEF PhoneInv
<1> QED  BY <1>1, PhoneAlways, PTL
=============================================================================
