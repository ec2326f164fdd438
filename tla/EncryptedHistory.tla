--------------------------- MODULE EncryptedHistory ---------------------------
(***************************************************************************)
(* The encrypted database of a namespace of the phone.  A journal in the    *)
(* secure store names the generation in use, with its key, and the one it    *)
(* replaced until the app has started with the new one.  The app dies, a     *)
(* write of the journal fails, and a file is damaged, at any step.          *)
(***************************************************************************)
EXTENDS Naturals, FiniteSets

CONSTANTS MaxGenerations, MaxRecords, MaxMishaps

VARIABLES journal,      \* of the secure store: [active, previous, creating], or NoJournal
          disk,         \* the files: [schema, holds, whole]
          app,          \* what the app is at with its database
          made,         \* generations drawn
          records,      \* records written
          told,         \* what each generation is to hold, as far as the app was told
          mishaps

historyVars == <<journal, disk, app, made, records, told, mishaps>>

NoJournal == [active |-> 0, previous |-> 0, creating |-> FALSE]
Closed == [at |-> "closed", db |-> 0, other |-> 0]
Fresh == [schema |-> 0, holds |-> {}, whole |-> TRUE]

Goes(at) == app' = [app EXCEPT !.at = at]
\* Opening a file that is missing makes it.
File(g) == IF g \in DOMAIN disk THEN disk[g] ELSE Fresh
With(g, file) == [h \in DOMAIN disk \cup {g} |-> IF h = g THEN file ELSE disk[h]]
Without(g) == [h \in DOMAIN disk \ {g} |-> disk[h]]
\* A journal is replaced at once, and read again as it was written.
Persist(j) == journal' = j

-----------------------------------------------------------------------------
(* Opening.                                                                 *)

\* Connected, its schema is known and it passes the integrity check.
Sound(g) == File(g).whole /\ File(g).schema = 1
Starts == journal.active # 0 /\ File(journal.active).whole
              /\ (File(journal.active).schema = 1 \/ journal.creating)

OpenActive ==
    /\ app.at = "closed" /\ Starts
    /\ disk' = With(journal.active, File(journal.active))
    /\ app' = [at |-> "initialize", db |-> journal.active, other |-> 0]
    /\ UNCHANGED <<journal, made, records, told, mishaps>>

\* The generation in use cannot be read: the one before it is taken back.
OpenPrevious ==
    /\ app.at = "closed" /\ journal.active # 0 /\ ~Starts
    /\ journal.previous # 0 /\ Sound(journal.previous)
    /\ Persist([NoJournal EXCEPT !.active = journal.previous])
    /\ app' = [at |-> "initialize", db |-> journal.previous, other |-> 0]
    /\ UNCHANGED <<disk, made, records, told, mishaps>>

\* Mutant: the file is made first, and its key saved when it is there.
CreateFirst(g) == disk' = With(g, Fresh) /\ UNCHANGED journal
\* The key is saved before the file that it opens.
Create(g) == Persist([NoJournal EXCEPT !.active = g, !.creating = TRUE]) /\ UNCHANGED disk
OpenFirst ==
    /\ app.at = "closed" /\ journal = NoJournal /\ DOMAIN disk = {}
    /\ made < MaxGenerations /\ made' = made + 1 /\ Create(made + 1)
    /\ app' = [at |-> "connect", db |-> made + 1, other |-> 0]
    /\ told' = [told EXCEPT ![made + 1] = {}]
    /\ UNCHANGED <<records, mishaps>>

Connect ==
    /\ app.at = "connect"
    /\ disk' = With(app.db, File(app.db)) /\ Goes("initialize")
    /\ UNCHANGED <<journal, made, records, told, mishaps>>

Initialize ==
    /\ app.at = "initialize"
    /\ disk' = [disk EXCEPT ![app.db].schema = 1]
    /\ Goes(IF journal.creating THEN "created" ELSE "open")
    /\ UNCHANGED <<journal, made, records, told, mishaps>>

Created ==
    /\ app.at = "created"
    /\ Persist([NoJournal EXCEPT !.active = journal.active]) /\ Goes("open")
    /\ UNCHANGED <<disk, made, records, told, mishaps>>

-----------------------------------------------------------------------------
(* The operations, one after another.                                       *)

Ready == app.at = "open"
Insert(g, r) == [disk EXCEPT ![g].holds = @ \cup r]

\* Records, and the values of app_data, are written in one transaction.
AppendRecord ==
    /\ Ready /\ records < MaxRecords /\ records' = records + 1
    /\ disk' = Insert(app.db, {records + 1})
    /\ told' = [told EXCEPT ![app.db] = @ \cup {records + 1}]
    /\ UNCHANGED <<journal, app, made, mishaps>>

\* Mutant: the new generation is switched to before the records are in.
NextStagedSwitch == "switch"
NextStaged == "insert"
\* An archive is imported into a generation of its own.
StageImport ==
    /\ Ready /\ journal.previous = 0 /\ made < MaxGenerations /\ records < MaxRecords
    /\ made' = made + 1 /\ records' = records + 1
    /\ disk' = With(made + 1, [Fresh EXCEPT !.schema = 1])
    /\ told' = [told EXCEPT ![made + 1] = {records + 1}]
    /\ app' = [app EXCEPT !.at = NextStaged, !.other = made + 1]
    /\ UNCHANGED <<journal, mishaps>>

\* The records are all in, the archive is verified, and the file checked.
FillStaged ==
    /\ app.at = "insert"
    /\ disk' = Insert(app.other, told[app.other])
    /\ Goes("switch")
    /\ UNCHANGED <<journal, made, records, told, mishaps>>

Switch ==
    /\ app.at = "switch"
    /\ Persist([NoJournal EXCEPT !.active = app.other, !.previous = journal.active])
    /\ app' = [at |-> "open", db |-> app.other, other |-> 0]
    /\ UNCHANGED <<disk, made, records, told, mishaps>>

\* The archive is refused, or the journal cannot be written: all is as before.
Unstage ==
    /\ app.at \in {"insert", "switch"}
    /\ mishaps < MaxMishaps /\ mishaps' = mishaps + 1
    /\ disk' = Without(app.other)
    /\ app' = [app EXCEPT !.at = "open", !.other = 0]
    /\ UNCHANGED <<journal, made, records, told>>

ConfirmStartup ==
    /\ Ready /\ journal.previous # 0 /\ File(app.db).whole
    /\ Persist([NoJournal EXCEPT !.active = journal.active])
    /\ app' = [app EXCEPT !.at = "delete", !.other = journal.previous]
    /\ UNCHANGED <<disk, made, records, told, mishaps>>

DeletePrevious ==
    /\ app.at = "delete"
    /\ disk' = Without(app.other)
    /\ app' = [app EXCEPT !.at = "open", !.other = 0]
    /\ UNCHANGED <<journal, made, records, told, mishaps>>

Close ==
    /\ Ready /\ app' = Closed
    /\ UNCHANGED <<journal, disk, made, records, told, mishaps>>

-----------------------------------------------------------------------------
\* The app dies, or a step of it fails and the database is closed.
Crash ==
    /\ app # Closed /\ mishaps < MaxMishaps /\ mishaps' = mishaps + 1
    /\ app' = Closed
    /\ UNCHANGED <<journal, disk, made, records, told>>

\* A generation that was just switched to turns out damaged.
Damage ==
    /\ journal.previous # 0 /\ journal.active \in DOMAIN disk
    /\ mishaps < MaxMishaps /\ mishaps' = mishaps + 1
    /\ disk' = [disk EXCEPT ![journal.active].whole = FALSE]
    /\ app' = Closed
    /\ UNCHANGED <<journal, made, records, told>>

HistoryInit ==
    /\ journal = NoJournal /\ disk = [g \in {} |-> Fresh] /\ app = Closed
    /\ made = 0 /\ records = 0 /\ told = [g \in 1..MaxGenerations |-> {}] /\ mishaps = 0

OpenStep == OpenActive \/ OpenPrevious \/ OpenFirst \/ Connect \/ Initialize \/ Created
WorkStep == FillStaged \/ Switch \/ DeletePrevious

HistoryNext == \/ OpenStep \/ WorkStep \/ AppendRecord \/ StageImport \/ Unstage
               \/ ConfirmStartup \/ Close \/ Crash \/ Damage

\* The app is started again and goes on with what it has begun.
HistoryFairness == WF_historyVars(OpenStep) /\ WF_historyVars(WorkStep)

HistorySpec == HistoryInit /\ [][HistoryNext]_historyVars
HistoryFairSpec == HistorySpec /\ HistoryFairness
-----------------------------------------------------------------------------
HistoryTypeOK ==
    /\ journal.active \in 0..made /\ journal.previous \in 0..made
    /\ DOMAIN disk \subseteq 1..made /\ app.db \in 0..made
    /\ \A g \in DOMAIN disk : disk[g].holds \subseteq 1..records

(* An import is there whole or not at all: the database the app works with   *)
(* holds what it was told it holds, after any death, failure or damage.     *)
Whole == Ready => /\ disk[app.db].holds = told[app.db]
                  /\ app.db = journal.active
                  /\ journal.previous # 0 => journal.previous \in DOMAIN disk
OpenIsWhole == HistoryTypeOK /\ Whole

(* A database never locks the app out: whatever happened, it opens again.    *)
OpensAgain == app.at # "open" ~> app.at = "open"
=============================================================================
