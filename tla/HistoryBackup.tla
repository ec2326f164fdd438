---------------------------- MODULE HistoryBackup ----------------------------
(***************************************************************************)
(* Backups of the phone's history.  An archive is sealed under a key of its *)
(* own and saved in a local file, or kept on the phone, pointer and file,   *)
(* until it is uploaded to the Google account the owner connected.  The     *)
(* owner retries an upload whose answer was lost, changes the Google        *)
(* account, and restores archives here or on a replacement phone.           *)
(***************************************************************************)
EXTENDS Naturals, FiniteSets

CONSTANTS Googles,      \* Google accounts the owner may connect
          Items,        \* kinds of things that the phone may hold
          MaxArchives, MaxIDs, MaxConnects, MaxMishaps

VARIABLES phone,        \* what the phone holds, an item of each kind
          deleted,      \* whether the text was deleted for everyone
          google,       \* the Google session: [as, token]
          archives,     \* [of, holds] for each archive that was sealed
          vault,        \* the pending backup of each Google account
          files,        \* archives whose file is on the phone
          drive,        \* the files of each Google account: [id, archive, whole, uri]
          drawn,        \* file ids handed out
          call,         \* the operation under way
          keys,         \* keys of archives that the owner has saved
          restored,     \* the archive whose restore was reported complete, 0 for none
          mishaps

phoneVars == <<phone, deleted, restored>>
backupVars == <<phoneVars, google, archives, vault, files, drive, drawn, call, keys, mishaps>>

\* "text" stands for messages and Circle events, "event" for pings, played
\* songs and the profiles of friends and members, "edge" for a sticker of two parts.
Messages == {"text", "event"}
Kinds == Messages \cup {"sticker", "preferences"}


Numbers == 1..MaxArchives
NoJob == [archive |-> 0, id |-> 0, uri |-> FALSE, phase |-> "none"]
NoCall == [op |-> "none", at |-> "idle", under |-> [as |-> 0, token |-> 0], job |-> NoJob, got |-> {}]
NoFile == [id |-> 0, archive |-> 0, whole |-> FALSE, uri |-> FALSE]

-----------------------------------------------------------------------------
(* Google sessions.  The binding is the account's, the token is the grant's. *)

Session == [as : Googles \cup {0}, token : 0..MaxConnects]
Connected == google.as # 0
\* A grant of an account whose identity the app could look up, or none.
Connect ==
    /\ ~Connected /\ google.token < MaxConnects
    /\ \E g \in Googles : google' = [as |-> g, token |-> google.token + 1]
    /\ UNCHANGED <<phoneVars, archives, vault, files, drive, drawn, call, keys, mishaps>>

Disconnect ==
    /\ Connected
    /\ google' = [google EXCEPT !.as = 0]
    /\ UNCHANGED <<phoneVars, archives, vault, files, drive, drawn, call, keys, mishaps>>

Bound == Connected /\ google.as = call.under.as
\* An answer of Drive is looked at under the grant that asked for it.
Granted == Bound /\ google.token = call.under.token
ToGoogle == call.op # "local"

-----------------------------------------------------------------------------
(* Archives: what is sealed, and what is taken out again.                   *)

\* Only texts, deletions and Circle events can be written to an archive.
Archivable(item) == item # "event"
\* A sticker is cut in parts, which are all there or none.
StickerRecords(from) == IF "sticker" \in from THEN {<<"sticker", 1>>, <<"sticker", 2>>} ELSE {}
RestoredStickers(records) == IF StickerRecords({"sticker"}) \subseteq records THEN {"sticker"} ELSE {}
\* Preferences belong to local archives only.
Settings(from) == IF ToGoogle THEN {} ELSE from \cap {"preferences"}
Sealed(from) == {<<item, 1>> : item \in from \cap Messages} \cup StickerRecords(from)
                    \cup {<<item, 1>> : item \in Settings(from)}
\* What the deletions of the relay leave of an archive's messages.
Reconciled(records, gone) == {item \in Messages \ gone : <<item, 1>> \in records}
\* Mutant: preferences that cannot be restored are passed over.
PreferencesPassedOver(records) == {}
RestoredPreferences(records) == {item \in {"preferences"} : <<item, 1>> \in records}

Call(op, at) == [op |-> op, at |-> at, under |-> google, job |-> NoJob, got |-> {}]
Goes(at) == call' = [call EXCEPT !.at = at]
Ends == call' = NoCall
Free == call = NoCall
\* Bound on the archives explored.
Room == Cardinality(DOMAIN archives) < MaxArchives

\* The archive is sealed: everything is read, or the backup is refused.
Create(next) ==
    /\ call.at = "export" /\ (ToGoogle => Bound)
    /\ \A item \in phone : Archivable(item)
    /\ LET n == Cardinality(DOMAIN archives) + 1 IN
       /\ archives' = [a \in 1..n |-> IF a = n THEN [of |-> IF ToGoogle THEN google.as ELSE 0, holds |-> Sealed(phone)]
                                       ELSE archives[a]]
       /\ call' = [call EXCEPT !.at = next, !.job = [NoJob EXCEPT !.archive = n, !.phase = "prepared"]]
    /\ UNCHANGED <<phoneVars, google, vault, files, drive, drawn, keys, mishaps>>

CreateRefused ==
    /\ call.at = "export" /\ \E item \in phone : ~Archivable(item)
    /\ Ends
    /\ UNCHANGED <<phoneVars, google, archives, vault, files, drive, drawn, keys, mishaps>>

-----------------------------------------------------------------------------
(* Backups to a file of the phone.                                          *)

LocalCreate ==
    /\ Free /\ Room /\ call' = Call("local", "export")
    /\ UNCHANGED <<phoneVars, google, archives, vault, files, drive, drawn, keys, mishaps>>

\* The file is written and read back, and its key shown until the owner has saved it.
LocalWrite ==
    /\ call.op = "local" /\ call.at = "write"
    /\ files' = files \cup {call.job.archive} /\ keys' = keys \cup {call.job.archive}
    /\ Ends
    /\ UNCHANGED <<phoneVars, google, archives, vault, drive, drawn, mishaps>>

-----------------------------------------------------------------------------
(* The pending backup of a Google account.                                  *)

Pending == vault[google.as]
VaultReads == Pending # NoJob => Pending.archive \in files

Prepare ==
    /\ Free /\ Room /\ Connected /\ Pending = NoJob
    /\ call' = Call("prepare", "export")
    /\ UNCHANGED <<phoneVars, google, archives, vault, files, drive, drawn, keys, mishaps>>

\* The ciphertext is on the disk before anything names it.
WriteFile ==
    /\ call.op = "prepare" /\ call.at = "file" /\ Bound
    /\ files' = files \cup {call.job.archive} /\ Goes("point")
    /\ UNCHANGED <<phoneVars, google, archives, vault, drive, drawn, keys, mishaps>>

\* A saved job keeps its archive, its file id, and that it was uploaded.
Keeps(job) == Pending # NoJob => /\ job.archive = Pending.archive
                                 /\ Pending.id # 0 => job.id = Pending.id
                                 /\ Pending.phase = "uploaded" => job.phase = "uploaded"
Persist(job) ==
    /\ Bound /\ Keeps(job)
    /\ vault' = [vault EXCEPT ![google.as] = job]

WritePointer ==
    /\ call.op = "prepare" /\ call.at = "point"
    /\ Persist(call.job) /\ Ends
    /\ UNCHANGED <<phoneVars, google, archives, files, drive, drawn, keys, mishaps>>

\* The owner has read the key on the screen and says that it is saved.
SaveKey ==
    /\ Free /\ Connected /\ Pending # NoJob
    /\ keys' = keys \cup {Pending.archive}
    /\ UNCHANGED <<phoneVars, google, archives, vault, files, drive, drawn, call, mishaps>>

Finished == Pending.phase = "uploaded"
Acknowledge ==
    /\ Free /\ Connected /\ Finished
    /\ vault' = [vault EXCEPT ![google.as] = NoJob] /\ files' = files \ {Pending.archive}
    /\ keys' = keys \cup {Pending.archive}
    /\ UNCHANGED <<phoneVars, google, archives, drive, drawn, call, mishaps>>

-----------------------------------------------------------------------------
(* The upload.  Each request may be the last one of its call.               *)

\* Where an upload starts, or starts again.
From(job) == IF job.id = 0 THEN "id" ELSE IF job.uri THEN "status" ELSE "begin"

Upload ==
    /\ Free /\ Connected /\ VaultReads /\ Pending.phase = "prepared" /\ Pending.archive \in keys
    /\ call' = [Call("upload", From(Pending)) EXCEPT !.job = Pending]
    /\ UNCHANGED <<phoneVars, google, archives, vault, files, drive, drawn, keys, mishaps>>

Uploading(at) == call.op = "upload" /\ call.at = at /\ Granted
\* The job, saved with what the answer said.
Saves(job, at) == Persist(job) /\ call' = [call EXCEPT !.job = job, !.at = at]

\* Mutant: the file id is saved with the answer of the upload.
GenerateIDLater(job) == call' = [call EXCEPT !.job = job, !.at = "begin"] /\ UNCHANGED vault
SaveID(job) == Saves(job, "begin")
GenerateID ==
    /\ Uploading("id") /\ drawn < MaxIDs
    /\ drawn' = drawn + 1 /\ SaveID([call.job EXCEPT !.id = drawn + 1])
    /\ UNCHANGED <<phoneVars, google, archives, files, drive, keys, mishaps>>

Stored(g, id) == {f \in drive[g] : f.id = id}
TheFile == CHOOSE f \in Stored(google.as, call.job.id) \cup {NoFile} : Stored(google.as, call.job.id) # {} => f # NoFile

\* Mutant: a session that is over is asked for again.
ForgottenNot(job) == job
\* A session that is over is forgotten before another is begun.
Forgotten(job) == [job EXCEPT !.uri = FALSE]
Resumed(job) == IF job.uri THEN "put" ELSE "begin"
UploadStatus ==
    /\ Uploading("status")
    /\ IF TheFile.whole /\ TheFile.uri THEN Goes("finish") /\ UNCHANGED vault
       ELSE IF TheFile.uri THEN Goes("put") /\ UNCHANGED vault
       ELSE Saves(Forgotten(call.job), Resumed(Forgotten(call.job)))
    /\ UNCHANGED <<phoneVars, google, archives, files, drive, drawn, keys, mishaps>>

\* Drive begins a session for an id that it has no file of.
Begun == {f \in drive[google.as] : f.id # call.job.id}
             \cup {[id |-> call.job.id, archive |-> call.job.archive, whole |-> FALSE, uri |-> TRUE]}
BeginUpload ==
    /\ Uploading("begin")
    /\ \/ /\ TheFile.whole /\ Goes("download") /\ UNCHANGED <<vault, drive>>
       \/ /\ ~TheFile.whole /\ drive' = [drive EXCEPT ![google.as] = Begun]
          /\ call' = [call EXCEPT !.at = "begun", !.job.uri = TRUE] /\ UNCHANGED vault
    /\ UNCHANGED <<phoneVars, google, archives, files, drawn, keys, mishaps>>

SaveURI ==
    /\ Uploading("begun") /\ Saves(call.job, "put")
    /\ UNCHANGED <<phoneVars, google, archives, files, drive, drawn, keys, mishaps>>

\* The rest of the ciphertext is sent to the session.
PutBytes ==
    /\ Uploading("put") /\ TheFile.uri
    /\ drive' = [drive EXCEPT ![google.as] = (@ \ {TheFile}) \cup {[TheFile EXCEPT !.whole = TRUE]}]
    /\ Goes("finish")
    /\ UNCHANGED <<phoneVars, google, archives, vault, files, drawn, keys, mishaps>>

\* Mutant: a session that has only a part of the ciphertext is taken for done.
AfterPartDone == [call EXCEPT !.at = "finish"]
\* The session has a part of it, or is over: the upload is to be tried again.
AfterPart == NoCall
PutPart ==
    /\ Uploading("put")
    /\ \/ mishaps < MaxMishaps /\ mishaps' = mishaps + 1
       \/ ~TheFile.uri /\ UNCHANGED mishaps
    /\ call' = AfterPart
    /\ UNCHANGED <<phoneVars, google, archives, vault, files, drive, drawn, keys>>

\* The id is taken: the upload is over if the file is this archive.
CompareFile ==
    /\ Uploading("download") /\ TheFile.archive = call.job.archive /\ Goes("finish")
    /\ UNCHANGED <<phoneVars, google, archives, vault, files, drive, drawn, keys, mishaps>>

FinishUpload ==
    /\ call.op = "upload" /\ call.at = "finish"
    /\ Persist([call.job EXCEPT !.phase = "uploaded"]) /\ Ends
    /\ UNCHANGED <<phoneVars, google, archives, files, drive, drawn, keys, mishaps>>

-----------------------------------------------------------------------------
(* Restoring an archive whose key the owner has.                            *)

Sources == {a \in keys : \/ archives[a].of = 0 /\ a \in files
                         \/ Connected /\ \E f \in drive[google.as] : f.archive = a /\ f.whole}

Restore(a) ==
    /\ Free /\ a \in Sources
    /\ call' = [Call(IF archives[a].of = 0 THEN "local" ELSE "restore", "ledger") EXCEPT !.job = [NoJob EXCEPT !.archive = a]]
    /\ UNCHANGED <<phoneVars, google, archives, vault, files, drive, drawn, keys, mishaps>>

Holds == archives[call.job.archive].holds
Restoring(at) == call.at = at /\ (ToGoogle => Granted)
StillOurs(step) == step /\ UNCHANGED <<google, archives, vault, files, drive, drawn, keys, mishaps>>

\* The whole ledger is read, and the archive checked, before anything is written.
ReadLedger ==
    /\ Restoring("ledger")
    /\ StillOurs(/\ call' = [call EXCEPT !.at = "history", !.got = IF deleted THEN {"text"} ELSE {}]
                 /\ UNCHANGED phoneVars)

ImportHistory ==
    /\ Restoring("history")
    /\ StillOurs(/\ phone' = phone \cup Reconciled(Holds, call.got) /\ Goes("stickers")
                 /\ UNCHANGED <<deleted, restored>>)

ImportStickers ==
    /\ Restoring("stickers")
    /\ StillOurs(/\ phone' = phone \cup RestoredStickers(Holds) /\ Goes("preferences")
                 /\ UNCHANGED <<deleted, restored>>)

\* What the owner is told once the last import has returned.
Report == restored' = call.job.archive /\ Ends
ImportPreferences ==
    /\ Restoring("preferences")
    /\ StillOurs(/\ phone' = phone \cup RestoredPreferences(Holds) /\ Report
                 /\ UNCHANGED deleted)

-----------------------------------------------------------------------------
(* What happens to the phone, the owner and the network.                    *)

Mishap == mishaps < MaxMishaps /\ mishaps' = mishaps + 1

\* The owner writes, makes stickers, sets preferences, and is written to.
Keep(item) ==
    /\ item \notin phone /\ ~(deleted /\ item = "text")
    /\ phone' = phone \cup {item}
    /\ UNCHANGED <<deleted, restored, google, archives, vault, files, drive, drawn, call, keys, mishaps>>

DeleteText ==
    /\ ~deleted /\ "text" \in phone /\ call.at # "history"
    /\ deleted' = TRUE /\ phone' = phone \ {"text"} /\ restored' = 0
    /\ UNCHANGED <<google, archives, vault, files, drive, drawn, call, keys, mishaps>>

\* A request fails or its answer is lost; the app dies; the session is another now.
Fail ==
    /\ ~Free
    /\ \/ Mishap
       \/ ToGoogle /\ ~Bound /\ UNCHANGED mishaps
       \/ call.op \in {"upload", "restore"} /\ ~Granted /\ UNCHANGED mishaps
    /\ Ends
    /\ UNCHANGED <<phoneVars, google, archives, vault, files, drive, drawn, keys>>

ExpireSession ==
    /\ Mishap
    /\ \E g \in Googles : \E f \in drive[g] :
          f.uri /\ drive' = [drive EXCEPT ![g] = (@ \ {f}) \cup (IF f.whole THEN {[f EXCEPT !.uri = FALSE]} ELSE {})]
    /\ UNCHANGED <<phoneVars, google, archives, vault, files, drawn, call, keys>>

\* The account signs in on another phone: of this one, the saved keys and the
\* files of local backups are left.
NewPhone ==
    /\ Mishap
    /\ phone' = {} /\ restored' = 0 /\ google' = [google EXCEPT !.as = 0] /\ Ends
    /\ vault' = [g \in Googles |-> NoJob] /\ files' = {a \in files : archives[a].of = 0}
    /\ UNCHANGED <<deleted, archives, drive, drawn, keys>>

-----------------------------------------------------------------------------
BackupInit ==
    /\ phone = {} /\ deleted = FALSE /\ restored = 0
    /\ google = [as |-> 0, token |-> 0]
    /\ archives = [a \in {} |-> {}]
    /\ vault = [g \in Googles |-> NoJob] /\ files = {}
    /\ drive = [g \in Googles |-> {}] /\ drawn = 0
    /\ call = NoCall /\ keys = {} /\ mishaps = 0

UploadStep == \/ GenerateID \/ UploadStatus \/ BeginUpload \/ SaveURI \/ PutBytes \/ PutPart \/ CompareFile \/ FinishUpload
RestoreStep == ReadLedger \/ ImportHistory \/ ImportStickers \/ ImportPreferences
CreateStep == \/ (call.op = "local" /\ Create("write"))
              \/ (call.op = "prepare" /\ Create("file"))
              \/ CreateRefused \/ LocalWrite \/ WriteFile \/ WritePointer

BackupNext ==
    \/ Connect \/ Disconnect \/ LocalCreate \/ Prepare \/ SaveKey \/ Upload \/ Acknowledge
    \/ CreateStep \/ UploadStep \/ RestoreStep
    \/ \E a \in DOMAIN archives : Restore(a)
    \/ \E item \in Items : Keep(item)
    \/ DeleteText \/ Fail \/ ExpireSession \/ NewPhone

\* The app and Drive answer, and the owner saves the key and retries the upload.
BackupFairness ==
    /\ WF_backupVars(UploadStep) /\ WF_backupVars(RestoreStep) /\ WF_backupVars(CreateStep)
    /\ WF_backupVars(~Granted /\ Fail)
    /\ SF_backupVars(Upload) /\ SF_backupVars(SaveKey)

BackupSpec == BackupInit /\ [][BackupNext]_backupVars
BackupFairSpec == BackupSpec /\ BackupFairness
-----------------------------------------------------------------------------
BackupTypeOK ==
    /\ phone \subseteq Items /\ google \in Session
    /\ DOMAIN archives \subseteq Numbers /\ files \cup keys \subseteq DOMAIN archives
    /\ \A g \in Googles : vault[g].archive \in DOMAIN archives \cup {0}

(* Retries, lost answers and sessions that expire leave one file of an      *)
(* archive on Drive, and it is in the Google account that was connected when *)
(* the archive was made.                                                    *)
OneFile == \A g \in Googles : \A f \in drive[g] :
              /\ archives[f.archive].of = g
              /\ \A h \in drive[g] : h.archive = f.archive => h = f

(* Until the owner has finished with a backup, the phone has its key and its *)
(* ciphertext, whatever Drive has of it.                                    *)
PendingKept == \A g \in Googles : vault[g] # NoJob =>
                  /\ vault[g].archive \in files
                  /\ vault[g].phase = "uploaded" => \E f \in Stored(g, vault[g].id) : f.whole /\ f.archive = vault[g].archive

(* A restore that reports success has brought back all that the archive     *)
(* holds, the text excepted that is deleted.                                *)
RestoreIsWhole == restored # 0 =>
    {item \in Items : <<item, 1>> \in archives[restored].holds} \ (IF deleted THEN {"text"} ELSE {}) \subseteq phone

(* What backups must not lose, together.                                    *)
BackupsKept == OneFile /\ PendingKept /\ RestoreIsWhole

(* A backup whose owner goes on with it is uploaded, or the account it is for *)
(* is no longer connected.                                                  *)
UploadSettles == \A g \in Googles :
    vault[g].phase = "prepared" ~> (vault[g].phase # "prepared" \/ google.as # g)

(* A phone can back up the history it holds.                                *)
HistoryArchives == call.at = "export" => \A item \in phone : Archivable(item)
=============================================================================
