----------------------------- MODULE PhoneSends ------------------------------
(***************************************************************************)
(* What a phone sends and puts away: messages with media, the outbox they go   *)
(* through, the track it plays, and backups.                                   *)
(* The parts share no state that is modelled beyond what each has of the       *)
(* outbox, so each behaviour looks at one of them.                             *)
(***************************************************************************)
EXTENDS Naturals, Sequences

CONSTANTS MediaKinds, MediaMaxDrafts, MaxAudience, MaxLost, OutboxMaxDrafts, Profiles, MaxEpoch,
          MaxKeys, MaxLine, MaxFaults, MaxFriends, MaxTracks, MaxChanges, MaxToggles,
          PlayingMaxMishaps, Googles, Items, MaxArchives, MaxIDs, MaxConnects, BackupMaxMishaps

VARIABLES part,   \* the component that is looked at, for the whole behaviour
          kind, draft, mediaFiles, mediaCall, audience, object, outbox, said, lost,
          world, relay, given, pin, ratchet, row, line, job, turn, outboxMishaps,
          media, stored, settings, reads, writes, life, front, fan, rows, seen, changes,
          toggles, playingMishaps,
          phone, deleted, google, archives, vault, backupFiles, drive, drawn, backupCall, keys,
          restored, backupMishaps

Media == INSTANCE MediaDraft WITH
    Kinds <- MediaKinds, MaxDrafts <- MediaMaxDrafts, files <- mediaFiles, call <- mediaCall
Outbox == INSTANCE PhoneOutbox WITH
    MaxDrafts <- OutboxMaxDrafts, mishaps <- outboxMishaps
Playing == INSTANCE NowPlaying WITH
    MaxMishaps <- PlayingMaxMishaps, mishaps <- playingMishaps
Backup == INSTANCE HistoryBackup WITH
    MaxMishaps <- BackupMaxMishaps, files <- backupFiles, call <- backupCall,
    mishaps <- backupMishaps

mediaState == <<kind, draft, mediaFiles, mediaCall, audience, object, outbox, said, lost>>
outboxState == <<world, relay, given, pin, ratchet, row, line, job, turn, outboxMishaps>>
playingState == <<media, stored, settings, reads, writes, life, front, fan, rows, seen,
                 changes, toggles, playingMishaps>>
backupState == <<phone, deleted, google, archives, vault, backupFiles, drive, drawn,
                backupCall, keys, restored, backupMishaps>>

phoneVars == <<part, mediaState, outboxState, playingState, backupState>>

MediaStep ==
    /\ part = "media" /\ Media!MediaNext
    /\ UNCHANGED <<part, outboxState, playingState, backupState>>
OutboxStep ==
    /\ part = "outbox" /\ Outbox!OutboxNext
    /\ UNCHANGED <<part, mediaState, playingState, backupState>>
PlayingStep ==
    /\ part = "playing" /\ Playing!PlayNext
    /\ UNCHANGED <<part, mediaState, outboxState, backupState>>
BackupStep ==
    /\ part = "backup" /\ Backup!BackupNext
    /\ UNCHANGED <<part, mediaState, outboxState, playingState>>

Init ==
    /\ part \in {"media", "outbox", "playing", "backup"}
    /\ Media!MediaInit /\ (part = "media" \/ kind = CHOOSE k \in MediaKinds : TRUE)
    /\ Outbox!OutboxInit
    /\ Playing!PlayInit(IF part = "playing" THEN BOOLEAN ELSE {FALSE})
    /\ Backup!BackupInit

Next == MediaStep \/ OutboxStep \/ PlayingStep \/ BackupStep

\* The fairness of each component, while it is looked at.
Fairness ==
    /\ WF_mediaState(part = "media" /\ Media!CallStep)
    /\ SF_mediaState(part = "media" /\ Media!Discard)
    /\ WF_mediaState(part = "media" /\ Media!SyncOutbox)
    /\ WF_outboxState(part = "outbox" /\ Outbox!Working)
    /\ WF_playingState(part = "playing" /\ \E r \in reads : Playing!ReadDone(r))
    /\ WF_playingState(part = "playing" /\ Playing!Written)
    /\ WF_playingState(part = "playing" /\ ~front /\ Playing!Foreground)
    /\ WF_playingState(part = "playing" /\ Playing!Interval)
    /\ WF_playingState(part = "playing" /\ Playing!Poll)
    /\ WF_playingState(part = "playing" /\ (Playing!PublishStart \/ Playing!Drained \/ Playing!Tell \/ Playing!Uploaded))
    /\ WF_backupState(part = "backup" /\ Backup!UploadStep)
    /\ WF_backupState(part = "backup" /\ Backup!RestoreStep)
    /\ WF_backupState(part = "backup" /\ Backup!CreateStep)
    /\ WF_backupState(part = "backup" /\ ~Backup!Granted /\ Backup!Fail)
    /\ SF_backupState(part = "backup" /\ Backup!Upload)
    /\ SF_backupState(part = "backup" /\ Backup!SaveKey)

PhoneSpec == Init /\ [][Next]_phoneVars /\ Fairness

ASSUME SendBounds ==
    /\ {MediaMaxDrafts, MaxLost, OutboxMaxDrafts, MaxLine, MaxFaults} \subseteq Nat
    /\ {MaxAudience, MaxEpoch, MaxKeys, MaxFriends} \subseteq Nat \ {0}
    /\ {MaxTracks, MaxChanges, MaxToggles, PlayingMaxMishaps} \subseteq Nat
    /\ {MaxArchives, MaxIDs, MaxConnects, BackupMaxMishaps} \subseteq Nat
    /\ MediaKinds \subseteq Media!EditorKinds
    /\ Items \subseteq Backup!Kinds /\ 0 \notin Googles

-----------------------------------------------------------------------------

\* A draft finds its ciphertext, and asks for the message it was first sealed with
\* (upload-vault.ts, send.ts).
DraftIntact == Media!MediaTypeOK /\ Media!PointerIntact /\ Media!SameMessage

\* A draft leaves the phone only when its fate is settled on the server (upload.ts).
DraftKept == Media!DraftKept

\* A message costs the peer at most one of its one-time keys, and what the phone says
\* of it is what the relay decided (send.ts, profile-recovery.ts).
OutboxTrue == Outbox!OutboxTypeOK /\ Outbox!OutboxTrue

\* While inbox pages go well, a queued message reaches the relay whatever happens to
\* the others (outbox-sync.ts, runtime.ts).
OutboxTurns == part = "outbox" => Outbox!OutboxTurns

\* A friend gets the tracks in order, none left out (fanout.ts).
UpdatesInOrder == Playing!PlayTypeOK /\ Playing!UpdatesInOrder

\* In the end every friend shows what the phone plays (lifecycle.ts, fanout.ts).
FriendsShowTrack == part = "playing" => Playing!FriendsShowTrack

\* One file of an archive on Drive, a pending backup with its key and file, a restore
\* that is whole (drive-backup.ts, pending-backup-vault.ts, history-backup.ts).
BackupsKept == Backup!BackupTypeOK /\ Backup!BackupsKept

\* A draft that the user gives up is settled, whatever was lost (upload.ts), and a
\* backup whose owner goes on with it is uploaded (drive-backup.ts).
SendingGoesOn == /\ part = "media" => Media!ChatDraftSettles
                 /\ part = "backup" => Backup!UploadSettles

=============================================================================
