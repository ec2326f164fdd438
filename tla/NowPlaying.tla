------------------------------ MODULE NowPlaying ------------------------------
(***************************************************************************)
(* What a phone plays, told to its accepted friends: the setting and its     *)
(* permission, the polling while the app is in front, and the fanout that    *)
(* queues and uploads one encrypted update per friend, after an older one    *)
(* that is still queued.  Reads and writes of the setting are in flight      *)
(* together; answers are lost, updates expire and the app is restarted.      *)
(***************************************************************************)
EXTENDS Naturals, Sequences, FiniteSets, SequencesExt, FiniteSetsExt

CONSTANTS MaxFriends, MaxTracks, MaxChanges, MaxToggles, MaxMishaps

Friends == 1..MaxFriends
Nothing == 0            \* no track
Tracks == 1..MaxTracks

VARIABLES media,      \* the track the phone plays
          stored,     \* the choice to share, in secure storage
          settings,   \* the controller: [phase, sharing, track]
          reads,      \* its reads in flight: [by, loads, sharing, track]
          writes,     \* the choices being stored
          life,       \* the polling: [at, again]
          front,      \* whether the app is in front
          fan,        \* the fanout: [on, next, target, friend, at, row]
          rows,       \* updates to each friend: [what, fresh, status]
          seen,       \* those each friend received, in the relay's order
          changes, toggles, mishaps

asked == <<stored, settings, reads, writes>>
sent == <<fan, rows, seen>>
limits == <<changes, toggles, mishaps>>
playVars == <<media, stored, settings, reads, writes, life, front, fan, rows, seen, changes, toggles, mishaps>>

Mishap == mishaps < MaxMishaps /\ mishaps' = mishaps + 1
Idle == [phase |-> "idle", sharing |-> FALSE, track |-> Nothing]
Asleep == [on |-> FALSE, next |-> {}, target |-> Nothing, friend |-> 0, at |-> "friend", row |-> 0]

-----------------------------------------------------------------------------
(* The setting.  A read is of the storage, or of the permission alone, and    *)
(* publishes what it saw when it returns.                                   *)

\* A session without metadata counts as no track.
ActiveTrack(sharing) == IF sharing THEN media ELSE Nothing

Read(by) ==
    LET loads == by = "mount" \/ settings.phase # "ready"
        sharing == IF loads THEN stored ELSE settings.sharing
    IN /\ reads' = reads \cup {[by |-> by, loads |-> loads, sharing |-> sharing, track |-> ActiveTrack(sharing)]}
       /\ settings' = IF loads THEN [settings EXCEPT !.phase = "loading"] ELSE settings

\* The screen opens.
Mount ==
    /\ toggles < MaxToggles /\ toggles' = toggles + 1 /\ Read("mount")
    /\ UNCHANGED <<media, stored, writes, life, front, sent, changes, mishaps>>

\* What the fanout is asked for replaces what it was asked for before.
Requested == [fan EXCEPT !.on = TRUE, !.next = {IF settings'.sharing THEN settings'.track ELSE Nothing}]

\* syncNowPlaying goes on with what the controller shows.
ReadDone(r) ==
    /\ reads' = reads \ {r}
    /\ settings' = [phase |-> "ready", sharing |-> IF r.loads THEN r.sharing ELSE settings.sharing, track |-> r.track]
    /\ fan' = IF r.by = "mount" THEN fan ELSE Requested
    /\ life' = IF r.by = "life" THEN [life EXCEPT !.at = "waiting"] ELSE life
    /\ UNCHANGED <<media, stored, writes, front, rows, seen, limits>>

\* Mutant: only a poll that succeeded is followed by another.
AfterFailureNone == [at |-> "off", again |-> FALSE]
\* However a poll ended: at once again when it was asked for meanwhile.
AfterPoll == [at |-> CASE ~front -> "off" [] life.again -> "start" [] OTHER -> "timer", again |-> FALSE]
AfterFailure == AfterPoll

ReadFails(r) ==
    /\ Mishap /\ reads' = reads \ {r} /\ settings' = [settings EXCEPT !.phase = "error"]
    /\ life' = IF r.by = "life" THEN AfterFailure ELSE life
    /\ UNCHANGED <<media, stored, writes, front, sent, changes, toggles>>

\* The choice replaces the one in secure storage.
Store(on) == stored' = on

\* Off is shown at once; on is shown when it is stored.
SetSharing(on) ==
    /\ settings.phase = "ready" /\ settings.sharing # on /\ toggles < MaxToggles /\ toggles' = toggles + 1
    /\ settings' = IF on THEN settings ELSE [settings EXCEPT !.sharing = FALSE, !.track = Nothing]
    /\ writes' = Append(writes, on)
    /\ UNCHANGED <<media, stored, reads, life, front, sent, changes, mishaps>>

\* The screen then has friends told at once, beside the polling.
Written ==
    /\ writes # <<>> /\ writes' = Tail(writes) /\ Store(Head(writes))
    /\ settings' = [settings EXCEPT !.sharing = Head(writes), !.track = ActiveTrack(Head(writes))]
    /\ reads' = reads \cup {[by |-> "screen", loads |-> settings.phase # "ready", sharing |-> Head(writes),
                             track |-> ActiveTrack(Head(writes))]}
    /\ UNCHANGED <<media, life, front, sent, limits>>

WriteFails ==
    /\ writes # <<>> /\ Mishap /\ writes' = Tail(writes)
    /\ UNCHANGED <<media, stored, settings, reads, life, front, sent, changes, toggles>>

-----------------------------------------------------------------------------
(* The polling.                                                             *)

\* Only a phone in front starts a poll; one that runs is asked to run again.
Foreground ==
    /\ front' = TRUE
    /\ life' = IF life.at \in {"off", "timer"} THEN [life EXCEPT !.at = "start"] ELSE [life EXCEPT !.again = TRUE]
    /\ UNCHANGED <<media, asked, sent, limits>>

Background ==
    /\ front /\ front' = FALSE
    /\ UNCHANGED <<media, asked, life, sent, limits>>

Interval ==
    /\ life.at = "timer"
    /\ life' = [life EXCEPT !.at = IF front THEN "start" ELSE "off"]
    /\ UNCHANGED <<media, asked, front, sent, limits>>

Poll ==
    /\ life.at = "start" /\ life' = [life EXCEPT !.at = "reading"] /\ Read("life")
    /\ UNCHANGED <<media, stored, writes, front, sent, limits>>

-----------------------------------------------------------------------------
(* The fanout: one friend after another, and then what was asked meanwhile.   *)

PublishStart ==
    /\ fan.on /\ fan.friend = 0
    /\ \E target \in fan.next :
        fan' = [fan EXCEPT !.next = {}, !.target = target, !.at = "friend",
                           !.friend = IF target = Nothing /\ \A f \in Friends : rows[f] = <<>> THEN 0 ELSE 1]
    /\ UNCHANGED <<media, asked, life, front, rows, seen, limits>>

Polled(after) == life' = IF life.at = "waiting" THEN after ELSE life

Drained ==
    /\ fan.on /\ fan.friend = 0 /\ fan.next = {}
    /\ fan' = Asleep /\ Polled(AfterPoll)
    /\ UNCHANGED <<media, asked, front, rows, seen, limits>>

\* A failure leaves the other friends out, and what was asked meanwhile undone.
Aborted == fan' = [Asleep EXCEPT !.next = fan.next] /\ Polled(AfterFailure)

Queued(f) == {i \in DOMAIN rows[f] : rows[f][i].status = "queued"}
\* Mutant: a new update does not wait for the one before.
PendingNone(f) == {}
Pending(f) == Queued(f)

Latest(f) == IF rows[f] = <<>> THEN [what |-> Nothing, fresh |-> FALSE, status |-> "sent"] ELSE Last(rows[f])
Playing(row) == IF row.fresh THEN row.what ELSE Nothing
Known(f) == Playing(Latest(f)) = fan.target
NextFriend == [fan EXCEPT !.friend = (@ + 1) % (MaxFriends + 1), !.at = "friend"]

Tell ==
    /\ fan.friend # 0 /\ fan.at = "friend"
    /\ LET f == fan.friend
       IN \/ /\ Pending(f) # {} /\ fan' = [fan EXCEPT !.at = "resend", !.row = Min(Pending(f))]
             /\ UNCHANGED rows
          \/ /\ Pending(f) = {} /\ Known(f) /\ fan' = NextFriend
             /\ UNCHANGED rows
          \/ /\ Pending(f) = {} /\ ~Known(f)
             /\ rows' = [rows EXCEPT ![f] = Append(@, [what |-> fan.target, fresh |-> TRUE, status |-> "queued"])]
             /\ fan' = [fan EXCEPT !.at = "upload", !.row = Len(rows[f]) + 1]
    /\ UNCHANGED <<media, asked, life, front, seen, limits>>

\* The relay takes an operation once.
Taken(f, i) == [seen EXCEPT ![f] = IF Contains(@, i) THEN @ ELSE Append(@, i)]
Confirmed(f, i) == [rows EXCEPT ![f][i].status = "sent"]

Uploaded ==
    /\ fan.friend # 0 /\ fan.at # "friend"
    /\ rows' = Confirmed(fan.friend, fan.row) /\ seen' = Taken(fan.friend, fan.row)
    /\ fan' = IF fan.at = "resend" THEN [fan EXCEPT !.at = "friend"] ELSE NextFriend
    /\ UNCHANGED <<media, asked, life, front, limits>>

\* No answer: to a question about the friend, or to an upload.
Unanswered ==
    /\ fan.friend # 0 /\ Mishap /\ Aborted
    /\ \/ UNCHANGED seen
       \/ fan.at # "friend" /\ seen' = Taken(fan.friend, fan.row)
    /\ UNCHANGED <<media, asked, front, rows, changes, toggles>>

\* The outbox's synchronizer uploads what is queued as well.
Worker ==
    \E f \in Friends : \E i \in Queued(f) :
        /\ rows' = Confirmed(f, i) /\ seen' = Taken(f, i)
        /\ UNCHANGED <<media, asked, life, front, fan, limits>>

-----------------------------------------------------------------------------
Change ==
    /\ changes < MaxChanges /\ changes' = changes + 1 /\ \E t \in {Nothing} \cup Tracks : t # media /\ media' = t
    /\ UNCHANGED <<asked, life, front, sent, toggles, mishaps>>

\* Fifteen minutes pass, for the phone and for the friend.
Expire ==
    /\ changes < MaxChanges /\ changes' = changes + 1
    /\ \E f \in Friends :
        /\ Playing(Latest(f)) # Nothing
        /\ rows' = [rows EXCEPT ![f][Len(rows[f])].fresh = FALSE]
    /\ UNCHANGED <<media, asked, life, front, fan, seen, toggles, mishaps>>

Restart ==
    /\ Mishap /\ settings' = Idle /\ reads' = {} /\ writes' = <<>> /\ fan' = Asleep
    /\ life' = [at |-> "start", again |-> FALSE] /\ front' = TRUE
    /\ UNCHANGED <<media, stored, rows, seen, changes, toggles>>

PlayInit(choices) ==
    /\ media = Nothing /\ stored \in choices /\ settings = Idle /\ reads = {} /\ writes = <<>>
    /\ life = [at |-> "start", again |-> FALSE] /\ front = TRUE /\ fan = Asleep
    /\ rows = [f \in Friends |-> <<>>] /\ seen = [f \in Friends |-> <<>>]
    /\ changes = 0 /\ toggles = 0 /\ mishaps = 0

PlayNext == \/ Mount \/ Written \/ WriteFails \/ Foreground \/ Background \/ Interval \/ Poll
            \/ \E r \in reads : ReadDone(r) \/ ReadFails(r)
            \/ \E on \in BOOLEAN : SetSharing(on)
            \/ PublishStart \/ Drained \/ Tell \/ Uploaded \/ Unanswered \/ Worker
            \/ Change \/ Expire \/ Restart

\* Answers come sooner or later, timers ring, and the user returns to the app.
PlayFairness ==
    /\ WF_playVars(\E r \in reads : ReadDone(r)) /\ WF_playVars(Written) /\ WF_playVars(~front /\ Foreground)
    /\ WF_playVars(Interval) /\ WF_playVars(Poll)
    /\ WF_playVars(PublishStart \/ Drained \/ Tell \/ Uploaded)

PlaySpec == PlayInit(BOOLEAN) /\ [][PlayNext]_playVars
PlayFairSpec == PlaySpec /\ PlayFairness

-----------------------------------------------------------------------------
\* Types of the state.
PlayTypeOK ==
    /\ media \in {Nothing} \cup Tracks /\ stored \in BOOLEAN /\ front \in BOOLEAN
    /\ settings.phase \in {"idle", "loading", "ready", "error"} /\ settings.sharing \in BOOLEAN
    /\ fan.friend \in 0..MaxFriends /\ Cardinality(fan.next) <= 1
    /\ \A f \in Friends : \A i \in DOMAIN seen[f] : seen[f][i] \in DOMAIN rows[f]

\* Whichever of the fanout and the outbox's synchronizer uploads, and whatever
\* answers are lost, a friend receives the updates in the order in which they
\* were made, none left out: what it shows was never replaced before.
UpdatesInOrder == \A f \in Friends : seen[f] = [i \in 1..Len(seen[f]) |-> i]

Shared == IF settings.sharing THEN media ELSE Nothing
Shown(f) == IF seen[f] = <<>> THEN Nothing ELSE Playing(rows[f][Last(seen[f])])

\* Once the music, the setting and the network are quiet, every friend shows
\* what the phone plays, or nothing when sharing is off.
FriendsShowTrack == <>[](\A f \in Friends : Shown(f) = Shared)

=============================================================================
