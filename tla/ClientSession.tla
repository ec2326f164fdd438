--------------------------- MODULE ClientSession ---------------------------
(***************************************************************************)
(* The phone's own view of its session: the session owner over the key     *)
(* store, the login flow that drives it one call at a time, the encryption *)
(* bound to the account that signed in, the check made whenever the app    *)
(* comes to the foreground, and the scheduler that synchronises messages   *)
(* while all of it agrees.  The server appears as the tokens it accepts;   *)
(* Identity has its side in detail.                                        *)
(***************************************************************************)
EXTENDS Naturals, Sequences, FiniteSets

CONSTANTS Numbers,     \* phone numbers, each the key of one account
          MaxTokens,   \* sessions the server may issue
          MaxLost,     \* answers lost or garbled, and restarts
          MaxBroken    \* failures of the key store

VARIABLES issued,     \* the number each session was issued for, in order
          live,       \* the sessions the server accepts
          saved,      \* the session in the key store
          status,     \* the owner's snapshot
          current,    \* the owner's session in memory
          challenge,  \* the owner's pending challenge
          phase,      \* the flow's snapshot
          attempt,    \* the number of the last request for a code
          call,       \* the flow's running call
          bound,      \* the session whose account and generation the encryption is for
          active,     \* the app is in the foreground
          checking,   \* the foreground check runs, synchronisation is paused
          timer,      \* the scheduler's timer is set
          syncing,    \* the session the running synchronisation began with
          told,       \* sessions the user was told have ended
          lost,       \* answers lost or garbled, and restarts
          broken      \* failures of the key store

serverVars == <<issued, live>>
ownerVars == <<saved, status, current, challenge>>
flowVars == <<phase, attempt, call, bound, told>>
syncVars == <<active, checking, syncing>>
faults == <<lost, broken>>
sessionVars == <<serverVars, ownerVars, flowVars, syncVars, timer, faults>>

Tokens == 1..MaxTokens
None == 0
Idle == [job |-> "none", at |-> "none", token |-> None]
NoChallenge == [kind |-> "none"]

Busy == call # Idle
Go(at) == call' = [call EXCEPT !.at = at]
Lose == lost < MaxLost /\ lost' = lost + 1 /\ UNCHANGED broken
Break == broken < MaxBroken /\ broken' = broken + 1 /\ UNCHANGED lost

-----------------------------------------------------------------------------
(* The scheduler.                                                           *)

Authenticated == status = "ready" /\ phase = "ready"
Enabled == ~checking /\ active /\ Authenticated
CanQueue == syncing = None /\ Enabled
\* refresh(): the timer is cancelled and set again if there is anything to do.
Refresh == timer' = CanQueue'

-----------------------------------------------------------------------------
(* The flow's execute: one call at a time, and how a call ends.             *)

Finish(to, error) ==
    /\ call' = Idle
    /\ phase' = IF error \in {"EXPIRED", "CONSUMED"} THEN "phone"
                ELSE IF error = "STORAGE" THEN "locked" ELSE to
    /\ attempt' = IF error \in {"EXPIRED", "CONSUMED"} THEN None ELSE attempt
    /\ checking' = (checking /\ call.job # "check")

Begin(job, at) ==
    /\ ~Busy
    /\ call' = [job |-> job, at |-> at, token |-> None]

\* Mutant: the flow is ready before the encryption is bound.
PrepareUnbound == phase' = "ready" /\ Go("bind")
Prepare == phase' = "preparing" /\ Go("bind")

-----------------------------------------------------------------------------
(* The owner's restore, which the flow runs at start, on request and each   *)
(* time the app comes back.                                                 *)

RestoreBegin(job) ==
    /\ Begin(job, "read")
    /\ current' = None /\ status' = "checking"

Restore ==
    /\ phase # "ready" /\ RestoreBegin("restore")
    /\ UNCHANGED <<serverVars, saved, challenge, phase, attempt, bound, told, active, checking, syncing, faults>>

\* The owner's clear: memory first, then the key store, which may fail.
ClearOwner(to, error) ==
    /\ current' = None /\ challenge' = NoChallenge
    /\ \/ saved' = None /\ status' = "signed-out" /\ Finish(to, error) /\ UNCHANGED faults
       \/ Break /\ status' = "locked" /\ Finish(phase, "STORAGE") /\ UNCHANGED saved

ReadVault ==
    /\ call.at = "read"
    /\ \/ /\ Break /\ status' = "locked" /\ Finish(phase, "STORAGE")
          /\ UNCHANGED <<saved, current, challenge>>
       \/ /\ saved = None /\ status' = "signed-out" /\ Finish("phone", "none")
          /\ UNCHANGED <<saved, current, challenge, faults>>
       \/ saved \notin {None} \cup live /\ ClearOwner("phone", "none")
       \/ /\ saved # None /\ Go("ask")
          /\ UNCHANGED <<saved, status, current, challenge, phase, attempt, checking, faults>>
    /\ UNCHANGED <<serverVars, bound, told, active, syncing>>

Ask ==
    /\ call.at = "ask"
    /\ \/ saved \notin live /\ ClearOwner("phone", "none")
       \/ /\ Lose /\ current' = saved /\ status' = "offline" /\ Finish("offline", "none")
          /\ UNCHANGED <<saved, challenge>>
       \/ /\ Lose /\ status' = "locked" /\ Finish(phase, "INVALID_RESPONSE")
          /\ UNCHANGED <<saved, current, challenge>>
       \/ /\ saved \in live /\ current' = saved /\ status' = "ready" /\ Prepare
          /\ UNCHANGED <<saved, challenge, attempt, checking, faults>>
    /\ UNCHANGED <<serverVars, bound, told, active, syncing>>

-----------------------------------------------------------------------------
(* Preparing the encryption: bound to the session, then its keys published. *)

RetryPreparation ==
    /\ phase = "preparing" /\ status = "ready"
    /\ Begin("prepare", "bind")
    /\ UNCHANGED <<serverVars, ownerVars, phase, attempt, bound, told, syncVars, faults>>

Bind ==
    /\ call.at = "bind"
    /\ \/ current \notin live /\ Finish(phase, "EXPIRED") /\ UNCHANGED <<bound, faults>>
       \/ Lose /\ Finish(phase, "UNAVAILABLE") /\ UNCHANGED bound
       \/ /\ bound' = current /\ Go("publish")
          /\ UNCHANGED <<phase, attempt, checking, faults>>
    /\ UNCHANGED <<serverVars, ownerVars, told, active, syncing>>

PublishAccountKeys ==
    /\ call.at = "publish"
    /\ \/ current \notin live /\ Finish(phase, "UNAVAILABLE") /\ UNCHANGED faults
       \/ Lose /\ Finish(phase, "UNAVAILABLE")
       \/ current \in live /\ Finish("ready", "none") /\ UNCHANGED faults
    /\ UNCHANGED <<serverVars, ownerVars, bound, told, active, syncing>>

-----------------------------------------------------------------------------
(* Signing in: a code is requested for a number and answered.               *)

\* The operation of an unanswered request is repeated with its number, so that
\* the server sees one request; what it is called does not matter here.
Request(number) == attempt' = number /\ challenge' = NoChallenge

SubmitPhone ==
    /\ phase = "phone" /\ Begin("submit", "start")
    /\ \E number \in Numbers : Request(number)
    /\ UNCHANGED <<serverVars, saved, status, current, phase, bound, told, syncVars, faults>>

Resend ==
    /\ phase = "code" /\ Begin("submit", "start")
    /\ Request(attempt)
    /\ UNCHANGED <<serverVars, saved, status, current, phase, bound, told, syncVars, faults>>

Send ==
    /\ call.at = "start"
    /\ \/ challenge' = [kind |-> "sent", number |-> attempt] /\ Finish("code", "none") /\ UNCHANGED faults
       \/ challenge' = [kind |-> "pending", number |-> attempt] /\ Finish(phase, "UNAVAILABLE") /\ UNCHANGED faults
       \/ Lose /\ Finish(phase, "NETWORK") /\ UNCHANGED challenge
    /\ UNCHANGED <<serverVars, saved, status, current, bound, told, active, syncing>>

ChangeNumber ==
    /\ phase = "code" /\ ~Busy
    /\ phase' = "phone" /\ attempt' = None
    /\ UNCHANGED <<serverVars, ownerVars, call, bound, told, active, checking, syncing, faults>>

Verify ==
    /\ phase = "code" /\ Begin("verify", "verify")
    /\ UNCHANGED <<serverVars, ownerVars, phase, attempt, bound, told, syncVars, faults>>

\* The server consumes the code, ends the account's other sessions and issues
\* one of the next generation: a session stands for its generation here.
Issue(number) ==
    /\ Len(issued) < MaxTokens
    /\ issued' = Append(issued, number)
    /\ live' = {t \in live : issued[t] # number} \cup {Len(issued) + 1}

VerifyAnswer ==
    /\ call.at = "verify"
    /\ CASE challenge.kind = "none" ->
              Finish(phase, "EXPIRED") /\ UNCHANGED <<serverVars, challenge, current, faults>>
         [] challenge.kind = "pending" ->
              Finish(phase, "UNAVAILABLE") /\ UNCHANGED <<serverVars, challenge, current, faults>>
         [] challenge.kind = "consumed" ->
              Finish(phase, "CONSUMED") /\ UNCHANGED <<serverVars, challenge, current, faults>>
         [] OTHER ->
              \/ Finish(phase, "INVALID_CODE") /\ UNCHANGED <<serverVars, challenge, current, faults>>
              \/ /\ Issue(challenge.number) /\ challenge' = NoChallenge /\ current' = None
                 /\ call' = [call EXCEPT !.at = "write", !.token = Len(issued) + 1]
                 /\ UNCHANGED <<phase, attempt, checking, faults>>
              \/ /\ Issue(challenge.number) /\ challenge' = [challenge EXCEPT !.kind = "consumed"]
                 /\ Lose /\ Finish(phase, "NETWORK") /\ UNCHANGED current
    /\ UNCHANGED <<saved, status, bound, told, active, syncing>>

SaveSession ==
    /\ call.at = "write"
    /\ \/ /\ saved' = call.token /\ current' = call.token /\ status' = "ready" /\ Prepare
          /\ UNCHANGED faults
       \/ /\ Break /\ status' = "locked" /\ Go("disown")
          /\ UNCHANGED <<saved, current, phase>>
    /\ UNCHANGED <<serverVars, challenge, attempt, bound, told, active, checking, syncing>>

\* Mutant: a session that cannot be saved is dropped without telling the server.
DisownSilently ==
    /\ call.at = "disown" /\ Finish(phase, "STORAGE")
    /\ UNCHANGED <<serverVars, ownerVars, bound, told, active, syncing, faults>>

Disown ==
    /\ call.at = "disown"
    /\ \/ live' = live \ {call.token} /\ UNCHANGED faults
       \/ Lose /\ UNCHANGED live
    /\ Finish(phase, "STORAGE")
    /\ UNCHANGED <<issued, ownerVars, bound, told, active, syncing>>

-----------------------------------------------------------------------------
(* Signing out.                                                             *)

SignOut ==
    /\ phase = "ready"
    /\ Begin("sign out", IF current = None THEN "clear" ELSE "revoke")
    /\ UNCHANGED <<serverVars, ownerVars, phase, attempt, bound, told, syncVars, faults>>

Revoke ==
    /\ call.at = "revoke"
    /\ \/ live' = live \ {current} /\ Go("clear") /\ UNCHANGED faults
       \/ live' \in {live, live \ {current}} /\ Go("clear unsure") /\ Lose
    /\ UNCHANGED <<issued, ownerVars, phase, attempt, bound, told, syncVars>>

SignedOut ==
    /\ call.at \in {"clear", "clear unsure"}
    /\ current' = None /\ challenge' = NoChallenge
    /\ \/ /\ saved' = None /\ status' = "signed-out" /\ call' = Idle
          /\ phase' = "phone" /\ attempt' = None
          /\ told' = IF call.at = "clear" THEN told \cup ({saved} \ {None}) ELSE told
          /\ UNCHANGED <<checking, faults>>
       \/ Break /\ status' = "locked" /\ Finish(phase, "STORAGE") /\ UNCHANGED <<saved, told>>
    /\ UNCHANGED <<serverVars, bound, active, syncing>>

-----------------------------------------------------------------------------
(* The foreground, and the synchronisation it lets run.                     *)

Pause ==
    /\ active
    /\ active' = FALSE
    /\ UNCHANGED <<serverVars, ownerVars, flowVars, checking, syncing, faults>>

\* Mutant: only a signed-in flow is checked when the app comes back.
ResumeReady ==
    /\ ~active /\ active' = TRUE
    /\ IF Busy \/ phase # "ready"
       THEN UNCHANGED <<status, current, call, checking>>
       ELSE RestoreBegin("check") /\ checking' = TRUE
    /\ UNCHANGED <<serverVars, saved, challenge, phase, attempt, bound, told, syncing, faults>>

\* A check that finds the flow busy fails at once, and lets the timer run again.
Resume ==
    /\ ~active /\ active' = TRUE
    /\ IF Busy
       THEN UNCHANGED <<status, current, call, checking>>
       ELSE RestoreBegin("check") /\ checking' = TRUE
    /\ UNCHANGED <<serverVars, saved, challenge, phase, attempt, bound, told, syncing, faults>>

StartSync ==
    /\ timer /\ timer' = FALSE
    /\ syncing' = IF Enabled THEN current ELSE None
    /\ UNCHANGED <<serverVars, ownerVars, flowVars, active, checking, faults>>

\* Mutant: a synchronisation that ends sets no timer.
EndSyncOnce ==
    /\ syncing # None /\ syncing' = None /\ UNCHANGED timer
    /\ UNCHANGED <<serverVars, ownerVars, flowVars, active, checking, faults>>

EndSync ==
    /\ syncing # None
    /\ syncing' = None /\ timer' = Enabled
    /\ UNCHANGED <<serverVars, ownerVars, flowVars, active, checking, faults>>

-----------------------------------------------------------------------------
(* The environment.                                                         *)

\* A session ends on the server: it expires, or another phone signs in.
Lapse ==
    /\ \E t \in live : live' = live \ {t}
    /\ UNCHANGED <<issued, ownerVars, flowVars, syncVars, timer, faults>>

\* The process dies and starts again: only the key store is left.
Restart ==
    /\ Lose
    /\ status' = "signed-out" /\ current' = None /\ challenge' = NoChallenge
    /\ phase' = "phone" /\ attempt' = None
    /\ call' = [job |-> "restore", at |-> "read", token |-> None]
    /\ bound' = None /\ active' = TRUE /\ checking' = FALSE
    /\ syncing' = None
    /\ UNCHANGED <<serverVars, saved, told>>

SessionInit ==
    /\ issued = <<>> /\ live = {}
    /\ saved = None /\ status = "signed-out" /\ current = None /\ challenge = NoChallenge
    /\ phase = "phone" /\ attempt = None /\ call = Idle
    /\ bound = None /\ told = {}
    /\ active = TRUE /\ checking = FALSE /\ timer = FALSE /\ syncing = None
    /\ lost = 0 /\ broken = 0

\* Every step of the flow or the owner is published, and refreshes the timer.
FlowStep ==
    /\ \/ ReadVault \/ Ask \/ Bind \/ PublishAccountKeys \/ Send \/ VerifyAnswer
       \/ SaveSession \/ Disown \/ Revoke \/ SignedOut
    /\ Refresh
UserStep ==
    /\ \/ Restore \/ RetryPreparation \/ SubmitPhone \/ Resend \/ ChangeNumber \/ Verify
       \/ SignOut
    /\ Refresh
AppStep ==
    /\ Pause \/ Resume \/ Restart
    /\ Refresh

SessionNext == FlowStep \/ UserStep \/ AppStep \/ StartSync \/ EndSync \/ Lapse

SessionSpec == SessionInit /\ [][SessionNext]_sessionVars

\* Answers and timers come; a user whom the app does not let in leaves it and
\* comes back, or retries what it offers to retry.
SessionFairness ==
    /\ WF_sessionVars(FlowStep)
    /\ WF_sessionVars(StartSync) /\ WF_sessionVars(EndSync)
    /\ WF_sessionVars(Pause /\ ~Authenticated /\ Refresh)
    /\ SF_sessionVars(Resume /\ ~Busy /\ Refresh)
    /\ WF_sessionVars(RetryPreparation /\ Refresh)

SessionFairSpec == SessionSpec /\ SessionFairness

-----------------------------------------------------------------------------
(* The types of the snapshots.                                              *)
SessionTypeOK ==
    /\ live \subseteq 1..Len(issued) /\ saved \in 0..Len(issued)
    /\ status \in {"signed-out", "checking", "ready", "offline", "locked"}
    /\ phase \in {"phone", "code", "preparing", "ready", "offline", "locked"}
    /\ current \in {None, saved} /\ syncing \in 0..Len(issued)

(* Whenever the app lets its user in, the encryption it hands out is that   *)
(* of the account and generation that are signed in.                        *)
ReadyIsBound == Authenticated => current # None /\ bound = current

(* A session the phone does not hold is not left alive on the server while  *)
(* every answer arrived: in particular one that could not be saved.         *)
NothingLeftAlive == ~Busy /\ lost = 0 => live \subseteq {saved}

(* While the app is open and signed in, messages are synchronised again     *)
(* and again: no refresh, check or answer loses the timer.                  *)
SyncKeepsRunning == <>[]Enabled => []<>(syncing # None)

(* A session that the server accepts and the phone has saved is usable      *)
(* again in the end, whatever failed meanwhile.                             *)
SessionRecovers == (saved \in live) ~> (Authenticated \/ saved \notin live)

(* A user who is told that the phone is signed out can rely on the server   *)
(* not taking its session any more.                                         *)
SignOutRevokes == told \cap live = {}
=============================================================================
