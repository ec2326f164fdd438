--------------------------- MODULE ChatPreferences ---------------------------
(***************************************************************************)
(* The choices a phone keeps about its conversations, muted ones above all,  *)
(* and the copy of the muted ones the service alerts by.  Choices are        *)
(* queued, saved and shown one by one; the service is told by requests that  *)
(* may be lost or arrive in any order, after each choice, with a             *)
(* registration for alerts, and whenever the app returns to the front.       *)
(***************************************************************************)
EXTENDS Naturals, Sequences, FiniteSets

CONSTANTS Chats,
          Private,      \* those with a friend, which the chat list names by the friend's account
          MaxEntries,   \* how many entries are read; of more, none
          MaxChoices, MaxToggles, MaxFaults

ASSUME PreferenceBounds == MaxEntries \in Nat

VARIABLES saved,     \* muted conversations in the encrypted database
          prefs,     \* the controller: [phase, values, queue]
          wire,      \* requests on their way: [what, muted]
          device,    \* of the service: [registered, muted]
          screen,    \* the notifications screen: [enabled, saving]
          allowed,   \* whether the system lets the app alert
          chosen,    \* what the user chose last, of what was saved
          overfull,  \* was there ever more to save than is read?
          choices, toggles, faults

prefVars == <<saved, prefs, wire, device, screen, allowed, chosen, overfull, choices, toggles, faults>>

Call(what, muted) == [what |-> what, muted |-> muted]
Fault == faults < MaxFaults /\ faults' = faults + 1
Closed == [phase |-> "idle", values |-> {}, queue |-> <<>>]

\* A value that cannot be read as preferences is taken as none: one with too many entries.
Readable(values) == Cardinality(values) <= MaxEntries
Parse(values) == IF Readable(values) THEN values ELSE {}
\* The service is only sent lists of conversations as it names them itself.
Listed(values) == values \cap Private = {}

-----------------------------------------------------------------------------
(* The controller.                                                          *)

\* The first who asks opens the database; the others share what he gets.
Load ==
    /\ prefs.phase = "idle" /\ prefs' = [prefs EXCEPT !.phase = "loading"]
    /\ UNCHANGED <<saved, wire, device, screen, allowed, chosen, overfull, choices, toggles, faults>>

Loaded ==
    /\ prefs.phase = "loading"
    /\ prefs' = [prefs EXCEPT !.phase = "ready", !.values = Parse(saved)]
    /\ UNCHANGED <<saved, wire, device, screen, allowed, chosen, overfull, choices, toggles, faults>>

\* The database stays open under a controller that was dropped: no other gets it.
LoadFails ==
    /\ prefs.phase = "loading" /\ Fault
    /\ prefs' = [prefs EXCEPT !.phase = "held"]
    /\ UNCHANGED <<saved, wire, device, screen, allowed, chosen, overfull, choices, toggles>>

Queued(choice) ==
    /\ prefs.phase = "ready" /\ choices < MaxChoices /\ choices' = choices + 1
    /\ prefs' = [prefs EXCEPT !.queue = Append(@, choice)]
    /\ UNCHANGED <<saved, wire, device, screen, allowed, chosen, overfull, toggles, faults>>
Choose(c, on) == Queued([kind |-> "set", chats |-> {c}, on |-> on, base |-> prefs.values])
\* A backup brings the choices of the phone that made it, instead of those of this one.
Restore(values) ==
    /\ Readable(values)
    /\ Queued([kind |-> "restore", chats |-> values, on |-> TRUE, base |-> prefs.values])

Apply(values, choice) == IF choice.kind = "restore" THEN choice.chats
                         ELSE IF choice.on THEN values \cup choice.chats ELSE values \ choice.chats
\* Mutant: the values are read when the choice is queued.
SetFromQueued(choice) == Parse(Apply(choice.base, choice))
Set(choice) == Parse(Apply(prefs.values, choice))

\* Saved, shown, and then sent: the request may not leave the phone.
SaveNext ==
    /\ prefs.phase = "ready" /\ prefs.queue # <<>>
    /\ LET choice == Head(prefs.queue)
           next == Set(choice)
       IN /\ saved' = next /\ chosen' = Apply(chosen, choice)
          /\ overfull' = (overfull \/ ~Readable(Apply(prefs.values, choice)))
          /\ prefs' = [prefs EXCEPT !.values = next, !.queue = Tail(@)]
          /\ \/ Listed(next) /\ wire' = wire \cup {Call("preferences", next)} /\ UNCHANGED faults
             \/ ~Listed(next) /\ UNCHANGED <<wire, faults>>
             \/ Fault /\ UNCHANGED wire
    /\ UNCHANGED <<device, screen, allowed, choices, toggles>>

\* A write that fails, or is longer than the database takes, drops its choice.
SaveFails ==
    /\ prefs.phase = "ready" /\ prefs.queue # <<>> /\ Fault
    /\ prefs' = [prefs EXCEPT !.queue = Tail(@)]
    /\ UNCHANGED <<saved, wire, device, screen, allowed, chosen, overfull, choices, toggles>>

\* Mutant: only what the user chooses is sent.
SyncNever == prefs.phase = "ready" /\ UNCHANGED wire
\* The app comes to the front.
Sync == prefs.phase = "ready" /\ Listed(prefs.values) /\ wire' = wire \cup {Call("preferences", prefs.values)}
Foreground ==
    /\ Sync
    /\ UNCHANGED <<saved, prefs, device, screen, allowed, chosen, overfull, choices, toggles, faults>>

Restart ==
    /\ prefs.phase = "held" \/ (prefs.phase = "ready" /\ faults < MaxFaults)
    /\ faults' = IF prefs.phase = "held" THEN faults ELSE faults + 1
    /\ prefs' = Closed /\ screen' = [enabled |-> FALSE, saving |-> FALSE]
    /\ UNCHANGED <<saved, wire, device, allowed, chosen, overfull, choices, toggles>>

-----------------------------------------------------------------------------
(* The notifications screen.                                                *)

\* The service is asked; a registration the system no longer allows is removed.
Status ==
    /\ ~screen.saving
    /\ screen' = [screen EXCEPT !.enabled = device.registered /\ allowed]
    /\ wire' = IF device.registered /\ ~allowed THEN wire \cup {Call("unregister", {})} ELSE wire
    /\ UNCHANGED <<saved, prefs, device, allowed, chosen, overfull, choices, toggles, faults>>

\* The token is sent with the conversations that are muted now, if they can be listed.
Asks(m) == m \notin wire /\ wire' = wire \cup {m} /\ screen' = [screen EXCEPT !.saving = TRUE]
Register ==
    /\ prefs.phase = "ready" /\ allowed
    /\ IF Listed(prefs.values) THEN Asks(Call("register", prefs.values)) ELSE UNCHANGED <<wire, screen>>
Unregister == Asks(Call("unregister", {}))

Toggle ==
    /\ ~screen.saving /\ toggles < MaxToggles /\ toggles' = toggles + 1
    /\ IF screen.enabled THEN Unregister ELSE Register
    /\ UNCHANGED <<saved, prefs, device, allowed, chosen, overfull, choices, faults>>

Permit ==
    /\ toggles < MaxToggles /\ toggles' = toggles + 1 /\ allowed' = ~allowed
    /\ UNCHANGED <<saved, prefs, wire, device, screen, chosen, overfull, choices, faults>>

-----------------------------------------------------------------------------
(* The service.                                                             *)

\* A list for a phone that is not registered is refused.
Answer(m) == CASE m.what = "register" -> [registered |-> TRUE, muted |-> m.muted]
               [] m.what = "unregister" -> [registered |-> FALSE, muted |-> {}]
               [] OTHER -> IF device.registered THEN [device EXCEPT !.muted = m.muted] ELSE device
Told(m) == IF m.what = "preferences" \/ ~screen.saving THEN screen
           ELSE [enabled |-> m.what = "register", saving |-> FALSE]

\* The request arrives; the phone may have stopped waiting for its answer.
Deliver ==
    \E m \in wire :
        /\ wire' = wire \ {m} /\ device' = Answer(m)
        /\ \/ screen' = Told(m) /\ UNCHANGED faults
           \/ screen' = [screen EXCEPT !.saving = FALSE] /\ Fault
        /\ UNCHANGED <<saved, prefs, allowed, chosen, overfull, choices, toggles>>

\* The request is lost, or the phone gives up on one that arrives later.
Lose ==
    \E m \in wire :
        /\ Fault /\ screen' = [screen EXCEPT !.saving = FALSE]
        /\ \/ wire' = wire \ {m}
           \/ UNCHANGED wire
        /\ UNCHANGED <<saved, prefs, device, allowed, chosen, overfull, choices, toggles>>

PrefInit ==
    /\ saved = {} /\ prefs = Closed /\ wire = {} /\ device = [registered |-> FALSE, muted |-> {}]
    /\ screen = [enabled |-> FALSE, saving |-> FALSE] /\ allowed = TRUE /\ chosen = {} /\ overfull = FALSE
    /\ choices = 0 /\ toggles = 0 /\ faults = 0

PrefNext == \/ Load \/ Loaded \/ LoadFails \/ SaveNext \/ SaveFails \/ Foreground \/ Restart
            \/ \E c \in Chats, on \in BOOLEAN : Choose(c, on)
            \/ \E values \in SUBSET Chats : Restore(values)
            \/ Status \/ Toggle \/ Permit \/ Deliver \/ Lose

\* The app comes to the front again and again; a broken one is started anew.
PrefFairness == /\ WF_prefVars(Load \/ Loaded) /\ WF_prefVars(SaveNext)
                /\ WF_prefVars(Restart /\ prefs.phase = "held")
                /\ WF_prefVars(Foreground) /\ WF_prefVars(Deliver)

PrefSpec == PrefInit /\ [][PrefNext]_prefVars
PrefFairSpec == PrefSpec /\ PrefFairness
-----------------------------------------------------------------------------
PrefTypeOK == /\ saved \subseteq Chats /\ device.muted \subseteq Chats
              /\ prefs.phase \in {"idle", "loading", "ready", "held"}

(* No choice undoes another that was saved before it, however many are       *)
(* waiting, until there are more than are read; and what the app shows is    *)
(* what it saved.                                                           *)
Kept == (~overfull => saved = chosen) /\ (prefs.phase = "ready" => prefs.values = saved)
ChoicesKept == PrefTypeOK /\ Kept

(* The same of any number of them: a choice that was saved lasts until the   *)
(* user changes it (conversation-preferences.ts).                           *)
NothingUndone == saved = chosen

(* In the end the service alerts by the conversations that are muted on the  *)
(* phone, whatever was lost, late or overtaken on the way, if it has names   *)
(* for all of them.                                                         *)
MutesFollow == <>[](device.registered /\ Listed(saved) => device.muted = saved)

(* The same whichever conversations are muted (runtime.ts).                  *)
MutesMirrored == <>[](device.registered => device.muted = saved)
=============================================================================
