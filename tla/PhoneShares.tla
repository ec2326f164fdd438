----------------------------- MODULE PhoneShares -----------------------------
(***************************************************************************)
(* What a phone shares with friends and Circles beside messages: the personal  *)
(* profile, the profile and the pictures of a Circle, its stickers and its     *)
(* Moments, and with the service the conversations it mutes.  The parts share  *)
(* no state that is modelled, so each behaviour looks at one of them; the module *)
(* of the preferences is extended, the others are instantiated.                *)
(***************************************************************************)
EXTENDS ChatPreferences

CONSTANTS Friends, Texts, Calls, ProfileMaxRevision, ProfileMaxEpoch, MaxPhones,
          ProfileMaxMishaps, Peers, Invitees, SharingMaxEpoch, MaxUpdates, SharingMaxMishaps,
          PartSize, CollectionMaxEpoch, CollectionMaxRevision, MaxItems, MaxRemovals,
          CollectionMaxMishaps, MaxMembers, MomentsMaxEpoch, MaxOps, MaxLost, Editors

\* There is an audience and a revision to begin with; the rest are how far a behaviour goes.
ASSUME SharesBounds == /\ {ProfileMaxRevision, ProfileMaxEpoch, MaxPhones, SharingMaxEpoch,
                           PartSize, CollectionMaxEpoch, MomentsMaxEpoch} \subseteq Nat \ {0}
                       /\ {ProfileMaxMishaps, CollectionMaxRevision, MaxItems, MaxRemovals,
                           CollectionMaxMishaps, MaxOps} \subseteq Nat

VARIABLES part,   \* the component that is looked at, for the whole behaviour
          phone, vault, photo, publication, profileOutbox, received, profileEpoch, shown, jobs,
          active, broken, profileMishaps,
          sharingCircle, sharingRelay, creation, maker, sharingOutbox, sharingJob, refresh,
          picks, seen, updates, sharingMishaps,
          collectionCircle, events, snaps, collectionRelay, rows, edit, fresh, collectionSaved,
          collectionJob, pulled, collectionMishaps,
          momentsEpoch, ops, momentsRelay, got, momentsJob, lost

Profile == INSTANCE ProfileSharing WITH
    MaxRevision <- ProfileMaxRevision, MaxEpoch <- ProfileMaxEpoch,
    MaxMishaps <- ProfileMaxMishaps, outbox <- profileOutbox, epoch <- profileEpoch,
    mishaps <- profileMishaps
Sharing == INSTANCE CircleSharing WITH
    MaxEpoch <- SharingMaxEpoch, MaxMishaps <- SharingMaxMishaps,
    circle <- sharingCircle, relay <- sharingRelay, outbox <- sharingOutbox, job <- sharingJob,
    mishaps <- sharingMishaps
Collection == INSTANCE CircleCollection WITH
    MaxEpoch <- CollectionMaxEpoch, MaxRevision <- CollectionMaxRevision,
    MaxMishaps <- CollectionMaxMishaps, circle <- collectionCircle, relay <- collectionRelay,
    saved <- collectionSaved, job <- collectionJob, mishaps <- collectionMishaps,
    bound <- (part = "bound collection")
Moments == INSTANCE Moments WITH
    MaxEpoch <- MomentsMaxEpoch, epoch <- momentsEpoch, relay <- momentsRelay,
    job <- momentsJob

profileState == <<phone, vault, photo, publication, profileOutbox, received, profileEpoch,
                 shown, jobs, active, broken, profileMishaps>>
sharingState == <<sharingCircle, sharingRelay, creation, maker, sharingOutbox, sharingJob,
                 refresh, picks, seen, updates, sharingMishaps>>
collectionState == <<collectionCircle, events, snaps, collectionRelay, rows, edit, fresh,
                    collectionSaved, collectionJob, pulled, collectionMishaps>>
momentsState == <<momentsEpoch, ops, momentsRelay, got, momentsJob, lost>>

phoneVars == <<part, profileState, sharingState, collectionState, momentsState, prefVars>>

\* The stickers are looked at twice: with the app's publication vault, and with one
\* that is opened with the publisher's own binding.
Collections == {"collection", "bound collection"}

ProfileStep ==
    /\ part = "profile" /\ Profile!ProfileNext
    /\ UNCHANGED <<part, sharingState, collectionState, momentsState, prefVars>>
SharingStep ==
    /\ part = "sharing" /\ Sharing!SharingNext
    /\ UNCHANGED <<part, profileState, collectionState, momentsState, prefVars>>
CollectionStep ==
    /\ part \in Collections /\ Collection!CollectionNext
    /\ UNCHANGED <<part, profileState, sharingState, momentsState, prefVars>>
MomentsStep ==
    /\ part = "moments" /\ Moments!MomentNext
    /\ UNCHANGED <<part, profileState, sharingState, collectionState, prefVars>>
PreferencesStep ==
    /\ part = "preferences" /\ PrefNext
    /\ UNCHANGED <<part, profileState, sharingState, collectionState, momentsState>>

Init ==
    /\ part \in {"profile", "sharing", "moments", "preferences"} \cup Collections
    /\ Profile!ProfileInit
    /\ Sharing!SharingInit
    /\ Collection!CollectionInit
    /\ Moments!MomentInit
    /\ PrefInit

Next == ProfileStep \/ SharingStep \/ CollectionStep \/ MomentsStep \/ PreferencesStep

\* The fairness of each component, while it is looked at.
Fairness ==
    /\ WF_profileState(part = "profile" /\ Profile!Load)
    /\ \A s \in Calls : WF_profileState(part = "profile" /\ Profile!JobStep(s))
    /\ WF_profileState(part = "profile" /\ \E s \in Calls : Profile!Sync(s))
    /\ \A a \in Profile!Audiences : WF_profileState(part = "profile" /\ Profile!Reconcile(a))
    /\ WF_sharingState(part = "sharing" /\ Sharing!JobStep)
    /\ WF_sharingState(part = "sharing" /\ Sharing!Maintain)
    /\ WF_collectionState(part \in Collections /\ Collection!AddStep)
    /\ WF_collectionState(part \in Collections /\ Collection!RefreshStep)
    /\ SF_collectionState(part \in Collections /\ Collection!Resolve)
    /\ WF_prefVars(part = "preferences" /\ (Load \/ Loaded))
    /\ WF_prefVars(part = "preferences" /\ SaveNext)
    /\ WF_prefVars(part = "preferences" /\ Restart /\ prefs.phase = "held")
    /\ WF_prefVars(part = "preferences" /\ Foreground)
    /\ WF_prefVars(part = "preferences" /\ Deliver)

PhoneSpec == Init /\ [][Next]_phoneVars /\ Fairness

-----------------------------------------------------------------------------

\* On one phone whose saves have not failed, the friends and the Circle end up with
\* the profile that the owner sees (private-profile-flow.ts).
FriendsFollow == part = "profile" => Profile!FriendsFollow

\* A Circle without a profile is one that the phone remembers to finish, and the
\* picture of a profile was encrypted for the audience that gets it
\* (circle-creation.ts, circle-avatar.ts).
CirclesShared == /\ Profile!ProfileTypeOK /\ Sharing!SharingTypeOK
                 /\ Sharing!NoStrayCircle /\ Sharing!PictureForAudience

\* Whoever joins gets the profile of the Circle in the end (circle-details.ts).
JoinersSee == part = "sharing" => Sharing!JoinersSee

\* A phone that shows a collection shows the stickers the service holds
\* (circle-collection-loader.ts).
CollectionTrue == Collection!CollectionTypeOK /\ Collection!CollectionTrue

\* A sticker that was contributed never stays half done: it is shared, or dropped by the
\* recovery that the screen offers (circle-collection-media.ts, circle-library.tsx).
CollectionSettles == part \in Collections => Collection!ContributionSettles

\* Phones that have sent and received all show the same Moments (circle-moments.ts).
TimelinesAgree == Moments!MomentTypeOK /\ Moments!TimelinesAgree

=============================================================================
