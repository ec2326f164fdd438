-------------------------- MODULE PhoneShares_proofs --------------------------
(***************************************************************************)
(* Proofs about what a phone shares beside messages, component by component: *)
(* an inductive invariant of each, that its steps keep it, and at the end the *)
(* theorems of the whole.                                                   *)
(***************************************************************************)
EXTENDS PhoneShares, FiniteSetTheorems, SequenceTheorems, WellFoundedInduction, TLAPS

\* The bounds of each component, one by one.
LEMMA ProfileBounds == /\ ProfileMaxRevision \in Nat \ {0} /\ ProfileMaxEpoch \in Nat \ {0}
                       /\ MaxPhones \in Nat \ {0} /\ ProfileMaxMishaps \in Nat
  BY SharesBounds
\* Of the Circle.
LEMMA SharingBounds == SharingMaxEpoch \in Nat \ {0}
  BY SharesBounds
\* Of its stickers.
LEMMA CollectionBounds == /\ PartSize \in Nat \ {0} /\ CollectionMaxEpoch \in Nat \ {0}
                          /\ CollectionMaxRevision \in Nat /\ MaxItems \in Nat
                          /\ MaxRemovals \in Nat /\ CollectionMaxMishaps \in Nat
  BY SharesBounds
\* Of the Moments.
LEMMA MomentBounds == MomentsMaxEpoch \in Nat \ {0} /\ MaxOps \in Nat
  BY SharesBounds

-----------------------------------------------------------------------------
(* PART 1.  The personal profile: no profile that is stored, shown, sent or    *)
(* received is of a revision past the last that a save may have reached.       *)

Upto(n) == [revision : 1..n, text : Texts \cup {0}, mode : Profile!Modes]
Events(n) == [profile : Upto(n), sent : BOOLEAN]
Jobs(n) == [kind : {"none", "save", "photo", "sync"},
            at : {"idle", "wait", "write", "photo", "circle", "friends", "send", "publish", "upload"},
            after : Calls \cup {0}, input : Texts \cup {0, "photo", "removed"},
            profile : Upto(n) \cup {Profile!NoProfile}, left : SUBSET Friends, of : Friends \cup {0},
            what : Upto(n) \cup {Profile!NoProfile}, pending : BOOLEAN]

\* What a job has in hand at each step.
Ready(job, n) ==
    /\ job.at # "idle" => job.kind # "none"
    /\ job.kind = "save" => job.input \in Texts
    /\ job.kind = "photo" => job.input \in {"photo", "removed"}
    /\ job.at \notin {"idle", "wait"} => job.profile \in Upto(n)
    /\ job.at \in {"send", "publish", "upload"} => job.of \in Friends
    /\ job.at \in {"send", "upload"} => job.what \in Upto(n)

Stores(n) == /\ vault \in Upto(n) \cup {Profile!NoProfile} /\ photo \in BOOLEAN
             /\ publication \in [Friends -> Upto(n) \cup {Profile!NoProfile}]
Wires(n) == /\ profileOutbox \in [Profile!Audiences -> SUBSET Events(n)]
            /\ received \in [Profile!Audiences -> SUBSET Upto(n)]
Screen(n) == shown \in [phase : {"idle", "ready"}, profile : Upto(n) \cup {Profile!NoProfile}, avatar : BOOLEAN,
                        photoError : BOOLEAN, pending : BOOLEAN, busy : BOOLEAN]
Running(n) == /\ jobs \in [Calls -> Jobs(n)] /\ active \in Calls \cup {0}
              /\ \A s \in Calls : Ready(jobs[s], n)

\* No profile anywhere is of a revision past n.
Held(n) == Stores(n) /\ Wires(n) /\ Screen(n) /\ Running(n)

\* An edit stops at MaxRevision.  Opening the app may go one further, and it was
\* closed by a mishap.
Reach == ProfileMaxRevision + profileMishaps - (IF shown.phase = "idle" THEN 1 ELSE 0)

Counted == /\ phone \in 1..MaxPhones /\ profileEpoch \in 1..ProfileMaxEpoch /\ profileMishaps \in 0..ProfileMaxMishaps
           /\ broken \in BOOLEAN

\* No job outlives the process.
NoneBefore == shown.phase = "idle" => \A s \in Calls : jobs[s].at = "idle"

ProfileInv == Counted /\ NoneBefore /\ Held(Reach)
-----------------------------------------------------------------------------
\* What is held up to a revision is held up to a later one.
LEMMA Wider == ASSUME NEW n \in Nat, NEW m \in Nat, n <= m, Held(n) PROVE Held(m)
<1>1. Upto(n) \subseteq Upto(m)
  BY DEF Upto
<1>2. Events(n) \subseteq Events(m) /\ Jobs(n) \subseteq Jobs(m)
  BY <1>1 DEF Events, Jobs
<1>3. Stores(m)
  BY <1>1 DEF Held, Stores
<1>4. Wires(m)
  <2>1. SUBSET Events(n) \subseteq SUBSET Events(m) /\ SUBSET Upto(n) \subseteq SUBSET Upto(m)
    BY <1>1, <1>2
  <2> QED  BY <2>1 DEF Held, Wires
<1>5. Screen(m)
  BY <1>1 DEF Held, Screen
<1>6. Running(m)
  BY <1>1, <1>2 DEF Held, Running, Ready
<1> QED  BY <1>3, <1>4, <1>5, <1>6 DEF Held

\* No profile, no job, and the screen before it is loaded.
LEMMA Nothing == ASSUME NEW n \in Nat
                 PROVE  /\ Profile!NoJob \in Jobs(n) /\ Ready(Profile!NoJob, n) /\ Profile!NoJob.at = "idle"
                        /\ Profile!Unloaded \in [phase : {"idle", "ready"}, profile : Upto(n) \cup {Profile!NoProfile}, avatar : BOOLEAN,
                                         photoError : BOOLEAN, pending : BOOLEAN, busy : BOOLEAN]
                        /\ Profile!Unloaded.phase = "idle"
BY DEF Profile!NoJob, Jobs, Ready, Profile!Unloaded

\* A job takes the place of another.
LEMMA JobGoes ==
    ASSUME NEW n, Running(n), NEW s \in Calls, NEW d \in Jobs(n), Ready(d, n),
           Profile!Called(s, d) \/ Profile!Started(s, d)
    PROVE  Running(n)' /\ \A t \in Calls : jobs'[t] = IF t = s THEN d ELSE jobs[t]
BY DEF Running, Profile!Called, Profile!Started

\* A job is over, and those that waited for it wait no longer.
LEMMA JobEnds ==
    ASSUME NEW n \in Nat, Running(n), NEW s \in Calls, Profile!Over(s)
    PROVE  Running(n)' /\ \A t \in Calls : jobs[t].at = "idle" => jobs'[t].at = "idle"
<1>1. ASSUME NEW t \in Calls, t # s
      PROVE  /\ jobs'[t] \in Jobs(n) /\ Ready(jobs'[t], n) /\ jobs'[t].at = jobs[t].at
  <2>1. PICK after \in Calls \cup {0} : after = IF jobs[t].after = s THEN 0 ELSE jobs[t].after
    BY DEF Running, Jobs
  <2>2. jobs'[t] = [jobs[t] EXCEPT !.after = after] /\ jobs[t] \in Jobs(n) /\ Ready(jobs[t], n)
    BY <1>1, <2>1 DEF Profile!Over, Running
  <2>3. PICK d : d = jobs[t]
    OBVIOUS
  <2>4. PICK e : e = jobs'[t]
    OBVIOUS
  <2>5. e = [d EXCEPT !.after = after] /\ d \in Jobs(n)
    BY <2>2, <2>3, <2>4
  <2>6. /\ e \in Jobs(n) /\ e.at = d.at /\ e.kind = d.kind /\ e.input = d.input /\ e.profile = d.profile
        /\ e.of = d.of /\ e.what = d.what
    BY <2>1, <2>5 DEF Jobs
  <2>7. Ready(e, n)
    BY <2>2, <2>3, <2>6 DEF Ready
  <2> QED  BY <2>3, <2>4, <2>6, <2>7
<1>2. jobs'[s] = Profile!NoJob
  BY DEF Profile!Over
<1>3. jobs' \in [Calls -> Jobs(n)]
  <2>1. jobs' = [t \in Calls |-> jobs'[t]]
    BY DEF Profile!Over
  <2>2. \A t \in Calls : jobs'[t] \in Jobs(n)
    BY <1>1, <1>2, Nothing
  <2> QED  BY <2>1, <2>2
<1>4. active' \in Calls \cup {0}
  BY DEF Profile!Over, Running
<1> QED  BY <1>1, <1>2, <1>3, <1>4, Nothing DEF Running

\* The screen after a job, or with another profile.
LEMMA ScreenTurns ==
    ASSUME NEW n, Screen(n), NEW p \in Upto(n) \cup {Profile!NoProfile}, NEW b \in BOOLEAN
    PROVE  LET Screens == [phase : {shown.phase}, profile : Upto(n) \cup {Profile!NoProfile}, avatar : BOOLEAN,
                           photoError : BOOLEAN, pending : BOOLEAN, busy : BOOLEAN]
           IN  \A x \in Screens : /\ [x EXCEPT !.profile = p] \in Screens /\ [x EXCEPT !.photoError = b] \in Screens
                                  /\ [x EXCEPT !.pending = b] \in Screens /\ [x EXCEPT !.busy = b] \in Screens
                                  /\ [x EXCEPT !.avatar = b] \in Screens
OBVIOUS

-----------------------------------------------------------------------------
\* A phone begins with nothing stored, sent or shown.
LEMMA ProfileInitInv == Profile!ProfileInit => ProfileInv
<1> SUFFICES ASSUME Profile!ProfileInit PROVE ProfileInv
  OBVIOUS
<1>1. Reach = ProfileMaxRevision - 1 /\ Reach \in Nat
  BY ProfileBounds DEF Profile!ProfileInit, Reach, Profile!Unloaded
<1>2. PICK n \in Nat : n = Reach
  BY <1>1
<1>3. Screen(n)
  BY Nothing DEF Profile!ProfileInit, Screen
<1>4. Running(n) /\ NoneBefore
  BY Nothing DEF Profile!ProfileInit, Running, NoneBefore
<1>5. Stores(n) /\ Wires(n)
  BY DEF Profile!ProfileInit, Stores, Wires
<1>6. Counted
  <2>1. phone = 1 /\ profileEpoch = 1 /\ profileMishaps = 0
    BY DEF Profile!ProfileInit
  <2>2. broken \in BOOLEAN
    BY DEF Profile!ProfileInit
  <2>3. phone \in 1..MaxPhones /\ profileEpoch \in 1..ProfileMaxEpoch /\ profileMishaps \in 0..ProfileMaxMishaps
    BY <2>1, ProfileBounds
  <2> QED  BY <2>2, <2>3 DEF Counted
<1> QED  BY <1>2, <1>3, <1>4, <1>5, <1>6 DEF ProfileInv, Held

\* The bound of the type is that of the mishaps that may still come.
LEMMA ProfileSays == ProfileInv => Profile!ProfileTypeOK
<1> SUFFICES ASSUME ProfileInv PROVE Profile!ProfileTypeOK
  OBVIOUS
<1>1. profileMishaps \in 0..ProfileMaxMishaps /\ shown.phase \in {"idle", "ready"}
  BY DEF ProfileInv, Counted, Held, Screen
<1>2. Reach \in Nat /\ Reach <= ProfileMaxRevision + ProfileMaxMishaps /\ ProfileMaxRevision + ProfileMaxMishaps \in Nat
  BY <1>1, ProfileBounds DEF Reach
<1>3. PICK n \in Nat : n = ProfileMaxRevision + ProfileMaxMishaps
  BY <1>2
<1>4. Held(n)
  BY <1>2, <1>3, Wider DEF ProfileInv
<1>5. Upto(n) = Profile!Profiles
  BY <1>3 DEF Upto, Profile!Profiles
<1>6. \A a \in Profile!Audiences : received[a] \subseteq Profile!Profiles /\ profileOutbox[a] \subseteq [profile : Profile!Profiles, sent : BOOLEAN]
  BY <1>4, <1>5 DEF Held, Wires, Events
<1>7. \A s \in Calls : jobs[s].at \in {"idle", "wait", "write", "photo", "circle", "friends", "send", "publish", "upload"}
  BY <1>4 DEF Held, Running, Jobs
<1> QED  BY <1>4, <1>5, <1>6, <1>7 DEF ProfileInv, Counted, Held, Stores, Screen,
     Profile!ProfileTypeOK

-----------------------------------------------------------------------------
(* Opening the profile.                                                     *)

\* Opening the app may make a profile of the next revision.
LEMMA LoadHeld == ASSUME NEW n \in Nat, Held(n), Profile!Load PROVE Held(n + 1)'
<1>1. n + 1 \in Nat /\ n <= n + 1 /\ Upto(n) \subseteq Upto(n + 1) /\ Held(n + 1)
  BY Wider DEF Upto
<1>2. PICK sent : sent = IF Profile!SentToFriends = {} THEN Profile!NoProfile ELSE CHOOSE p \in Profile!SentToFriends : TRUE
  OBVIOUS
<1>3. PICK kept : kept = Profile!Kept(sent)
  OBVIOUS
<1>4. PICK profile : profile = IF photo /\ kept.mode = "none"
                               THEN [kept EXCEPT !.revision = @ + 1, !.mode = "photo"] ELSE kept
  OBVIOUS
<1>5. sent \in Upto(n) \cup {Profile!NoProfile}
  <2>1. Profile!SentToFriends \subseteq Upto(n)
    BY DEF Profile!SentToFriends, Profile!Newest, Profile!Sent, Held, Wires, Events,
         Profile!Audiences
  <2> QED  BY <1>2, <2>1
<1>6. kept \in Upto(n) \cup {Profile!NoProfile}
  BY <1>3, <1>5 DEF Profile!Kept, Held, Stores
<1>7. profile \in Upto(n + 1) \cup {Profile!NoProfile}
  <2>1. CASE photo /\ kept.mode = "none"
    <3>1. kept.revision \in 0..n /\ kept.text \in Texts \cup {0}
      BY <1>6 DEF Upto, Profile!NoProfile
    <3>2. profile = [revision |-> kept.revision + 1, text |-> kept.text, mode |-> "photo"]
      BY <1>4, <1>6, <2>1 DEF Upto, Profile!NoProfile
    <3>3. kept.revision + 1 \in 1..(n + 1)
      BY <3>1
    <3> QED  BY <3>1, <3>2, <3>3 DEF Upto, Profile!Modes
  <2>2. CASE ~(photo /\ kept.mode = "none")
    BY <1>1, <1>4, <1>6, <2>2
  <2> QED  BY <2>1, <2>2
<1>8. /\ vault' = profile /\ UNCHANGED <<photo, publication, profileOutbox, received, jobs, active>>
      /\ shown' = [Profile!Unloaded EXCEPT !.phase = "ready", !.profile = profile, !.avatar = photo,
                                   !.photoError = profile.mode = "photo" /\ ~photo]
  BY <1>2, <1>3, <1>4 DEF Profile!Load, Profile!SaveProfile, Profile!wire, Profile!work
<1>9. photo \in BOOLEAN
  BY DEF Held, Stores
<1>10. Screen(n + 1)'
  <2>1. PICK b \in BOOLEAN : b = (profile.mode = "photo" /\ ~photo)
    BY <1>9
  <2>2. shown' = [phase |-> "ready", profile |-> profile, avatar |-> photo, photoError |-> b, pending |-> FALSE, busy |-> FALSE]
    BY <1>8, <2>1 DEF Profile!Unloaded
  <2> QED  BY <1>7, <1>9, <2>1, <2>2 DEF Screen
<1>11. Stores(n + 1)' /\ Wires(n + 1)' /\ Running(n + 1)'
  BY <1>1, <1>7, <1>8 DEF Held, Stores, Wires, Running
<1> QED  BY <1>10, <1>11 DEF Held

-----------------------------------------------------------------------------
(* Jobs.                                                                    *)

\* A call that is made waits, or begins with what it was given.
LEMMA CallHeld ==
    ASSUME NEW n \in Nat, Held(n), NEW s \in Calls, Profile!Save(s) \/ Profile!SetPhoto(s) \/ Profile!Sync(s)
    PROVE  Held(n)'
<1>1. PICK kind \in {"save", "photo", "sync"}, input \in Texts \cup {0, "photo", "removed"} :
          /\ Profile!Call(s, kind, input)
          /\ kind = "save" => input \in Texts
          /\ kind = "photo" => input \in {"photo", "removed"}
  <2>1. CASE Profile!Save(s)
    BY <2>1 DEF Profile!Save
  <2>2. CASE Profile!SetPhoto(s)
    BY <2>2 DEF Profile!SetPhoto
  <2>3. CASE Profile!Sync(s)
    BY <2>3 DEF Profile!Sync
  <2> QED  BY <2>1, <2>2, <2>3
<1>2. Stores(n) /\ Wires(n) /\ Screen(n) /\ Running(n) /\ active \in Calls \cup {0}
  BY DEF Held, Running
<1>3. PICK d : d = [Profile!NoJob EXCEPT !.kind = kind, !.at = "wait", !.after = active, !.input = input]
  OBVIOUS
<1>4. /\ d.kind = kind /\ d.at = "wait" /\ d.input = input
      /\ d = [kind |-> kind, at |-> "wait", after |-> active, input |-> input, profile |-> Profile!NoProfile,
              left |-> {}, of |-> 0, what |-> Profile!NoProfile, pending |-> FALSE]
  BY <1>3 DEF Profile!NoJob
<1>5. d \in Jobs(n)
  BY <1>2, <1>4 DEF Jobs
<1>6. Ready(d, n)
  BY <1>1, <1>4 DEF Ready
<1>7. Profile!Called(s, d) /\ UNCHANGED <<vault, photo, publication, profileOutbox, received, shown>>
  BY <1>1, <1>3 DEF Profile!Call, Profile!disk, Profile!wire
<1>8. Running(n)'
  BY <1>2, <1>5, <1>6, <1>7, JobGoes
<1> QED  BY <1>2, <1>7, <1>8 DEF Held, Stores, Wires, Screen

\* The job goes to another step, with what it has in hand.
LEMMA JobMoves ==
    ASSUME NEW n \in Nat, NEW j \in Jobs(n), Ready(j, n), j.at \notin {"idle", "wait"},
           NEW at \in {"write", "photo", "circle", "friends", "publish"},
           at = "publish" => j.at \in {"send", "publish", "upload"}
    PROVE  /\ [j EXCEPT !.at = at] \in Jobs(n) /\ Ready([j EXCEPT !.at = at], n)
           /\ [j EXCEPT !.at = at, !.pending = TRUE] \in Jobs(n) /\ Ready([j EXCEPT !.at = at, !.pending = TRUE], n)
<1>1. PICK d : d = [j EXCEPT !.at = at]
  OBVIOUS
<1>2. /\ d \in Jobs(n) /\ d.at = at /\ d.kind = j.kind /\ d.input = j.input /\ d.profile = j.profile
      /\ d.of = j.of /\ d.what = j.what
  BY <1>1 DEF Jobs
<1>3. Ready(d, n)
  BY <1>2 DEF Ready
<1>4. PICK e : e = [d EXCEPT !.pending = TRUE]
  OBVIOUS
<1>5. /\ e \in Jobs(n) /\ e.at = at /\ e.kind = j.kind /\ e.input = j.input /\ e.profile = j.profile
      /\ e.of = j.of /\ e.what = j.what
  BY <1>2, <1>4 DEF Jobs
<1>6. Ready(e, n)
  BY <1>3, <1>2, <1>5 DEF Ready
<1>7. e = [j EXCEPT !.at = at, !.pending = TRUE]
  BY <1>1, <1>4 DEF Jobs
<1> QED  BY <1>1, <1>2, <1>3, <1>5, <1>6, <1>7

\* The screen once a job has ended.
LEMMA EndedScreen ==
    ASSUME NEW n, Screen(n), NEW s \in Calls, NEW b \in BOOLEAN
    PROVE  Profile!Ended(s, b) \in [phase : {shown.phase}, profile : Upto(n) \cup {Profile!NoProfile}, avatar : BOOLEAN,
                            photoError : BOOLEAN, pending : BOOLEAN, busy : BOOLEAN]
<1>1. PICK busy \in BOOLEAN : busy = IF jobs[s].kind = "sync" THEN shown.busy ELSE FALSE
  BY DEF Screen
<1>2. Profile!Ended(s, b) = [shown EXCEPT !.pending = b, !.busy = busy]
  BY <1>1 DEF Profile!Ended, Screen
<1> QED  BY <1>2 DEF Screen

\* A step of a job leaves the stores and the wires alone.
Apart == UNCHANGED <<vault, photo, publication, profileOutbox, received>>

\* A step that only turns a job and the screen.
LEMMA ApartHeld == ASSUME NEW n, Held(n), Apart, Screen(n)', Running(n)' PROVE Held(n)'
  BY DEF Held, Apart, Stores, Wires

\* A save that starts takes the revision after the one that is shown.
LEMMA StartHeld ==
    ASSUME NEW n \in Nat, Held(n), ProfileMaxRevision <= n, NEW s \in Calls, Profile!Start(s)
    PROVE  Held(n)'
<1>1. PICK j : j = jobs[s]
  OBVIOUS
<1>2. /\ j \in Jobs(n) /\ Ready(j, n) /\ j.at = "wait" /\ j.kind \in {"save", "photo", "sync"} /\ Apart
      /\ Screen(n) /\ Running(n) /\ shown.profile \in Upto(n) \cup {Profile!NoProfile} /\ shown.photoError \in BOOLEAN
  BY <1>1 DEF Held, Running, Jobs, Ready, Profile!Start, Apart, Screen, Profile!disk, Profile!wire
<1>3. CASE Profile!Over(s) /\ shown' = shown
  <2>1. Running(n)'
    BY <1>2, <1>3, JobEnds
  <2> QED  BY <1>2, <1>3, <2>1, ApartHeld DEF Screen
<1>4. CASE /\ j.kind = "sync" /\ shown.profile.revision # 0 /\ shown' = shown
           /\ Profile!Started(s, [j EXCEPT !.at = "circle", !.profile = shown.profile])
  <2>1. shown.profile \in Upto(n)
    BY <1>2, <1>4 DEF Profile!NoProfile
  <2>2. PICK d : d = [j EXCEPT !.at = "circle", !.profile = shown.profile]
    OBVIOUS
  <2>3. /\ d \in Jobs(n) /\ d.at = "circle" /\ d.kind = j.kind /\ d.input = j.input /\ d.profile = shown.profile
    BY <1>2, <2>1, <2>2 DEF Jobs
  <2>4. Ready(d, n)
    BY <1>2, <2>1, <2>3 DEF Ready
  <2>5. Running(n)'
    BY <1>2, <1>4, <2>2, <2>3, <2>4, JobGoes
  <2> QED  BY <1>2, <1>4, <2>5, ApartHeld DEF Screen
<1>5. CASE /\ j.kind # "sync" /\ shown.profile.revision < ProfileMaxRevision
           /\ Profile!Started(s, [j EXCEPT !.at = "write", !.profile = Profile!Edited(j)])
           /\ shown' = [shown EXCEPT !.busy = TRUE, !.photoError = j.kind # "photo" /\ @]
  <2>1. PICK p : p = shown.profile
    OBVIOUS
  <2>2. p.revision + 1 \in 1..n /\ p.text \in Texts \cup {0} /\ p.mode \in Profile!Modes
    BY <1>2, <1>5, <2>1, ProfileBounds DEF Upto, Profile!NoProfile, Profile!Modes
  <2>3. Profile!Edited(j) \in Upto(n)
    <3>1. CASE j.kind = "save"
      <4>1. Profile!Edited(j) = [revision |-> p.revision + 1, text |-> j.input, mode |-> p.mode]
        BY <1>2, <2>1, <3>1 DEF Profile!Edited, Upto, Profile!NoProfile
      <4> QED  BY <1>2, <2>2, <3>1, <4>1 DEF Upto, Ready
    <3>2. CASE j.kind = "photo"
      <4>1. Profile!Edited(j) = [revision |-> p.revision + 1, text |-> p.text, mode |-> j.input]
        BY <1>2, <2>1, <3>2 DEF Profile!Edited, Upto, Profile!NoProfile
      <4> QED  BY <1>2, <2>2, <3>2, <4>1 DEF Upto, Ready, Profile!Modes
    <3> QED  BY <1>2, <1>5, <3>1, <3>2
  <2>4. PICK q \in Upto(n) : q = Profile!Edited(j)
    BY <2>3
  <2>5. PICK d : d = [j EXCEPT !.at = "write", !.profile = q]
    OBVIOUS
  <2>6. /\ d \in Jobs(n) /\ d.at = "write" /\ d.kind = j.kind /\ d.input = j.input /\ d.profile = q
    BY <1>2, <2>4, <2>5 DEF Jobs
  <2>7. Ready(d, n)
    BY <1>2, <2>4, <2>6 DEF Ready
  <2>8. Running(n)'
    BY <1>2, <1>5, <2>4, <2>5, <2>6, <2>7, JobGoes
  <2>9. Screen(n)'
    <3>1. PICK b \in BOOLEAN : b = (j.kind # "photo" /\ shown.photoError)
      OBVIOUS
    <3>2. shown' = [shown EXCEPT !.busy = TRUE, !.photoError = b]
      BY <1>5, <3>1
    <3> QED  BY <1>2, <3>2 DEF Screen
  <2> QED  BY <1>2, <2>8, <2>9, ApartHeld
<1> QED  BY <1>1, <1>2, <1>3, <1>4, <1>5, ProfileBounds DEF Profile!Start, Upto, Profile!NoProfile

\* The profile is written to the vault, or the job ends.
LEMMA WriteHeld ==
    ASSUME NEW n \in Nat, Held(n), NEW s \in Calls, Profile!Write(s)
    PROVE  Held(n)'
<1>1. PICK j : j = jobs[s]
  OBVIOUS
<1>2. /\ j \in Jobs(n) /\ Ready(j, n) /\ j.at = "write" /\ j.profile \in Upto(n)
      /\ Screen(n) /\ Running(n) /\ Stores(n) /\ Wires(n) /\ UNCHANGED <<photo, publication, profileOutbox, received>>
  BY <1>1 DEF Held, Running, Ready, Profile!Write, Profile!wire
<1>3. CASE /\ vault' = j.profile /\ shown' = [shown EXCEPT !.profile = j.profile]
           /\ Profile!Step(s, IF j.kind = "save" THEN "circle" ELSE "photo")
  <2>1. PICK at \in {"circle", "photo"} : at = IF j.kind = "save" THEN "circle" ELSE "photo"
    OBVIOUS
  <2>2. PICK d : d = [j EXCEPT !.at = at]
    OBVIOUS
  <2>3. d \in Jobs(n) /\ Ready(d, n) /\ Profile!Called(s, d)
    BY <1>1, <1>2, <1>3, <2>1, <2>2, JobMoves DEF Profile!Step
  <2>4. Running(n)'
    BY <1>2, <2>3, JobGoes
  <2>5. Screen(n)'
    BY <1>2, <1>3 DEF Screen
  <2> QED  BY <1>2, <1>3, <2>4, <2>5 DEF Held, Stores, Wires
<1>4. CASE /\ Profile!Over(s) /\ vault' = vault
           /\ shown' = IF j.kind = "save" THEN [Profile!Ended(s, TRUE) EXCEPT !.profile = j.profile]
                       ELSE [Profile!Ended(s, TRUE) EXCEPT !.photoError = TRUE]
  <2>1. Running(n)'
    BY <1>2, <1>4, JobEnds
  <2>2. PICK x : x = Profile!Ended(s, TRUE)
    OBVIOUS
  <2>3. x \in [phase : {shown.phase}, profile : Upto(n) \cup {Profile!NoProfile}, avatar : BOOLEAN,
               photoError : BOOLEAN, pending : BOOLEAN, busy : BOOLEAN]
    BY <1>2, <2>2, EndedScreen
  <2>4. Screen(n)'
    BY <1>2, <1>4, <2>2, <2>3 DEF Screen
  <2> QED  BY <1>2, <1>4, <2>1, <2>4 DEF Held, Stores, Wires
<1> QED  BY <1>1, <1>3, <1>4 DEF Profile!Write, Profile!SaveProfile

\* The photo is written, or the job ends.
LEMMA WritePhotoHeld ==
    ASSUME NEW n \in Nat, Held(n), NEW s \in Calls, Profile!WritePhoto(s)
    PROVE  Held(n)'
<1>1. PICK j : j = jobs[s]
  OBVIOUS
<1>2. /\ j \in Jobs(n) /\ Ready(j, n) /\ j.at = "photo"
      /\ Screen(n) /\ Running(n) /\ Stores(n) /\ Wires(n) /\ UNCHANGED <<vault, publication, profileOutbox, received>>
  BY <1>1 DEF Held, Running, Ready, Profile!WritePhoto, Profile!wire
<1>3. CASE /\ photo' = (j.input = "photo") /\ Profile!Step(s, "circle")
           /\ shown' = [shown EXCEPT !.avatar = photo', !.photoError = FALSE]
  <2>1. PICK b \in BOOLEAN : b = (j.input = "photo")
    OBVIOUS
  <2>2. photo' = b /\ shown' = [shown EXCEPT !.avatar = b, !.photoError = FALSE]
    BY <1>3, <2>1
  <2>3. PICK d : d = [j EXCEPT !.at = "circle"]
    OBVIOUS
  <2>4. d \in Jobs(n) /\ Ready(d, n) /\ Profile!Called(s, d)
    BY <1>1, <1>2, <1>3, <2>3, JobMoves DEF Profile!Step
  <2>5. Running(n)'
    BY <1>2, <2>4, JobGoes
  <2>6. Screen(n)' /\ Stores(n)'
    BY <1>2, <2>2 DEF Screen, Stores
  <2> QED  BY <1>2, <2>5, <2>6 DEF Held, Wires
<1>4. CASE /\ Profile!Over(s) /\ photo' = photo /\ shown' = [Profile!Ended(s, TRUE) EXCEPT !.photoError = TRUE]
  <2>1. Running(n)'
    BY <1>2, <1>4, JobEnds
  <2>2. PICK x : x = Profile!Ended(s, TRUE)
    OBVIOUS
  <2>3. x \in [phase : {shown.phase}, profile : Upto(n) \cup {Profile!NoProfile}, avatar : BOOLEAN,
               photoError : BOOLEAN, pending : BOOLEAN, busy : BOOLEAN]
    BY <1>2, <2>2, EndedScreen
  <2>4. Screen(n)' /\ Stores(n)'
    BY <1>2, <1>4, <2>2, <2>3 DEF Screen, Stores
  <2> QED  BY <1>2, <2>1, <2>4 DEF Held, Wires
<1> QED  BY <1>1, <1>3, <1>4 DEF Profile!WritePhoto, Profile!HoldPhoto

-----------------------------------------------------------------------------
(* Sharing.                                                                 *)

\* What a send may leave of an outbox and of what its audience has.
Sends(a, p, sent) ==
    [profileOutbox EXCEPT ![a] = (profileOutbox[a] \ Profile!Operation(a, p)) \cup {[profile |-> p, sent |-> sent]}]
WireMoves(a, p) == /\ profileOutbox' \in {profileOutbox, Sends(a, p, TRUE), Sends(a, p, FALSE)}
                   /\ received' \in {received, [received EXCEPT ![a] = @ \cup {p}]}

\* An event that is put on its way carries what the job holds.
LEMMA WiresKeep ==
    ASSUME NEW n, Wires(n), NEW a \in Profile!Audiences, NEW p \in Upto(n), WireMoves(a, p)
    PROVE  Wires(n)'
<1>1. ASSUME NEW sent \in BOOLEAN PROVE Sends(a, p, sent) \in [Profile!Audiences -> SUBSET Events(n)]
  <2>1. [profile |-> p, sent |-> sent] \in Events(n)
    BY DEF Events
  <2>2. (profileOutbox[a] \ Profile!Operation(a, p)) \cup {[profile |-> p, sent |-> sent]} \in SUBSET Events(n)
    BY <2>1 DEF Wires
  <2> QED  BY <2>2 DEF Wires, Sends
<1>2. profileOutbox' \in [Profile!Audiences -> SUBSET Events(n)]
  BY <1>1 DEF WireMoves, Wires
<1>3. received' \in [Profile!Audiences -> SUBSET Upto(n)]
  BY DEF WireMoves, Wires
<1> QED  BY <1>2, <1>3 DEF Wires

\* The audience of the Circle's profile.
LEMMA CircleAudience == Counted => profileEpoch \in Profile!Audiences
  BY DEF Counted, Profile!Audiences

\* What an outbox still holds is sent again.
LEMMA ReconcileHeld ==
    ASSUME NEW n \in Nat, Held(n), NEW a \in Profile!Audiences, Profile!Reconcile(a)
    PROVE  Held(n)'
<1>1. PICK e \in profileOutbox[a] : /\ profileOutbox' = [profileOutbox EXCEPT ![a] = (@ \ {e}) \cup {[e EXCEPT !.sent = TRUE]}]
                                    /\ received' = [received EXCEPT ![a] = @ \cup {e.profile}]
  BY DEF Profile!Reconcile
<1>2. Wires(n) /\ e \in Events(n)
  BY DEF Held, Wires
<1>3. PICK x : x = [e EXCEPT !.sent = TRUE]
  OBVIOUS
<1>4. x \in Events(n) /\ e.profile \in Upto(n)
  BY <1>2, <1>3 DEF Events
<1>5. Wires(n)'
  <2>1. profileOutbox' = [profileOutbox EXCEPT ![a] = (@ \ {e}) \cup {x}]
    BY <1>1, <1>3
  <2>2. profileOutbox' \in [Profile!Audiences -> SUBSET Events(n)]
    BY <1>2, <1>4, <2>1 DEF Wires
  <2>3. received' \in [Profile!Audiences -> SUBSET Upto(n)]
    BY <1>1, <1>2, <1>4 DEF Wires
  <2> QED  BY <2>2, <2>3 DEF Wires
<1>6. UNCHANGED <<vault, photo, publication, shown, jobs, active>>
  BY DEF Profile!Reconcile, Profile!disk, Profile!work
<1> QED  BY <1>5, <1>6 DEF Held, Stores, Screen, Running

\* With the Circle done the friends are next, or the job is over.
LEMMA FriendsNext ==
    ASSUME NEW n \in Nat, Held(n), NEW s \in Calls, jobs[s].at = "circle", NEW b \in BOOLEAN, Profile!ToFriends(s, b)
    PROVE  Screen(n)' /\ Running(n)' /\ shown'.phase = shown.phase
<1>1. PICK j : j = jobs[s]
  OBVIOUS
<1>2. j \in Jobs(n) /\ Ready(j, n) /\ j.at = "circle" /\ Screen(n) /\ Running(n) /\ j.profile \in Upto(n)
  BY <1>1 DEF Held, Running, Ready
<1>3. PICK c \in BOOLEAN : c = ((shown.photoError \/ (j.profile.mode = "photo" /\ ~shown.avatar)) \/ b)
  OBVIOUS
<1>4. CASE Profile!Over(s) /\ shown' = Profile!Ended(s, c)
  BY <1>2, <1>4, EndedScreen, JobEnds DEF Screen
<1>5. CASE Profile!Called(s, [j EXCEPT !.at = "friends", !.left = Friends, !.pending = b]) /\ shown' = shown
  <2>1. PICK d : d = [j EXCEPT !.at = "friends", !.left = Friends, !.pending = b]
    OBVIOUS
  <2>2. /\ d \in Jobs(n) /\ d.at = "friends" /\ d.kind = j.kind /\ d.input = j.input /\ d.profile = j.profile
    BY <1>2, <2>1 DEF Jobs
  <2>3. Ready(d, n)
    BY <1>2, <2>2 DEF Ready
  <2> QED  BY <1>2, <1>5, <2>1, <2>2, <2>3, JobGoes DEF Screen
<1> QED  BY <1>1, <1>3, <1>4, <1>5 DEF Profile!ToFriends

\* The Circle has it already, or the profile is on its way to it.
LEMMA ShareCircleSays ==
    ASSUME NEW s \in Calls, Profile!ShareCircle(s)
    PROVE  \/ \E b \in BOOLEAN : Profile!ToFriends(s, b) /\ UNCHANGED Profile!wire
           \/ /\ Profile!ToFriends(s, FALSE) \/ Profile!ToFriends(s, TRUE)
              /\ WireMoves(profileEpoch, [jobs[s].profile EXCEPT !.mode = "none"])
<1>1. PICK j : j = jobs[s]
  OBVIOUS
<1>2. PICK p : p = [j.profile EXCEPT !.mode = "none"]
  OBVIOUS
<1>3. PICK earlier : earlier = {e \in profileOutbox[profileEpoch] : e.profile.text # 0}
  OBVIOUS
<1>4. PICK conflict \in BOOLEAN : conflict = \E e \in {x \in earlier : x.profile.revision = j.profile.revision} : e.profile.text # j.profile.text
  OBVIOUS
<1>5. PICK b \in BOOLEAN : b = (conflict /\ j.profile.text # 0)
  OBVIOUS
<1>6. CASE Profile!ToFriends(s, b) /\ UNCHANGED Profile!wire
  BY <1>6
<1>7. CASE Profile!Attempt(profileEpoch, p, Profile!ToFriends(s, FALSE), Profile!ToFriends(s, TRUE))
  BY <1>1, <1>2, <1>7 DEF Profile!Attempt, WireMoves, Sends, Profile!wire
<1> QED  BY <1>1, <1>2, <1>3, <1>4, <1>5, <1>6, <1>7 DEF Profile!ShareCircle

\* The Circle gets the profile, and the friends come next.
LEMMA ShareCircleHeld ==
    ASSUME NEW n \in Nat, Held(n), Counted, NEW s \in Calls, Profile!ShareCircle(s)
    PROVE  Held(n)' /\ shown'.phase = shown.phase
<1>1. PICK j : j = jobs[s]
  OBVIOUS
<1>2. j.at = "circle" /\ j.profile \in Upto(n) /\ profileEpoch \in Profile!Audiences /\ UNCHANGED <<vault, photo, publication>>
  BY <1>1, CircleAudience DEF Held, Running, Ready, Profile!ShareCircle, Profile!disk
<1>3. PICK p : p = [j.profile EXCEPT !.mode = "none"]
  OBVIOUS
<1>4. p \in Upto(n)
  BY <1>2, <1>3 DEF Upto, Profile!Modes
<1>5. \/ \E b \in BOOLEAN : Profile!ToFriends(s, b) /\ UNCHANGED Profile!wire
      \/ (Profile!ToFriends(s, FALSE) \/ Profile!ToFriends(s, TRUE)) /\ WireMoves(profileEpoch, p)
  BY <1>1, <1>3, ShareCircleSays
<1>6. PICK b \in BOOLEAN : Profile!ToFriends(s, b)
  BY <1>5
<1>7. Wires(n)'
  BY <1>2, <1>4, <1>5, WiresKeep DEF Held, Wires, Profile!wire
<1>8. Screen(n)' /\ Running(n)' /\ shown'.phase = shown.phase
  BY <1>1, <1>2, <1>6, FriendsNext
<1> QED  BY <1>2, <1>7, <1>8 DEF Held, Stores

\* One friend after the other.
LEMMA ShareFriendHeld ==
    ASSUME NEW n \in Nat, Held(n), NEW s \in Calls, Profile!ShareFriend(s)
    PROVE  Held(n)'
<1>1. PICK j : j = jobs[s]
  OBVIOUS
<1>2. /\ j \in Jobs(n) /\ Ready(j, n) /\ j.at = "friends" /\ j.profile \in Upto(n) /\ Apart
      /\ Screen(n) /\ Running(n) /\ j.left \subseteq Friends
  BY <1>1 DEF Held, Running, Ready, Jobs, Profile!ShareFriend, Apart, Profile!disk, Profile!wire
<1>3. CASE Profile!Over(s) /\ \E b \in BOOLEAN : shown' = Profile!Ended(s, b)
  BY <1>2, <1>3, JobEnds, EndedScreen, ApartHeld DEF Screen
<1>4. ASSUME NEW f \in j.left, shown' = shown,
             \/ Profile!Called(s, [j EXCEPT !.left = @ \ {f}])
             \/ Profile!Called(s, [[j EXCEPT !.left = @ \ {f}] EXCEPT !.pending = TRUE])
      PROVE  Held(n)'
  <2>1. PICK d : d = [j EXCEPT !.left = @ \ {f}]
    OBVIOUS
  <2>2. /\ d \in Jobs(n) /\ d.at = "friends" /\ d.kind = j.kind /\ d.input = j.input /\ d.profile = j.profile
    BY <1>2, <2>1 DEF Jobs
  <2>3. PICK e : e = [d EXCEPT !.pending = TRUE]
    OBVIOUS
  <2>4. /\ e \in Jobs(n) /\ e.at = "friends" /\ e.kind = j.kind /\ e.input = j.input /\ e.profile = j.profile
    BY <2>2, <2>3 DEF Jobs
  <2>5. Ready(d, n) /\ Ready(e, n)
    BY <1>2, <2>2, <2>4 DEF Ready
  <2>6. Running(n)'
    BY <1>2, <1>4, <2>1, <2>2, <2>3, <2>4, <2>5, JobGoes
  <2> QED  BY <1>2, <1>4, <2>6, ApartHeld DEF Screen
<1>5. ASSUME NEW f \in j.left, NEW first \in Upto(n), shown' = shown,
             Profile!Called(s, [[j EXCEPT !.left = @ \ {f}] EXCEPT !.of = f, !.what = first,
                                  !.at = IF j.profile.mode = "none" THEN "send" ELSE "publish",
                                  !.pending = @ \/ (first # j.profile)])
      PROVE  Held(n)'
  <2>1. PICK b \in BOOLEAN : b = (j.pending \/ (first # j.profile))
    BY <1>2 DEF Jobs
  <2>2. PICK at \in {"send", "publish"} : at = IF j.profile.mode = "none" THEN "send" ELSE "publish"
    OBVIOUS
  <2>3. PICK d : d = [j EXCEPT !.left = @ \ {f}]
    OBVIOUS
  <2>4. /\ d \in Jobs(n) /\ d.kind = j.kind /\ d.input = j.input /\ d.profile = j.profile /\ d.pending = j.pending
    BY <1>2, <2>3 DEF Jobs
  <2>5. PICK e : e = [d EXCEPT !.of = f]
    OBVIOUS
  <2>6. /\ e \in Jobs(n) /\ e.kind = j.kind /\ e.input = j.input /\ e.profile = j.profile /\ e.of = f /\ e.pending = j.pending
    BY <1>2, <2>4, <2>5 DEF Jobs
  <2>7. PICK g : g = [e EXCEPT !.what = first]
    OBVIOUS
  <2>8. /\ g \in Jobs(n) /\ g.kind = j.kind /\ g.input = j.input /\ g.profile = j.profile /\ g.of = f /\ g.what = first
        /\ g.pending = j.pending
    BY <2>6, <2>7 DEF Jobs
  <2>9. PICK h : h = [g EXCEPT !.at = at]
    OBVIOUS
  <2>10. /\ h \in Jobs(n) /\ h.kind = j.kind /\ h.input = j.input /\ h.profile = j.profile /\ h.of = f /\ h.what = first
         /\ h.at = at
    BY <2>8, <2>9 DEF Jobs
  <2>11. PICK k : k = [h EXCEPT !.pending = b]
    OBVIOUS
  <2>12. /\ k \in Jobs(n) /\ k.kind = j.kind /\ k.input = j.input /\ k.profile = j.profile /\ k.of = f /\ k.what = first
         /\ k.at = at
    BY <2>10, <2>11 DEF Jobs
  <2>13. Ready(k, n)
    BY <1>2, <2>2, <2>12 DEF Ready
  <2>14. k = [d EXCEPT !.of = f, !.what = first, !.at = at, !.pending = b]
    BY <2>3, <2>5, <2>7, <2>9, <2>11 DEF Jobs
  <2>15. Profile!Called(s, k)
    BY <1>5, <2>1, <2>2, <2>3, <2>4, <2>14
  <2>16. Running(n)'
    BY <1>2, <2>12, <2>13, <2>15, JobGoes
  <2> QED  BY <1>2, <1>5, <2>16, ApartHeld DEF Screen
<1>6. CASE j.left = {}
  <2>1. Profile!Over(s) /\ shown' = Profile!Ended(s, j.pending) /\ j.pending \in BOOLEAN
    BY <1>1, <1>2, <1>6 DEF Profile!ShareFriend, Jobs
  <2> QED  BY <1>3, <2>1
<1>7. CASE j.left # {}
  <2>1. PICK f \in j.left :
          LET queued == {e \in profileOutbox[f] : ~e.sent}
              first == IF queued = {} \/ j.profile.mode # "none" THEN j.profile
                       ELSE (CHOOSE e \in queued : TRUE).profile
              next == [j EXCEPT !.left = @ \ {f}]
          IN
          \/ Profile!Called(s, next) /\ shown' = shown
          \/ Profile!Over(s) /\ shown' = Profile!Ended(s, TRUE)
          \/ Profile!Called(s, [next EXCEPT !.pending = TRUE]) /\ shown' = shown
          \/ /\ Profile!Called(s, [next EXCEPT !.of = f, !.what = first,
                                !.at = IF j.profile.mode = "none" THEN "send" ELSE "publish",
                                !.pending = @ \/ (first # j.profile)])
             /\ shown' = shown
    BY <1>1, <1>7, Zenon DEF Profile!ShareFriend
  <2>2. PICK queued : queued = {e \in profileOutbox[f] : ~e.sent}
    OBVIOUS
  <2>3. PICK first : first = IF queued = {} \/ j.profile.mode # "none" THEN j.profile
                             ELSE (CHOOSE e \in queued : TRUE).profile
    OBVIOUS
  <2>4. first \in Upto(n)
    <3>1. f \in Profile!Audiences
      BY <1>2 DEF Profile!Audiences
    <3>2. queued \subseteq Events(n)
      BY <2>2, <3>1 DEF Held, Wires
    <3>3. CASE queued = {} \/ j.profile.mode # "none"
      BY <1>2, <2>3, <3>3
    <3>4. CASE ~(queued = {} \/ j.profile.mode # "none")
      <4>1. PICK e : e = CHOOSE x \in queued : TRUE
        OBVIOUS
      <4>2. e \in Events(n)
        BY <3>2, <3>4, <4>1
      <4> QED  BY <2>3, <3>4, <4>1, <4>2 DEF Events
    <3> QED  BY <3>3, <3>4
  <2>5. CASE Profile!Called(s, [j EXCEPT !.left = @ \ {f}]) /\ shown' = shown
    BY <1>4, <2>5
  <2>6. CASE Profile!Over(s) /\ shown' = Profile!Ended(s, TRUE)
    BY <1>3, <2>6
  <2>7. CASE Profile!Called(s, [[j EXCEPT !.left = @ \ {f}] EXCEPT !.pending = TRUE]) /\ shown' = shown
    BY <1>4, <2>7
  <2>8. CASE /\ Profile!Called(s, [[j EXCEPT !.left = @ \ {f}] EXCEPT !.of = f, !.what = first,
                               !.at = IF j.profile.mode = "none" THEN "send" ELSE "publish",
                               !.pending = @ \/ (first # j.profile)])
             /\ shown' = shown
    BY <1>5, <2>4, <2>8
  <2> QED  BY <2>1, <2>2, <2>3, <2>5, <2>6, <2>7, <2>8, Zenon
<1> QED  BY <1>6, <1>7

\* What is sent to a friend is what the job holds.
LEMMA SendHeld == ASSUME NEW n \in Nat, Held(n), NEW s \in Calls, Profile!Send(s) PROVE Held(n)'
<1>1. PICK j : j = jobs[s]
  OBVIOUS
<1>2. /\ j \in Jobs(n) /\ Ready(j, n) /\ j.at = "send" /\ j.of \in Profile!Audiences /\ j.what \in Upto(n)
      /\ UNCHANGED <<vault, photo, publication, shown>>
  BY <1>1 DEF Held, Running, Ready, Profile!Audiences, Profile!Send, Profile!disk
<1>3. (Profile!Back(s) \/ Profile!BackLater(s)) /\ WireMoves(j.of, j.what)
  BY <1>1, Zenon DEF Profile!Send, Profile!Attempt, WireMoves, Sends, Profile!wire
<1>4. Running(n)'
  <2>1. /\ [j EXCEPT !.at = "friends"] \in Jobs(n) /\ Ready([j EXCEPT !.at = "friends"], n)
        /\ [j EXCEPT !.at = "friends", !.pending = TRUE] \in Jobs(n)
        /\ Ready([j EXCEPT !.at = "friends", !.pending = TRUE], n)
    BY <1>2, JobMoves
  <2>2. Profile!Called(s, [j EXCEPT !.at = "friends"]) \/ Profile!Called(s, [j EXCEPT !.at = "friends", !.pending = TRUE])
    BY <1>1, <1>3 DEF Profile!Back, Profile!BackLater, Profile!Step
  <2> QED  BY <2>1, <2>2, JobGoes DEF Held
<1>5. Wires(n)'
  BY <1>2, <1>3, WiresKeep DEF Held
<1> QED  BY <1>2, <1>4, <1>5 DEF Held, Stores, Screen

\* What was sent to a friend is put down as published.
LEMMA PublishHeld ==
    ASSUME NEW n \in Nat, Held(n), NEW s \in Calls, Profile!Publish(s)
    PROVE  Held(n)'
<1>1. PICK j : j = jobs[s]
  OBVIOUS
<1>2. /\ j \in Jobs(n) /\ Ready(j, n) /\ j.at = "publish" /\ j.of \in Friends /\ j.profile \in Upto(n)
      /\ UNCHANGED <<vault, photo, profileOutbox, received, shown>> /\ publication[j.of] \in Upto(n) \cup {Profile!NoProfile}
      /\ publication \in [Friends -> Upto(n) \cup {Profile!NoProfile}]
  BY <1>1 DEF Held, Running, Stores, Ready, Profile!Publish, Profile!wire
<1>3. PICK what \in Upto(n) : what = IF publication[j.of] = Profile!NoProfile THEN j.profile ELSE publication[j.of]
  BY <1>2
<1>4. Profile!Called(s, [j EXCEPT !.at = "upload", !.what = what])
  BY <1>1, <1>3 DEF Profile!Publish
<1>5. PICK d : d = [j EXCEPT !.at = "upload", !.what = what]
  OBVIOUS
<1>6. /\ d \in Jobs(n) /\ d.at = "upload" /\ d.kind = j.kind /\ d.input = j.input /\ d.profile = j.profile
      /\ d.of = j.of /\ d.what = what
  BY <1>2, <1>3, <1>5 DEF Jobs
<1>7. Ready(d, n)
  BY <1>2, <1>3, <1>6 DEF Ready
<1>8. Running(n)'
  BY <1>4, <1>5, <1>6, <1>7, JobGoes DEF Held
<1>9. publication' = publication \/ publication' = [publication EXCEPT ![j.of] = what]
  <2>1. \/ publication' = publication
        \/ publication' = [publication EXCEPT ![j.of] = IF @ = Profile!NoProfile THEN j.profile ELSE @]
    BY <1>1 DEF Profile!Publish
  <2> QED  BY <1>2, <1>3, <2>1
<1>10. Stores(n)'
  BY <1>2, <1>3, <1>9 DEF Held, Stores
<1> QED  BY <1>2, <1>8, <1>10 DEF Held, Wires, Screen

\* What is uploaded is what was sent.
LEMMA UploadHeld ==
    ASSUME NEW n \in Nat, Held(n), NEW s \in Calls, Profile!Upload(s)
    PROVE  Held(n)'
<1>1. PICK j : j = jobs[s]
  OBVIOUS
<1>2. /\ j \in Jobs(n) /\ Ready(j, n) /\ j.at = "upload" /\ j.of \in Profile!Audiences /\ j.what \in Upto(n)
      /\ UNCHANGED <<vault, photo, shown>>
  BY <1>1 DEF Held, Running, Ready, Profile!Audiences, Profile!Upload
<1>3. PICK at \in {"publish", "friends"} : at = IF j.what # j.profile THEN "publish" ELSE "friends"
  OBVIOUS
<1>4. /\ \/ Profile!Step(s, at) /\ publication' = [publication EXCEPT ![j.of] = Profile!NoProfile]
         \/ Profile!BackLater(s) /\ publication' = publication
      /\ WireMoves(j.of, j.what)
  BY <1>1, <1>3, Zenon DEF Profile!Upload, Profile!Attempt, WireMoves, Sends, Profile!wire
<1>5. Running(n)'
  <2>1. /\ [j EXCEPT !.at = at] \in Jobs(n) /\ Ready([j EXCEPT !.at = at], n)
        /\ [j EXCEPT !.at = "friends", !.pending = TRUE] \in Jobs(n)
        /\ Ready([j EXCEPT !.at = "friends", !.pending = TRUE], n)
    BY <1>2, JobMoves
  <2>2. Profile!Called(s, [j EXCEPT !.at = at]) \/ Profile!Called(s, [j EXCEPT !.at = "friends", !.pending = TRUE])
    BY <1>1, <1>4 DEF Profile!BackLater, Profile!Step
  <2> QED  BY <2>1, <2>2, JobGoes DEF Held
<1>6. Wires(n)'
  BY <1>2, <1>4, WiresKeep DEF Held
<1>7. Stores(n)'
  BY <1>2, <1>4 DEF Held, Stores
<1> QED  BY <1>2, <1>5, <1>6, <1>7 DEF Held, Screen

-----------------------------------------------------------------------------
(* The world.                                                               *)

\* A process that ends leaves no job.
LEMMA ForgetHeld ==
    ASSUME NEW n \in Nat, Profile!Forget
    PROVE  Screen(n)' /\ Running(n)' /\ shown'.phase = "idle"
<1>1. shown' = Profile!Unloaded /\ active' = 0 /\ jobs' = [s \in Calls |-> Profile!NoJob]
  BY DEF Profile!Forget
<1>2. Screen(n)' /\ shown'.phase = "idle"
  BY <1>1, Nothing DEF Screen
<1>3. Running(n)'
  BY <1>1, Nothing DEF Running
<1> QED  BY <1>2, <1>3

\* The process dies, the account moves to another phone, or friendships change.
LEMMA WorldHeld ==
    ASSUME NEW n \in Nat, Held(n), Profile!Kill \/ Profile!NewPhone \/ Profile!EpochMoves
    PROVE  Held(n)'
<1>1. CASE Profile!Kill
  BY <1>1, ForgetHeld DEF Profile!Kill, Held, Stores, Wires, Profile!disk, Profile!wire
<1>2. CASE Profile!NewPhone
  <2>1. Screen(n)' /\ Running(n)'
    BY <1>2, ForgetHeld DEF Profile!NewPhone
  <2>2. Stores(n)'
    BY <1>2 DEF Profile!NewPhone, Stores
  <2>3. Wires(n)'
    BY <1>2 DEF Profile!NewPhone, Held, Wires
  <2> QED  BY <2>1, <2>2, <2>3 DEF Held
<1>3. CASE Profile!EpochMoves
  BY <1>3 DEF Profile!EpochMoves, Held, Stores, Wires, Screen, Running, Profile!disk,
       Profile!wire, Profile!work
<1> QED  BY <1>1, <1>2, <1>3

\* A job that is under way finds the app open, and leaves it open.
LEMMA OpenStays ==
    ASSUME NEW n \in Nat, Held(n), Counted, NEW s \in Calls, Profile!JobStep(s)
    PROVE  shown'.phase = shown.phase /\ jobs[s].at # "idle"
<1>1. jobs[s].at # "idle"
  BY DEF Profile!JobStep, Profile!Start, Profile!Write, Profile!WritePhoto, Profile!ShareCircle,
       Profile!ShareFriend, Profile!Send, Profile!Publish, Profile!Upload
<1>2. Screen(n) /\ jobs[s].pending \in BOOLEAN
  BY DEF Held, Running, Jobs
<1>3. \A b \in BOOLEAN : Profile!Ended(s, b).phase = shown.phase
  BY <1>2, EndedScreen
<1>5. CASE Profile!Start(s)
  BY <1>2, <1>5 DEF Profile!Start, Screen
<1>6. CASE Profile!Write(s)
  <2>1. PICK x : x = Profile!Ended(s, TRUE)
    OBVIOUS
  <2>2. x \in [phase : {shown.phase}, profile : Upto(n) \cup {Profile!NoProfile}, avatar : BOOLEAN,
               photoError : BOOLEAN, pending : BOOLEAN, busy : BOOLEAN]
    BY <1>2, <2>1, EndedScreen
  <2> QED  BY <1>2, <1>6, <2>1, <2>2 DEF Profile!Write, Screen
<1>7. CASE Profile!WritePhoto(s)
  <2>1. PICK x : x = Profile!Ended(s, TRUE)
    OBVIOUS
  <2>2. x \in [phase : {shown.phase}, profile : Upto(n) \cup {Profile!NoProfile}, avatar : BOOLEAN,
               photoError : BOOLEAN, pending : BOOLEAN, busy : BOOLEAN]
    BY <1>2, <2>1, EndedScreen
  <2> QED  BY <1>2, <1>7, <2>1, <2>2 DEF Profile!WritePhoto, Screen
<1>8. CASE Profile!ShareCircle(s)
  BY <1>1, <1>8, ShareCircleHeld
<1>9. CASE Profile!ShareFriend(s)
  BY <1>2, <1>3, <1>9, Zenon DEF Profile!ShareFriend
<1>10. CASE Profile!Send(s) \/ Profile!Publish(s) \/ Profile!Upload(s)
  BY <1>10 DEF Profile!Send, Profile!Publish, Profile!Upload
<1> QED  BY <1>1, <1>5, <1>6, <1>7, <1>8, <1>9, <1>10 DEF Profile!JobStep

\* Mishaps are counted; phones and epochs are within their bounds.
LEMMA CountedStep ==
    ASSUME NEW n \in Nat, Held(n), Counted, Profile!ProfileNext
    PROVE  Counted' /\ profileMishaps' \in {profileMishaps, profileMishaps + 1}
<1>1. profileMishaps' = profileMishaps \/ Profile!Mishap
  BY Zenon DEF Profile!ProfileNext, Profile!Load, Profile!Kill, Profile!NewPhone,
       Profile!EpochMoves, Profile!Reconcile, Profile!Save, Profile!SetPhoto, Profile!Sync,
       Profile!Call, Profile!JobStep, Profile!Start, Profile!Write,
         Profile!WritePhoto, Profile!ShareCircle, Profile!ShareFriend, Profile!Send, Profile!Publish, Profile!Upload, Profile!Attempt, Profile!Quiet
<1>2. profileMishaps' \in 0..ProfileMaxMishaps /\ profileMishaps' \in {profileMishaps, profileMishaps + 1}
  BY <1>1, ProfileBounds DEF Profile!Mishap, Counted
<1>3. phone' = phone \/ (phone < MaxPhones /\ phone' = phone + 1)
  BY Zenon DEF Profile!ProfileNext, Profile!Load, Profile!Kill, Profile!NewPhone,
       Profile!EpochMoves, Profile!Reconcile, Profile!Save, Profile!SetPhoto, Profile!Sync,
       Profile!Call, Profile!JobStep, Profile!Start, Profile!Write,
         Profile!WritePhoto, Profile!ShareCircle, Profile!ShareFriend, Profile!Send, Profile!Publish, Profile!Upload
<1>4. profileEpoch' = profileEpoch \/ (profileEpoch < ProfileMaxEpoch /\ profileEpoch' = profileEpoch + 1)
  BY Zenon DEF Profile!ProfileNext, Profile!Load, Profile!Kill, Profile!NewPhone,
       Profile!EpochMoves, Profile!Reconcile, Profile!Save, Profile!SetPhoto, Profile!Sync,
       Profile!Call, Profile!JobStep, Profile!Start, Profile!Write,
         Profile!WritePhoto, Profile!ShareCircle, Profile!ShareFriend, Profile!Send, Profile!Publish, Profile!Upload
<1>5. broken' \in BOOLEAN
  <2>1. broken' = broken \/ broken' = TRUE
    BY Zenon DEF Profile!ProfileNext, Profile!Load, Profile!Kill, Profile!NewPhone,
         Profile!EpochMoves, Profile!Reconcile, Profile!Save, Profile!SetPhoto, Profile!Sync,
         Profile!Call, Profile!JobStep, Profile!Start, Profile!Write,
           Profile!WritePhoto, Profile!ShareCircle, Profile!ShareFriend, Profile!Send, Profile!Publish, Profile!Upload
  <2> QED  BY <2>1 DEF Counted
<1>6. phone' \in 1..MaxPhones /\ profileEpoch' \in 1..ProfileMaxEpoch
  BY <1>3, <1>4, ProfileBounds DEF Counted
<1> QED  BY <1>2, <1>5, <1>6 DEF Counted

\* The reach is a natural number.
LEMMA Below ==
    ASSUME NEW k \in Nat, NEW d \in {0, 1}
    PROVE  ProfileMaxRevision + k - d \in Nat
  BY ProfileBounds

\* Every step of the profile keeps the invariant.
LEMMA ProfileStepInv == ProfileInv /\ Profile!ProfileNext => ProfileInv'
<1> SUFFICES ASSUME ProfileInv, Profile!ProfileNext PROVE ProfileInv'
  OBVIOUS
<1>1. Counted /\ profileMishaps \in Nat /\ shown.phase \in {"idle", "ready"}
  BY DEF ProfileInv, Counted, Held, Screen
<1>2. Reach \in Nat
  BY <1>1, ProfileBounds DEF Reach
<1>3. PICK n \in Nat : n = Reach
  BY <1>2
<1>4. Held(n)
  BY <1>3 DEF ProfileInv
<1>5. Counted' /\ profileMishaps' \in {profileMishaps, profileMishaps + 1}
  BY <1>1, <1>4, CountedStep
<1>6. ASSUME shown'.phase \in {"idle", "ready"}, profileMishaps' = profileMishaps + 1 \/ shown'.phase = shown.phase
      PROVE  \E m \in Nat : m = Reach' /\ Held(m)
  <2>1. PICK k \in Nat : k = profileMishaps' /\ (k = profileMishaps \/ k = profileMishaps + 1)
    BY <1>1, <1>5
  <2>a. PICK d \in {0, 1} : d = (IF shown'.phase = "idle" THEN 1 ELSE 0)
    BY Zenon
  <2>b. PICK d0 \in {0, 1} : d0 = (IF shown.phase = "idle" THEN 1 ELSE 0)
    BY Zenon
  <2>2. PICK m : m = ProfileMaxRevision + k - d
    OBVIOUS
  <2>3. m \in Nat
    BY <2>2, Below
  <2>4. m = Reach'
    BY <2>1, <2>2, <2>a DEF Reach
  <2>5. n <= m
    <3>1. n = ProfileMaxRevision + profileMishaps - d0
      BY <1>3, <2>b DEF Reach
    <3>2. CASE k = profileMishaps + 1
      BY <1>1, <2>1, <2>2, <3>1, <3>2, ProfileBounds
    <3>3. CASE k = profileMishaps /\ shown'.phase = shown.phase
      <4>1. d = d0
        BY <2>a, <2>b, <3>3
      <4> QED  BY <1>1, <2>2, <3>1, <3>3, <4>1, ProfileBounds
    <3> QED  BY <1>1, <1>6, <2>1, <3>2, <3>3
  <2> QED  BY <1>4, <2>3, <2>4, <2>5, Wider
<1>7. CASE Profile!Load
  <2>1. Held(n + 1)' /\ shown'.phase = "ready" /\ shown.phase = "idle" /\ profileMishaps' = profileMishaps
    <3>1. Held(n + 1)'
      BY <1>4, <1>7, LoadHeld
    <3>2. shown'.phase = "ready"
      BY <1>7 DEF Profile!Load, Profile!Unloaded
    <3> QED  BY <1>7, <3>1, <3>2 DEF Profile!Load
  <2>2. Reach' = n + 1
    BY <1>1, <1>3, <2>1, ProfileBounds DEF Reach
  <2>3. NoneBefore'
    BY <2>1 DEF NoneBefore
  <2> QED  BY <1>5, <2>1, <2>2, <2>3 DEF ProfileInv
<1>8. CASE Profile!Kill \/ Profile!NewPhone \/ Profile!EpochMoves
  <2>1. shown'.phase \in {"idle", "ready"} /\ profileMishaps' = profileMishaps + 1
    BY <1>1, <1>8 DEF Profile!Kill, Profile!NewPhone, Profile!EpochMoves, Profile!Mishap,
         Profile!Forget, Profile!Unloaded
  <2>2. PICK m \in Nat : m = Reach' /\ Held(m)
    BY <1>6, <2>1
  <2>3. Held(m)'
    BY <1>8, <2>2, WorldHeld
  <2>4. NoneBefore'
    <3>1. CASE Profile!EpochMoves
      BY <3>1 DEF Profile!EpochMoves, Profile!work, ProfileInv, NoneBefore
    <3>2. CASE Profile!Kill \/ Profile!NewPhone
      BY <3>2, Nothing DEF Profile!Kill, Profile!NewPhone, Profile!Forget, NoneBefore
    <3> QED  BY <1>8, <3>1, <3>2
  <2> QED  BY <1>5, <2>2, <2>3, <2>4 DEF ProfileInv
<1>9. ASSUME NEW a \in Profile!Audiences, Profile!Reconcile(a) PROVE ProfileInv'
  <2>1. shown' = shown /\ jobs' = jobs
    BY <1>9 DEF Profile!Reconcile, Profile!work
  <2>2. PICK m \in Nat : m = Reach' /\ Held(m)
    BY <1>1, <1>6, <2>1
  <2>3. Held(m)'
    BY <1>9, <2>2, ReconcileHeld
  <2> QED  BY <1>5, <2>1, <2>2, <2>3 DEF ProfileInv, NoneBefore
<1>10. ASSUME NEW s \in Calls, Profile!Save(s) \/ Profile!SetPhoto(s) \/ Profile!Sync(s) PROVE ProfileInv'
  <2>1. shown' = shown /\ shown.phase = "ready"
    BY <1>10 DEF Profile!Save, Profile!SetPhoto, Profile!Sync, Profile!Call
  <2>2. PICK m \in Nat : m = Reach' /\ Held(m)
    BY <1>1, <1>6, <2>1
  <2>3. Held(m)'
    BY <1>10, <2>2, CallHeld
  <2> QED  BY <1>5, <2>1, <2>2, <2>3 DEF ProfileInv, NoneBefore
<1>11. ASSUME NEW s \in Calls, Profile!JobStep(s) PROVE ProfileInv'
  <2>1. shown'.phase = shown.phase /\ shown.phase = "ready"
    BY <1>1, <1>4, <1>11, OpenStays DEF ProfileInv, NoneBefore
  <2>2. PICK m \in Nat : m = Reach' /\ Held(m)
    BY <1>1, <1>6, <2>1
  <2>3. ProfileMaxRevision <= m
    <3>1. PICK k \in Nat : k = profileMishaps'
      BY <1>1, <1>5
    <3>2. m = ProfileMaxRevision + k - 0
      BY <2>1, <2>2, <3>1 DEF Reach
    <3> QED  BY <3>2, ProfileBounds
  <2>4. Held(m)'
    BY <1>1, <1>11, <2>2, <2>3, StartHeld, WriteHeld, WritePhotoHeld, ShareCircleHeld,
         ShareFriendHeld, SendHeld, PublishHeld,
       UploadHeld DEF Profile!JobStep
  <2> QED  BY <1>5, <2>1, <2>2, <2>4 DEF ProfileInv, NoneBefore
<1> QED  BY <1>7, <1>8, <1>9, <1>10, <1>11 DEF Profile!ProfileNext

-----------------------------------------------------------------------------
(* PART 2.  The profile of a Circle.                                          *)

\* What the phone counts are sets as they are counted.
LEMMA SharingCount == \A S : Sharing!Cardinality(S) = Cardinality(S)
  BY DEF Sharing!Cardinality, Cardinality

Draft == [status : {"queued", "sent", "cancelled"}, revision : Nat, epoch : Nat, picture : Nat]
CircleRecords == [made : BOOLEAN, closed : BOOLEAN, epoch : 1..SharingMaxEpoch, revision : Nat,
                  members : SUBSET Peers, invited : SUBSET (Peers \cup Invitees),
                  shown : [epoch : Nat, picture : Nat]]
DetailJobs == [kind : {"none", "share", "update", "retry", "recover"},
               at : {"idle", "details", "context", "rebind", "send", "upload", "cancel"},
               epoch : Nat, revision : Nat, picture : Nat, of : Nat]
Creations == [saved : BOOLEAN, known : BOOLEAN, sent : BOOLEAN, done : BOOLEAN]

\* The Circle at the service; nobody has seen more than it has.
CircleShape ==
    /\ sharingCircle \in CircleRecords /\ seen \in [Peers -> Nat]
    /\ \A p \in Peers : seen[p] <= sharingCircle.revision
    /\ Sharing!PictureForAudience

\* The profiles that a phone makes are numbered; each follows one that the relay had.
OutboxShape ==
    /\ \E n \in Nat : Sharing!Ops = 1..n
    /\ sharingOutbox \in [Sharing!Ops -> Draft]
    /\ sharingRelay \in [Sharing!Ops -> {"none", "committed", "fenced"}]
    /\ \A o \in Sharing!Ops : /\ sharingOutbox[o].picture \in {0, sharingOutbox[o].epoch}
                              /\ sharingOutbox[o].revision <= sharingCircle.revision + 1
                              /\ sharingRelay[o] = "committed" => sharingCircle.revision > 0

\* One profile waits at a time: what is about to be written finds none, and is not
\* the first.
OneWaits ==
    /\ \A o, q \in Sharing!Pending : o = q
    /\ sharingJob.at \in {"rebind", "send"} => Sharing!Pending = {} /\ Sharing!Ops # {} /\ sharingJob.revision <= sharingCircle.revision
    /\ sharingJob.at \in {"upload", "cancel"} => sharingJob.of \in Sharing!Ops

\* A creation is saved while it runs, and it has been sent before it is done.
CreationKept ==
    /\ maker.at # "idle" => creation.saved
    /\ maker.at \in {"invite", "ask"} \/ creation.sent \/ creation.done => sharingCircle.revision > 0
    /\ maker.guests \subseteq Invitees
    /\ Sharing!NoStrayCircle

SharingInv ==
    /\ CircleShape /\ OutboxShape /\ OneWaits /\ CreationKept
    /\ creation \in Creations /\ sharingJob \in DetailJobs

\* Who is selected to be invited is somebody the admin knows.
Picked == picks \subseteq Peers

-----------------------------------------------------------------------------
\* The Circle is not made yet, and nothing is queued.
LEMMA SharingInitInv == Sharing!SharingInit => SharingInv /\ Picked
<1> SUFFICES ASSUME Sharing!SharingInit PROVE SharingInv
  BY DEF Sharing!SharingInit, Picked
<1>1. Sharing!Ops = {} /\ Sharing!Ops = 1..0 /\ 0 \in Nat /\ Sharing!Pending = {}
  BY DEF Sharing!SharingInit, Sharing!Ops, Sharing!Pending
<1>2. CircleShape
  BY SharingBounds DEF Sharing!SharingInit, CircleShape, CircleRecords, Sharing!PictureForAudience
<1>3. OutboxShape
  <2>1. sharingOutbox \in [Sharing!Ops -> Draft] /\ sharingRelay \in [Sharing!Ops -> {"none", "committed", "fenced"}]
    BY <1>1 DEF Sharing!SharingInit
  <2>2. \E n \in Nat : Sharing!Ops = 1..n
    BY <1>1
  <2> QED  BY <1>1, <2>1, <2>2 DEF OutboxShape
<1>4. OneWaits
  BY <1>1 DEF Sharing!SharingInit, OneWaits, Sharing!NoJob
<1>5. CreationKept /\ creation \in Creations /\ sharingJob \in DetailJobs
  BY DEF Sharing!SharingInit, Sharing!Rests, CreationKept, Sharing!NoStrayCircle, Sharing!NoCreation, Creations,
       Sharing!NoJob, DetailJobs
<1> QED  BY <1>2, <1>3, <1>4, <1>5 DEF SharingInv

\* What the invariant says of the Circle and its profiles.
LEMMA SharingSays == SharingInv => Sharing!SharingTypeOK /\ Sharing!NoStrayCircle /\ Sharing!PictureForAudience
<1> SUFFICES ASSUME SharingInv PROVE Sharing!SharingTypeOK
  BY DEF SharingInv, CircleShape, CreationKept
<1>1. Sharing!Cardinality(Sharing!Pending) <= 1
  <2>1. CASE Sharing!Pending = {}
    BY <2>1, FS_EmptySet, SharingCount
  <2>2. CASE Sharing!Pending # {}
    <3>1. PICK o : Sharing!Pending = {o}
      BY <2>2 DEF SharingInv, OneWaits
    <3> QED  BY <3>1, FS_Singleton, SharingCount
  <2> QED  BY <2>1, <2>2
<1> QED  BY <1>1 DEF SharingInv, CircleShape, CircleRecords, Sharing!SharingTypeOK

\* What the invariant gives of the relay's operations.
LEMMA Drafted == ASSUME OutboxShape
                 PROVE  /\ Sharing!Pending \subseteq Sharing!Ops /\ Sharing!Sent \subseteq Sharing!Ops
                        /\ Sharing!Ops \subseteq Nat /\ (Sharing!Ops # {} => Sharing!FirstOp \in Sharing!Ops)
                        /\ \A o \in Sharing!Ops : sharingOutbox[o] \in Draft /\ sharingRelay[o] \in {"none", "committed", "fenced"}
<1>1. PICK n \in Nat : Sharing!Ops = 1..n
  BY DEF OutboxShape
<1> QED  BY <1>1 DEF OutboxShape, Sharing!Pending, Sharing!Sent, Sharing!FirstOp

\* A new profile is numbered after the others.
LEMMA Numbered == ASSUME OutboxShape
                  PROVE  LET o == Sharing!Cardinality(Sharing!Ops) + 1
                         IN  o \in Nat /\ o \notin Sharing!Ops /\ \E n \in Nat : Sharing!Ops \cup {o} = 1..n
<1>1. PICK n \in Nat : Sharing!Ops = 1..n
  BY DEF OutboxShape
<1>2. Sharing!Cardinality(Sharing!Ops) = n
  <2>1. Sharing!Cardinality(1..n) = IF 1 > n THEN 0 ELSE n - 1 + 1
    BY FS_Interval, SharingCount
  <2> QED  BY <1>1, <2>1
<1>3. 1..n \cup {n + 1} = 1..(n + 1) /\ n + 1 \in Nat /\ n + 1 \notin 1..n
  OBVIOUS
<1> QED  BY <1>1, <1>2, <1>3

\* Of numbers that are bounded one is the largest.
LEMMA LargestOf ==
    ASSUME NEW b \in Nat, NEW S \in SUBSET (0..b), S # {}
    PROVE  Sharing!Max(S) \in S /\ \A x \in S : x <= Sharing!Max(S)
<1> DEFINE T == {b - k : k \in S}
<1>1. T \in SUBSET Nat /\ T # {}
  <2>1. \A k \in S : b - k \in Nat
    OBVIOUS
  <2> QED  BY <2>1
<1>2. \E t \in T : \A m \in T : t <= m
  <2> HIDE DEF T
  <2>1. IsWellFoundedOn(OpToRel(<, Nat), Nat)
    BY NatLessThanWellFounded
  <2>2. \E t \in T : \A m \in T : ~(<<m, t>> \in OpToRel(<, Nat))
    BY <1>1, <2>1, WFMin
  <2>3. PICK t \in T : \A m \in T : ~(<<m, t>> \in OpToRel(<, Nat))
    BY <2>2
  <2>4. \A m \in T : t <= m
    <3> TAKE m \in T
    <3>1. m \in Nat /\ t \in Nat
      BY <1>1
    <3>2. ~(m < t)
      BY <2>3, <3>1, Zenon DEF OpToRel
    <3> QED  BY <3>1, <3>2
  <2> QED  BY <2>4
<1>3. PICK k \in S : \A m \in T : b - k <= m
  BY <1>2
<1>4. \A j \in S : j <= k
  <2> TAKE j \in S
  <2>1. b - j \in T
    OBVIOUS
  <2>2. b - k <= b - j
    <3> HIDE DEF T
    <3> QED  BY <1>3, <2>1
  <2> QED  BY <2>2
<1> QED  BY <1>4 DEF Sharing!Max

\* The profile that was accepted last, and its picture.
LEMMA OwnSays == ASSUME OutboxShape, sharingCircle \in CircleRecords
                 PROVE  Sharing!Own \in Nat /\ Sharing!OwnPicture \in Nat /\ (Sharing!Own # 0 => Sharing!Ops # {})
<1> DEFINE R == {sharingOutbox[o].revision : o \in Sharing!Sent} \cup {0}
<1>1. sharingCircle.revision + 1 \in Nat
  BY DEF CircleRecords
<1>2. R \in SUBSET (0..(sharingCircle.revision + 1)) /\ R # {}
  <2>1. \A o \in Sharing!Sent : sharingOutbox[o].revision \in 0..(sharingCircle.revision + 1)
    BY <1>1, Drafted DEF OutboxShape, Draft
  <2> QED  BY <1>1, <2>1
<1>3. Sharing!Own \in R /\ Sharing!Own \in Nat
  <2>1. Sharing!Max(R) \in R
    <3> HIDE DEF R
    <3> QED  BY <1>1, <1>2, LargestOf
  <2> QED  BY <1>1, <1>2, <2>1 DEF Sharing!Own
<1>4. ASSUME Sharing!Own # 0 PROVE \E o \in Sharing!Sent : sharingOutbox[o].revision = Sharing!Own
  BY <1>3, <1>4
<1>5. Sharing!OwnPicture \in Nat
  <2>1. CASE Sharing!Own = 0
    BY <2>1 DEF Sharing!OwnPicture
  <2>2. CASE Sharing!Own # 0
    <3>1. PICK o : o = CHOOSE x \in Sharing!Sent : sharingOutbox[x].revision = Sharing!Own
      OBVIOUS
    <3>2. o \in Sharing!Sent
      BY <1>4, <2>2, <3>1
    <3>3. sharingOutbox[o] \in Draft
      BY <3>2, Drafted
    <3> QED  BY <2>2, <3>1, <3>3 DEF Sharing!OwnPicture, Draft
  <2> QED  BY <2>1, <2>2
<1> QED  BY <1>3, <1>4, <1>5, Drafted

-----------------------------------------------------------------------------
(* Requests, and what they leave.                                           *)

\* The service takes a profile that is encrypted for the audience of now.
LEMMA CommitKeeps ==
    ASSUME CircleShape, OutboxShape, NEW o \in Sharing!Ops, Sharing!Accepts(o), Sharing!Commit(o)
    PROVE  /\ CircleShape' /\ sharingRelay' \in [Sharing!Ops -> {"none", "committed", "fenced"}]
           /\ sharingCircle'.revision = sharingCircle.revision + 1 /\ sharingCircle'.made = sharingCircle.made
<1>1. sharingCircle \in CircleRecords /\ sharingOutbox[o] \in Draft /\ sharingOutbox[o].picture \in {0, sharingOutbox[o].epoch}
  BY Drafted DEF CircleShape, OutboxShape
<1>2. PICK d : d = [epoch |-> sharingOutbox[o].epoch, picture |-> sharingOutbox[o].picture]
  OBVIOUS
<1>3. d \in [epoch : Nat, picture : Nat] /\ d.picture \in {0, d.epoch}
  BY <1>1, <1>2 DEF Draft
<1>4. sharingOutbox[o].revision = sharingCircle.revision + 1 /\ sharingCircle.revision \in Nat
  BY <1>1 DEF Sharing!Accepts, CircleRecords
<1>5. sharingCircle' = [sharingCircle EXCEPT !.revision = sharingCircle.revision + 1, !.shown = d]
  BY <1>2, <1>4 DEF Sharing!Commit
<1>6. sharingCircle' \in CircleRecords /\ sharingCircle'.revision = sharingCircle.revision + 1 /\ sharingCircle'.made = sharingCircle.made /\ sharingCircle'.shown = d
  <2>1. PICK c : c = [sharingCircle EXCEPT !.revision = sharingCircle.revision + 1]
    OBVIOUS
  <2>2. sharingCircle.revision + 1 \in Nat
    BY <1>4
  <2>3. c \in CircleRecords /\ c.revision = sharingCircle.revision + 1 /\ c.made = sharingCircle.made
    BY <1>1, <2>1, <2>2 DEF CircleRecords
  <2>4. sharingCircle' = [c EXCEPT !.shown = d]
    BY <1>1, <1>5, <2>1 DEF CircleRecords
  <2> QED  BY <1>3, <2>3, <2>4 DEF CircleRecords
<1>7. seen' \in [Peers -> Nat] /\ \A p \in Peers : seen'[p] <= sharingCircle.revision + 1
  BY <1>4 DEF CircleShape, Sharing!Commit
<1>8. sharingRelay' \in [Sharing!Ops -> {"none", "committed", "fenced"}]
  BY DEF Sharing!Commit, OutboxShape
<1> QED  BY <1>3, <1>6, <1>7, <1>8 DEF CircleShape, Sharing!PictureForAudience

\* A profile that is accepted, or given up, waits no longer.
LEMMA StatusKeeps ==
    ASSUME OutboxShape, NEW o \in Sharing!Ops, NEW s \in {"sent", "cancelled"},
           sharingOutbox' = [sharingOutbox EXCEPT ![o].status = s]
    PROVE  /\ Sharing!Ops' = Sharing!Ops /\ sharingOutbox' \in [Sharing!Ops -> Draft] /\ Sharing!Pending' \subseteq Sharing!Pending
           /\ \A q \in Sharing!Ops : /\ sharingOutbox'[q].picture = sharingOutbox[q].picture /\ sharingOutbox'[q].epoch = sharingOutbox[q].epoch
                                     /\ sharingOutbox'[q].revision = sharingOutbox[q].revision
<1>1. sharingOutbox \in [Sharing!Ops -> Draft] /\ sharingOutbox[o] \in Draft
  BY Drafted DEF OutboxShape
<1>2. PICK d : d = [sharingOutbox[o] EXCEPT !.status = s]
  OBVIOUS
<1>3. /\ d \in Draft /\ d.status = s /\ d.picture = sharingOutbox[o].picture /\ d.epoch = sharingOutbox[o].epoch
      /\ d.revision = sharingOutbox[o].revision
  BY <1>1, <1>2 DEF Draft
<1>4. sharingOutbox' = [sharingOutbox EXCEPT ![o] = d]
  BY <1>2
<1>5. Sharing!Ops' = Sharing!Ops
  BY <1>1, <1>4 DEF Sharing!Ops
<1>6. sharingOutbox' \in [Sharing!Ops -> Draft]
  BY <1>1, <1>3, <1>4
<1>7. \A q \in Sharing!Ops : sharingOutbox'[q] = IF q = o THEN d ELSE sharingOutbox[q]
  BY <1>1, <1>4
<1>8. Sharing!Pending' \subseteq Sharing!Pending
  BY <1>3, <1>5, <1>7 DEF Sharing!Pending
<1> QED  BY <1>3, <1>5, <1>6, <1>7, <1>8

\* What a request may leave of the Circle, the relay and the outbox.
Keeps == /\ CircleShape' /\ OutboxShape' /\ Sharing!Ops' = Sharing!Ops /\ Sharing!Pending' \subseteq Sharing!Pending
         /\ sharingCircle.revision <= sharingCircle'.revision /\ sharingCircle'.made = sharingCircle.made

\* What the relay committed may be marked as sent.
LEMMA Confirmed == ASSUME CircleShape, OutboxShape, NEW o \in Sharing!Ops, sharingRelay[o] = "committed",
                          Sharing!Confirm(o) \/ sharingOutbox' = sharingOutbox, UNCHANGED <<sharingCircle, sharingRelay, seen>>
                   PROVE  Keeps
<1>1. sharingCircle.revision \in Nat
  BY DEF CircleShape, CircleRecords
<1>2. CASE sharingOutbox' = sharingOutbox
  BY <1>1, <1>2 DEF Keeps, CircleShape, OutboxShape, Sharing!PictureForAudience, Sharing!Ops,
       Sharing!Pending
<1>3. CASE Sharing!Confirm(o)
  <2>1. /\ Sharing!Ops' = Sharing!Ops /\ sharingOutbox' \in [Sharing!Ops -> Draft] /\ Sharing!Pending' \subseteq Sharing!Pending
        /\ \A q \in Sharing!Ops : /\ sharingOutbox'[q].picture = sharingOutbox[q].picture /\ sharingOutbox'[q].epoch = sharingOutbox[q].epoch
                                  /\ sharingOutbox'[q].revision = sharingOutbox[q].revision
    BY <1>3, StatusKeeps DEF Sharing!Confirm
  <2>2. OutboxShape'
    BY <2>1 DEF OutboxShape
  <2> QED  BY <1>1, <2>1, <2>2 DEF Keeps, CircleShape, Sharing!PictureForAudience
<1> QED  BY <1>2, <1>3

\* A profile that the relay has, and the phone says so.
LEMMA CommittedKeeps ==
    ASSUME CircleShape, OutboxShape, NEW o \in Sharing!Ops, Sharing!Accepts(o), Sharing!Commit(o), Sharing!Confirm(o) \/ sharingOutbox' = sharingOutbox
    PROVE  Keeps /\ sharingCircle'.revision > 0
<1>1. /\ CircleShape' /\ sharingRelay' \in [Sharing!Ops -> {"none", "committed", "fenced"}]
      /\ sharingCircle'.revision = sharingCircle.revision + 1 /\ sharingCircle'.made = sharingCircle.made /\ sharingCircle.revision \in Nat
  BY CommitKeeps DEF CircleShape, CircleRecords
<1>2. /\ Sharing!Ops' = Sharing!Ops /\ sharingOutbox' \in [Sharing!Ops -> Draft] /\ Sharing!Pending' \subseteq Sharing!Pending
      /\ \A q \in Sharing!Ops : /\ sharingOutbox'[q].picture = sharingOutbox[q].picture /\ sharingOutbox'[q].epoch = sharingOutbox[q].epoch
                                /\ sharingOutbox'[q].revision = sharingOutbox[q].revision
  <2>1. CASE sharingOutbox' = sharingOutbox
    BY <2>1 DEF Sharing!Ops, Sharing!Pending, OutboxShape
  <2>2. CASE Sharing!Confirm(o)
    BY <2>2, StatusKeeps DEF Sharing!Confirm
  <2> QED  BY <2>1, <2>2
<1>3. \A q \in Sharing!Ops : sharingOutbox[q].revision \in Nat
  BY Drafted DEF Draft
<1>4. OutboxShape'
  <2>1. \E n \in Nat : Sharing!Ops' = 1..n
    BY <1>2 DEF OutboxShape
  <2>2. ASSUME NEW q \in Sharing!Ops
        PROVE  /\ sharingOutbox'[q].picture \in {0, sharingOutbox'[q].epoch}
               /\ sharingOutbox'[q].revision <= sharingCircle'.revision + 1 /\ sharingCircle'.revision > 0
    <3>1. sharingOutbox[q].picture \in {0, sharingOutbox[q].epoch} /\ sharingOutbox[q].revision <= sharingCircle.revision + 1
      BY DEF OutboxShape
    <3>2. sharingOutbox[q].revision \in Nat
      BY <1>3
    <3> QED  BY <1>1, <1>2, <3>1, <3>2
  <2> QED  BY <1>1, <1>2, <2>1, <2>2 DEF OutboxShape
<1> QED  BY <1>1, <1>2, <1>4 DEF Keeps

\* An upload, whether its answer arrives or not.
LEMMA UploadKeeps ==
    ASSUME CircleShape, OutboxShape, NEW o \in Sharing!Ops, Sharing!Upload(o)
    PROVE  Keeps /\ sharingCircle'.revision > 0
<1>1. CASE Sharing!Accepts(o) /\ Sharing!Commit(o) /\ Sharing!Confirm(o)
  BY <1>1, CommittedKeeps
<1>2. CASE sharingRelay[o] = "committed" /\ Sharing!Confirm(o) /\ UNCHANGED <<sharingCircle, sharingRelay, seen>>
  <2>1. Keeps
    BY <1>2, Confirmed
  <2> QED  BY <1>2, <2>1 DEF OutboxShape
<1> QED  BY <1>1, <1>2 DEF Sharing!Upload

\* Nothing of the Circle, the relay and the outbox changes.
LEMMA StillKeeps ==
    ASSUME CircleShape, OutboxShape, UNCHANGED <<sharingCircle, sharingRelay, seen, sharingOutbox>>
    PROVE  Keeps
  BY DEF Keeps, CircleShape, CircleRecords, OutboxShape, Sharing!PictureForAudience, Sharing!Ops,
       Sharing!Pending

\* An upload whose answer does not arrive changes the relay alone.
LEMMA UnansweredKeeps ==
    ASSUME CircleShape, OutboxShape, NEW o \in Sharing!Ops, Sharing!Lost(o) \/ Sharing!Refused(o)
    PROVE  Keeps
<1>1. CASE Sharing!Accepts(o) /\ Sharing!Commit(o) /\ sharingOutbox' = sharingOutbox
  BY <1>1, CommittedKeeps
<1>2. CASE UNCHANGED <<sharingCircle, sharingRelay, seen, sharingOutbox>>
  BY <1>2, StillKeeps
<1> QED  BY <1>1, <1>2 DEF Sharing!Lost, Sharing!Refused

\* A profile is written for the audience of now.
LEMMA QueueKeeps ==
    ASSUME CircleShape, OutboxShape, NEW o, o \notin Sharing!Ops, \E n \in Nat : Sharing!Ops \cup {o} = 1..n,
           NEW revision \in Nat, revision <= sharingCircle.revision + 1, NEW picture \in {0, sharingCircle.epoch},
           Sharing!Queue(o, revision, picture), UNCHANGED <<sharingCircle, seen>>
    PROVE  CircleShape' /\ OutboxShape' /\ Sharing!Ops' = Sharing!Ops \cup {o} /\ Sharing!Pending' = Sharing!Pending \cup {o}
<1>1. sharingCircle.epoch \in Nat /\ sharingCircle.revision \in Nat
  BY DEF CircleShape, CircleRecords
<1>2. PICK d : d = [status |-> "queued", revision |-> revision, epoch |-> sharingCircle.epoch, picture |-> picture]
  OBVIOUS
<1>3. d \in Draft /\ d.status = "queued" /\ d.revision = revision /\ d.picture \in {0, d.epoch}
  BY <1>1, <1>2 DEF Draft
<1>4. sharingOutbox' = [i \in Sharing!Ops \cup {o} |-> IF i = o THEN d ELSE sharingOutbox[i]]
  BY <1>2 DEF Sharing!Queue
<1>5. sharingRelay' = [i \in Sharing!Ops \cup {o} |-> IF i = o THEN "none" ELSE sharingRelay[i]]
  BY DEF Sharing!Queue
<1>6. Sharing!Ops' = Sharing!Ops \cup {o}
  BY <1>4 DEF Sharing!Ops
<1>7. \A i \in Sharing!Ops' : sharingOutbox'[i] = IF i = o THEN d ELSE sharingOutbox[i]
  BY <1>4, <1>6
<1>8. Sharing!Pending' = Sharing!Pending \cup {o}
  <2>1. \A i \in Sharing!Ops' : sharingOutbox'[i].status = "queued" <=> i = o \/ (i \in Sharing!Ops /\ sharingOutbox[i].status = "queued")
    BY <1>3, <1>6, <1>7
  <2> QED  BY <1>6, <2>1 DEF Sharing!Pending
<1>9. sharingOutbox' \in [Sharing!Ops' -> Draft] /\ sharingRelay' \in [Sharing!Ops' -> {"none", "committed", "fenced"}]
  BY <1>3, <1>4, <1>5, <1>6 DEF OutboxShape
<1>10. OutboxShape'
  <2>1. \A i \in Sharing!Ops' : /\ sharingOutbox'[i].picture \in {0, sharingOutbox'[i].epoch}
                                /\ sharingOutbox'[i].revision <= sharingCircle.revision + 1
    BY <1>3, <1>6, <1>7 DEF OutboxShape
  <2>2. \A i \in Sharing!Ops' : sharingRelay'[i] = "committed" => sharingCircle.revision > 0
    BY <1>5, <1>6 DEF OutboxShape
  <2>3. \E n \in Nat : Sharing!Ops' = 1..n
    BY <1>6
  <2> QED  BY <1>9, <2>1, <2>2, <2>3 DEF OutboxShape
<1> QED  BY <1>6, <1>8, <1>10 DEF CircleShape, Sharing!PictureForAudience

-----------------------------------------------------------------------------
(* Creation.                                                                *)

\* A request that changes no job and no creation.
LEMMA WaitsKeeps ==
    ASSUME OneWaits, CircleShape, Keeps, sharingJob \in DetailJobs, sharingJob' = sharingJob \/ sharingJob'.at = "idle"
    PROVE  OneWaits'
<1>1. sharingCircle.revision \in Nat /\ sharingCircle'.revision \in Nat
  BY DEF CircleShape, CircleRecords, Keeps
<1>2. \A o, q \in Sharing!Pending' : o = q
  BY DEF OneWaits, Keeps
<1>3. CASE sharingJob'.at = "idle"
  BY <1>2, <1>3 DEF OneWaits
<1>4. CASE sharingJob' = sharingJob
  <2>1. ASSUME sharingJob.at \in {"rebind", "send"}
        PROVE  Sharing!Pending' = {} /\ Sharing!Ops' # {} /\ sharingJob.revision <= sharingCircle'.revision
    <3>1. Sharing!Pending = {} /\ Sharing!Ops # {} /\ sharingJob.revision <= sharingCircle.revision
      BY <2>1 DEF OneWaits
    <3>2. sharingJob.revision <= sharingCircle'.revision
      BY <1>1, <3>1 DEF Keeps, DetailJobs
    <3> QED  BY <3>1, <3>2 DEF Keeps
  <2>2. sharingJob.at \in {"upload", "cancel"} => sharingJob.of \in Sharing!Ops'
    BY DEF OneWaits, Keeps
  <2> QED  BY <1>2, <1>4, <2>1, <2>2 DEF OneWaits
<1> QED  BY <1>3, <1>4

\* The creation's own steps, which leave the relay alone.
LEMMA CreationRests ==
    ASSUME SharingInv, Sharing!StartCreation \/ Sharing!Resume \/ Sharing!FinishWithoutInvitations \/ Sharing!AcknowledgeCreation
    PROVE  SharingInv'
<1>1. UNCHANGED <<sharingCircle, sharingRelay, sharingOutbox, sharingJob, seen>>
  BY DEF Sharing!StartCreation, Sharing!Resume, Sharing!FinishWithoutInvitations,
       Sharing!AcknowledgeCreation
<1>2. CircleShape' /\ OutboxShape' /\ OneWaits' /\ sharingJob' \in DetailJobs
  BY <1>1 DEF SharingInv, CircleShape, OutboxShape, OneWaits, Sharing!PictureForAudience,
       Sharing!Ops, Sharing!Pending
<1>3. creation \in Creations /\ CreationKept
  BY DEF SharingInv
<1>4. CASE Sharing!StartCreation
  BY <1>1, <1>2, <1>3, <1>4 DEF Sharing!StartCreation, Sharing!Start, Sharing!Makes, Sharing!SaveCreation,
       Sharing!NoCreation, Creations, CreationKept, Sharing!NoStrayCircle, SharingInv
<1>5. CASE Sharing!Resume
  BY <1>1, <1>2, <1>3, <1>5 DEF Sharing!Resume, Sharing!Makes, Creations, CreationKept, Sharing!NoStrayCircle,
       SharingInv
<1>6. CASE Sharing!FinishWithoutInvitations
  BY <1>1, <1>2, <1>3, <1>6 DEF Sharing!FinishWithoutInvitations, Sharing!SaveCreation,
       Creations, CreationKept, Sharing!NoStrayCircle, SharingInv
<1>7. CASE Sharing!AcknowledgeCreation
  BY <1>1, <1>2, <1>3, <1>7 DEF Sharing!AcknowledgeCreation, Sharing!NoCreation, Creations,
       CreationKept, Sharing!NoStrayCircle, SharingInv
<1> QED  BY <1>4, <1>5, <1>6, <1>7

\* The Circle changes, but neither its revision nor what it shows.
LEMMA CircleTurns ==
    ASSUME SharingInv, sharingCircle' \in CircleRecords, sharingCircle'.revision = sharingCircle.revision,
           sharingCircle'.shown = sharingCircle.shown, UNCHANGED <<sharingRelay, sharingOutbox, sharingJob, seen>>
    PROVE  CircleShape' /\ OutboxShape' /\ OneWaits' /\ sharingJob' \in DetailJobs
BY DEF SharingInv, CircleShape, OutboxShape, OneWaits, Sharing!PictureForAudience, Sharing!Ops,
     Sharing!Pending

\* The creation is saved before the Circle is asked for.
LEMMA CreateCircleInv == ASSUME SharingInv, Sharing!CreateCircle PROVE SharingInv'
<1>1. sharingCircle \in CircleRecords /\ creation \in Creations /\ CreationKept
  BY DEF SharingInv, CircleShape
<1>2. /\ sharingCircle' \in CircleRecords /\ sharingCircle'.revision = sharingCircle.revision /\ sharingCircle'.shown = sharingCircle.shown
      /\ UNCHANGED <<sharingRelay, sharingOutbox, sharingJob, seen>> /\ maker.at = "create"
  BY <1>1 DEF Sharing!CreateCircle, CircleRecords
<1>3. CircleShape' /\ OutboxShape' /\ OneWaits' /\ sharingJob' \in DetailJobs
  BY <1>2, CircleTurns
<1>4. /\ creation' \in Creations /\ creation'.saved = creation.saved /\ creation'.sent = creation.sent
      /\ creation'.done = creation.done /\ maker'.at \in {"send", "idle"} /\ maker'.guests = {}
  <2>1. creation' = creation \/ creation' = [creation EXCEPT !.known = TRUE]
    BY DEF Sharing!CreateCircle, Sharing!SaveCreation
  <2>2. Sharing!Makes("send") \/ Sharing!Makes("idle")
    BY DEF Sharing!CreateCircle
  <2>3. maker'.at \in {"send", "idle"} /\ maker'.guests = {}
    BY <2>2 DEF Sharing!Makes
  <2>4. /\ creation' \in Creations /\ creation'.saved = creation.saved /\ creation'.sent = creation.sent
        /\ creation'.done = creation.done
    BY <1>1, <2>1 DEF Creations
  <2> QED  BY <2>3, <2>4
<1>5. CreationKept'
  BY <1>1, <1>2, <1>4 DEF CreationKept, Sharing!NoStrayCircle
<1> QED  BY <1>3, <1>4, <1>5 DEF SharingInv

\* The first profile is queued once.
LEMMA QueueFirstInv == ASSUME SharingInv, Sharing!QueueFirst PROVE SharingInv'
<1>1. /\ maker.at = "send" /\ Sharing!FirstOp \notin Sharing!Ops /\ UNCHANGED <<sharingCircle, creation, sharingJob, seen>>
      /\ CircleShape /\ OutboxShape /\ CreationKept
  BY DEF SharingInv, Sharing!QueueFirst
<1>2. Sharing!Ops = {}
  BY <1>1, Drafted
<1>3. CreationKept'
  BY <1>1 DEF Sharing!QueueFirst, Sharing!Makes, CreationKept, Sharing!NoStrayCircle
<1>4. CASE Sharing!Makes("idle") /\ UNCHANGED <<sharingOutbox, sharingRelay>>
  BY <1>1, <1>3, <1>4 DEF SharingInv, CircleShape, OutboxShape, OneWaits,
       Sharing!PictureForAudience, Sharing!Ops, Sharing!Pending
<1>5. CASE Sharing!Queue(Sharing!FirstOp, 1, 0)
  <2>1. Sharing!Ops \cup {Sharing!FirstOp} = 1..1 /\ 1 \in Nat /\ 1 <= sharingCircle.revision + 1
    BY <1>1, <1>2 DEF Sharing!FirstOp, CircleShape, CircleRecords
  <2>2. CircleShape' /\ OutboxShape' /\ Sharing!Ops' = Sharing!Ops \cup {Sharing!FirstOp} /\ Sharing!Pending' = Sharing!Pending \cup {Sharing!FirstOp}
    BY <1>1, <1>5, <2>1, QueueKeeps
  <2>3. Sharing!Pending = {}
    BY <1>2 DEF Sharing!Pending
  <2>4. OneWaits'
    BY <1>1, <1>2, <2>2, <2>3 DEF SharingInv, OneWaits
  <2> QED  BY <1>1, <1>3, <2>2, <2>4 DEF SharingInv
<1> QED  BY <1>4, <1>5 DEF Sharing!QueueFirst

\* The first profile is sent.
LEMMA SendFirstInv == ASSUME SharingInv, Sharing!SendFirst PROVE SharingInv'
<1>1. /\ Sharing!FirstOp \in Sharing!Ops /\ maker.at = "send" /\ sharingJob' = sharingJob /\ CircleShape /\ OutboxShape /\ OneWaits /\ CreationKept
      /\ creation \in Creations /\ sharingJob \in DetailJobs
  BY DEF SharingInv, Sharing!SendFirst
<1>2. Keeps
  BY <1>1, UploadKeeps, UnansweredKeeps DEF Sharing!SendFirst
<1>3. OneWaits'
  BY <1>1, <1>2, WaitsKeeps
<1>4. creation' \in Creations /\ CreationKept'
  <2>1. sharingCircle.revision \in Nat /\ sharingCircle'.revision \in Nat /\ sharingCircle.revision <= sharingCircle'.revision
    BY <1>1, <1>2 DEF Keeps, CircleShape, CircleRecords
  <2>2. CASE Sharing!Upload(Sharing!FirstOp) /\ Sharing!Makes("invite") /\ Sharing!SaveCreation([creation EXCEPT !.sent = TRUE])
    <3>1. sharingCircle'.revision > 0
      BY <1>1, <2>2, UploadKeeps
    <3> QED  BY <1>1, <2>1, <2>2, <3>1 DEF Sharing!Makes, Sharing!SaveCreation, Creations, CreationKept,
         Sharing!NoStrayCircle
  <2>3. CASE Sharing!Makes("idle") /\ creation' = creation
    <3>1. sharingCircle.revision > 0 => sharingCircle'.revision > 0
      BY <2>1
    <3> QED  BY <1>1, <1>2, <2>3, <3>1 DEF Keeps, Sharing!Makes, CreationKept, Sharing!NoStrayCircle
  <2> QED  BY <2>2, <2>3 DEF Sharing!SendFirst
<1> QED  BY <1>1, <1>2, <1>3, <1>4 DEF Keeps, SharingInv

\* The invitations follow the profile, one after the other.
LEMMA InvitationsInv ==
    ASSUME SharingInv, Sharing!ReadMembers \/ Sharing!InviteGuest \/ Sharing!InvitationsDone
    PROVE  SharingInv'
<1>1. sharingCircle \in CircleRecords /\ creation \in Creations /\ CreationKept
  BY DEF SharingInv, CircleShape
<1>2. sharingCircle' = sharingCircle \/ \E p \in Invitees : sharingCircle' = [sharingCircle EXCEPT !.invited = @ \cup {p}]
  <2>1. CASE Sharing!ReadMembers \/ Sharing!InvitationsDone
    BY <2>1 DEF Sharing!ReadMembers, Sharing!InvitationsDone
  <2>2. CASE Sharing!InviteGuest
    BY <1>1, <2>2 DEF Sharing!InviteGuest, Sharing!Invites, CreationKept
  <2> QED  BY <2>1, <2>2
<1>3. /\ sharingCircle' \in CircleRecords /\ sharingCircle'.revision = sharingCircle.revision /\ sharingCircle'.shown = sharingCircle.shown
      /\ sharingCircle'.made = sharingCircle.made
  BY <1>1, <1>2 DEF CircleRecords
<1>4. UNCHANGED <<sharingRelay, sharingOutbox, sharingJob, seen>> /\ maker.at \in {"invite", "ask"}
  BY DEF Sharing!ReadMembers, Sharing!InviteGuest, Sharing!InvitationsDone
<1>5. CircleShape' /\ OutboxShape' /\ OneWaits' /\ sharingJob' \in DetailJobs
  BY <1>3, <1>4, CircleTurns
<1>6. creation' \in Creations /\ creation'.saved = creation.saved /\ creation'.sent = creation.sent
  BY <1>1 DEF Sharing!ReadMembers, Sharing!InviteGuest, Sharing!InvitationsDone, Sharing!SaveCreation, Creations
<1>7. maker'.at \in {"idle", "ask"} /\ maker'.guests \subseteq Invitees
  BY <1>1 DEF Sharing!ReadMembers, Sharing!InviteGuest, Sharing!InvitationsDone, Sharing!Makes, CreationKept
<1>8. CreationKept'
  BY <1>1, <1>3, <1>4, <1>6, <1>7 DEF CreationKept, Sharing!NoStrayCircle
<1> QED  BY <1>5, <1>6, <1>8 DEF SharingInv

\* The controller has no job any more.
LEMMA NoDetails == Sharing!NoJob \in DetailJobs /\ Sharing!NoJob.at = "idle"
  BY DEF Sharing!NoJob, DetailJobs

\* The job goes on, or ends, and what it works on stays.
LEMMA JobTurns ==
    ASSUME SharingInv, UNCHANGED <<sharingCircle, sharingRelay, creation, maker, sharingOutbox, seen>>,
           sharingJob' \in DetailJobs,
           sharingJob'.at \in {"rebind", "send"} => Sharing!Pending = {} /\ Sharing!Ops # {} /\ sharingJob'.revision <= sharingCircle.revision,
           sharingJob'.at \in {"upload", "cancel"} => sharingJob'.of \in Sharing!Ops
    PROVE  SharingInv'
<1>1. CircleShape' /\ OutboxShape' /\ CreationKept' /\ creation' \in Creations
  BY DEF SharingInv, CircleShape, OutboxShape, CreationKept, Sharing!NoStrayCircle,
       Sharing!PictureForAudience, Sharing!Ops
<1>2. Sharing!Ops' = Sharing!Ops /\ Sharing!Pending' = Sharing!Pending
  BY DEF Sharing!Ops, Sharing!Pending
<1>3. OneWaits'
  BY <1>2 DEF SharingInv, OneWaits
<1> QED  BY <1>1, <1>3 DEF SharingInv

\* A job of the screen or of the maintenance begins.
LEMMA BeginInv ==
    ASSUME SharingInv, Sharing!Maintain \/ \E kind \in {"update", "retry", "recover"} : Sharing!Edit(kind)
    PROVE  SharingInv'
<1>1. PICK kind \in {"share", "update", "retry", "recover"} : sharingJob' = [Sharing!NoJob EXCEPT !.kind = kind, !.at = "details"]
  BY DEF Sharing!Maintain, Sharing!Edit, Sharing!Begin
<1>2. sharingJob' \in DetailJobs /\ sharingJob'.at = "details"
  BY <1>1 DEF Sharing!NoJob, DetailJobs
<1>3. UNCHANGED <<sharingCircle, sharingRelay, creation, maker, sharingOutbox, seen>>
  BY DEF Sharing!Maintain, Sharing!Edit
<1> QED  BY <1>2, <1>3, JobTurns

\* The details of the Circle are read before anything is written.
LEMMA LoadDetailsInv == ASSUME SharingInv, Sharing!LoadDetails PROVE SharingInv'
<1>1. sharingJob \in DetailJobs /\ sharingCircle.epoch \in Nat /\ UNCHANGED <<sharingCircle, sharingRelay, creation, maker, sharingOutbox, seen>>
  BY DEF SharingInv, CircleShape, CircleRecords, Sharing!LoadDetails
<1>2. sharingJob' \in DetailJobs /\ sharingJob'.at \in {"idle", "context"}
  <2>1. CASE sharingJob' = Sharing!NoJob
    BY <2>1, NoDetails
  <2>2. CASE sharingJob' = [sharingJob EXCEPT !.at = "context", !.epoch = sharingCircle.epoch]
    <3>1. PICK j : j = [sharingJob EXCEPT !.at = "context"]
      OBVIOUS
    <3>2. j \in DetailJobs /\ j.at = "context" /\ sharingJob' = [j EXCEPT !.epoch = sharingCircle.epoch]
      BY <1>1, <2>2, <3>1 DEF DetailJobs
    <3> QED  BY <1>1, <3>2 DEF DetailJobs
  <2> QED  BY <2>1, <2>2 DEF Sharing!LoadDetails
<1> QED  BY <1>1, <1>2, JobTurns

\* The next profile is on top of the one that was accepted last.
LEMMA PublishKeeps ==
    ASSUME SharingInv, NEW pictures \in SUBSET Nat, Sharing!Pending = {}, Sharing!Ops # {}, Sharing!Publish(pictures),
           UNCHANGED <<sharingCircle, sharingRelay, creation, maker, sharingOutbox, seen>>
    PROVE  SharingInv'
<1>1. sharingJob \in DetailJobs /\ sharingCircle.revision \in Nat
  BY DEF SharingInv, CircleShape, CircleRecords
<1>2. PICK p \in pictures : sharingJob' = [sharingJob EXCEPT !.revision = sharingCircle.revision, !.picture = p,
                                              !.at = IF p = 0 \/ p = sharingJob.epoch THEN "send" ELSE "rebind"]
  BY DEF Sharing!Publish
<1>3. PICK at \in {"send", "rebind"} : at = IF p = 0 \/ p = sharingJob.epoch THEN "send" ELSE "rebind"
  OBVIOUS
<1>4. PICK j : j = [sharingJob EXCEPT !.revision = sharingCircle.revision]
  OBVIOUS
<1>5. PICK k : k = [j EXCEPT !.picture = p]
  OBVIOUS
<1>6. j \in DetailJobs /\ j.revision = sharingCircle.revision
  BY <1>1, <1>4 DEF DetailJobs
<1>7. k \in DetailJobs /\ k.revision = sharingCircle.revision
  BY <1>5, <1>6 DEF DetailJobs
<1>8. sharingJob' = [k EXCEPT !.at = at]
  BY <1>1, <1>2, <1>3, <1>4, <1>5 DEF DetailJobs
<1>9. sharingJob' \in DetailJobs /\ sharingJob'.revision = sharingCircle.revision /\ sharingJob'.at = at
  BY <1>3, <1>7, <1>8 DEF DetailJobs
<1> QED  BY <1>1, <1>3, <1>9, JobTurns

\* The context that a job goes on with.
LEMMA ProjectInv == ASSUME SharingInv, Sharing!Project PROVE SharingInv'
<1>1. /\ UNCHANGED <<sharingCircle, sharingRelay, creation, maker, sharingOutbox, seen>> /\ sharingJob \in DetailJobs
      /\ OutboxShape /\ sharingCircle \in CircleRecords
  BY DEF SharingInv, CircleShape, Sharing!Project
<1>2. Sharing!Own \in Nat /\ Sharing!OwnPicture \in Nat /\ (Sharing!Own # 0 => Sharing!Ops # {}) /\ sharingJob.epoch \in Nat
  BY <1>1, OwnSays DEF DetailJobs
<1>3. CASE sharingJob' = Sharing!NoJob
  BY <1>1, <1>3, NoDetails, JobTurns
<1>4. CASE Sharing!Pending # {} /\ sharingJob' = [sharingJob EXCEPT !.of = CHOOSE o \in Sharing!Pending : TRUE,
                                                      !.at = IF sharingJob.kind = "recover" THEN "cancel" ELSE "upload"]
  <2>1. PICK o : o = CHOOSE q \in Sharing!Pending : TRUE
    OBVIOUS
  <2>2. o \in Sharing!Pending /\ o \in Sharing!Ops /\ o \in Nat
    BY <1>1, <1>4, <2>1, Drafted
  <2>3. PICK at \in {"cancel", "upload"} : at = IF sharingJob.kind = "recover" THEN "cancel" ELSE "upload"
    OBVIOUS
  <2>4. PICK j : j = [sharingJob EXCEPT !.of = o]
    OBVIOUS
  <2>5. j \in DetailJobs /\ j.of = o /\ sharingJob' = [j EXCEPT !.at = at]
    BY <1>1, <1>4, <2>1, <2>2, <2>3, <2>4 DEF DetailJobs
  <2>6. sharingJob' \in DetailJobs /\ sharingJob'.of = o /\ sharingJob'.at = at
    BY <2>3, <2>5 DEF DetailJobs
  <2> QED  BY <1>1, <2>2, <2>3, <2>6, JobTurns
<1>5. CASE Sharing!CanEdit /\ (Sharing!Publish({Sharing!OwnPicture}) \/ Sharing!Publish({0, Sharing!OwnPicture, sharingJob.epoch}))
  <2>1. Sharing!Pending = {} /\ Sharing!Ops # {}
    BY <1>2, <1>5 DEF Sharing!CanEdit
  <2>2. {Sharing!OwnPicture} \in SUBSET Nat /\ {0, Sharing!OwnPicture, sharingJob.epoch} \in SUBSET Nat
    BY <1>2
  <2> QED  BY <1>1, <1>5, <2>1, <2>2, PublishKeeps
<1>6. \/ sharingJob' = Sharing!NoJob
      \/ Sharing!Pending # {} /\ sharingJob' = [sharingJob EXCEPT !.of = CHOOSE o \in Sharing!Pending : TRUE,
                                                    !.at = IF sharingJob.kind = "recover" THEN "cancel" ELSE "upload"]
      \/ Sharing!CanEdit /\ (Sharing!Publish({Sharing!OwnPicture}) \/ Sharing!Publish({0, Sharing!OwnPicture, sharingJob.epoch}))
  BY DEF Sharing!Project, Sharing!ShareIdle
<1> QED  BY <1>3, <1>4, <1>5, <1>6

\* A profile that was made for an older audience is made again.
LEMMA RebindInv == ASSUME SharingInv, Sharing!Rebind PROVE SharingInv'
<1>1. /\ UNCHANGED <<sharingCircle, sharingRelay, creation, maker, sharingOutbox, seen>> /\ sharingJob \in DetailJobs
      /\ sharingJob.at = "rebind" /\ Sharing!Pending = {} /\ Sharing!Ops # {} /\ sharingJob.revision <= sharingCircle.revision
  BY DEF SharingInv, OneWaits, Sharing!Rebind
<1>2. CASE sharingJob' = Sharing!NoJob
  BY <1>1, <1>2, NoDetails, JobTurns
<1>3. CASE sharingJob' = [sharingJob EXCEPT !.picture = sharingJob.epoch, !.at = "send"]
  <2>1. PICK j : j = [sharingJob EXCEPT !.picture = sharingJob.epoch]
    OBVIOUS
  <2>2. j \in DetailJobs /\ j.revision = sharingJob.revision /\ sharingJob' = [j EXCEPT !.at = "send"]
    BY <1>1, <1>3, <2>1 DEF DetailJobs
  <2>3. sharingJob' \in DetailJobs /\ sharingJob'.revision = sharingJob.revision /\ sharingJob'.at = "send"
    BY <2>2 DEF DetailJobs
  <2> QED  BY <1>1, <2>3, JobTurns
<1> QED  BY <1>2, <1>3 DEF Sharing!Rebind

\* A profile is written when none waits.
LEMMA WriteInv == ASSUME SharingInv, Sharing!Write PROVE SharingInv'
<1>1. /\ UNCHANGED <<sharingCircle, creation, maker, seen>> /\ sharingJob \in DetailJobs /\ sharingJob.at = "send"
      /\ Sharing!Pending = {} /\ Sharing!Ops # {} /\ sharingJob.revision <= sharingCircle.revision
      /\ OutboxShape /\ CircleShape /\ CreationKept /\ sharingCircle.revision \in Nat
  BY DEF SharingInv, OneWaits, Sharing!Write, CircleShape, CircleRecords
<1>2. CASE sharingJob' = Sharing!NoJob /\ UNCHANGED <<sharingOutbox, sharingRelay>>
  BY <1>1, <1>2, NoDetails, JobTurns
<1>3. CASE /\ ~sharingCircle.closed /\ Sharing!Expected(sharingJob.picture)
           /\ LET o == Sharing!Cardinality(Sharing!Ops) + 1
              IN Sharing!Queue(o, sharingJob.revision + 1, sharingJob.picture) /\ sharingJob' = [sharingJob EXCEPT !.of = o, !.at = "upload"]
  <2>1. PICK o : o = Sharing!Cardinality(Sharing!Ops) + 1
    OBVIOUS
  <2>2. o \in Nat /\ o \notin Sharing!Ops /\ \E n \in Nat : Sharing!Ops \cup {o} = 1..n
    BY <1>1, <2>1, Numbered
  <2>3. Sharing!Queue(o, sharingJob.revision + 1, sharingJob.picture) /\ sharingJob' = [sharingJob EXCEPT !.of = o, !.at = "upload"]
    BY <1>3, <2>1
  <2>4. /\ sharingJob.revision + 1 \in Nat /\ sharingJob.revision + 1 <= sharingCircle.revision + 1
        /\ sharingJob.picture \in {0, sharingCircle.epoch}
    BY <1>1, <1>3 DEF DetailJobs, Sharing!Expected
  <2>5. CircleShape' /\ OutboxShape' /\ Sharing!Ops' = Sharing!Ops \cup {o} /\ Sharing!Pending' = Sharing!Pending \cup {o}
    BY <1>1, <2>2, <2>3, <2>4, QueueKeeps
  <2>6. PICK j : j = [sharingJob EXCEPT !.of = o]
    OBVIOUS
  <2>7. j \in DetailJobs /\ j.of = o /\ sharingJob' = [j EXCEPT !.at = "upload"]
    BY <1>1, <2>2, <2>3, <2>6 DEF DetailJobs
  <2>8. sharingJob' \in DetailJobs /\ sharingJob'.of = o /\ sharingJob'.at = "upload"
    BY <2>7 DEF DetailJobs
  <2>9. OneWaits'
    BY <1>1, <2>5, <2>8 DEF OneWaits
  <2>10. CreationKept' /\ creation' \in Creations
    BY <1>1 DEF SharingInv, CreationKept, Sharing!NoStrayCircle
  <2> QED  BY <2>5, <2>8, <2>9, <2>10 DEF SharingInv
<1> QED  BY <1>2, <1>3 DEF Sharing!Write

\* A request of the controller ends its job, and the creation is as it was.
LEMMA AnsweredKeeps ==
    ASSUME SharingInv, Keeps, sharingJob' = Sharing!NoJob, UNCHANGED <<creation, maker>>
    PROVE  SharingInv'
<1>1. sharingCircle.revision \in Nat /\ sharingCircle'.revision \in Nat /\ sharingCircle.revision <= sharingCircle'.revision /\ sharingCircle'.made = sharingCircle.made
  BY DEF SharingInv, Keeps, CircleShape, CircleRecords
<1>2. CreationKept' /\ creation' \in Creations
  BY <1>1 DEF SharingInv, CreationKept, Sharing!NoStrayCircle
<1>3. OneWaits' /\ sharingJob' \in DetailJobs
  BY NoDetails, WaitsKeeps DEF SharingInv
<1> QED  BY <1>2, <1>3 DEF SharingInv, Keeps

\* A profile that waits is uploaded.
LEMMA UploadProfileInv == ASSUME SharingInv, Sharing!UploadProfile PROVE SharingInv'
<1>1. sharingJob.of \in Sharing!Ops /\ CircleShape /\ OutboxShape /\ sharingJob' = Sharing!NoJob /\ UNCHANGED <<creation, maker>>
  BY DEF SharingInv, OneWaits, Sharing!UploadProfile
<1>2. Keeps
  BY <1>1, UploadKeeps, UnansweredKeeps DEF Sharing!UploadProfile
<1> QED  BY <1>1, <1>2, AnsweredKeeps

\* A profile that waits is cancelled at the relay.
LEMMA CancelProfileInv == ASSUME SharingInv, Sharing!CancelProfile PROVE SharingInv'
<1>1. PICK o \in Sharing!Ops : o = sharingJob.of
  BY DEF SharingInv, OneWaits, Sharing!CancelProfile
<1>2. CircleShape /\ OutboxShape /\ sharingJob' = Sharing!NoJob /\ UNCHANGED <<sharingCircle, creation, maker, seen>>
  BY DEF SharingInv, Sharing!CancelProfile
<1>3. CASE sharingRelay[o] = "committed" /\ Sharing!Confirm(o) /\ UNCHANGED sharingRelay
  BY <1>2, <1>3, Confirmed, AnsweredKeeps
<1>4. CASE /\ sharingRelay' = [sharingRelay EXCEPT ![o] = "fenced"]
           /\ sharingOutbox' = [sharingOutbox EXCEPT ![o].status = "cancelled"] \/ sharingOutbox' = sharingOutbox
  <2>1. /\ Sharing!Ops' = Sharing!Ops /\ sharingOutbox' \in [Sharing!Ops -> Draft] /\ Sharing!Pending' \subseteq Sharing!Pending
        /\ \A q \in Sharing!Ops : /\ sharingOutbox'[q].picture = sharingOutbox[q].picture /\ sharingOutbox'[q].epoch = sharingOutbox[q].epoch
                                  /\ sharingOutbox'[q].revision = sharingOutbox[q].revision
    <3>1. CASE sharingOutbox' = sharingOutbox
      BY <1>2, <3>1 DEF Sharing!Ops, Sharing!Pending, OutboxShape
    <3>2. CASE sharingOutbox' = [sharingOutbox EXCEPT ![o].status = "cancelled"]
      BY <1>2, <3>2, StatusKeeps
    <3> QED  BY <1>4, <3>1, <3>2
  <2>2. sharingRelay' \in [Sharing!Ops -> {"none", "committed", "fenced"}] /\ \A q \in Sharing!Ops : sharingRelay'[q] = "committed" => sharingRelay[q] = "committed"
    BY <1>2, <1>4 DEF OutboxShape
  <2>3. OutboxShape'
    BY <1>2, <2>1, <2>2 DEF OutboxShape
  <2>4. Keeps
    BY <1>2, <2>1, <2>3 DEF Keeps, CircleShape, CircleRecords, Sharing!PictureForAudience
  <2> QED  BY <1>2, <2>4, AnsweredKeeps
<1> QED  BY <1>1, <1>3, <1>4 DEF Sharing!CancelProfile

-----------------------------------------------------------------------------
(* Inviting, and the members.                                               *)

\* The members and the invited change, or the Circle closes.
LEMMA MembersTurn ==
    ASSUME SharingInv, sharingCircle' \in CircleRecords, sharingCircle'.revision = sharingCircle.revision,
           sharingCircle'.shown = sharingCircle.shown, sharingCircle'.made = sharingCircle.made,
           UNCHANGED <<sharingRelay, creation, maker, sharingOutbox, sharingJob, seen>>
    PROVE  SharingInv'
<1>1. CircleShape' /\ OutboxShape' /\ OneWaits' /\ sharingJob' \in DetailJobs
  BY CircleTurns
<1> QED  BY <1>1 DEF SharingInv, CreationKept, Sharing!NoStrayCircle

\* Members come, go and look, and the Circle is closed.
LEMMA WorldInv ==
    ASSUME SharingInv, Picked, Sharing!InviteNext \/ Sharing!Close \/ \E p \in Peers : Sharing!Toggle(p) \/ Sharing!Join(p) \/ Sharing!Leave(p)
    PROVE  SharingInv'
<1>1. sharingCircle \in CircleRecords
  BY DEF SharingInv, CircleShape
<1>2. UNCHANGED <<sharingRelay, creation, maker, sharingOutbox, sharingJob, seen>>
  BY DEF Sharing!InviteNext, Sharing!Close, Sharing!Toggle, Sharing!Join, Sharing!Leave,
       Sharing!Epoch
<1>3. CASE Sharing!InviteNext
  <2>1. PICK p \in Peers : sharingCircle' = sharingCircle \/ sharingCircle' = [sharingCircle EXCEPT !.invited = @ \cup {p}]
    BY <1>3 DEF Picked, Sharing!InviteNext
  <2>2. /\ sharingCircle' \in CircleRecords /\ sharingCircle'.revision = sharingCircle.revision /\ sharingCircle'.shown = sharingCircle.shown
        /\ sharingCircle'.made = sharingCircle.made
    BY <1>1, <2>1 DEF CircleRecords
  <2> QED  BY <1>2, <2>2, MembersTurn
<1>4. CASE Sharing!Close
  <2>1. sharingCircle' = [sharingCircle EXCEPT !.closed = TRUE, !.invited = {}]
    BY <1>4 DEF Sharing!Close
  <2>2. /\ sharingCircle' \in CircleRecords /\ sharingCircle'.revision = sharingCircle.revision /\ sharingCircle'.shown = sharingCircle.shown
        /\ sharingCircle'.made = sharingCircle.made
    BY <1>1, <2>1 DEF CircleRecords
  <2> QED  BY <1>2, <2>2, MembersTurn
<1>5. ASSUME NEW p \in Peers, Sharing!Toggle(p) PROVE SharingInv'
  BY <1>1, <1>2, <1>5, MembersTurn DEF Sharing!Toggle
<1>6. ASSUME NEW p \in Peers, Sharing!Join(p) \/ Sharing!Leave(p) PROVE SharingInv'
  <2>1. sharingCircle.members \subseteq Peers /\ sharingCircle.invited \subseteq Peers \cup Invitees
    BY <1>1 DEF CircleRecords
  <2>2. PICK members \in SUBSET Peers, invited \in SUBSET (Peers \cup Invitees) : Sharing!Epoch(members, invited)
    <3>1. CASE Sharing!Join(p)
      BY <2>1, <3>1 DEF Sharing!Join
    <3>2. CASE Sharing!Leave(p)
      BY <2>1, <3>2 DEF Sharing!Leave
    <3> QED  BY <1>6, <3>1, <3>2
  <2>3. sharingCircle.epoch + 1 \in 1..SharingMaxEpoch
    BY <1>1, <2>2, SharingBounds DEF Sharing!Epoch, CircleRecords
  <2>4. PICK c : c = [sharingCircle EXCEPT !.epoch = sharingCircle.epoch + 1]
    OBVIOUS
  <2>5. c \in CircleRecords /\ c.revision = sharingCircle.revision /\ c.shown = sharingCircle.shown /\ c.made = sharingCircle.made
    BY <1>1, <2>3, <2>4 DEF CircleRecords
  <2>6. PICK d : d = [c EXCEPT !.members = members]
    OBVIOUS
  <2>7. d \in CircleRecords /\ d.revision = sharingCircle.revision /\ d.shown = sharingCircle.shown /\ d.made = sharingCircle.made
    BY <2>5, <2>6 DEF CircleRecords
  <2>8. sharingCircle' = [d EXCEPT !.invited = invited]
    BY <1>1, <2>2, <2>4, <2>6 DEF Sharing!Epoch, CircleRecords
  <2>9. /\ sharingCircle' \in CircleRecords /\ sharingCircle'.revision = sharingCircle.revision /\ sharingCircle'.shown = sharingCircle.shown
        /\ sharingCircle'.made = sharingCircle.made
    BY <2>7, <2>8 DEF CircleRecords
  <2> QED  BY <1>2, <2>9, MembersTurn
<1> QED  BY <1>3, <1>4, <1>5, <1>6

\* The process dies between two steps.
LEMMA CrashInv == ASSUME SharingInv, Sharing!Crash PROVE SharingInv'
<1>1. UNCHANGED <<sharingCircle, sharingRelay, creation, sharingOutbox, seen>> /\ Sharing!Makes("idle") /\ sharingJob' = Sharing!NoJob
  BY DEF Sharing!Crash
<1>2. Keeps
  BY <1>1, StillKeeps DEF SharingInv
<1>3. OneWaits' /\ sharingJob' \in DetailJobs
  BY <1>1, <1>2, NoDetails, WaitsKeeps DEF SharingInv
<1> QED  BY <1>1, <1>2, <1>3 DEF SharingInv, Keeps, Sharing!Makes, CreationKept, Sharing!NoStrayCircle

\* A step of the Circle's sharing keeps its invariant.
LEMMA SharingStepInv == SharingInv /\ Picked /\ Sharing!SharingNext => SharingInv' /\ Picked'
<1> SUFFICES ASSUME SharingInv, Picked, Sharing!SharingNext PROVE SharingInv' /\ Picked'
  OBVIOUS
<1>1. CASE Sharing!CreationStep
  <2>1. picks' = picks
    BY <1>1 DEF Sharing!CreationStep, Sharing!StartCreation, Sharing!Resume,
         Sharing!CreateCircle, Sharing!QueueFirst, Sharing!SendFirst, Sharing!ReadMembers,
         Sharing!InviteGuest, Sharing!InvitationsDone, Sharing!FinishWithoutInvitations, Sharing!AcknowledgeCreation
  <2>2. SharingInv'
    BY <1>1, CreationRests, CreateCircleInv, QueueFirstInv, SendFirstInv, InvitationsInv
         DEF Sharing!CreationStep
  <2> QED  BY <2>1, <2>2 DEF Picked
<1>2. CASE Sharing!JobStep
  <2>1. picks' = picks
    BY <1>2 DEF Sharing!JobStep, Sharing!LoadDetails, Sharing!Project, Sharing!Rebind,
         Sharing!Write, Sharing!UploadProfile, Sharing!CancelProfile
  <2>2. SharingInv'
    BY <1>2, LoadDetailsInv, ProjectInv, RebindInv, WriteInv, UploadProfileInv,
         CancelProfileInv DEF Sharing!JobStep
  <2> QED  BY <2>1, <2>2 DEF Picked
<1>3. CASE Sharing!Maintain \/ \E kind \in {"update", "retry", "recover"} : Sharing!Edit(kind)
  <2>1. picks' = picks
    BY <1>3 DEF Sharing!Maintain, Sharing!Edit
  <2> QED  BY <1>3, <2>1, BeginInv DEF Picked
<1>4. CASE Sharing!InviteNext \/ Sharing!Close \/ \E p \in Peers : Sharing!Toggle(p) \/ Sharing!Join(p) \/ Sharing!Leave(p)
  <2>1. picks' \subseteq Peers
    BY <1>4 DEF Picked, Sharing!InviteNext, Sharing!Close, Sharing!Toggle, Sharing!Join,
         Sharing!Leave, Sharing!Epoch
  <2> QED  BY <1>4, <2>1, WorldInv DEF Picked
<1>5. CASE Sharing!Crash
  BY <1>5, CrashInv DEF Sharing!Crash, Picked
<1> QED  BY <1>1, <1>2, <1>3, <1>4, <1>5 DEF Sharing!SharingNext

-----------------------------------------------------------------------------
(* PART 3.  Moments.                                                          *)

\* The service and the phone count as sets are counted.
LEMMA MomentCount == \A S : Moments!Cardinality(S) = Cardinality(S)
  BY DEF Moments!Cardinality, Cardinality

\* What a publisher hands to the sender, and the outbox keeps.
Post == [by : Moments!Members, kind : {"moment", "reaction", "deletion"}, of : Nat,
         status : {"queued", "sent"}, active : BOOLEAN, epoch : 1..MomentsMaxEpoch]
Drafts == {message \in Post : message.status = "queued"}
Numbers == [by : {0}, kind : {"none"}, of : Nat, active : {FALSE}, epoch : {0}, status : {"none"}]
Doing == [at : {"send"}, what : Drafts] \cup [at : {"idle", "upload"}, what : Numbers]

MomentTypes == /\ momentsEpoch \in 1..MomentsMaxEpoch
               /\ ops \in Seq(Post) /\ Len(ops) <= MaxOps
               /\ momentsRelay \in Seq(1..Len(ops))
               /\ DOMAIN momentsJob = Moments!Members
               /\ \A m \in Moments!Members : momentsJob[m] \in [Moments!Publishers(m) -> Doing]
               /\ got \in [Moments!Members -> Nat] /\ \A m \in Moments!Members : got[m] <= Len(momentsRelay)

\* An upload under way is of a message that was queued.
UploadsQueued == \A m \in Moments!Members : \A p \in Moments!Publishers(m) :
    momentsJob[m][p].at = "upload" => momentsJob[m][p].what.of \in 1..Len(ops)

\* What the phone counts as sent the relay has.
SentArrived == \A i \in 1..Len(ops) : ops[i].status = "sent" => Moments!Contains(momentsRelay, i)

MomentInv == MomentTypes /\ UploadsQueued /\ SentArrived

-----------------------------------------------------------------------------
\* The messages are numbered as they were queued.
LEMMA MomentOps ==
    ASSUME MomentTypes
    PROVE  /\ Moments!Ops = 1..Len(ops) /\ Len(ops) \in Nat /\ Len(momentsRelay) \in Nat
           /\ DOMAIN momentsRelay = 1..Len(momentsRelay)
           /\ \A i \in Moments!Ops : ops[i] \in Post
           /\ \A n \in 1..Len(momentsRelay) : momentsRelay[n] \in Moments!Ops
BY DEF MomentTypes, Moments!Ops

\* A publisher's job is replaced.
LEMMA JobReplaced ==
    ASSUME MomentTypes, NEW m \in Moments!Members, NEW p \in Moments!Publishers(m), NEW d \in Doing,
           momentsJob' = [momentsJob EXCEPT ![m][p] = d]
    PROVE  /\ DOMAIN momentsJob' = Moments!Members
           /\ \A x \in Moments!Members : momentsJob'[x] \in [Moments!Publishers(x) -> Doing]
           /\ momentsJob'[m][p] = d
           /\ \A x \in Moments!Members : \A q \in Moments!Publishers(x) :
                x # m \/ q # p => momentsJob'[x][q] = momentsJob[x][q]
BY DEF MomentTypes

\* A job that is over, a message on its way to the sender, and an upload.
LEMMA FreeDoing == Moments!Free \in Doing /\ Moments!Free.at = "idle"
BY DEF Moments!Free, Moments!NoMessage, Doing, Numbers

\* A message on its way to the sender.
LEMMA SendDoing ==
    ASSUME NEW message \in Drafts
    PROVE  [at |-> "send", what |-> message] \in Doing
BY DEF Doing

\* An upload under way.
LEMMA UploadDoing ==
    ASSUME NEW i \in Nat
    PROVE  \E d \in Doing : /\ d = [at |-> "upload", what |-> [Moments!NoMessage EXCEPT !.of = i]]
                            /\ d.what.of = i
<1>1. PICK what : what = [Moments!NoMessage EXCEPT !.of = i]
  OBVIOUS
<1>2. what \in Numbers /\ what.of = i
  BY <1>1 DEF Moments!NoMessage, Numbers
<1>3. [at |-> "upload", what |-> what] \in Doing
  BY <1>2 DEF Doing
<1> QED
  BY <1>1, <1>2, <1>3

\* The relay has one message more, or it had it.
LEMMA RelayTakes ==
    ASSUME MomentTypes, NEW i \in 1..Len(ops)
    PROVE  /\ Moments!Accepted(i) \in Seq(1..Len(ops)) /\ Len(momentsRelay) <= Len(Moments!Accepted(i))
           /\ Moments!Contains(Moments!Accepted(i), i)
           /\ \A j : Moments!Contains(momentsRelay, j) => Moments!Contains(Moments!Accepted(i), j)
<1>1. momentsRelay \in Seq(1..Len(ops)) /\ Len(momentsRelay) \in Nat
  BY DEF MomentTypes
<1>2. CASE Moments!Contains(momentsRelay, i)
  BY <1>1, <1>2 DEF Moments!Accepted
<1>3. CASE ~Moments!Contains(momentsRelay, i)
  <2>1. PICK longer : longer = Append(momentsRelay, i)
    OBVIOUS
  <2>2. /\ longer \in Seq(1..Len(ops)) /\ Len(longer) = Len(momentsRelay) + 1 /\ longer[Len(longer)] = i
        /\ \A n \in 1..Len(momentsRelay) : longer[n] = momentsRelay[n]
    BY <1>1, <2>1
  <2> QED
    BY <1>1, <1>3, <2>1, <2>2 DEF Moments!Accepted, Moments!Contains
<1> QED
  BY <1>2, <1>3

\* A message that is marked as sent is otherwise the same.
LEMMA MarkedSent ==
    ASSUME MomentTypes, NEW i \in 1..Len(ops)
    PROVE  /\ Moments!Confirmed(i) \in Seq(Post) /\ Len(Moments!Confirmed(i)) = Len(ops)
           /\ \A j \in 1..Len(ops) : j # i => Moments!Confirmed(i)[j] = ops[j]
<1>1. ops \in Seq(Post) /\ ops[i] \in Post
  BY DEF MomentTypes
<1>2. [ops[i] EXCEPT !.status = "sent"] \in Post
  BY <1>1 DEF Post
<1> QED
  BY <1>1, <1>2 DEF Moments!Confirmed

\* A publisher that begins has room for one message.
LEMMA BeginKeeps ==
    ASSUME MomentInv, NEW m \in Moments!Members, NEW p \in Moments!Publishers(m), NEW message \in Drafts,
           Moments!Begin(m, p, message)
    PROVE  MomentInv'
<1>1. /\ MomentTypes /\ UNCHANGED <<momentsEpoch, ops, momentsRelay, got>>
      /\ momentsJob' = [momentsJob EXCEPT ![m][p] = [at |-> "send", what |-> message]]
  BY DEF MomentInv, Moments!Begin
<1>2. PICK d \in Doing : d = [at |-> "send", what |-> message] /\ d.at = "send"
  BY SendDoing
<1>a. MomentTypes /\ momentsJob' = [momentsJob EXCEPT ![m][p] = d]
  BY <1>1, <1>2
<1>3. /\ DOMAIN momentsJob' = Moments!Members
      /\ \A x \in Moments!Members : momentsJob'[x] \in [Moments!Publishers(x) -> Doing]
      /\ momentsJob'[m][p] = d
      /\ \A x \in Moments!Members : \A q \in Moments!Publishers(x) :
           x # m \/ q # p => momentsJob'[x][q] = momentsJob[x][q]
  BY <1>a, JobReplaced
<1>4. MomentTypes'
  BY <1>1, <1>3 DEF MomentTypes
<1>5. UploadsQueued'
  BY <1>1, <1>2, <1>3 DEF MomentInv, UploadsQueued
<1>6. SentArrived'
  BY <1>1 DEF MomentInv, SentArrived
<1> QED
  BY <1>4, <1>5, <1>6 DEF MomentInv

\* A new message of a publisher is one.
LEMMA NewPost ==
    ASSUME MomentTypes, NEW m \in Moments!Members, NEW kind \in {"moment", "reaction", "deletion"},
           NEW i \in Nat, NEW on \in BOOLEAN
    PROVE  Moments!Message(m, kind, i, on) \in Drafts
BY DEF MomentTypes, Moments!Message, Post, Drafts

\* A screen publishes, reacts or deletes.
LEMMA PublisherKeeps ==
    ASSUME MomentInv, NEW m \in Moments!Members,
           \/ \E p \in Moments!Publishers(m) : Moments!Publish(m, p)
           \/ \E i \in Moments!Ops : Moments!React(m, i) \/ Moments!Delete(m, i)
    PROVE  MomentInv'
<1>1. MomentTypes /\ "screen" \in Moments!Publishers(m) /\ Moments!Ops \subseteq Nat
  BY MomentOps DEF MomentInv, Moments!Publishers
<1>2. ASSUME NEW p \in Moments!Publishers(m), Moments!Publish(m, p)
      PROVE  MomentInv'
  BY <1>1, <1>2, NewPost, BeginKeeps DEF Moments!Publish
<1>3. ASSUME NEW i \in Moments!Ops, Moments!React(m, i)
      PROVE  MomentInv'
  <2>1. PICK on \in BOOLEAN : on = ~Moments!Reacted(m, m, i)
    OBVIOUS
  <2> QED
    BY <1>1, <1>3, <2>1, NewPost, BeginKeeps DEF Moments!React
<1>4. ASSUME NEW i \in Moments!Ops, Moments!Delete(m, i)
      PROVE  MomentInv'
  BY <1>1, <1>4, NewPost, BeginKeeps DEF Moments!Delete
<1> QED
  BY <1>2, <1>3, <1>4

\* The screen tries again the one Moment that waits.
LEMMA RetryKeeps ==
    ASSUME MomentInv, NEW m \in Moments!Members, Moments!Retry(m)
    PROVE  MomentInv'
<1>1. MomentTypes /\ "screen" \in Moments!Publishers(m) /\ UNCHANGED <<momentsEpoch, ops, momentsRelay, got>>
  BY DEF MomentInv, Moments!Publishers, Moments!Retry
<1>2. PICK i : Moments!PendingMoments(m) = {i}
  <2>1. IsFiniteSet(1..Len(ops)) /\ Moments!PendingMoments(m) \subseteq 1..Len(ops)
    <3>1. Len(ops) \in Nat /\ Moments!Ops = 1..Len(ops)
      BY <1>1, MomentOps
    <3>2. IsFiniteSet(1..Len(ops))
      BY <3>1, FS_Interval
    <3> QED  BY <3>1, <3>2 DEF Moments!PendingMoments, Moments!Queued
  <2>2. IsFiniteSet(Moments!PendingMoments(m)) /\ Cardinality(Moments!PendingMoments(m)) = 1
    BY <2>1, FS_Subset, MomentCount DEF Moments!Retry
  <2> QED
    BY <2>2, FS_Singleton
<1>3. i \in Moments!Ops
  BY <1>2 DEF Moments!PendingMoments, Moments!Queued
<1>4. Moments!Max(Moments!PendingMoments(m)) = i
  BY <1>1, <1>2, <1>3, MomentOps DEF Moments!Max
<1>5. PICK d \in Doing : /\ d = [at |-> "upload", what |-> [Moments!NoMessage EXCEPT !.of = i]]
                         /\ d.what.of = i
  <2>1. i \in Nat
    BY <1>1, <1>3, MomentOps
  <2> QED
    BY <2>1, UploadDoing
<1>6. momentsJob' = [momentsJob EXCEPT ![m]["screen"] = d]
  BY <1>4, <1>5 DEF Moments!Retry
<1>7. /\ DOMAIN momentsJob' = Moments!Members
      /\ \A x \in Moments!Members : momentsJob'[x] \in [Moments!Publishers(x) -> Doing]
      /\ momentsJob'[m]["screen"] = d
      /\ \A x \in Moments!Members : \A q \in Moments!Publishers(x) :
           x # m \/ q # "screen" => momentsJob'[x][q] = momentsJob[x][q]
  BY <1>1, <1>6, JobReplaced
<1>8. MomentTypes'
  BY <1>1, <1>7 DEF MomentTypes
<1>9. UploadsQueued'
  BY <1>1, <1>3, <1>5, <1>7, MomentOps DEF MomentInv, UploadsQueued
<1>10. SentArrived'
  BY <1>1 DEF MomentInv, SentArrived
<1> QED
  BY <1>8, <1>9, <1>10 DEF MomentInv

\* A message gets its number when it is encrypted.
LEMMA EncryptKeeps ==
    ASSUME MomentInv, NEW m \in Moments!Members, NEW p \in Moments!Publishers(m), Moments!Encrypt(m, p)
    PROVE  MomentInv'
<1>1. /\ MomentTypes /\ UNCHANGED <<momentsEpoch, momentsRelay, got>> /\ Len(ops) \in Nat
      /\ momentsJob[m][p] \in Doing /\ momentsJob[m][p].at = "send"
  BY MomentOps DEF MomentInv, Moments!Encrypt, MomentTypes
<1>2. PICK message : message = momentsJob[m][p].what
  OBVIOUS
<1>3. message \in Drafts
  BY <1>1, <1>2 DEF Doing
<1>4. message \in Post /\ message.status = "queued"
  BY <1>3 DEF Drafts
<1>5. CASE /\ ops' = Append(ops, message) /\ Len(ops) < MaxOps
           /\ momentsJob' = [momentsJob EXCEPT ![m][p] = [at |-> "upload", what |-> [Moments!NoMessage EXCEPT !.of = Len(ops) + 1]]]
  <2>1. PICK d \in Doing : /\ d = [at |-> "upload", what |-> [Moments!NoMessage EXCEPT !.of = Len(ops) + 1]]
                           /\ d.what.of = Len(ops) + 1
    <3>1. Len(ops) + 1 \in Nat
      BY <1>1
    <3> QED
      BY <3>1, UploadDoing
  <2>2. /\ DOMAIN momentsJob' = Moments!Members
        /\ \A x \in Moments!Members : momentsJob'[x] \in [Moments!Publishers(x) -> Doing]
        /\ momentsJob'[m][p] = d
        /\ \A x \in Moments!Members : \A q \in Moments!Publishers(x) :
             x # m \/ q # p => momentsJob'[x][q] = momentsJob[x][q]
    <3>1. momentsJob' = [momentsJob EXCEPT ![m][p] = d]
      BY <1>5, <2>1
    <3> QED
      BY <1>1, <3>1, JobReplaced
  <2>3. PICK longer : longer = ops'
    OBVIOUS
  <2>4. /\ longer \in Seq(Post) /\ Len(longer) = Len(ops) + 1
        /\ \A i \in 1..Len(ops) : longer[i] = ops[i]
        /\ longer[Len(ops) + 1] = message
    BY <1>1, <1>4, <1>5, <2>3 DEF MomentTypes
  <2>5. momentsRelay \in Seq(1..(Len(ops) + 1))
    <3>1. momentsRelay \in Seq(1..Len(ops)) /\ 1..Len(ops) \subseteq 1..(Len(ops) + 1)
      BY <1>1 DEF MomentTypes
    <3> QED
      BY <3>1
  <2>6. Len(ops) + 1 <= MaxOps
    BY <1>1, <1>5, MomentBounds
  <2>7. MomentTypes'
    BY <1>1, <2>2, <2>3, <2>4, <2>5, <2>6 DEF MomentTypes
  <2>8. UploadsQueued'
    <3> SUFFICES ASSUME NEW x \in Moments!Members, NEW q \in Moments!Publishers(x), momentsJob'[x][q].at = "upload"
                 PROVE  momentsJob'[x][q].what.of \in 1..(Len(ops) + 1)
      BY <2>3, <2>4 DEF UploadsQueued
    <3>1. CASE x = m /\ q = p
      BY <3>1, <1>1, <2>1, <2>2
    <3>2. CASE x # m \/ q # p
      <4>1. momentsJob'[x][q].what.of \in 1..Len(ops)
        BY <3>2, <2>2 DEF MomentInv, UploadsQueued
      <4> QED
        BY <4>1, <1>1
    <3> QED
      BY <3>1, <3>2
  <2>9. SentArrived'
    BY <1>1, <1>4, <2>3, <2>4 DEF MomentInv, SentArrived
  <2> QED
    BY <2>7, <2>8, <2>9 DEF MomentInv
<1>6. CASE momentsJob' = [momentsJob EXCEPT ![m][p] = Moments!Free] /\ ops' = ops
  <2>1. /\ DOMAIN momentsJob' = Moments!Members
        /\ \A x \in Moments!Members : momentsJob'[x] \in [Moments!Publishers(x) -> Doing]
        /\ momentsJob'[m][p] = Moments!Free
        /\ \A x \in Moments!Members : \A q \in Moments!Publishers(x) :
             x # m \/ q # p => momentsJob'[x][q] = momentsJob[x][q]
    BY <1>1, <1>6, FreeDoing, JobReplaced
  <2>2. MomentTypes'
    BY <1>1, <1>6, <2>1 DEF MomentTypes
  <2>3. UploadsQueued' /\ SentArrived'
    BY <1>1, <1>6, <2>1, FreeDoing DEF MomentInv, UploadsQueued, SentArrived
  <2> QED
    BY <2>2, <2>3 DEF MomentInv
<1> QED
  BY <1>2, <1>5, <1>6 DEF Moments!Encrypt

\* What the relay and the outbox learn of a message, whoever sent it.
LEMMA Arrives ==
    ASSUME MomentInv, NEW i \in 1..Len(ops),
           UNCHANGED <<momentsEpoch, got>>,
           \/ momentsRelay' = momentsRelay /\ ops' = ops
           \/ momentsRelay' = Moments!Accepted(i) /\ ops' = ops
           \/ momentsRelay' = Moments!Accepted(i) /\ ops' = Moments!Confirmed(i),
           DOMAIN momentsJob' = Moments!Members,
           \A x \in Moments!Members : momentsJob'[x] \in [Moments!Publishers(x) -> Doing],
           \A x \in Moments!Members : \A q \in Moments!Publishers(x) :
               momentsJob'[x][q].at = "upload" => momentsJob'[x][q] = momentsJob[x][q]
    PROVE  MomentInv'
<1>1. MomentTypes /\ Len(ops) \in Nat /\ Len(momentsRelay) \in Nat
  BY MomentOps DEF MomentInv
<1>2. PICK r : r = momentsRelay'
  OBVIOUS
<1>3. PICK o : o = ops'
  OBVIOUS
<1>4. /\ r \in Seq(1..Len(ops)) /\ Len(momentsRelay) <= Len(r)
      /\ \A j : Moments!Contains(momentsRelay, j) => Moments!Contains(r, j)
      /\ o # ops => Moments!Contains(r, i)
  BY <1>1, <1>2, <1>3, RelayTakes DEF MomentTypes
<1>5. /\ o \in Seq(Post) /\ Len(o) = Len(ops)
      /\ \A j \in 1..Len(ops) : j # i \/ o = ops => o[j] = ops[j]
  BY <1>1, <1>3, MarkedSent DEF MomentTypes
<1>6. MomentTypes'
  <2>1. \A m \in Moments!Members : got[m] <= Len(r) /\ got[m] \in Nat
    BY <1>1, <1>4 DEF MomentTypes
  <2> QED
    BY <1>1, <1>2, <1>3, <1>4, <1>5, <2>1 DEF MomentTypes
<1>7. UploadsQueued'
  BY <1>3, <1>5 DEF MomentInv, UploadsQueued
<1>8. SentArrived'
  BY <1>2, <1>3, <1>4, <1>5 DEF MomentInv, SentArrived
<1> QED
  BY <1>6, <1>7, <1>8 DEF MomentInv

\* An upload, whether its answer arrives or not.
LEMMA MomentUploadKeeps ==
    ASSUME MomentInv, NEW m \in Moments!Members, NEW p \in Moments!Publishers(m),
           Moments!Upload(m, p) \/ Moments!Unanswered(m, p)
    PROVE  MomentInv'
<1>1. /\ MomentTypes /\ momentsJob[m][p].at = "upload" /\ momentsJob' = [momentsJob EXCEPT ![m][p] = Moments!Free]
      /\ UNCHANGED <<momentsEpoch, got>>
  BY DEF MomentInv, Moments!Upload, Moments!Unanswered
<1>2. PICK i \in 1..Len(ops) : i = momentsJob[m][p].what.of
  BY <1>1 DEF MomentInv, UploadsQueued
<1>3. \/ momentsRelay' = momentsRelay /\ ops' = ops
      \/ momentsRelay' = Moments!Accepted(i) /\ ops' = ops
      \/ momentsRelay' = Moments!Accepted(i) /\ ops' = Moments!Confirmed(i)
  BY <1>2 DEF Moments!Upload, Moments!Unanswered
<1>4. /\ DOMAIN momentsJob' = Moments!Members
      /\ \A x \in Moments!Members : momentsJob'[x] \in [Moments!Publishers(x) -> Doing]
      /\ momentsJob'[m][p] = Moments!Free
      /\ \A x \in Moments!Members : \A q \in Moments!Publishers(x) :
           x # m \/ q # p => momentsJob'[x][q] = momentsJob[x][q]
  BY <1>1, FreeDoing, JobReplaced
<1>5. \A x \in Moments!Members : \A q \in Moments!Publishers(x) :
        momentsJob'[x][q].at = "upload" => momentsJob'[x][q] = momentsJob[x][q]
  BY <1>4, FreeDoing
<1> QED
  BY <1>1, <1>3, <1>4, <1>5, Arrives

\* The worker takes up a message that waits.
LEMMA WorkerKeeps ==
    ASSUME MomentInv, NEW m \in Moments!Members, Moments!Worker(m)
    PROVE  MomentInv'
<1>1. PICK i \in Moments!Queued(m) : momentsRelay' = Moments!Accepted(i) /\ ops' = Moments!Confirmed(i)
  BY DEF Moments!Worker
<1>2. i \in 1..Len(ops) /\ UNCHANGED <<momentsEpoch, got, momentsJob>>
  BY <1>1, MomentOps DEF Moments!Queued, MomentInv, Moments!Worker
<1>3. /\ DOMAIN momentsJob' = Moments!Members
      /\ \A x \in Moments!Members : momentsJob'[x] \in [Moments!Publishers(x) -> Doing]
  BY <1>2 DEF MomentInv, MomentTypes
<1> QED
  BY <1>1, <1>2, <1>3, Arrives

\* Receiving, and the epoch, leave the messages alone.
LEMMA OthersKeep ==
    ASSUME MomentInv, (\E m \in Moments!Members : Moments!Receive(m)) \/ Moments!NextEpoch \/ UNCHANGED Moments!momentVars
    PROVE  MomentInv'
<1>1. MomentTypes /\ UNCHANGED <<ops, momentsRelay, momentsJob>>
  BY DEF MomentInv, Moments!Receive, Moments!NextEpoch, Moments!momentVars
<1>2. momentsEpoch' \in 1..MomentsMaxEpoch
  <2>1. CASE Moments!NextEpoch
    <3>1. momentsEpoch \in 1..MomentsMaxEpoch /\ momentsEpoch < MomentsMaxEpoch /\ momentsEpoch' = momentsEpoch + 1
      BY <1>1, <2>1 DEF Moments!NextEpoch, MomentTypes
    <3> QED  BY <3>1, MomentBounds
  <2>2. CASE UNCHANGED momentsEpoch
    BY <1>1, <2>2 DEF MomentTypes
  <2> QED  BY <2>1, <2>2 DEF Moments!Receive, Moments!momentVars
<1>3. got' \in [Moments!Members -> Nat] /\ \A m \in Moments!Members : got'[m] <= Len(momentsRelay)
  <2>1. CASE got' = got
    BY <2>1, <1>1 DEF MomentTypes
  <2>2. ASSUME NEW m \in Moments!Members, Moments!Receive(m)
        PROVE  got' \in [Moments!Members -> Nat] /\ \A x \in Moments!Members : got'[x] <= Len(momentsRelay)
    BY <2>2, <1>1, MomentOps DEF MomentTypes, Moments!Receive
  <2> QED
    BY <2>1, <2>2 DEF Moments!NextEpoch, Moments!momentVars
<1>4. MomentTypes'
  BY <1>1, <1>2, <1>3 DEF MomentTypes
<1> QED
  BY <1>1, <1>4 DEF MomentInv, UploadsQueued, SentArrived

\* Nothing is queued, sent or received yet.
LEMMA MomentInitInv == Moments!MomentInit => MomentInv
<1> SUFFICES ASSUME Moments!MomentInit PROVE MomentInv
  OBVIOUS
<1>1. /\ ops = <<>> /\ momentsRelay = <<>> /\ Len(ops) = 0 /\ Len(momentsRelay) = 0
      /\ ops \in Seq(Post) /\ momentsRelay \in Seq(1..Len(ops))
  BY DEF Moments!MomentInit
<1>2. momentsJob = [m \in Moments!Members |-> [p \in Moments!Publishers(m) |-> Moments!Free]]
  BY DEF Moments!MomentInit
<1>3. \A m \in Moments!Members : momentsJob[m] \in [Moments!Publishers(m) -> Doing]
  BY <1>2, FreeDoing
<1>4. MomentTypes
  BY <1>1, <1>2, <1>3, MomentBounds DEF Moments!MomentInit, MomentTypes
<1>5. UploadsQueued /\ SentArrived
  BY <1>1, <1>2, FreeDoing DEF UploadsQueued, SentArrived
<1> QED
  BY <1>4, <1>5 DEF MomentInv

\* Every step of the Moments keeps the invariant.
LEMMA MomentStep == MomentInv /\ (Moments!MomentNext \/ UNCHANGED Moments!momentVars) => MomentInv'
<1> SUFFICES ASSUME MomentInv, (Moments!MomentNext \/ UNCHANGED Moments!momentVars) PROVE MomentInv'
  OBVIOUS
<1> QED
  BY PublisherKeeps, RetryKeeps, EncryptKeeps, MomentUploadKeeps, WorkerKeeps, OthersKeep
       DEF Moments!MomentNext

\* Whose messages are all sent and who has received what the relay holds knows what
\* the relay holds.
LEMMA LevelKnows ==
    ASSUME MomentInv, NEW m \in Moments!Members, Moments!Queued(m) = {}, got[m] = Len(momentsRelay), NEW i \in Moments!Ops
    PROVE  Moments!Knows(m, i) <=> Moments!Contains(momentsRelay, i)
<1>1. MomentTypes /\ i \in 1..Len(ops) /\ ops[i] \in Post
  BY MomentOps DEF MomentInv
<1>2. ops[i].by = m => ops[i].status = "sent"
  BY <1>1 DEF Moments!Queued, Post
<1>3. ops[i].by = m => Moments!Contains(momentsRelay, i)
  BY <1>1, <1>2 DEF MomentInv, SentArrived
<1> QED
  BY <1>3 DEF Moments!Knows, Moments!Contains

\* Two phones that know the same messages show the same timeline.
LEMMA MomentSafe == MomentInv => Moments!MomentTypeOK /\ Moments!TimelinesAgree
<1> SUFFICES ASSUME MomentInv PROVE Moments!MomentTypeOK /\ Moments!TimelinesAgree
  OBVIOUS
<1>1. Moments!MomentTypeOK
  <2>1. \A i \in Moments!Ops : ops[i].status \in {"queued", "sent"}
    BY MomentOps DEF MomentInv, Post
  <2>2. \A m \in Moments!Members : got[m] \in 0..Len(momentsRelay)
    BY MomentOps DEF MomentInv, MomentTypes
  <2> QED
    BY <2>1, <2>2, MomentOps DEF MomentInv, MomentTypes, Moments!MomentTypeOK
<1>2. Moments!TimelinesAgree
  <2> SUFFICES ASSUME NEW a \in Moments!Members, NEW b \in Moments!Members, Moments!Level(a, b)
               PROVE  Moments!Timeline(a) = Moments!Timeline(b)
    BY DEF Moments!TimelinesAgree
  <2>1. \A i \in Moments!Ops : Moments!Knows(a, i) <=> Moments!Contains(momentsRelay, i)
    BY LevelKnows DEF Moments!Level
  <2>2. \A i \in Moments!Ops : Moments!Knows(b, i) <=> Moments!Contains(momentsRelay, i)
    BY LevelKnows DEF Moments!Level
  <2>3. \A d, i : Moments!Hides(a, d, i) <=> Moments!Hides(b, d, i)
    BY DEF Moments!Hides
  <2> QED
    BY <2>1, <2>2, <2>3 DEF Moments!Timeline
<1> QED
  BY <1>1, <1>2

-----------------------------------------------------------------------------
(* PART 4.  The stickers of a Circle.                                          *)

\* The parts of a collection are counted as sets are.
LEMMA CollectionCount == \A S : Collection!Cardinality(S) = Cardinality(S)
  BY DEF Collection!Cardinality, Cardinality

\* The changes that were committed, and the stickers after the first r of them.
Changed == {events[k].body : k \in {n \in DOMAIN events : events[n].body.kind # "part"}}
Added(r) == {c.item : c \in {d \in Changed : d.kind = "add" /\ d.revision <= r}}
Taken(r) == {c.item : c \in {d \in Changed : d.kind = "remove" /\ d.revision <= r}}
ItemsAt(r) == Added(r) \ Taken(r)

\* How the stickers of a set are split into parts.
ShareOf(S, i) == Collection!Cardinality({j \in S : j < i}) \div PartSize
Shares(S) == IF S = {} THEN 1 ELSE ((Collection!Cardinality(S) - 1) \div PartSize) + 1
Share(S, k) == {i \in S : ShareOf(S, i) = k}

ChangeBodies == [kind : {"add", "remove"}, item : Collection!Items, epoch : 1..CollectionMaxEpoch, revision : 1..CollectionMaxRevision]
\* A part is of the stickers of its revision, each in a picture of its epoch.
PartTrue(b) ==
    /\ b.revision \in 0..collectionCircle.revision
    /\ Collection!Topology(b.items) = Share(ItemsAt(b.revision), b.part)
    /\ \A m \in b.items : m.epoch = b.epoch
    /\ b.parts = Shares(ItemsAt(b.revision)) /\ b.part \in 0..(b.parts - 1)
BodyTrue(b) == IF b.kind = "part" THEN PartTrue(b) ELSE b \in ChangeBodies

Circle == collectionCircle \in [epoch : 1..CollectionMaxEpoch, revision : 0..CollectionMaxRevision, items : SUBSET Collection!Items, joined : BOOLEAN]
Counts == collectionMishaps \in 0..CollectionMaxMishaps /\ pulled \in [Collection!Phones -> 0..Len(events)]
Log == /\ events \in Seq({events[k] : k \in DOMAIN events})
       /\ \A k \in DOMAIN events : BodyTrue(events[k].body)
Outbox == \A o \in DOMAIN rows :
             /\ rows[o] \in [status : {"queued", "sent", "retired"}, body : {rows[o].body}]
             /\ BodyTrue(rows[o].body)
Edits == edit = Collection!NoEdit \/ edit \in [phase : {"prepared", "uploaded"}, item : Collection!Items, epoch : 1..CollectionMaxEpoch,
                                               revision : 0..(CollectionMaxRevision - 1)]

\* Each revision is of one change, and the stickers are what the changes leave.
OneEach == /\ \A c \in Changed : c.revision <= collectionCircle.revision
           /\ \A c, d \in Changed : c.revision = d.revision => c = d
           /\ Taken(collectionCircle.revision) \subseteq Added(collectionCircle.revision)
           /\ collectionCircle.items = ItemsAt(collectionCircle.revision)

\* A sticker is added once: by its own operation, or by another member's phone.
AddedOnce ==
    /\ \A o \in DOMAIN rows : rows[o].body.kind = "add" => o = Collection!AddOp(rows[o].body.item)
    /\ \A c \in Changed : c.kind = "add" =>
         /\ \A o \in DOMAIN rows :
              rows[o].body.kind = "add" /\ rows[o].body.item = c.item => o \in DOMAIN collectionRelay
         /\ edit.item = c.item => Collection!AddOp(c.item) \in DOMAIN rows

\* What a refresh has in hand is the collection of the revision it began at.
RefreshTrue ==
    LET S == ItemsAt(collectionJob.revision)
    IN /\ collectionJob \in [kind : {"refresh"}, at : {"upload", "parts", "clear", "acknowledge"}, snapshot : {collectionJob.snapshot},
                   epoch : 1..CollectionMaxEpoch, revision : {collectionJob.revision}, todo : SUBSET Collection!Items, part : Nat,
                   items : {collectionJob.items}, ops : {collectionJob.ops}, sizes : {collectionJob.sizes}]
       /\ collectionJob.revision \in 0..collectionCircle.revision
       /\ Collection!Topology(collectionJob.items) = S
       /\ \A m \in collectionJob.items : m.item \in collectionJob.todo \/ m.epoch = collectionJob.epoch
       /\ DOMAIN collectionJob.ops = 0..(Shares(S) - 1)
       /\ collectionJob.sizes = [k \in 0..(Shares(S) - 1) |-> Share(S, k)]
       /\ collectionJob.part \in 0..(Shares(S) - 1)
Task ==
    \/ collectionJob = Collection!Idle
    \/ collectionJob \in [kind : {"add"}, at : {"check", "acknowledge"}]
    \/ collectionJob \in [kind : {"add"}, at : {"upload", "send"}] /\ edit # Collection!NoEdit
    \/ collectionJob \in [kind : {"add", "remove"}, at : {"deliver"}, op : DOMAIN rows]
    \/ collectionJob.kind = "remove" /\ collectionJob.at = "send" /\ collectionJob.body \in ChangeBodies /\ collectionJob.body.kind = "remove"
    \/ RefreshTrue

\* What is of the Circle, of the log and of the outbox; and what is in hand.
Shared == Circle /\ Log /\ Outbox /\ Edits /\ OneEach /\ AddedOnce
Plain == Shared /\ Counts /\ Task

\* The parts the phone wrote for an epoch and a revision, and whether all of them were sent.
PartRows == {o \in DOMAIN rows : rows[o].body.kind = "part"}
RowsOf(e, r) == {o \in PartRows : rows[o].body.epoch = e /\ rows[o].body.revision = r}
SentPart(e, r, k) == \E o \in RowsOf(e, r) : rows[o].body.part = k /\ rows[o].status = "sent"
Complete(e, r) == \A k \in 0..(Shares(ItemsAt(r)) - 1) : SentPart(e, r, k)
\* The pictures of an epoch and a revision.
Whole(e, r) == UNION {rows[o].body.items : o \in RowsOf(e, r)}

\* What is sent is in the log, and a part in the log is one that the phone wrote.
Logged ==
    /\ \A o \in PartRows : rows[o].status = "sent" \/ Collection!Committed(o) =>
         \E n \in DOMAIN events : events[n].op = o /\ events[n].body = rows[o].body /\ "admin" \in events[n].to
    /\ \A n \in DOMAIN events : events[n].body.kind = "part" =>
         events[n].op \in PartRows /\ rows[events[n].op].body = events[n].body
    /\ DOMAIN collectionRelay \subseteq DOMAIN rows
Begun == /\ snaps \in Seq(SUBSET Nat)
         /\ \A o \in PartRows : rows[o].body.snapshot \in DOMAIN snaps

\* For an epoch and a revision there is one publication, and the same part is written once.
OnePublication ==
    \A e, r : \A o, q \in RowsOf(e, r) :
        /\ rows[o].body.snapshot = rows[q].body.snapshot
        /\ rows[o].body.part = rows[q].body.part => rows[o].body = rows[q].body
\* While nothing is in the vault, whatever was begun is sent.
Finished == collectionSaved = Collection!NoPublication => \A e, r : RowsOf(e, r) # {} => Complete(e, r)

\* A refresh begins where nothing was published, and what it has written is its own.
JobPart(k) == [kind |-> "part", snapshot |-> collectionJob.snapshot, epoch |-> collectionJob.epoch,
               revision |-> collectionJob.revision, part |-> k, parts |-> Collection!Cardinality(DOMAIN collectionJob.ops),
               items |-> {m \in collectionJob.items : m.item \in collectionJob.sizes[k]}]
Uploading ==
    collectionJob.kind = "refresh" /\ collectionJob.at = "upload" =>
        /\ collectionJob.snapshot = Len(snaps) + 1 /\ collectionJob.part = 0
        /\ collectionSaved = Collection!NoPublication => RowsOf(collectionJob.epoch, collectionJob.revision) = {}
Done(k) == collectionJob.at = "clear" \/ k < collectionJob.part
Publishing ==
    collectionJob.kind = "refresh" /\ collectionJob.at \in {"parts", "clear"} =>
        /\ collectionSaved # Collection!NoPublication /\ collectionJob.snapshot \in DOMAIN snaps /\ collectionJob.todo = {}
        /\ \A e, r : RowsOf(e, r) # {} => Complete(e, r) \/ (e = collectionJob.epoch /\ r = collectionJob.revision)
        /\ \A o \in RowsOf(collectionJob.epoch, collectionJob.revision) : rows[o].body = JobPart(rows[o].body.part)
        /\ \A k \in DOMAIN collectionJob.ops : Done(k) => SentPart(collectionJob.epoch, collectionJob.revision, k)

Published == Logged /\ Begun /\ OnePublication /\ Finished /\ Uploading /\ Publishing
CollectionInv == Plain /\ Published

-----------------------------------------------------------------------------
(* What a step leaves: the collection of a revision that there was is what it was. *)

Onward == /\ collectionCircle.revision \in Nat /\ collectionCircle'.revision \in Nat /\ collectionCircle.revision <= collectionCircle'.revision
          /\ \A r \in 0..collectionCircle.revision : ItemsAt(r)' = ItemsAt(r)

\* What was true of a message is still true.
LEMMA BodiesStay == ASSUME Onward, NEW b, BodyTrue(b) PROVE BodyTrue(b)'
<1>1. CASE b.kind = "part"
  <2>1. b.revision \in 0..collectionCircle.revision
    BY <1>1 DEF BodyTrue, PartTrue
  <2>2. b.revision \in 0..collectionCircle'.revision /\ ItemsAt(b.revision)' = ItemsAt(b.revision)
    BY <2>1 DEF Onward
  <2> QED  BY <1>1, <2>2 DEF BodyTrue, PartTrue
<1>2. CASE b.kind # "part"
  BY <1>2 DEF BodyTrue
<1> QED  BY <1>1, <1>2

\* So is what a refresh has in hand.
LEMMA RefreshStays == ASSUME Onward, RefreshTrue, UNCHANGED collectionJob PROVE RefreshTrue'
<1>1. collectionJob.revision \in 0..collectionCircle.revision
  BY DEF RefreshTrue
<1>2. collectionJob.revision \in 0..collectionCircle'.revision /\ ItemsAt(collectionJob.revision)' = ItemsAt(collectionJob.revision)
  BY <1>1 DEF Onward
<1> QED  BY <1>2 DEF RefreshTrue

\* Nothing that is committed, nothing changed.
LEMMA WorldStays ==
    ASSUME Circle, UNCHANGED events, collectionCircle'.revision = collectionCircle.revision
    PROVE  Onward /\ Changed' = Changed /\ \A r : ItemsAt(r)' = ItemsAt(r)
<1>1. Changed' = Changed
  BY DEF Changed
<1>2. \A r : ItemsAt(r)' = ItemsAt(r)
  BY <1>1 DEF ItemsAt, Added, Taken
<1>3. collectionCircle.revision \in Nat
  BY CollectionBounds DEF Circle
<1> QED  BY <1>1, <1>2, <1>3 DEF Onward

\* An event is added at the end of the log.
LEMMA EventsGrow ==
    ASSUME Log, NEW e, events' = Append(events, e)
    PROVE  /\ events' \in Seq({events[k] : k \in DOMAIN events})' 
           /\ Len(events) \in Nat /\ Len(events') = Len(events) + 1
           /\ DOMAIN events' = DOMAIN events \cup {Len(events) + 1}
           /\ \A k \in DOMAIN events : events'[k] = events[k]
           /\ events'[Len(events) + 1] = e
           /\ Len(events) + 1 \notin DOMAIN events
<1>1. PICK X : X = {events[k] : k \in DOMAIN events}
  OBVIOUS
<1>2. events \in Seq(X)
  BY <1>1 DEF Log
<1>3. /\ Len(events) \in Nat /\ DOMAIN events = 1..Len(events)
      /\ Len(events') = Len(events) + 1 /\ DOMAIN events' = 1..(Len(events) + 1)
      /\ \A k \in 1..Len(events) : events'[k] = events[k]
      /\ events'[Len(events) + 1] = e
  BY <1>2
<1>4. PICK Y : Y = {events'[k] : k \in DOMAIN events'}
  OBVIOUS
<1>5. X \subseteq Y /\ e \in Y
  BY <1>1, <1>3, <1>4
<1>6. events' \in Seq(Y)
  BY <1>2, <1>5
<1> QED  BY <1>3, <1>4, <1>6

\* A part that is committed is no change.
LEMMA PartCommitted ==
    ASSUME Log, Circle, NEW e, events' = Append(events, e), e.body.kind = "part", collectionCircle'.revision = collectionCircle.revision
    PROVE  Onward /\ Changed' = Changed /\ \A r : ItemsAt(r)' = ItemsAt(r)
<1>1. Changed' = Changed
  BY EventsGrow DEF Changed
<1>2. \A r : ItemsAt(r)' = ItemsAt(r)
  BY <1>1 DEF ItemsAt, Added, Taken
<1>3. collectionCircle.revision \in Nat
  BY CollectionBounds DEF Circle
<1> QED  BY <1>1, <1>2, <1>3 DEF Onward

\* A change that is committed is the one of the next revision.
LEMMA ChangeCommitted ==
    ASSUME Log, Circle, OneEach, NEW e, events' = Append(events, e), e.body \in ChangeBodies,
           e.body.revision = collectionCircle.revision + 1, collectionCircle'.revision = e.body.revision,
           collectionCircle'.items = IF e.body.kind = "add" THEN collectionCircle.items \cup {e.body.item} ELSE collectionCircle.items \ {e.body.item},
           e.body.kind = "add" => \A c \in Changed : c.kind = "add" => c.item # e.body.item,
           e.body.kind = "remove" => e.body.item \in collectionCircle.items
    PROVE  Onward /\ OneEach' /\ Changed' = Changed \cup {e.body}
<1>1. PICK b : b = e.body
  OBVIOUS
<1>2. /\ b \in ChangeBodies /\ b.revision = collectionCircle.revision + 1 /\ collectionCircle.revision \in Nat
      /\ b.kind \in {"add", "remove"} /\ collectionCircle'.revision = collectionCircle.revision + 1
  BY <1>1, CollectionBounds DEF Circle, ChangeBodies
<1>3. Changed' = Changed \cup {b}
  BY <1>1, <1>2, EventsGrow DEF Changed
<1>4. \A c \in Changed : c.revision \in 1..collectionCircle.revision /\ c.kind \in {"add", "remove"}
  <2>1. \A c \in Changed : c \in ChangeBodies
    BY DEF Log, Changed, BodyTrue
  <2> QED  BY <1>2, <2>1 DEF ChangeBodies, OneEach
<1>5. ASSUME NEW r \in 0..collectionCircle.revision PROVE Added(r)' = Added(r) /\ Taken(r)' = Taken(r)
  <2>1. ~(b.revision <= r)
    BY <1>2
  <2> QED  BY <1>3, <2>1 DEF Added, Taken
<1>6. PICK n \in Nat : n = collectionCircle.revision
  BY <1>2
<1>7. \A c \in Changed : c.revision <= n /\ c.revision <= n + 1
  BY <1>4, <1>6
<1>8. Added(n + 1)' = IF b.kind = "add" THEN Added(n) \cup {b.item} ELSE Added(n)
  BY <1>2, <1>3, <1>6, <1>7 DEF Added
<1>9. Taken(n + 1)' = IF b.kind = "remove" THEN Taken(n) \cup {b.item} ELSE Taken(n)
  BY <1>2, <1>3, <1>6, <1>7 DEF Taken
<1>10. collectionCircle.items = Added(n) \ Taken(n) /\ Taken(n) \subseteq Added(n)
  BY <1>6 DEF OneEach, ItemsAt
<1>11. b.kind = "add" => b.item \notin Added(n)
  BY <1>1 DEF Added
<1>12. ItemsAt(n + 1)' = collectionCircle'.items /\ Taken(n + 1)' \subseteq Added(n + 1)'
  <2>1. CASE b.kind = "add"
    BY <1>1, <1>8, <1>9, <1>10, <1>11, <2>1 DEF ItemsAt
  <2>2. CASE b.kind = "remove"
    BY <1>1, <1>8, <1>9, <1>10, <2>2 DEF ItemsAt
  <2> QED  BY <1>2, <2>1, <2>2
<1>13. Onward
  BY <1>2, <1>5 DEF Onward, ItemsAt
<1>14. \A c, d \in Changed' : c.revision = d.revision => c = d
  BY <1>2, <1>3, <1>4 DEF OneEach
<1>15. \A c \in Changed' : c.revision <= collectionCircle'.revision
  BY <1>2, <1>3, <1>6, <1>7
<1> QED  BY <1>1, <1>2, <1>3, <1>6, <1>12, <1>13, <1>14, <1>15 DEF OneEach

-----------------------------------------------------------------------------
(* The relay, and what its answers do to the outbox.                        *)

RowsKept == /\ DOMAIN rows' = DOMAIN rows
            /\ \A o \in DOMAIN rows : /\ rows'[o].body = rows[o].body
                                      /\ rows'[o] \in [status : {"queued", "sent", "retired"}, body : {rows[o].body}]

\* A row is marked.
LEMMA Marked ==
    ASSUME Outbox, NEW o \in DOMAIN rows, NEW s \in {"sent", "retired"}, rows' = [rows EXCEPT ![o].status = s]
    PROVE  RowsKept
<1>1. DOMAIN rows' = DOMAIN rows /\ rows'[o] = [rows[o] EXCEPT !.status = s]
      /\ \A x \in DOMAIN rows : x # o => rows'[x] = rows[x]
  OBVIOUS
<1>2. ASSUME NEW x \in DOMAIN rows
      PROVE  rows'[x].body = rows[x].body /\ rows'[x] \in [status : {"queued", "sent", "retired"}, body : {rows[x].body}]
  <2>1. rows[x] \in [status : {"queued", "sent", "retired"}, body : {rows[x].body}]
    BY DEF Outbox
  <2>2. CASE x = o
    BY <1>1, <2>1, <2>2
  <2>3. CASE x # o
    BY <1>1, <2>1, <2>3
  <2> QED  BY <2>2, <2>3
<1> QED  BY <1>1, <1>2 DEF RowsKept

\* The outbox stays true while the collection goes on.
LEMMA OutboxStays == ASSUME Onward, Outbox, RowsKept \/ UNCHANGED rows PROVE Outbox' /\ RowsKept
<1>1. RowsKept
  BY DEF RowsKept, Outbox
<1>2. ASSUME NEW o \in DOMAIN rows' PROVE BodyTrue(rows[o].body)'
  <2>1. PICK b : b = rows[o].body
    OBVIOUS
  <2>2. o \in DOMAIN rows /\ rows'[o].body = b
    BY <1>1, <2>1 DEF RowsKept
  <2>3. BodyTrue(b)
    BY <2>1, <2>2 DEF Outbox
  <2>4. BodyTrue(b)'
    BY <2>3, BodiesStay
  <2> QED  BY <2>2, <2>4
<1>3. \A o \in DOMAIN rows' : rows'[o] \in [status : {"queued", "sent", "retired"}, body : {rows'[o].body}]
  BY <1>1 DEF RowsKept
<1> QED  BY <1>1, <1>2, <1>3 DEF Outbox

\* The relay takes what is queued, and the log is longer.
LEMMA CollectionCommitKeeps ==
    ASSUME Shared, NEW o \in DOMAIN rows, Collection!Accepts(o), Collection!Commit(o), RowsKept \/ UNCHANGED rows, UNCHANGED edit
    PROVE  Shared' /\ Onward /\ Len(events) \in Nat /\ Len(events') = Len(events) + 1
<1>1. PICK b : b = rows[o].body
  OBVIOUS
<1>2. PICK e : e = [op |-> o, body |-> b, to |-> Collection!Audience(b.epoch)]
  OBVIOUS
<1>3. /\ Circle /\ Log /\ Outbox /\ Edits /\ OneEach /\ AddedOnce
      /\ BodyTrue(b) /\ o \notin DOMAIN collectionRelay /\ e.body = b
      /\ events' = Append(events, e) /\ DOMAIN collectionRelay' = DOMAIN collectionRelay \cup {o}
  BY <1>1, <1>2 DEF Shared, Outbox, Collection!Accepts, Collection!Commit
<1>4. \A c \in Changed : c \in ChangeBodies
  BY <1>3 DEF Log, Changed, BodyTrue
<1>5. CASE b.kind = "part"
  <2>1. collectionCircle' = collectionCircle
    BY <1>1, <1>5 DEF Collection!Commit
  <2>2. Onward /\ Changed' = Changed /\ \A r : ItemsAt(r)' = ItemsAt(r)
    BY <1>3, <1>5, <2>1, PartCommitted
  <2>3. OneEach'
    BY <1>3, <2>1, <2>2 DEF OneEach, ItemsAt, Added, Taken
  <2>4. Outbox' /\ RowsKept
    BY <1>3, <2>2, OutboxStays
  <2>5. AddedOnce'
    BY <1>3, <2>2, <2>4 DEF AddedOnce, RowsKept, Collection!AddOp
  <2>6. Circle' /\ Edits'
    BY <1>3, <2>1 DEF Circle, Edits
  <2>7. \A k \in DOMAIN events : BodyTrue(events[k].body)'
    BY <1>3, <2>2, BodiesStay DEF Log
  <2>8. BodyTrue(b)'
    BY <1>3, <2>2, BodiesStay
  <2>9. Log' /\ Len(events) \in Nat /\ Len(events') = Len(events) + 1
    BY <1>3, <2>7, <2>8, EventsGrow DEF Log
  <2> QED  BY <2>2, <2>3, <2>4, <2>5, <2>6, <2>9 DEF Shared
<1>6. CASE b.kind # "part"
  <2>1. /\ b \in ChangeBodies /\ b.revision = collectionCircle.revision + 1
        /\ b.kind = "remove" => b.item \in collectionCircle.items
        /\ collectionCircle' = [collectionCircle EXCEPT !.revision = b.revision,
                          !.items = IF b.kind = "add" THEN collectionCircle.items \cup {b.item} ELSE collectionCircle.items \ {b.item}]
    BY <1>1, <1>3, <1>6 DEF BodyTrue, Collection!Accepts, Collection!Commit
  <2>2. PICK S : S = IF b.kind = "add" THEN collectionCircle.items \cup {b.item} ELSE collectionCircle.items \ {b.item}
    OBVIOUS
  <2>3. S \subseteq Collection!Items /\ b.revision \in 0..CollectionMaxRevision
    BY <1>3, <2>1, <2>2, CollectionBounds DEF Circle, ChangeBodies
  <2>4. collectionCircle'.revision = b.revision /\ collectionCircle'.items = S /\ Circle'
    <3>1. PICK c : c = [collectionCircle EXCEPT !.revision = b.revision]
      OBVIOUS
    <3>2. c \in [epoch : 1..CollectionMaxEpoch, revision : 0..CollectionMaxRevision, items : SUBSET Collection!Items, joined : BOOLEAN]
          /\ c.revision = b.revision
      BY <1>3, <2>3, <3>1 DEF Circle
    <3>3. collectionCircle' = [c EXCEPT !.items = S]
      BY <2>1, <2>2, <3>1
    <3> QED  BY <2>3, <3>2, <3>3 DEF Circle
  <2>5. b.kind = "add" => \A c \in Changed : c.kind = "add" => c.item # b.item
    BY <1>1, <1>3 DEF AddedOnce
  <2>6. Onward /\ OneEach' /\ Changed' = Changed \cup {b}
    BY <1>3, <2>1, <2>2, <2>4, <2>5, ChangeCommitted
  <2>7. Outbox' /\ RowsKept
    BY <1>3, <2>6, OutboxStays
  <2>8. AddedOnce'
    <3>1. \A x \in DOMAIN rows' : rows'[x].body.kind = "add" => x = Collection!AddOp(rows'[x].body.item)
      BY <1>3, <2>7 DEF AddedOnce, RowsKept
    <3>2. ASSUME NEW c \in Changed, c.kind = "add"
          PROVE  /\ \A x \in DOMAIN rows' :
                      rows'[x].body.kind = "add" /\ rows'[x].body.item = c.item => x \in DOMAIN collectionRelay'
                 /\ edit'.item = c.item => Collection!AddOp(c.item) \in DOMAIN rows'
      BY <1>3, <2>7, <3>2 DEF AddedOnce, RowsKept
    <3>3. ASSUME b.kind = "add"
          PROVE  /\ \A x \in DOMAIN rows' :
                      rows'[x].body.kind = "add" /\ rows'[x].body.item = b.item => x \in DOMAIN collectionRelay'
                 /\ Collection!AddOp(b.item) \in DOMAIN rows'
      <4>1. o = Collection!AddOp(b.item)
        BY <1>1, <1>3, <3>3 DEF AddedOnce
      <4> QED  BY <1>3, <2>7, <3>1, <4>1 DEF RowsKept
    <3> QED  BY <2>6, <3>1, <3>2, <3>3 DEF AddedOnce, Collection!AddOp
  <2>9. \A k \in DOMAIN events : BodyTrue(events[k].body)'
    BY <1>3, <2>6, BodiesStay DEF Log
  <2>10. BodyTrue(b)'
    BY <1>3, <2>6, BodiesStay
  <2>11. Log' /\ Len(events) \in Nat /\ Len(events') = Len(events) + 1
    BY <1>3, <2>9, <2>10, EventsGrow DEF Log
  <2>12. Edits'
    BY <1>3 DEF Edits
  <2> QED  BY <2>4, <2>6, <2>7, <2>8, <2>11, <2>12 DEF Shared
<1> QED  BY <1>5, <1>6

\* A step that commits nothing.
LEMMA QuietKeeps ==
    ASSUME Shared, UNCHANGED <<events, edit>>, DOMAIN collectionRelay \subseteq DOMAIN collectionRelay', RowsKept \/ UNCHANGED rows,
           collectionCircle'.revision = collectionCircle.revision, collectionCircle'.items = collectionCircle.items, Circle'
    PROVE  Shared' /\ Onward
<1>1. Circle /\ Log /\ Outbox /\ Edits /\ OneEach /\ AddedOnce
  BY DEF Shared
<1>2. Onward /\ Changed' = Changed /\ \A r : ItemsAt(r)' = ItemsAt(r)
  BY <1>1, WorldStays
<1>3. OneEach'
  BY <1>1, <1>2 DEF OneEach, ItemsAt, Added, Taken
<1>4. Outbox' /\ RowsKept
  BY <1>1, <1>2, OutboxStays
<1>5. AddedOnce'
  BY <1>1, <1>2, <1>4 DEF AddedOnce, RowsKept, Collection!AddOp
<1>6. \A k \in DOMAIN events : BodyTrue(events[k].body)'
  BY <1>1, <1>2, BodiesStay DEF Log
<1>7. Log' /\ Edits'
  BY <1>1, <1>6 DEF Log, Edits
<1> QED  BY <1>2, <1>3, <1>4, <1>5, <1>7 DEF Shared

\* An upload, an upload whose answer is lost, and one that is refused.
LEMMA AnswerKeeps ==
    ASSUME Shared, Counts, NEW o \in DOMAIN rows,
           (Collection!Upload(o) /\ UNCHANGED collectionMishaps) \/ Collection!Lost(o) \/ Collection!Refused(o),
           UNCHANGED <<edit, pulled>>
    PROVE  Shared' /\ Counts' /\ Onward /\ DOMAIN rows' = DOMAIN rows
<1>1. Circle /\ Outbox
  BY DEF Shared
<1>2. Collection!Confirm(o) => RowsKept
  BY <1>1, Marked DEF Collection!Confirm
<1>3. RowsKept \/ UNCHANGED rows
  BY <1>2 DEF Collection!Upload, Collection!Lost, Collection!Refused
<1>4. DOMAIN rows' = DOMAIN rows
  BY <1>3 DEF RowsKept
<1>5. collectionMishaps' \in 0..CollectionMaxMishaps
  BY CollectionBounds DEF Counts, Collection!Lost, Collection!Refused, Collection!Mishap
<1>6. CASE Collection!Accepts(o) /\ Collection!Commit(o)
  <2>1. Shared' /\ Onward /\ Len(events) \in Nat /\ Len(events') = Len(events) + 1
    BY <1>3, <1>6, CollectionCommitKeeps
  <2>2. pulled' \in [Collection!Phones -> 0..Len(events')]
    <3>1. PICK n \in Nat : n = Len(events) /\ Len(events') = n + 1
      BY <2>1
    <3> QED  BY <3>1 DEF Counts
  <2> QED  BY <1>4, <1>5, <2>1, <2>2 DEF Counts
<1>7. CASE UNCHANGED <<collectionCircle, events, snaps, collectionRelay>>
  BY <1>1, <1>3, <1>4, <1>5, <1>7, QuietKeeps DEF Counts, Circle
<1> QED  BY <1>6, <1>7 DEF Collection!Upload, Collection!Lost, Collection!Refused

-----------------------------------------------------------------------------
(* What a phone shows.                                                      *)

\* Of more there are as many parts.
LEMMA DivisionGrows ==
    ASSUME NEW k \in Nat \ {0}, NEW a \in Nat, NEW b \in Nat, a <= b
    PROVE  a \div k \in Nat /\ a \div k <= b \div k
<1>1. /\ a \div k \in Int /\ b \div k \in Int
      /\ k * (a \div k) <= a /\ a < k * (a \div k) + k
      /\ k * (b \div k) <= b /\ b < k * (b \div k) + k
  OBVIOUS
<1>2. PICK x \in Int : x = a \div k
  BY <1>1
<1>3. PICK y \in Int : y = b \div k
  BY <1>1
<1>4. k * x <= a /\ a < k * x + k /\ k * y <= b /\ b < k * y + k
  BY <1>1, <1>2, <1>3
<1>5. x <= y
  <2>1. SUFFICES ASSUME ~(x <= y) PROVE FALSE
    OBVIOUS
  <2>2. PICK d \in Nat : x = y + 1 + d
    <3>1. x - y - 1 \in Nat
      BY <2>1
    <3> QED  BY <3>1
  <2>3. k * x = k * y + k + k * d
    BY <2>2
  <2>4. k * d \in Nat /\ k * x \in Int /\ k * y \in Int
    OBVIOUS
  <2> QED  BY <1>4, <2>3, <2>4
<1>6. x \in Nat
  <2>1. SUFFICES ASSUME ~(0 <= x) PROVE FALSE
    OBVIOUS
  <2>2. PICK d \in Nat : x = -1 - d
    <3>1. -1 - x \in Nat
      BY <2>1
    <3> QED  BY <3>1
  <2>3. k * x = -k - k * d
    BY <2>2
  <2>4. k * d \in Nat /\ k * x \in Int
    OBVIOUS
  <2> QED  BY <1>4, <2>3, <2>4
<1> QED  BY <1>2, <1>3, <1>5, <1>6

\* Every sticker is in one of the parts.
LEMMA EachIsShared ==
    ASSUME NEW S \in SUBSET Collection!Items
    PROVE  Shares(S) \in Nat \ {0} /\ \A i \in S : ShareOf(S, i) \in 0..(Shares(S) - 1)
<1>1. IsFiniteSet(S)
  <2>1. IsFiniteSet(1..MaxItems)
    BY CollectionBounds, FS_Interval
  <2> QED  BY <2>1, FS_Subset DEF Collection!Items
<1>2. PICK c \in Nat : c = Collection!Cardinality(S)
  BY <1>1, FS_CardinalityType, CollectionCount
<1>3. CASE S = {}
  BY <1>3 DEF Shares
<1>4. CASE S # {}
  <2>1. c > 0
    BY <1>1, <1>2, <1>4, FS_EmptySet, CollectionCount
  <2>2. PICK d \in Nat : d = c - 1
    BY <2>1
  <2>3. d \div PartSize \in Nat
    BY DivisionGrows, CollectionBounds
  <2>4. PICK n \in Nat : n = d \div PartSize /\ Shares(S) = n + 1
    BY <1>2, <1>4, <2>2, <2>3 DEF Shares
  <2>5. ASSUME NEW i \in S PROVE ShareOf(S, i) \in 0..n
    <3>1. PICK T : T = {j \in S : j < i}
      OBVIOUS
    <3>2. T \subseteq S \ {i}
      BY <3>1, CollectionBounds DEF Collection!Items
    <3>3. IsFiniteSet(S \ {i}) /\ Collection!Cardinality(S \ {i}) = d
      BY <1>1, <1>2, <2>2, FS_RemoveElement, CollectionCount
    <3>4. Collection!Cardinality(T) \in Nat /\ Collection!Cardinality(T) <= d
      <4>1. IsFiniteSet(T) /\ Collection!Cardinality(T) <= Collection!Cardinality(S \ {i})
        BY <3>2, <3>3, FS_Subset, CollectionCount
      <4> QED  BY <3>3, <4>1, FS_CardinalityType, CollectionCount
    <3>5. PICK a \in Nat : a = Collection!Cardinality(T) /\ a <= d
      BY <3>4
    <3>6. a \div PartSize \in Nat /\ a \div PartSize <= n
      BY <2>4, <3>5, DivisionGrows, CollectionBounds
    <3>7. ShareOf(S, i) = a \div PartSize
      BY <3>1, <3>5 DEF ShareOf
    <3> QED  BY <3>6, <3>7
  <2> QED  BY <2>4, <2>5
<1> QED  BY <1>3, <1>4

\* What a phone has of the log is of the log.
LEMMA HeldIsLogged ==
    ASSUME NEW p, NEW e \in Collection!Held(p)
    PROVE  \E k \in DOMAIN events : e = events[k]
  BY DEF Collection!Held

\* Changes without a gap are all there are.
LEMMA ChangesAreAll ==
    ASSUME Shared, NEW p, Collection!SelectChanges(p).state = "ready"
    PROVE  Collection!Topology(Collection!SelectChanges(p).items) = collectionCircle.items
<1>1. Log /\ OneEach /\ Circle
  BY DEF Shared
<1>2. Collection!Changes(p) \subseteq Changed
  BY HeldIsLogged DEF Collection!Changes, Changed
<1>3. {c.revision : c \in Collection!Changes(p)} = 1..collectionCircle.revision
  BY DEF Collection!SelectChanges, Collection!Nothing, Collection!Verdict
<1>4. \A c \in Changed : c.revision \in 1..collectionCircle.revision
  <2>1. \A c \in Changed : c \in ChangeBodies
    BY <1>1 DEF Log, Changed, BodyTrue
  <2> QED  BY <1>1, <2>1, CollectionBounds DEF ChangeBodies, OneEach, Circle
<1>5. Collection!Changes(p) = Changed
  <2>1. ASSUME NEW c \in Changed PROVE c \in Collection!Changes(p)
    <3>1. PICK d \in Collection!Changes(p) : d.revision = c.revision
      BY <1>3, <1>4
    <3> QED  BY <1>1, <1>2, <3>1 DEF OneEach
  <2> QED  BY <1>2, <2>1
<1>6. PICK r : r = {c.item : c \in {d \in Changed : d.kind = "remove"}}
  OBVIOUS
<1>7. Collection!SelectChanges(p).items = {Collection!Image(c.item, c.epoch, 0) : c \in {d \in Changed : d.kind = "add" /\ d.item \notin r}}
  BY <1>5, <1>6 DEF Collection!SelectChanges, Collection!Nothing, Collection!Verdict
<1>8. Collection!Topology(Collection!SelectChanges(p).items) = {c.item : c \in {d \in Changed : d.kind = "add" /\ d.item \notin r}}
  <2>1. PICK D : D = {d \in Changed : d.kind = "add" /\ d.item \notin r}
    OBVIOUS
  <2>2. \A c \in D : Collection!Image(c.item, c.epoch, 0).item = c.item
    BY DEF Collection!Image
  <2>3. Collection!SelectChanges(p).items = {Collection!Image(c.item, c.epoch, 0) : c \in D}
    BY <1>7, <2>1
  <2> QED  BY <2>1, <2>2, <2>3 DEF Collection!Topology
<1>9. r = Taken(collectionCircle.revision)
  BY <1>4, <1>6, CollectionBounds, <1>1 DEF Taken, OneEach
<1>10. {c.item : c \in {d \in Changed : d.kind = "add" /\ d.item \notin r}} = Added(collectionCircle.revision) \ r
  BY <1>1 DEF Added, OneEach
<1> QED  BY <1>1, <1>8, <1>9, <1>10 DEF OneEach, ItemsAt

\* The parts of a snapshot of now that arrived make the collection, or not all of it.
LEMMA PartsAreWhole ==
    ASSUME Shared, Published, NEW p, NEW s,
           NEW whole, whole = Whole(collectionCircle.epoch, collectionCircle.revision)
    PROVE  \/ Collection!Assemble(Collection!PartsOf(p, s)) = Collection!Nothing("incomplete")
           \/ /\ Collection!Assemble(Collection!PartsOf(p, s)) = Collection!Verdict("ready", whole)
              /\ Collection!Topology(whole) = collectionCircle.items
              /\ \A m \in whole : m.epoch = collectionCircle.epoch
<1>1. Log /\ OneEach /\ Circle /\ Outbox /\ Logged /\ OnePublication
  BY DEF Shared, Published
<1>2. PICK S \in SUBSET Collection!Items : S = collectionCircle.items /\ S = ItemsAt(collectionCircle.revision)
  BY <1>1 DEF OneEach, Circle
<1>3. PICK n, r : n = collectionCircle.epoch /\ r = collectionCircle.revision
  OBVIOUS
<1>4. PICK parts : parts = Collection!PartsOf(p, s)
  OBVIOUS
<1>5. ASSUME NEW o \in RowsOf(n, r)
      PROVE  /\ Collection!Topology(rows[o].body.items) = Share(S, rows[o].body.part)
             /\ \A m \in rows[o].body.items : m.epoch = n
             /\ rows[o].body.parts = Shares(S) /\ rows[o].body.part \in 0..(Shares(S) - 1)
  <2>1. PICK b : b = rows[o].body
    OBVIOUS
  <2>2. b.kind = "part" /\ b.epoch = n /\ b.revision = r /\ BodyTrue(b)
    BY <1>1, <2>1 DEF RowsOf, PartRows, Outbox
  <2> QED  BY <1>2, <1>3, <2>1, <2>2 DEF BodyTrue, PartTrue
<1>6. ASSUME NEW b \in parts PROVE \E o \in RowsOf(n, r) : rows[o].body = b
  <2>1. PICK k \in DOMAIN events : b = events[k].body
    BY <1>4, HeldIsLogged DEF Collection!PartsOf
  <2>2. b.kind = "part" /\ b.epoch = n /\ b.revision = r
    BY <1>3, <1>4 DEF Collection!PartsOf
  <2> QED  BY <1>1, <2>1, <2>2 DEF Logged, RowsOf
<1>7. \A b \in parts : Collection!ValidPart(b)
  BY <1>3, <1>5, <1>6 DEF Collection!ValidPart
<1>8. \A b, c \in parts : ~Collection!Contradict(b, c)
  <2>1. ASSUME NEW b \in parts, NEW c \in parts PROVE b.parts = c.parts /\ (b.part = c.part => b = c)
    <3>1. PICK o \in RowsOf(n, r) : rows[o].body = b
      BY <1>6
    <3>2. PICK q \in RowsOf(n, r) : rows[q].body = c
      BY <1>6
    <3> QED  BY <1>1, <1>5, <3>1, <3>2 DEF OnePublication
  <2> QED  BY <2>1 DEF Collection!Contradict
<1>9. PICK items : items = UNION {b.items : b \in parts}
  OBVIOUS
<1>10. ASSUME parts # {}, \A b \in parts : {c.part : c \in parts} = 0..(b.parts - 1)
       PROVE  items = whole /\ Collection!Topology(items) = S /\ \A m \in items : m.epoch = n
  <2>1. {c.part : c \in parts} = 0..(Shares(S) - 1)
    BY <1>5, <1>6, <1>10
  <2>2. whole = Whole(n, r)
    BY <1>3
  <2>3. ASSUME NEW b \in parts PROVE b.items \subseteq whole
    BY <1>6, <2>2, <2>3 DEF Whole
  <2>4. ASSUME NEW o \in RowsOf(n, r) PROVE rows[o].body \in parts
    <3>1. PICK c \in parts : c.part = rows[o].body.part
      BY <1>5, <2>1
    <3>2. PICK q \in RowsOf(n, r) : rows[q].body = c
      BY <1>6
    <3> QED  BY <1>1, <3>1, <3>2 DEF OnePublication
  <2>5. items = whole
    BY <1>9, <2>2, <2>3, <2>4 DEF Whole
  <2>6. ASSUME NEW i \in S PROVE \E m \in items : m.item = i
    <3>1. ShareOf(S, i) \in 0..(Shares(S) - 1)
      BY EachIsShared
    <3>2. PICK c \in parts : c.part = ShareOf(S, i)
      BY <2>1, <3>1
    <3>3. i \in Collection!Topology(c.items)
      BY <1>5, <1>6, <3>2 DEF Share
    <3> QED  BY <1>9, <3>3 DEF Collection!Topology
  <2>7. ASSUME NEW m \in items PROVE m.item \in S /\ m.epoch = n
    <3>1. PICK b \in parts : m \in b.items
      BY <1>9
    <3>2. m.item \in Collection!Topology(b.items)
      BY <3>1 DEF Collection!Topology
    <3> QED  BY <1>5, <1>6, <3>1, <3>2 DEF Share
  <2> QED  BY <2>5, <2>6, <2>7 DEF Collection!Topology
<1>11. CASE parts = {} \/ \E b \in parts : {c.part : c \in parts} # 0..(b.parts - 1)
  BY <1>4, <1>7, <1>8, <1>11 DEF Collection!Assemble
<1>12. CASE ~(parts = {} \/ \E b \in parts : {c.part : c \in parts} # 0..(b.parts - 1))
  <2>1. items = whole /\ Collection!Topology(items) = Collection!Manifest
    BY <1>2, <1>10, <1>12 DEF Collection!Manifest
  <2>2. Collection!Assemble(parts) = Collection!Verdict("ready", items)
    BY <1>7, <1>8, <1>9, <1>12, <2>1 DEF Collection!Assemble
  <2> QED  BY <1>2, <1>3, <1>4, <1>10, <1>12, <2>1, <2>2
<1> QED  BY <1>11, <1>12

\* What a phone shows, if it shows anything, are the stickers the service holds; and
\* once one snapshot of now is whole, it is the snapshot that is shown.
LEMMA ShowsTheTruth ==
    ASSUME Shared, Published, NEW p
    PROVE  /\ Collection!Load(p).state \notin {"conflict", "invalid"}
           /\ Collection!Load(p).state = "ready" => Collection!Topology(Collection!Load(p).items) = collectionCircle.items
           /\ \A s \in DOMAIN snaps :
                 Collection!PartsOf(p, s) # {} /\ Collection!Assemble(Collection!PartsOf(p, s)) # Collection!Nothing("incomplete")
                 => Collection!Load(p).state = "ready" /\ \A m \in Collection!Load(p).items : m.epoch = collectionCircle.epoch
<1>1. PICK whole : whole = Whole(collectionCircle.epoch, collectionCircle.revision)
  OBVIOUS
<1>2. PICK full : full = Collection!Verdict("ready", whole)
  OBVIOUS
<1>3. PICK verdicts : verdicts = {Collection!Assemble(Collection!PartsOf(p, s)) : s \in {t \in DOMAIN snaps : Collection!PartsOf(p, t) # {}}}
  OBVIOUS
<1>4. \A v \in verdicts : \/ v = Collection!Nothing("incomplete")
                          \/ v = full /\ Collection!Topology(whole) = collectionCircle.items /\ \A m \in whole : m.epoch = collectionCircle.epoch
  BY <1>1, <1>2, <1>3, PartsAreWhole
<1>5. PICK ready : ready = {v \in verdicts : v.state = "ready"}
  OBVIOUS
<1>6. full.state = "ready" /\ full.items = whole /\ Collection!Nothing("incomplete").state = "incomplete"
  BY <1>2 DEF Collection!Verdict, Collection!Nothing
<1>7. ready = {} \/ ready = {full}
  BY <1>4, <1>5, <1>6
<1>8. ~(Collection!Cardinality(ready) > 1)
  <2>1. Collection!Cardinality({}) = 0 /\ Collection!Cardinality({full}) = 1
    BY FS_EmptySet, FS_Singleton, CollectionCount
  <2> QED  BY <1>7, <2>1
<1>9. {v \in verdicts : v.state \in {"invalid", "conflict"}} = {}
  BY <1>4, <1>6
<1>10. CASE ready = {full}
  <2>1. Collection!Load(p) = CHOOSE v \in ready : TRUE
    BY <1>3, <1>5, <1>8, <1>9, <1>10 DEF Collection!Load
  <2>2. Collection!Load(p) = full
    BY <1>10, <2>1
  <2>3. full \in verdicts /\ full # Collection!Nothing("incomplete")
    BY <1>5, <1>6, <1>10
  <2> QED  BY <1>4, <1>6, <2>2, <2>3
<1>11. CASE ready = {}
  <2>1. Collection!Load(p) = IF Collection!SelectChanges(p).state = "ready" THEN Collection!SelectChanges(p) ELSE Collection!Nothing("incomplete")
    BY <1>3, <1>5, <1>8, <1>9, <1>11 DEF Collection!Load
  <2>2. \A s \in DOMAIN snaps : Collection!PartsOf(p, s) # {} => Collection!Assemble(Collection!PartsOf(p, s)) = Collection!Nothing("incomplete")
    BY <1>3, <1>4, <1>5, <1>6, <1>11
  <2> QED  BY <1>6, <2>1, <2>2, ChangesAreAll
<1> QED  BY <1>7, <1>10, <1>11

\* A publication of now that was sent is what the admin's phone shows: no refresh is offered.
LEMMA SentIsShown ==
    ASSUME Shared, Published, RowsOf(collectionCircle.epoch, collectionCircle.revision) # {},
           Complete(collectionCircle.epoch, collectionCircle.revision)
    PROVE  ~Collection!Offered
<1>1. OneEach /\ Circle /\ Outbox /\ Logged /\ Begun /\ OnePublication
  BY DEF Shared, Published
<1>2. PICK n, r : n = collectionCircle.epoch /\ r = collectionCircle.revision
  OBVIOUS
<1>3. PICK S \in SUBSET Collection!Items : S = collectionCircle.items /\ S = ItemsAt(r)
  BY <1>1, <1>2 DEF OneEach, Circle
<1>4. PICK s \in DOMAIN snaps : \A o \in RowsOf(n, r) : rows[o].body.snapshot = s
  <2>1. PICK q \in RowsOf(n, r) : TRUE
    BY <1>2
  <2>2. rows[q].body.snapshot \in DOMAIN snaps
    BY <1>1 DEF Begun, RowsOf
  <2> QED  BY <1>1, <2>2 DEF OnePublication
<1>5. PICK parts : parts = Collection!PartsOf("admin", s)
  OBVIOUS
<1>6. ASSUME NEW o \in RowsOf(n, r), rows[o].status = "sent" PROVE rows[o].body \in parts
  <2>1. PICK k \in DOMAIN events : events[k].op = o /\ events[k].body = rows[o].body /\ "admin" \in events[k].to
    BY <1>1, <1>6 DEF Logged, RowsOf
  <2>2. o \in DOMAIN rows /\ rows[o].body.kind = "part" /\ rows[o].body.epoch = n /\ rows[o].body.revision = r
    BY DEF RowsOf, PartRows
  <2>3. events[k] \in Collection!Held("admin")
    BY <1>6, <2>1, <2>2 DEF Collection!Held
  <2> QED  BY <1>2, <1>4, <1>5, <2>1, <2>2, <2>3 DEF Collection!PartsOf
<1>7. PICK w : w = Shares(S)
  OBVIOUS
<1>8. w \in Nat \ {0}
  BY <1>7, EachIsShared
<1>9. \A k \in 0..(w - 1) : \E c \in parts : c.part = k
  <2>1. \A k \in 0..(w - 1) : SentPart(n, r, k)
    BY <1>2, <1>3, <1>7 DEF Complete
  <2> QED  BY <1>6, <2>1 DEF SentPart
<1>10. \A b \in parts : b.parts = w /\ b.part \in 0..(w - 1)
  <2> SUFFICES ASSUME NEW b \in parts PROVE b.parts = w /\ b.part \in 0..(w - 1)
    OBVIOUS
  <2>1. PICK k \in DOMAIN events : b = events[k].body /\ b.kind = "part" /\ b.revision = r
    BY <1>2, <1>5, HeldIsLogged DEF Collection!PartsOf
  <2>2. BodyTrue(b)
    BY <2>1 DEF Shared, Log
  <2> QED  BY <1>3, <1>7, <2>1, <2>2 DEF BodyTrue, PartTrue
<1>11. parts # {} /\ \A b \in parts : {c.part : c \in parts} = 0..(b.parts - 1)
  <2>1. {c.part : c \in parts} = 0..(w - 1)
    BY <1>9, <1>10
  <2>2. 0 \in 0..(w - 1)
    BY <1>8
  <2> QED  BY <1>9, <1>10, <2>1, <2>2
<1>12. Collection!Assemble(parts) # Collection!Nothing("incomplete")
  BY <1>11 DEF Collection!Assemble, Collection!Nothing, Collection!Verdict
<1> QED  BY <1>5, <1>11, <1>12, ShowsTheTruth DEF Collection!Offered, Collection!Shown

-----------------------------------------------------------------------------
(* The steps.                                                               *)

\* A job that is not looked at goes on.
LEMMA TaskStays ==
    ASSUME Task, Onward, DOMAIN rows \subseteq DOMAIN rows', UNCHANGED <<collectionJob, edit>>
    PROVE  Task'
<1>1. CASE RefreshTrue
  BY <1>1, RefreshStays DEF Task
<1>2. CASE ~RefreshTrue
  BY <1>2 DEF Task
<1> QED  BY <1>1, <1>2

\* A job that ends leaves none.
LEMMA Ended == collectionJob' = Collection!Idle => Task'
  BY DEF Task

\* What kind of job there is, its record tells.
LEMMA TaskTells ==
    ASSUME Task
    PROVE  /\ collectionJob.kind = "add" => \/ collectionJob \in [kind : {"add"}, at : {"check", "acknowledge"}]
                                            \/ collectionJob \in [kind : {"add"}, at : {"upload", "send"}] /\ edit # Collection!NoEdit
                                            \/ collectionJob \in [kind : {"add"}, at : {"deliver"}, op : DOMAIN rows]
           /\ collectionJob.kind = "remove" => \/ collectionJob \in [kind : {"remove"}, at : {"deliver"}, op : DOMAIN rows]
                                               \/ collectionJob.at = "send" /\ collectionJob.body \in ChangeBodies /\ collectionJob.body.kind = "remove"
           /\ collectionJob.kind = "refresh" => RefreshTrue
  BY DEF Task, Collection!Idle, RefreshTrue

\* A row is queued under an operation that is new.
LEMMA RowQueued ==
    ASSUME Shared, NEW o, o \notin DOMAIN rows, NEW b, BodyTrue(b), Collection!Row(o, b),
           b.kind = "add" => o = Collection!AddOp(b.item) /\ edit.item = b.item,
           UNCHANGED <<collectionCircle, events, collectionRelay, edit>>
    PROVE  Shared' /\ Onward /\ DOMAIN rows \subseteq DOMAIN rows' /\ o \in DOMAIN rows'
<1>1. Circle /\ Log /\ Outbox /\ Edits /\ OneEach /\ AddedOnce
  BY DEF Shared
<1>2. Onward /\ Changed' = Changed /\ \A r : ItemsAt(r)' = ItemsAt(r)
  BY <1>1, WorldStays
<1>3. /\ DOMAIN rows' = DOMAIN rows \cup {o} /\ rows'[o] = [status |-> "queued", body |-> b]
      /\ \A x \in DOMAIN rows : x # o /\ rows'[x] = rows[x]
  BY DEF Collection!Row
<1>4. \A k \in DOMAIN events : BodyTrue(events[k].body)'
  BY <1>1, <1>2, BodiesStay DEF Log
<1>5. Circle' /\ Log' /\ Edits'
  BY <1>1, <1>4 DEF Circle, Log, Edits
<1>6. OneEach'
  BY <1>1, <1>2 DEF OneEach, ItemsAt, Added, Taken
<1>7. ASSUME NEW x \in DOMAIN rows'
      PROVE  rows'[x] \in [status : {"queued", "sent", "retired"}, body : {rows'[x].body}] /\ BodyTrue(rows[x].body)'
  <2>1. PICK c : c = rows'[x].body
    OBVIOUS
  <2>2. BodyTrue(c)
    BY <1>1, <1>3, <2>1 DEF Outbox
  <2>3. BodyTrue(c)'
    BY <1>2, <2>2, BodiesStay
  <2>4. rows'[x] \in [status : {"queued", "sent", "retired"}, body : {rows'[x].body}]
    BY <1>1, <1>3 DEF Outbox
  <2> QED  BY <2>1, <2>3, <2>4
<1>8. Outbox'
  BY <1>7 DEF Outbox
<1>9. AddedOnce'
  <2>1. \A x \in DOMAIN rows' : rows'[x].body.kind = "add" => x = Collection!AddOp(rows'[x].body.item)
    BY <1>1, <1>3 DEF AddedOnce
  <2>2. ASSUME NEW c \in Changed, c.kind = "add", NEW x \in DOMAIN rows',
               rows'[x].body.kind = "add", rows'[x].body.item = c.item
        PROVE  x \in DOMAIN collectionRelay
    <3>1. CASE x = o
      BY <1>1, <1>3, <2>2, <3>1 DEF AddedOnce
    <3>2. CASE x # o
      BY <1>1, <1>3, <2>2, <3>2 DEF AddedOnce
    <3> QED  BY <3>1, <3>2
  <2>3. \A c \in Changed : c.kind = "add" /\ edit.item = c.item => Collection!AddOp(c.item) \in DOMAIN rows'
    BY <1>1, <1>3 DEF AddedOnce
  <2> QED  BY <1>2, <2>1, <2>2, <2>3 DEF AddedOnce, Collection!AddOp
<1> QED  BY <1>2, <1>3, <1>5, <1>6, <1>8, <1>9 DEF Shared

\* What is counted, while the log stays.
LEMMA CountsStay ==
    ASSUME Counts, UNCHANGED <<events, pulled>>, UNCHANGED collectionMishaps \/ Collection!Mishap PROVE Counts'
  BY CollectionBounds DEF Counts, Collection!Mishap

\* The next sticker is one that nobody has made.
LEMMA NextIsNew ==
    ASSUME Collection!Made # Collection!Items
    PROVE  Collection!NextItem \in Collection!Items /\ Collection!NextItem \notin Collection!Made
<1>1. PICK T : T = Collection!Items \ Collection!Made
  OBVIOUS
<1>2. T # {} /\ T \subseteq Nat
  BY <1>1, CollectionBounds DEF Collection!Made, Collection!Items
<1>3. \E i \in T : \A j \in T : i <= j
  <2>1. IsWellFoundedOn(OpToRel(<, Nat), Nat)
    BY NatLessThanWellFounded
  <2>2. PICK i \in T : \A j \in T : ~(<<j, i>> \in OpToRel(<, Nat))
    BY <1>2, <2>1, WFMin
  <2>3. ASSUME NEW j \in T PROVE i <= j
    <3>1. i \in Nat /\ j \in Nat
      BY <1>2
    <3>2. ~(j < i)
      BY <2>2, <3>1, Zenon DEF OpToRel
    <3> QED  BY <3>1, <3>2
  <2> QED  BY <2>3
<1> QED  BY <1>1, <1>3 DEF Collection!NextItem

\* The sticker in hand is put down, or another is taken up.
LEMMA EditKeeps ==
    ASSUME Shared, UNCHANGED <<collectionCircle, events, rows, collectionRelay>>, Edits',
           \A c \in Changed : c.kind = "add" /\ edit'.item = c.item => Collection!AddOp(c.item) \in DOMAIN rows
    PROVE  Shared' /\ Onward
<1>1. Circle /\ Log /\ Outbox /\ OneEach /\ AddedOnce
  BY DEF Shared
<1>2. Onward /\ Changed' = Changed /\ \A r : ItemsAt(r)' = ItemsAt(r)
  BY <1>1, WorldStays
<1>3. OneEach' /\ Circle'
  BY <1>1, <1>2 DEF OneEach, ItemsAt, Added, Taken, Circle
<1>4. Outbox'
  BY <1>1, <1>2, OutboxStays
<1>5. AddedOnce'
  BY <1>1, <1>2 DEF AddedOnce, Collection!AddOp
<1>6. \A k \in DOMAIN events : BodyTrue(events[k].body)'
  BY <1>1, <1>2, BodiesStay DEF Log
<1>7. Log'
  BY <1>1, <1>6 DEF Log
<1> QED  BY <1>2, <1>3, <1>4, <1>5, <1>7 DEF Shared

\* No sticker has the number of none.
LEMMA NoneIsNone == ASSUME Shared, NEW c \in Changed PROVE c.item # Collection!NoEdit.item
<1>1. c \in ChangeBodies
  BY DEF Shared, Log, Changed, BodyTrue
<1> QED  BY <1>1, CollectionBounds DEF ChangeBodies, Collection!Items, Collection!NoEdit

\* A contribution, from the choice to the acknowledgement.
LEMMA ChooseKeeps == ASSUME CollectionInv, Collection!Choose PROVE Plain' /\ Onward
<1>1. /\ Shared /\ Counts /\ edit = Collection!NoEdit /\ Collection!Made # Collection!Items /\ collectionCircle.revision < CollectionMaxRevision
      /\ UNCHANGED <<collectionCircle, events, rows, collectionRelay, pulled, collectionMishaps>> /\ collectionJob' = [kind |-> "add", at |-> "check"]
      /\ edit' = [phase |-> "prepared", item |-> Collection!NextItem, epoch |-> collectionCircle.epoch, revision |-> collectionCircle.revision]
  BY DEF CollectionInv, Plain, Collection!Choose
<1>2. Collection!NextItem \in Collection!Items /\ Collection!NextItem \notin Collection!Made
  BY <1>1, NextIsNew
<1>3. collectionCircle.revision \in 0..(CollectionMaxRevision - 1) /\ collectionCircle.epoch \in 1..CollectionMaxEpoch
  BY <1>1, CollectionBounds DEF Shared, Circle
<1>4. Edits'
  BY <1>1, <1>2, <1>3 DEF Edits
<1>5. \A c \in Changed : c.kind = "add" => c.item # Collection!NextItem
  BY <1>2 DEF Changed, Collection!Made
<1>6. Shared' /\ Onward
  BY <1>1, <1>4, <1>5, EditKeeps
<1>7. Task'
  BY <1>1 DEF Task
<1> QED  BY <1>1, <1>6, <1>7, CountsStay DEF Plain

\* What a crash left is looked at, and goes on or ends.
LEMMA CheckKeeps == ASSUME CollectionInv, Collection!Check PROVE Plain' /\ Onward
<1>1. /\ Shared /\ Counts /\ Task /\ Circle
      /\ UNCHANGED <<collectionCircle, events, rows, collectionRelay, edit, pulled, collectionMishaps>>
  BY DEF CollectionInv, Plain, Collection!Check, Shared
<1>2. Shared' /\ Onward
  BY <1>1, QuietKeeps DEF Circle
<1>3. collectionJob \in [kind : {"add"}, at : {"check", "acknowledge"}]
  BY <1>1, TaskTells DEF Collection!Check
<1>4. \/ collectionJob' = Collection!Idle
      \/ collectionJob' = [collectionJob EXCEPT !.at = "acknowledge"]
      \/ edit # Collection!NoEdit /\ (collectionJob' = [collectionJob EXCEPT !.at = "upload"] \/ collectionJob' = [collectionJob EXCEPT !.at = "send"])
  BY DEF Collection!Check, Collection!Goes
<1>5. Task'
  BY <1>1, <1>3, <1>4 DEF Task
<1> QED  BY <1>1, <1>2, <1>5, CountsStay DEF Plain

\* The picture is uploaded, or not.
LEMMA UploadStickerKeeps == ASSUME CollectionInv, Collection!UploadSticker PROVE Plain' /\ Onward
<1>1. /\ Shared /\ Counts /\ Task /\ Edits /\ AddedOnce
      /\ UNCHANGED <<collectionCircle, events, rows, collectionRelay, pulled>> /\ (UNCHANGED collectionMishaps \/ Collection!Mishap)
  BY DEF CollectionInv, Plain, Collection!UploadSticker, Shared
<1>2. collectionJob \in [kind : {"add"}, at : {"upload", "send"}] /\ edit # Collection!NoEdit
  BY <1>1, TaskTells DEF Collection!UploadSticker
<1>3. edit \in [phase : {"prepared", "uploaded"}, item : Collection!Items, epoch : 1..CollectionMaxEpoch, revision : 0..(CollectionMaxRevision - 1)]
  BY <1>1, <1>2 DEF Edits
<1>4. CASE edit' = [edit EXCEPT !.phase = "uploaded"] /\ collectionJob' = [collectionJob EXCEPT !.at = "send"]
  <2>1. edit'.item = edit.item /\ edit'.phase = "uploaded"
        /\ edit' \in [phase : {"prepared", "uploaded"}, item : Collection!Items, epoch : 1..CollectionMaxEpoch, revision : 0..(CollectionMaxRevision - 1)]
    BY <1>3, <1>4
  <2>2. Shared' /\ Onward
    BY <1>1, <2>1, EditKeeps DEF AddedOnce, Edits
  <2>3. collectionJob' \in [kind : {"add"}, at : {"upload", "send"}] /\ edit' # Collection!NoEdit
    BY <1>2, <1>4, <2>1 DEF Collection!NoEdit
  <2>4. Task'
    BY <2>3 DEF Task
  <2> QED  BY <1>1, <2>2, <2>4, CountsStay DEF Plain
<1>5. CASE collectionJob' = Collection!Idle /\ UNCHANGED edit
  <2>1. Shared' /\ Onward
    BY <1>1, <1>5, EditKeeps DEF AddedOnce, Edits
  <2> QED  BY <1>1, <1>5, <2>1, CountsStay, Ended DEF Plain
<1> QED  BY <1>4, <1>5 DEF Collection!UploadSticker, Collection!Goes

\* A change is queued for the next revision, or not at all.
LEMMA QueueChangeKeeps == ASSUME CollectionInv, Collection!QueueChange PROVE Plain' /\ Onward
<1>1. /\ Shared /\ Counts /\ Task /\ Circle /\ Edits /\ collectionJob.at = "send" /\ collectionJob.kind \in {"add", "remove"}
      /\ UNCHANGED <<collectionCircle, events, collectionRelay, edit, pulled, collectionMishaps>>
  BY DEF CollectionInv, Plain, Collection!QueueChange, Shared
<1>2. PICK o : o = IF collectionJob.kind = "add" THEN Collection!AddOp(edit.item) ELSE collectionJob.op
  OBVIOUS
<1>3. PICK b : b = IF collectionJob.kind = "add" THEN Collection!Body("add", edit.item, edit.epoch, edit.revision + 1) ELSE collectionJob.body
  OBVIOUS
<1>4. PICK k \in {"add", "remove"} : k = collectionJob.kind
  BY <1>1
<1>5. \/ o \in DOMAIN rows /\ UNCHANGED rows /\ collectionJob' = [kind |-> k, at |-> "deliver", op |-> o]
      \/ o \notin DOMAIN rows /\ Collection!Row(o, b) /\ collectionJob' = [kind |-> k, at |-> "deliver", op |-> o]
      \/ UNCHANGED rows /\ collectionJob' = Collection!Idle
  BY <1>2, <1>3, <1>4 DEF Collection!QueueChange, Collection!Known, Collection!Writable
<1>6. BodyTrue(b) /\ (b.kind = "add" => o = Collection!AddOp(b.item) /\ edit.item = b.item)
  <2>1. CASE collectionJob.kind = "add"
    <3>1. edit # Collection!NoEdit
      BY <1>1, <2>1, TaskTells
    <3>2. edit.item \in Collection!Items /\ edit.epoch \in 1..CollectionMaxEpoch /\ edit.revision + 1 \in 1..CollectionMaxRevision
      BY <1>1, <3>1, CollectionBounds DEF Edits
    <3>3. b \in ChangeBodies /\ b.kind = "add" /\ b.item = edit.item
      BY <1>3, <2>1, <3>2 DEF Collection!Body, ChangeBodies
    <3> QED  BY <1>2, <2>1, <3>3 DEF BodyTrue
  <2>2. CASE collectionJob.kind = "remove"
    BY <1>1, <1>3, <2>2, TaskTells DEF BodyTrue
  <2> QED  BY <1>1, <2>1, <2>2
<1>7. CASE UNCHANGED rows
  <2>1. Shared' /\ Onward
    BY <1>1, <1>7, QuietKeeps DEF Circle
  <2>2. Task'
    BY <1>5, <1>7, <1>4, Ended DEF Task, Collection!Row
  <2> QED  BY <1>1, <2>1, <2>2, CountsStay DEF Plain
<1>8. CASE o \notin DOMAIN rows /\ Collection!Row(o, b) /\ collectionJob' = [kind |-> k, at |-> "deliver", op |-> o]
  <2>1. Shared' /\ Onward /\ o \in DOMAIN rows'
    BY <1>1, <1>6, <1>8, RowQueued
  <2>2. Task'
    BY <1>4, <1>8, <2>1 DEF Task
  <2> QED  BY <1>1, <2>1, <2>2, CountsStay DEF Plain
<1> QED  BY <1>5, <1>7, <1>8

\* A change is sent, and its answer may be lost.
LEMMA DeliverChangeKeeps == ASSUME CollectionInv, Collection!DeliverChange PROVE Plain' /\ Onward
<1>1. /\ Shared /\ Counts /\ Task /\ collectionJob.at = "deliver" /\ collectionJob.kind \in {"add", "remove"} /\ UNCHANGED <<edit, pulled>>
      /\ ((Collection!Upload(collectionJob.op) /\ UNCHANGED collectionMishaps) \/ Collection!Lost(collectionJob.op) \/ Collection!Refused(collectionJob.op))
      /\ (collectionJob' = Collection!Idle \/ collectionJob' = [kind |-> "add", at |-> "acknowledge"])
  BY DEF CollectionInv, Plain, Collection!DeliverChange
<1>2. collectionJob.op \in DOMAIN rows
  BY <1>1, TaskTells
<1>3. Shared' /\ Counts' /\ Onward
  BY <1>1, <1>2, AnswerKeeps
<1>4. Task'
  BY <1>1, Ended DEF Task
<1> QED  BY <1>3, <1>4 DEF Plain

\* A contribution is put down.
LEMMA PutDownKeeps ==
    ASSUME CollectionInv, Collection!AcknowledgeAdd \/ Collection!Discard
    PROVE  Plain' /\ Onward
<1>1. /\ Shared /\ Counts /\ Task /\ Edits /\ AddedOnce /\ UNCHANGED <<collectionCircle, events, rows, collectionRelay, pulled, collectionMishaps>>
      /\ edit' = Collection!NoEdit \/ edit' = edit
      /\ collectionJob' = Collection!Idle \/ collectionJob' = [kind |-> "add", at |-> "check"]
  BY DEF CollectionInv, Plain, Collection!AcknowledgeAdd, Collection!Discard, Shared
<1>2. Shared' /\ Onward
  <2>1. CASE edit' = Collection!NoEdit
    BY <1>1, <2>1, NoneIsNone, EditKeeps DEF Edits
  <2>2. CASE edit' = edit
    BY <1>1, <2>2, EditKeeps DEF Edits, AddedOnce
  <2> QED  BY <1>1, <2>1, <2>2
<1>3. Task'
  BY <1>1, Ended DEF Task
<1> QED  BY <1>1, <1>2, <1>3, CountsStay DEF Plain

\* A change that waits is confirmed or retired.
LEMMA RecoverChangeKeeps == ASSUME CollectionInv, Collection!RecoverChange PROVE Plain' /\ Onward
<1>1. /\ Shared /\ Counts /\ Task /\ Circle /\ Outbox /\ UNCHANGED <<collectionCircle, events, edit, pulled, collectionMishaps>> /\ collectionJob = Collection!Idle
      /\ collectionJob' = collectionJob \/ collectionJob' = [kind |-> "add", at |-> "check"]
  BY DEF CollectionInv, Plain, Collection!RecoverChange, Shared
<1>2. RowsKept /\ DOMAIN collectionRelay \subseteq DOMAIN collectionRelay'
  <2>1. PICK o \in DOMAIN rows : \/ Collection!Confirm(o) /\ UNCHANGED collectionRelay
                                 \/ Collection!Cancel(o) /\ Collection!Retire(o)
    BY DEF Collection!RecoverChange, Collection!QueuedChanges
  <2> QED  BY <1>1, <2>1, Marked DEF Collection!Confirm, Collection!Retire, Collection!Cancel
<1>3. Shared' /\ Onward
  BY <1>1, <1>2, QuietKeeps DEF Circle
<1>4. Task'
  BY <1>1, Ended DEF Task
<1> QED  BY <1>1, <1>3, <1>4, CountsStay DEF Plain

\* The admin removes a sticker that is shown.
LEMMA RemoveKeeps ==
    ASSUME CollectionInv, NEW i \in Collection!Items, Collection!Remove(i)
    PROVE  Plain' /\ Onward
<1>1. /\ Shared /\ Counts /\ Task /\ Circle /\ UNCHANGED <<collectionCircle, events, rows, collectionRelay, edit, pulled, collectionMishaps>>
      /\ collectionCircle.revision < CollectionMaxRevision
      /\ collectionJob' = [kind |-> "remove", at |-> "send", op |-> Collection!RemoveOp(i),
                 body |-> Collection!Body("remove", i, collectionCircle.epoch, collectionCircle.revision + 1)]
  BY DEF CollectionInv, Plain, Collection!Remove, Shared
<1>2. Shared' /\ Onward
  BY <1>1, QuietKeeps DEF Circle
<1>3. collectionCircle.revision + 1 \in 1..CollectionMaxRevision /\ collectionCircle.epoch \in 1..CollectionMaxEpoch
  BY <1>1, CollectionBounds DEF Circle
<1>4. PICK b : b = Collection!Body("remove", i, collectionCircle.epoch, collectionCircle.revision + 1)
  OBVIOUS
<1>5. b \in ChangeBodies /\ b.kind = "remove"
  BY <1>3, <1>4 DEF Collection!Body, ChangeBodies
<1>6. collectionJob'.kind = "remove" /\ collectionJob'.at = "send" /\ collectionJob'.body = b
  BY <1>1, <1>4
<1>7. Task'
  BY <1>5, <1>6 DEF Task
<1> QED  BY <1>1, <1>2, <1>7, CountsStay DEF Plain

-----------------------------------------------------------------------------
(* The refresh.                                                             *)

\* It begins with what the admin's phone shows, which is the collection.
LEMMA StartRefreshKeeps == ASSUME CollectionInv, Collection!StartRefresh PROVE Plain' /\ Onward
<1>1. /\ Shared /\ Published /\ Counts /\ Circle /\ OneEach
      /\ UNCHANGED <<collectionCircle, events, rows, collectionRelay, edit, pulled, collectionMishaps>>
      /\ Collection!Shown.state = "ready"
  BY DEF CollectionInv, Plain, Collection!StartRefresh, Shared
<1>2. Shared' /\ Onward
  BY <1>1, QuietKeeps DEF Circle
<1>3. Collection!Topology(Collection!Shown.items) = collectionCircle.items
  BY <1>1, ShowsTheTruth DEF Collection!Shown
<1>4. PICK S \in SUBSET Collection!Items : S = collectionCircle.items
  BY <1>1 DEF Circle
<1>5. PICK r : r = collectionCircle.revision
  OBVIOUS
<1>6. S = ItemsAt(r) /\ ItemsAt(r)' = ItemsAt(r) /\ r \in 0..collectionCircle'.revision
  BY <1>1, <1>2, <1>4, <1>5 DEF OneEach, Onward
<1>7. PICK n \in Nat \ {0} : n = Shares(S)
  BY EachIsShared
<1>8. Collection!PartCount = n /\ \A i : Collection!PartOf(i) = ShareOf(S, i)
  BY <1>4, <1>7 DEF Collection!PartCount, Collection!PartOf, Shares, ShareOf
<1>9. PICK pictures : pictures = Collection!Shown.items
  OBVIOUS
<1>10. PICK e \in 1..CollectionMaxEpoch : e = collectionCircle.epoch
  BY <1>1 DEF Circle
<1>11. PICK pieces : pieces = [k \in 0..(n - 1) |-> Collection!PartOp(Len(snaps) + 1, k)]
  OBVIOUS
<1>12. PICK sizes : sizes = [k \in 0..(n - 1) |-> Share(S, k)]
  OBVIOUS
<1>13. sizes = [k \in 0..(n - 1) |-> {i \in S : Collection!PartOf(i) = k}]
  BY <1>8, <1>12 DEF Share
<1>14. collectionJob' = [kind |-> "refresh", at |-> "upload", snapshot |-> Len(snaps) + 1, epoch |-> e, revision |-> r,
               todo |-> S, part |-> 0, items |-> pictures, ops |-> pieces, sizes |-> sizes]
  BY <1>3, <1>4, <1>5, <1>8, <1>9, <1>10, <1>11, <1>13 DEF Collection!StartRefresh
<1>15. RefreshTrue'
  <2>1. /\ collectionJob' \in [kind : {"refresh"}, at : {"upload", "parts", "clear", "acknowledge"}, snapshot : {collectionJob'.snapshot},
                   epoch : 1..CollectionMaxEpoch, revision : {collectionJob'.revision}, todo : SUBSET Collection!Items, part : Nat,
                   items : {collectionJob'.items}, ops : {collectionJob'.ops}, sizes : {collectionJob'.sizes}]
    BY <1>14
  <2>2. /\ collectionJob'.revision = r /\ collectionJob'.epoch = e /\ collectionJob'.items = pictures /\ collectionJob'.part = 0
        /\ collectionJob'.todo = S
        /\ collectionJob'.ops = pieces /\ collectionJob'.sizes = sizes
    BY <1>14
  <2>3. ItemsAt(collectionJob.revision)' = S
    BY <1>6, <2>2
  <2>4. DOMAIN pieces = 0..(n - 1) /\ 0 \in 0..(n - 1)
    BY <1>7, <1>11
  <2>5. Collection!Topology(pictures) = S /\ \A m \in pictures : m.item \in S
    BY <1>3, <1>4, <1>9 DEF Collection!Topology
  <2> QED  BY <1>6, <1>7, <1>12, <2>1, <2>2, <2>3, <2>4, <2>5 DEF RefreshTrue
<1>16. Task'
  BY <1>15 DEF Task
<1> QED  BY <1>1, <1>2, <1>16, CountsStay DEF Plain

\* A refresh counts its parts.
LEMMA PartsCounted ==
    ASSUME Log, NEW r, NEW n, n = Shares(ItemsAt(r)), NEW D, D = 0..(n - 1)
    PROVE  n \in Nat \ {0} /\ n - 1 \in Nat /\ Collection!Cardinality(D) = n
<1>1. ItemsAt(r) \in SUBSET Collection!Items
  <2>1. ASSUME NEW i \in ItemsAt(r) PROVE i \in Collection!Items
    <3>1. PICK c \in Changed : c.kind = "add" /\ c.item = i
      BY DEF ItemsAt, Added
    <3>2. PICK k \in DOMAIN events : events[k].body = c /\ c.kind # "part"
      BY DEF Changed
    <3>3. c \in ChangeBodies
      BY <3>2 DEF Log, BodyTrue
    <3> QED  BY <3>1, <3>3 DEF ChangeBodies
  <2> QED  BY <2>1
<1>2. n \in Nat \ {0}
  BY <1>1, EachIsShared
<1>3. PICK m \in Nat : m = n - 1 /\ m - 0 + 1 = n
  BY <1>2
<1>4. D = 0..m
  BY <1>3
<1>5. Collection!Cardinality(0..m) = IF 0 > m THEN 0 ELSE m - 0 + 1
  BY <1>3, FS_Interval, CollectionCount
<1>6. ~(0 > m)
  BY <1>3
<1>7. Collection!Cardinality(D) = m - 0 + 1
  BY <1>4, <1>5, <1>6
<1> QED  BY <1>2, <1>3, <1>7

\* How a refresh goes on: to another phase, past a sticker, with a new picture, to another part.
GoesTo(j) ==
    \/ \E at \in {"upload", "parts", "clear", "acknowledge"} : j = [collectionJob EXCEPT !.at = at]
    \/ \E i \in Collection!Items : j = [collectionJob EXCEPT !.todo = collectionJob.todo \ {i}] /\ Collection!IsCurrent(i)
    \/ \E i \in Collection!Items : \E x, left, new :
          /\ x.item = i /\ x.epoch = collectionJob.epoch /\ left = collectionJob.todo \ {i}
          /\ new = {IF m.item = i THEN x ELSE m : m \in collectionJob.items}
          /\ j = [collectionJob EXCEPT !.todo = left, !.items = new]
    \/ \E k \in 0..(Collection!Cardinality(DOMAIN collectionJob.ops) - 1) : j = [collectionJob EXCEPT !.part = k]

\* It has the same stickers in hand.
LEMMA RefreshGoes ==
    ASSUME Log, RefreshTrue, Onward, NEW j, GoesTo(j), collectionJob' = j
    PROVE  Task'
<1>1. PICK S : S = ItemsAt(collectionJob.revision)
  OBVIOUS
<1>2. PICK n : n = Shares(S)
  OBVIOUS
<1>3. /\ collectionJob \in [kind : {"refresh"}, at : {"upload", "parts", "clear", "acknowledge"}, snapshot : {collectionJob.snapshot},
                   epoch : 1..CollectionMaxEpoch, revision : {collectionJob.revision}, todo : SUBSET Collection!Items, part : Nat,
                   items : {collectionJob.items}, ops : {collectionJob.ops}, sizes : {collectionJob.sizes}]
      /\ collectionJob.revision \in 0..collectionCircle.revision /\ DOMAIN collectionJob.ops = 0..(n - 1)
      /\ collectionJob.sizes = [k \in 0..(n - 1) |-> Share(S, k)] /\ collectionJob.part \in 0..(n - 1)
  BY <1>1, <1>2 DEF RefreshTrue
<1>4. n - 1 \in Nat /\ Collection!Cardinality(DOMAIN collectionJob.ops) = n
  BY <1>1, <1>2, <1>3, PartsCounted
<1>5. PICK e, items, todo : e = collectionJob.epoch /\ items = collectionJob.items /\ todo = collectionJob.todo
  OBVIOUS
<1>6. Collection!Topology(items) = S /\ \A m \in items : m.item \in todo \/ m.epoch = e
  BY <1>1, <1>5 DEF RefreshTrue
<1> DEFINE Same == /\ j \in [kind : {"refresh"}, at : {"upload", "parts", "clear", "acknowledge"}, snapshot : {j.snapshot},
                              epoch : 1..CollectionMaxEpoch, revision : {j.revision}, todo : SUBSET Collection!Items, part : Nat,
                              items : {j.items}, ops : {j.ops}, sizes : {j.sizes}]
                   /\ j.revision = collectionJob.revision /\ j.epoch = e /\ j.ops = collectionJob.ops /\ j.sizes = collectionJob.sizes
                   /\ j.part \in 0..(n - 1)
           Pictured == Collection!Topology(j.items) = S /\ \A m \in j.items : m.item \in j.todo \/ m.epoch = e
<1> HIDE DEF Same, Pictured
<1>7. Same /\ Pictured
  <2>1. CASE \E at \in {"upload", "parts", "clear", "acknowledge"} : j = [collectionJob EXCEPT !.at = at]
    <3>1. Same
      BY <1>3, <1>5, <2>1 DEF Same
    <3>2. j.items = items /\ j.todo = todo
      BY <1>3, <1>5, <2>1
    <3> QED  BY <1>6, <3>1, <3>2 DEF Pictured
  <2>2. ASSUME NEW i \in Collection!Items, j = [collectionJob EXCEPT !.todo = collectionJob.todo \ {i}], Collection!IsCurrent(i)
        PROVE  Same /\ Pictured
    <3>1. /\ j.todo = todo \ {i} /\ j.items = items
          /\ \A m \in items : m.item = i => m.epoch = e
      BY <1>3, <1>5, <2>2 DEF Collection!IsCurrent
    <3>2. Pictured
      BY <1>6, <3>1 DEF Pictured
    <3>3. Same
      BY <1>3, <1>5, <2>2 DEF Same
    <3> QED  BY <3>2, <3>3
  <2>3. ASSUME NEW i \in Collection!Items, NEW x, NEW left, NEW new, x.item = i, x.epoch = collectionJob.epoch,
               left = collectionJob.todo \ {i}, new = {IF m.item = i THEN x ELSE m : m \in collectionJob.items},
               j = [collectionJob EXCEPT !.todo = left, !.items = new]
        PROVE  Same /\ Pictured
    <3>1. left \in SUBSET Collection!Items
      BY <1>3, <2>3
    <3>2. x.item = i /\ x.epoch = e /\ left = todo \ {i}
      BY <1>5, <2>3
    <3>3. new = {IF m.item = i THEN x ELSE m : m \in items}
      BY <1>5, <2>3
    <3>4. Same /\ j.todo = left /\ j.items = new
      BY <1>3, <1>5, <2>3, <3>1 DEF Same
    <3>5. \A m \in new : m.item \in left \/ m.epoch = e
      BY <1>6, <3>2, <3>3
    <3>6. \A m \in new : \E q \in items : q.item = m.item
      BY <3>2, <3>3
    <3>7. \A q \in items : \E m \in new : q.item = m.item
      BY <3>2, <3>3
    <3>8. Collection!Topology(new) = Collection!Topology(items)
      <4>1. \A y : y \in Collection!Topology(new) <=> \E m \in new : y = m.item
        BY DEF Collection!Topology
      <4>2. \A y : y \in Collection!Topology(items) <=> \E m \in items : y = m.item
        BY DEF Collection!Topology
      <4>3. \A y : y \in Collection!Topology(new) <=> y \in Collection!Topology(items)
        BY <3>6, <3>7, <4>1, <4>2, Zenon
      <4> QED  BY <4>3
    <3> QED  BY <1>6, <3>4, <3>5, <3>8 DEF Pictured
  <2>4. CASE \E k \in 0..(Collection!Cardinality(DOMAIN collectionJob.ops) - 1) : j = [collectionJob EXCEPT !.part = k]
    <3>1. PICK k \in 0..(n - 1) : j = [collectionJob EXCEPT !.part = k]
      BY <1>4, <2>4
    <3>2. k \in Nat /\ j.part = k /\ j.items = items /\ j.todo = todo
      BY <1>3, <1>5, <3>1
    <3>3. Same
      BY <1>3, <1>5, <3>2, <3>1 DEF Same
    <3> QED  BY <1>6, <3>2, <3>3 DEF Pictured
  <2> QED  BY <2>1, <2>2, <2>3, <2>4 DEF GoesTo
<1>8. ItemsAt(j.revision)' = S /\ j.revision \in 0..collectionCircle'.revision
  <2>1. PICK r : r = j.revision
    OBVIOUS
  <2>2. r = collectionJob.revision
    BY <1>7, <2>1 DEF Same
  <2>3. r \in 0..collectionCircle'.revision /\ ItemsAt(r)' = ItemsAt(r)
    BY <1>3, <2>2 DEF Onward
  <2> QED  BY <1>1, <2>1, <2>2, <2>3
<1>9. ItemsAt(collectionJob.revision)' = S
  BY <1>8
<1>10. RefreshTrue'
  BY <1>2, <1>3, <1>7, <1>8, <1>9 DEF RefreshTrue, Same, Pictured
<1> QED  BY <1>10 DEF Task

\* A sticker is kept, or encrypted anew and uploaded, or the refresh ends.
LEMMA RefreshItemKeeps ==
    ASSUME CollectionInv, NEW i \in Collection!Items, Collection!KeepItem(i) \/ Collection!RefreshItem(i)
    PROVE  Plain' /\ Onward
<1>1. /\ Shared /\ Counts /\ Task /\ Circle /\ UNCHANGED <<collectionCircle, events, rows, collectionRelay, edit, pulled>>
      /\ UNCHANGED collectionMishaps \/ Collection!Mishap
      /\ collectionJob.kind = "refresh"
  BY DEF CollectionInv, Plain, Collection!KeepItem, Collection!RefreshItem, Collection!Due, Shared
<1>2. Shared' /\ Onward
  BY <1>1, QuietKeeps DEF Circle
<1>3. RefreshTrue
  BY <1>1, TaskTells
<1>4. CASE Collection!KeepItem(i)
  <2>1. collectionJob' = Collection!Idle \/ (collectionJob' = [collectionJob EXCEPT !.todo = collectionJob.todo \ {i}] /\ Collection!IsCurrent(i))
    BY <1>4 DEF Collection!KeepItem
  <2>2. CASE collectionJob' = [collectionJob EXCEPT !.todo = collectionJob.todo \ {i}] /\ Collection!IsCurrent(i)
    <3>1. Task'
      BY <1>1, <1>2, <1>3, <2>2, RefreshGoes DEF Shared, GoesTo
    <3> QED  BY <1>1, <1>2, <3>1, CountsStay DEF Plain
  <2> QED  BY <1>1, <1>2, <2>1, <2>2, CountsStay, Ended DEF Plain
<1>5. CASE Collection!RefreshItem(i)
  <2> DEFINE kept == IF fresh[i].phase # "none" THEN fresh[i]
                     ELSE [phase |-> "prepared", epoch |-> collectionJob.epoch, revision |-> collectionJob.revision,
                           op |-> collectionJob.ops[CHOOSE k \in DOMAIN collectionJob.sizes : i \in collectionJob.sizes[k]],
                           media |-> fresh[i].media + 1]
  <2>1. \/ collectionJob' = Collection!Idle
        \/ collectionJob' = [collectionJob EXCEPT !.todo = @ \ {i},
               !.items = {IF m.item = i THEN Collection!Image(i, collectionJob.epoch, kept.media) ELSE m : m \in @}]
    BY <1>5, Zenon DEF Collection!RefreshItem
  <2> HIDE DEF kept
  <2>2. PICK x : x = Collection!Image(i, collectionJob.epoch, kept.media)
    OBVIOUS
  <2>3. x.item = i /\ x.epoch = collectionJob.epoch
    BY <2>2 DEF Collection!Image
  <2>4. PICK left, new : left = collectionJob.todo \ {i} /\ new = {IF m.item = i THEN x ELSE m : m \in collectionJob.items}
    OBVIOUS
  <2>5. collectionJob' = Collection!Idle \/ collectionJob' = [collectionJob EXCEPT !.todo = left, !.items = new]
    BY <2>1, <2>2, <2>4
  <2>6. CASE collectionJob' = [collectionJob EXCEPT !.todo = left, !.items = new]
    <3>1. PICK j : j = collectionJob'
      OBVIOUS
    <3>2. GoesTo(j)
      BY <2>3, <2>4, <2>6, <3>1, Zenon DEF GoesTo
    <3>3. Task'
      BY <1>1, <1>2, <1>3, <3>1, <3>2, RefreshGoes DEF Shared
    <3> QED  BY <1>1, <1>2, <3>3, CountsStay DEF Plain
  <2> QED  BY <1>1, <1>2, <2>5, <2>6, CountsStay, Ended DEF Plain
<1> QED  BY <1>4, <1>5

\* What is published, cleared and acknowledged is of the vault and of the uploads.
LEMMA VaultKeeps ==
    ASSUME CollectionInv, Collection!Publish \/ Collection!ClearPublication \/ Collection!AcknowledgeUploads
    PROVE  Plain' /\ Onward
<1>1. /\ Shared /\ Counts /\ Task /\ Circle /\ UNCHANGED <<collectionCircle, events, rows, collectionRelay, edit, pulled, collectionMishaps>>
      /\ \/ collectionJob' = Collection!Idle \/ collectionJob' = [collectionJob EXCEPT !.at = "parts"] \/ collectionJob' = [collectionJob EXCEPT !.at = "acknowledge"]
      /\ collectionJob.kind = "refresh"
  BY DEF CollectionInv, Plain, Collection!Publish, Collection!ClearPublication,
       Collection!AcknowledgeUploads, Collection!Goes, Shared
<1>2. Shared' /\ Onward
  BY <1>1, QuietKeeps DEF Circle
<1>3. RefreshTrue
  BY <1>1, TaskTells
<1>4. Task'
  <2>1. CASE collectionJob' = Collection!Idle
    BY <2>1, Ended
  <2>2. CASE collectionJob' = [collectionJob EXCEPT !.at = "parts"]
    BY <1>1, <1>2, <1>3, <2>2, RefreshGoes DEF Shared, GoesTo
  <2>3. CASE collectionJob' = [collectionJob EXCEPT !.at = "acknowledge"]
    BY <1>1, <1>2, <1>3, <2>3, RefreshGoes DEF Shared, GoesTo
  <2> QED  BY <1>1, <2>1, <2>2, <2>3
<1> QED  BY <1>1, <1>2, <1>4, CountsStay DEF Plain

\* A part that is written is of the stickers of the revision, in pictures of the epoch.
LEMMA PartIsTrue ==
    ASSUME Log, RefreshTrue, collectionJob.todo = {}
    PROVE  BodyTrue(Collection!PartBody) /\ Collection!PartBody.kind = "part"
<1>1. PICK S : S = ItemsAt(collectionJob.revision)
  OBVIOUS
<1>2. PICK n : n = Shares(S)
  OBVIOUS
<1>3. /\ collectionJob.revision \in 0..collectionCircle.revision
      /\ Collection!Topology(collectionJob.items) = S /\ DOMAIN collectionJob.ops = 0..(n - 1)
      /\ \A m \in collectionJob.items : m.epoch = collectionJob.epoch
      /\ collectionJob.sizes = [k \in 0..(n - 1) |-> Share(S, k)] /\ collectionJob.part \in 0..(n - 1)
  BY <1>1, <1>2 DEF RefreshTrue
<1>4. Collection!Cardinality(DOMAIN collectionJob.ops) = n
  BY <1>1, <1>2, <1>3, PartsCounted
<1>5. PICK k : k = collectionJob.part
  OBVIOUS
<1>6. collectionJob.sizes[k] = Share(S, k)
  BY <1>3, <1>5
<1>7. PICK b : b = Collection!PartBody
  OBVIOUS
<1>8. /\ b.kind = "part" /\ b.revision = collectionJob.revision /\ b.epoch = collectionJob.epoch /\ b.part = k /\ b.parts = n
      /\ b.items = {m \in collectionJob.items : m.item \in Share(S, k)}
  BY <1>3, <1>4, <1>5, <1>6, <1>7 DEF Collection!PartBody
<1>9. Collection!Topology(b.items) = Share(S, k)
  <2>1. Share(S, k) \subseteq Collection!Topology(collectionJob.items)
    BY <1>3 DEF Share
  <2> QED  BY <1>8, <2>1 DEF Collection!Topology
<1>10. PartTrue(b)
  BY <1>1, <1>2, <1>3, <1>5, <1>8, <1>9 DEF PartTrue
<1> QED  BY <1>7, <1>8, <1>10 DEF BodyTrue

\* A part is queued while it is of the current revision.
LEMMA QueuePartKeeps == ASSUME CollectionInv, Collection!QueuePart PROVE Plain' /\ Onward
<1>1. /\ Shared /\ Counts /\ Task /\ Circle /\ UNCHANGED <<collectionCircle, events, collectionRelay, edit, pulled, collectionMishaps>>
      /\ collectionJob.kind = "refresh" /\ collectionJob.ops[collectionJob.part] \notin DOMAIN rows
      /\ \/ Collection!Row(collectionJob.ops[collectionJob.part], Collection!PartBody) /\ UNCHANGED collectionJob
         \/ collectionJob' = Collection!Idle /\ UNCHANGED rows
  BY DEF CollectionInv, Plain, Collection!QueuePart, Shared
<1>2. RefreshTrue
  BY <1>1, TaskTells
<1>5. Log /\ collectionJob.todo = {}
  BY <1>1 DEF Shared, CollectionInv, Published, Publishing, Collection!QueuePart
<1>3. CASE Collection!Row(collectionJob.ops[collectionJob.part], Collection!PartBody) /\ UNCHANGED collectionJob
  <2>1. Shared' /\ Onward /\ DOMAIN rows \subseteq DOMAIN rows'
    BY <1>1, <1>2, <1>3, <1>5, PartIsTrue, RowQueued
  <2>2. Task'
    BY <1>1, <1>3, <2>1, TaskStays
  <2> QED  BY <1>1, <2>1, <2>2, CountsStay DEF Plain
<1>4. CASE collectionJob' = Collection!Idle /\ UNCHANGED rows
  BY <1>1, <1>4, QuietKeeps, CountsStay, Ended DEF Plain, Circle
<1> QED  BY <1>1, <1>3, <1>4

\* A part is sent, and its answer may be lost.
LEMMA SendPartKeeps == ASSUME CollectionInv, Collection!SendPart PROVE Plain' /\ Onward
<1>1. /\ Shared /\ Counts /\ Task /\ Circle /\ UNCHANGED <<edit, pulled>>
      /\ collectionJob.kind = "refresh" /\ collectionJob.ops[collectionJob.part] \in DOMAIN rows
  BY DEF CollectionInv, Plain, Collection!SendPart, Shared
<1>2. RefreshTrue
  BY <1>1, TaskTells
<1>8. Log
  BY <1>1 DEF Shared
<1>3. PICK o \in DOMAIN rows : o = collectionJob.ops[collectionJob.part]
  BY <1>1
<1>4. \/ collectionJob' = Collection!Idle /\ UNCHANGED <<collectionCircle, events, collectionRelay, rows, collectionMishaps>>
      \/ Collection!Upload(o) /\ Collection!NextPart /\ UNCHANGED collectionMishaps
      \/ (Collection!Lost(o) \/ Collection!Refused(o)) /\ collectionJob' = Collection!Idle
  BY <1>3 DEF Collection!SendPart
<1>5. CASE collectionJob' = Collection!Idle /\ UNCHANGED <<collectionCircle, events, collectionRelay, rows, collectionMishaps>>
  BY <1>1, <1>5, QuietKeeps, CountsStay, Ended DEF Plain, Circle
<1>6. CASE Collection!Upload(o) /\ Collection!NextPart /\ UNCHANGED collectionMishaps
  <2>1. Shared' /\ Counts' /\ Onward
    BY <1>1, <1>6, AnswerKeeps
  <2>2. Task'
    <3>1. CASE collectionJob' = [collectionJob EXCEPT !.at = "clear"]
      BY <1>8, <1>2, <2>1, <3>1, RefreshGoes DEF GoesTo
    <3>2. CASE collectionJob.part + 1 # Collection!Cardinality(DOMAIN collectionJob.ops) /\ collectionJob' = [collectionJob EXCEPT !.part = collectionJob.part + 1]
      <4>1. PICK n : n = Shares(ItemsAt(collectionJob.revision))
        OBVIOUS
      <4>2. Collection!Cardinality(DOMAIN collectionJob.ops) = n /\ n - 1 \in Nat /\ collectionJob.part \in 0..(n - 1)
        BY <1>8, <1>2, <4>1, PartsCounted DEF RefreshTrue
      <4>3. PICK k : k = collectionJob.part + 1
        OBVIOUS
      <4>4. k \in 0..(Collection!Cardinality(DOMAIN collectionJob.ops) - 1)
        <5>1. PICK q \in 0..(n - 1) : q = collectionJob.part
          BY <4>2
        <5>2. n \in Nat /\ k = q + 1 /\ q + 1 # n
          BY <1>8, <3>2, <4>1, <4>2, <4>3, <5>1, PartsCounted
        <5>3. k \in 0..(n - 1)
          BY <5>1, <5>2
        <5> QED  BY <4>2, <5>3
      <4> QED  BY <1>8, <1>2, <2>1, <3>2, <4>3, <4>4, RefreshGoes DEF GoesTo
    <3> QED  BY <1>6, <3>1, <3>2 DEF Collection!NextPart, Collection!Goes
  <2> QED  BY <2>1, <2>2 DEF Plain
<1>7. CASE (Collection!Lost(o) \/ Collection!Refused(o)) /\ collectionJob' = Collection!Idle
  BY <1>1, <1>7, AnswerKeeps, Ended DEF Plain
<1> QED  BY <1>4, <1>5, <1>6, <1>7

-----------------------------------------------------------------------------
(* The rest of the Circle.                                                  *)

\* Another member adds a sticker that nobody has added.
LEMMA OtherAddsKeeps == ASSUME CollectionInv, Collection!OtherAdds PROVE Plain' /\ Onward
<1>1. /\ Circle /\ Log /\ Outbox /\ Edits /\ OneEach /\ AddedOnce /\ Counts /\ Task
      /\ UNCHANGED <<collectionRelay, rows, edit, collectionJob, pulled, collectionMishaps>> /\ Collection!Made # Collection!Items /\ collectionCircle.revision < CollectionMaxRevision
  BY DEF CollectionInv, Plain, Collection!OtherAdds, Shared
<1>2. PICK i : i = Collection!NextItem
  OBVIOUS
<1>3. i \in Collection!Items /\ i \notin Collection!Made
  BY <1>1, <1>2, NextIsNew
<1>4. PICK b : b = Collection!Body("add", i, collectionCircle.epoch, collectionCircle.revision + 1)
  OBVIOUS
<1>5. PICK e : e = [op |-> <<"other", i>>, to |-> Collection!Audience(collectionCircle.epoch), body |-> b]
  OBVIOUS
<1>6. /\ events' = Append(events, e) /\ e.body = b
      /\ collectionCircle' = [collectionCircle EXCEPT !.revision = collectionCircle.revision + 1, !.items = collectionCircle.items \cup {i}]
  BY <1>2, <1>4, <1>5 DEF Collection!OtherAdds
<1>7. collectionCircle.revision + 1 \in 1..CollectionMaxRevision /\ collectionCircle.epoch \in 1..CollectionMaxEpoch
  BY <1>1, CollectionBounds DEF Circle
<1>8. b \in ChangeBodies /\ b.kind = "add" /\ b.item = i /\ b.revision = collectionCircle.revision + 1
  BY <1>3, <1>4, <1>7 DEF Collection!Body, ChangeBodies
<1>9. collectionCircle'.revision = collectionCircle.revision + 1 /\ collectionCircle'.items = collectionCircle.items \cup {i} /\ Circle'
  <2>1. PICK r \in 0..CollectionMaxRevision : r = collectionCircle.revision + 1
    BY <1>7, CollectionBounds
  <2>2. PICK c : c = [collectionCircle EXCEPT !.revision = r]
    OBVIOUS
  <2>3. c \in [epoch : 1..CollectionMaxEpoch, revision : 0..CollectionMaxRevision, items : SUBSET Collection!Items, joined : BOOLEAN]
        /\ c.revision = r
    BY <1>1, <2>2 DEF Circle
  <2>4. collectionCircle.items \cup {i} \subseteq Collection!Items
    BY <1>1, <1>3 DEF Circle
  <2>5. collectionCircle' = [c EXCEPT !.items = collectionCircle.items \cup {i}]
    BY <1>6, <2>1, <2>2
  <2> QED  BY <2>1, <2>3, <2>4, <2>5 DEF Circle
<1>10. \A c \in Changed : c.kind = "add" => c.item # i
  BY <1>3 DEF Changed, Collection!Made
<1>11. Onward /\ OneEach' /\ Changed' = Changed \cup {b}
  BY <1>1, <1>6, <1>8, <1>9, <1>10, ChangeCommitted
<1>12. Outbox'
  BY <1>1, <1>11, OutboxStays
<1>13. AddedOnce'
  <2>1. \A o \in DOMAIN rows : ~(rows[o].body.kind = "add" /\ rows[o].body.item = i)
    BY <1>1, <1>3 DEF AddedOnce, Collection!Made
  <2>2. edit.item # i
    BY <1>3 DEF Collection!Made
  <2> QED  BY <1>1, <1>8, <1>11, <2>1, <2>2 DEF AddedOnce, Collection!AddOp
<1>14. \A k \in DOMAIN events : BodyTrue(events[k].body)'
  BY <1>1, <1>6, <1>11, BodiesStay DEF Log
<1>15. BodyTrue(b)'
  BY <1>8 DEF BodyTrue
<1>16. Log' /\ Len(events) \in Nat /\ Len(events') = Len(events) + 1
  BY <1>1, <1>6, <1>14, <1>15, EventsGrow DEF Log
<1>17. Shared' /\ Task'
  BY <1>1, <1>9, <1>11, <1>12, <1>13, <1>16, TaskStays DEF Shared, Edits
<1>18. Counts'
  <2>1. PICK n \in Nat : n = Len(events) /\ Len(events') = n + 1
    BY <1>16
  <2> QED  BY <1>1, <2>1 DEF Counts
<1> QED  BY <1>11, <1>17, <1>18 DEF Plain

\* A new audience has the same stickers.
LEMMA ComeOrGoKeeps == ASSUME CollectionInv, Collection!ComeOrGo PROVE Plain' /\ Onward
<1>1. /\ Shared /\ Counts /\ Task /\ Circle /\ UNCHANGED <<events, rows, collectionRelay, edit, collectionJob, pulled, collectionMishaps>>
      /\ collectionCircle.epoch < CollectionMaxEpoch /\ collectionCircle' = [collectionCircle EXCEPT !.epoch = collectionCircle.epoch + 1, !.joined = ~collectionCircle.joined]
  BY DEF CollectionInv, Plain, Collection!ComeOrGo, Shared
<1>2. collectionCircle'.revision = collectionCircle.revision /\ collectionCircle'.items = collectionCircle.items /\ Circle'
  <2>1. PICK n \in 1..CollectionMaxEpoch : n = collectionCircle.epoch + 1
    BY <1>1, CollectionBounds DEF Circle
  <2>2. PICK c : c = [collectionCircle EXCEPT !.epoch = n]
    OBVIOUS
  <2>3. c \in [epoch : 1..CollectionMaxEpoch, revision : 0..CollectionMaxRevision, items : SUBSET Collection!Items, joined : BOOLEAN]
        /\ c.revision = collectionCircle.revision /\ c.items = collectionCircle.items
    BY <1>1, <2>2 DEF Circle
  <2>4. PICK x \in BOOLEAN : x = ~collectionCircle.joined
    OBVIOUS
  <2>5. collectionCircle' = [c EXCEPT !.joined = x]
    BY <1>1, <2>1, <2>2, <2>4
  <2> QED  BY <2>3, <2>5 DEF Circle
<1>3. Shared' /\ Onward
  BY <1>1, <1>2, QuietKeeps
<1>4. Task'
  BY <1>1, <1>3, TaskStays
<1> QED  BY <1>1, <1>3, <1>4, CountsStay DEF Plain

\* The outbox worker, an inbox that is read, and a process that dies.
LEMMA RestKeeps ==
    ASSUME CollectionInv, Collection!SyncOutbox \/ Collection!Crash \/ \E p \in Collection!Phones : Collection!Pull(p)
    PROVE  Plain' /\ Onward
<1>1. Shared /\ Counts /\ Task /\ Circle
  BY DEF CollectionInv, Plain, Shared
<1>2. CASE Collection!SyncOutbox
  <2>1. PICK o \in DOMAIN rows : Collection!Upload(o) /\ UNCHANGED collectionMishaps
    BY <1>2 DEF Collection!SyncOutbox
  <2>2. UNCHANGED <<edit, pulled, collectionJob>>
    BY <1>2 DEF Collection!SyncOutbox
  <2>3. Shared' /\ Counts' /\ Onward /\ DOMAIN rows' = DOMAIN rows
    BY <1>1, <2>1, <2>2, AnswerKeeps
  <2>4. Task'
    BY <1>1, <2>2, <2>3, TaskStays
  <2> QED  BY <2>3, <2>4 DEF Plain
<1>3. CASE Collection!Crash
  BY <1>1, <1>3, QuietKeeps, CountsStay, Ended DEF Collection!Crash, Plain, Circle
<1>4. CASE \E p \in Collection!Phones : Collection!Pull(p)
  <2>1. UNCHANGED <<collectionCircle, events, collectionRelay, rows, edit, collectionJob, collectionMishaps>>
    BY <1>4 DEF Collection!Pull
  <2>2. Shared' /\ Onward
    BY <1>1, <2>1, QuietKeeps DEF Circle
  <2>3. Task'
    BY <1>1, <2>1, <2>2, TaskStays
  <2>4. Len(events) \in 0..Len(events)
    BY <1>1 DEF CollectionInv, Plain, Shared, Log
  <2>5. Counts'
    BY <1>1, <1>4, <2>1, <2>4 DEF Collection!Pull, Counts
  <2> QED  BY <2>2, <2>3, <2>5 DEF Plain
<1> QED  BY <1>2, <1>3, <1>4

-----------------------------------------------------------------------------
(* What is published.                                                       *)

\* The parts stay, and what was sent is sent.
PartsStay == \A o \in PartRows : /\ o \in PartRows' /\ rows'[o].body = rows[o].body
                                 /\ rows[o].status = "sent" => rows'[o].status = "sent"
PartsSame == PartsStay /\ PartRows' = PartRows

\* A publication that was complete still is.
LEMMA CompleteStays ==
    ASSUME Onward, PartsStay, NEW e, NEW r \in 0..collectionCircle.revision
    PROVE  (\A k : SentPart(e, r, k) => SentPart(e, r, k)') /\ (Complete(e, r) => Complete(e, r)')
<1>1. ItemsAt(r)' = ItemsAt(r)
  BY DEF Onward
<1>2. \A o \in RowsOf(e, r) : /\ o \in RowsOf(e, r)' /\ rows'[o].body = rows[o].body
                              /\ rows[o].status = "sent" => rows'[o].status = "sent"
  BY DEF PartsStay, RowsOf
<1>3. \A k : SentPart(e, r, k) => SentPart(e, r, k)'
  BY <1>2 DEF SentPart
<1> QED  BY <1>1, <1>3 DEF Complete

\* There is no part of a revision that the Circle has not reached.
LEMMA RowsOfRevision ==
    ASSUME Shared, NEW e, NEW r, RowsOf(e, r) # {}
    PROVE  r \in 0..collectionCircle.revision
<1>1. PICK o \in RowsOf(e, r) : TRUE
  OBVIOUS
<1>2. rows[o].body.kind = "part" /\ rows[o].body.revision = r /\ BodyTrue(rows[o].body)
  BY <1>1 DEF RowsOf, PartRows, Shared, Outbox
<1> QED  BY <1>2 DEF BodyTrue, PartTrue

\* The refresh is still looking at its stickers.
StillUploading == /\ collectionJob.kind = "refresh" /\ collectionJob.at = "upload" /\ collectionJob'.at = "upload"
                  /\ collectionJob'.snapshot = collectionJob.snapshot /\ collectionJob'.part = collectionJob.part
                  /\ collectionJob'.epoch = collectionJob.epoch /\ collectionJob'.revision = collectionJob.revision
\* What a job may be after a step that writes no part and sends none of its own.
JobQuiet == \/ collectionJob'.kind # "refresh"
            \/ UNCHANGED <<collectionJob, snaps>>
            \/ StillUploading /\ UNCHANGED snaps

\* Such a step leaves the publications as they were.
LEMMA PublishedKeeps ==
    ASSUME Shared, Published, Onward, PartsSame, Logged', Begun', UNCHANGED collectionSaved, JobQuiet
    PROVE  Published'
<1>1. OnePublication /\ Finished /\ Uploading /\ Publishing
  BY DEF Published
<1>2. ASSUME NEW e, NEW r PROVE RowsOf(e, r)' = RowsOf(e, r) /\ \A o \in RowsOf(e, r) : rows'[o].body = rows[o].body
  BY DEF PartsSame, PartsStay, RowsOf
<1>3. ASSUME NEW e, NEW r, RowsOf(e, r) # {}
      PROVE  (\A k : SentPart(e, r, k) => SentPart(e, r, k)') /\ (Complete(e, r) => Complete(e, r)')
  <2>1. r \in 0..collectionCircle.revision
    BY <1>3, RowsOfRevision
  <2> QED  BY <2>1, CompleteStays DEF PartsSame
<1>4. OnePublication'
  BY <1>1, <1>2 DEF OnePublication
<1>5. Finished'
  BY <1>1, <1>2, <1>3 DEF Finished
<1>6. Uploading' /\ Publishing'
  <2>1. CASE collectionJob'.kind # "refresh"
    BY <2>1 DEF Uploading, Publishing
  <2>2. CASE UNCHANGED <<collectionJob, snaps>>
    <3>1. PICK e, r : e = collectionJob.epoch /\ r = collectionJob.revision
      OBVIOUS
    <3>2. RowsOf(e, r)' = RowsOf(e, r) /\ \A o \in RowsOf(e, r) : rows'[o].body = rows[o].body
      BY <1>2
    <3>3. Uploading'
      BY <1>1, <2>2, <3>1, <3>2 DEF Uploading
    <3>4. \A k : JobPart(k)' = JobPart(k)
      BY <2>2 DEF JobPart
    <3>5. \A k : SentPart(e, r, k) => SentPart(e, r, k)'
      BY <1>3 DEF SentPart
    <3>6. \A x, y : RowsOf(x, y) # {} /\ Complete(x, y) => Complete(x, y)'
      BY <1>3
    <3>7. Publishing'
      BY <1>1, <1>2, <2>2, <3>1, <3>2, <3>4, <3>5, <3>6 DEF Publishing, Done
    <3> QED  BY <3>3, <3>7
  <2>3. CASE StillUploading /\ UNCHANGED snaps
    <3>1. PICK e, r : e = collectionJob.epoch /\ r = collectionJob.revision
      OBVIOUS
    <3>2. RowsOf(e, r)' = RowsOf(e, r)
      BY <1>2
    <3>3. Uploading'
      BY <1>1, <2>3, <3>1, <3>2 DEF Uploading, StillUploading
    <3>4. Publishing'
      BY <2>3 DEF Publishing, StillUploading
    <3> QED  BY <3>3, <3>4
  <2> QED  BY <2>1, <2>2, <2>3 DEF JobQuiet
<1> QED  BY <1>4, <1>5, <1>6 DEF Published

\* What is in the log, while the log stays.
LEMMA LoggedStays ==
    ASSUME Logged, PartsSame, UNCHANGED events, DOMAIN collectionRelay' \subseteq DOMAIN rows',
           \A o \in PartRows : rows'[o].status = "sent" \/ Collection!Committed(o)'
                               => rows[o].status = "sent" \/ Collection!Committed(o)
    PROVE  Logged'
  BY DEF Logged, PartsSame, PartsStay

\* And when it grows: of a part, only by what the phone wrote.
LEMMA LoggedGrows ==
    ASSUME Logged, Log, PartsSame, NEW x, events' = Append(events, x), DOMAIN collectionRelay' \subseteq DOMAIN rows',
           x.body.kind = "part" => x.op \in PartRows /\ x.body = rows[x.op].body /\ "admin" \in x.to,
           \A o \in PartRows : rows'[o].status = "sent" \/ Collection!Committed(o)'
                               => \/ rows[o].status = "sent" \/ Collection!Committed(o)
                                  \/ o = x.op /\ x.body.kind = "part"
    PROVE  Logged'
<1>1. /\ DOMAIN events' = DOMAIN events \cup {Len(events) + 1} /\ events'[Len(events) + 1] = x
      /\ \A k \in DOMAIN events : events'[k] = events[k]
  BY EventsGrow
<1>2. ASSUME NEW o \in PartRows', rows'[o].status = "sent" \/ Collection!Committed(o)'
      PROVE  \E n \in DOMAIN events' : events'[n].op = o /\ events'[n].body = rows'[o].body /\ "admin" \in events'[n].to
  <2>1. o \in PartRows /\ rows'[o].body = rows[o].body
    BY DEF PartsSame, PartsStay
  <2>2. CASE o = x.op /\ x.body.kind = "part"
    BY <1>1, <2>1, <2>2
  <2>3. CASE rows[o].status = "sent" \/ Collection!Committed(o)
    BY <1>1, <2>1, <2>3 DEF Logged
  <2> QED  BY <1>2, <2>1, <2>2, <2>3
<1>3. ASSUME NEW n \in DOMAIN events', events'[n].body.kind = "part"
      PROVE  events'[n].op \in PartRows' /\ rows'[events'[n].op].body = events'[n].body
  <2>1. CASE n \in DOMAIN events
    BY <1>1, <1>3, <2>1 DEF Logged, PartsSame, PartsStay
  <2>2. CASE n = Len(events) + 1
    BY <1>1, <1>3, <2>2 DEF PartsSame, PartsStay
  <2> QED  BY <1>1, <2>1, <2>2
<1> QED  BY <1>2, <1>3 DEF Logged

\* Nothing is written, sent or published.
LEMMA QuietPublishes ==
    ASSUME Shared, Published, Onward, JobQuiet, UNCHANGED <<events, collectionRelay, rows, snaps, collectionSaved>>
    PROVE  Published'
<1>1. PartsSame
  BY DEF PartsSame, PartsStay, PartRows
<1>2. Logged /\ Begun
  BY DEF Published
<1>3. \A o : Collection!Committed(o)' <=> Collection!Committed(o)
  BY DEF Collection!Committed
<1>4. Logged'
  BY <1>1, <1>2, <1>3, LoggedStays DEF Logged
<1>5. Begun'
  BY <1>1, <1>2 DEF Begun, PartsSame
<1> QED  BY <1>1, <1>4, <1>5, PublishedKeeps

\* An answer of the relay, or none: what it took is in the log.
LEMMA AnswerPublishes ==
    ASSUME Shared, Published, NEW o \in DOMAIN rows,
           Collection!Upload(o) \/ Collection!Lost(o) \/ Collection!Refused(o)
    PROVE  PartsSame /\ Logged' /\ Begun' /\ DOMAIN snaps' = DOMAIN snaps /\ (Collection!Upload(o) => rows'[o].status = "sent")
<1>1. Circle /\ Log /\ Outbox /\ Logged /\ Begun
  BY DEF Shared, Published
<1>2. Collection!Confirm(o) => /\ DOMAIN rows' = DOMAIN rows /\ rows'[o].status = "sent" /\ rows'[o].body = rows[o].body
                               /\ \A q \in DOMAIN rows : q # o => rows'[q] = rows[q]
  <2>1. rows[o] \in [status : {"queued", "sent", "retired"}, body : {rows[o].body}]
    BY <1>1 DEF Outbox
  <2> QED  BY <2>1 DEF Collection!Confirm
<1>3. Collection!Confirm(o) \/ UNCHANGED rows
  BY DEF Collection!Upload, Collection!Lost, Collection!Refused
<1>4. DOMAIN rows' = DOMAIN rows /\ \A q \in DOMAIN rows : /\ rows'[q].body = rows[q].body
                                                           /\ rows[q].status = "sent" => rows'[q].status = "sent"
                                                           /\ q # o => rows'[q] = rows[q]
  BY <1>2, <1>3
<1>5. PartsSame
  BY <1>4 DEF PartsSame, PartsStay, PartRows
<1>6. Collection!Upload(o) => rows'[o].status = "sent"
  BY <1>2 DEF Collection!Upload
<1>7. CASE Collection!Accepts(o) /\ Collection!Commit(o)
  <2>1. PICK x : x = [op |-> o, body |-> rows[o].body, to |-> Collection!Audience(rows[o].body.epoch)]
    OBVIOUS
  <2>2. /\ events' = Append(events, x) /\ x.op = o /\ x.body = rows[o].body /\ "admin" \in x.to
        /\ DOMAIN collectionRelay' = DOMAIN collectionRelay \cup {o}
        /\ \A q \in DOMAIN collectionRelay : q # o => collectionRelay'[q] = collectionRelay[q]
    BY <1>7, <2>1 DEF Collection!Commit, Collection!Audience, Collection!Phones
  <2>3. \A q \in PartRows : rows'[q].status = "sent" \/ Collection!Committed(q)'
                            => rows[q].status = "sent" \/ Collection!Committed(q) \/ (q = x.op /\ x.body.kind = "part")
    BY <1>4, <2>2 DEF Collection!Committed, PartRows
  <2>4. Logged'
    BY <1>1, <1>4, <1>5, <2>2, <2>3, LoggedGrows DEF PartRows, Logged
  <2>5. snaps' \in Seq(SUBSET Nat) /\ DOMAIN snaps' = DOMAIN snaps
    <3>1. CASE rows[o].body.kind = "part"
      <4>1. PICK b : b = rows[o].body
        OBVIOUS
      <4>2. BodyTrue(b) /\ b.kind = "part" /\ b.snapshot \in DOMAIN snaps
        BY <1>1, <3>1, <4>1 DEF Outbox, Begun, PartRows
      <4>3. b.part \in Nat
        BY <4>2 DEF BodyTrue, PartTrue
      <4>4. snaps' = [snaps EXCEPT ![b.snapshot] = snaps[b.snapshot] \cup {b.part}]
        BY <1>7, <3>1, <4>1 DEF Collection!Commit
      <4>5. snaps[b.snapshot] \cup {b.part} \in SUBSET Nat
        BY <1>1, <4>2, <4>3 DEF Begun
      <4> QED  BY <1>1, <4>2, <4>4, <4>5 DEF Begun
    <3>2. CASE rows[o].body.kind # "part"
      BY <1>1, <1>7, <3>2 DEF Collection!Commit, Begun
    <3> QED  BY <3>1, <3>2
  <2>6. Begun'
    BY <1>1, <1>5, <2>5 DEF Begun, PartsSame, PartsStay
  <2> QED  BY <1>5, <1>6, <2>4, <2>5, <2>6
<1>8. CASE UNCHANGED <<collectionCircle, events, snaps, collectionRelay>> /\ (UNCHANGED rows \/ Collection!Committed(o))
  <2>1. \A q : Collection!Committed(q)' <=> Collection!Committed(q)
    BY <1>8 DEF Collection!Committed
  <2>2. Logged'
    BY <1>1, <1>4, <1>5, <1>8, <2>1, LoggedStays DEF PartRows, Logged
  <2>3. Begun'
    BY <1>1, <1>5, <1>8 DEF Begun, PartsSame, PartsStay
  <2> QED  BY <1>5, <1>6, <1>8, <2>2, <2>3
<1> QED  BY <1>7, <1>8 DEF Collection!Upload, Collection!Lost, Collection!Refused

\* A row that is no part is written.
LEMMA ChangeQueued ==
    ASSUME Shared, Published, Onward, NEW o, o \notin DOMAIN rows, NEW b, b.kind # "part", Collection!Row(o, b), JobQuiet,
           UNCHANGED <<events, collectionRelay, snaps, collectionSaved>>
    PROVE  Published'
<1>1. Logged /\ Begun
  BY DEF Published
<1>2. /\ DOMAIN rows' = DOMAIN rows \cup {o} /\ rows'[o] = [status |-> "queued", body |-> b]
      /\ \A x \in DOMAIN rows : x # o /\ rows'[x] = rows[x]
  BY DEF Collection!Row
<1>3. PartsSame
  BY <1>2 DEF PartsSame, PartsStay, PartRows
<1>4. \A q : Collection!Committed(q)' <=> Collection!Committed(q)
  BY DEF Collection!Committed
<1>5. Logged'
  BY <1>1, <1>2, <1>3, <1>4, LoggedStays DEF Logged, PartRows
<1>6. Begun'
  BY <1>1, <1>3 DEF Begun, PartsSame, PartsStay
<1> QED  BY <1>3, <1>5, <1>6, PublishedKeeps

\* The steps that write no part.
LEMMA AddPublishes ==
    ASSUME CollectionInv, Onward,
           Collection!Choose \/ Collection!Check \/ Collection!UploadSticker \/ Collection!AcknowledgeAdd \/ Collection!Discard
    PROVE  Published'
<1>1. Shared /\ Task /\ Published /\ UNCHANGED <<events, collectionRelay, rows, snaps, collectionSaved>>
  BY DEF CollectionInv, Plain, Collection!Choose, Collection!Check, Collection!UploadSticker, Collection!AcknowledgeAdd, Collection!Discard
<1>2. JobQuiet
  <2>1. CASE Collection!Choose \/ Collection!AcknowledgeAdd \/ Collection!Discard
    BY <2>1 DEF Collection!Choose, Collection!AcknowledgeAdd, Collection!Discard, Collection!Idle, JobQuiet
  <2>2. CASE Collection!Check
    <3>1. collectionJob \in [kind : {"add"}, at : {"check", "acknowledge"}]
      BY <1>1, <2>2, TaskTells DEF Collection!Check
    <3>2. collectionJob' = Collection!Idle \/ \E at : collectionJob' = [collectionJob EXCEPT !.at = at]
      BY <2>2 DEF Collection!Check, Collection!Goes
    <3>3. collectionJob'.kind # "refresh"
      BY <3>1, <3>2 DEF Collection!Idle
    <3> QED  BY <3>3 DEF JobQuiet
  <2>3. CASE Collection!UploadSticker
    <3>1. collectionJob \in [kind : {"add"}, at : {"upload", "send"}]
      BY <1>1, <2>3, TaskTells DEF Collection!UploadSticker
    <3>2. collectionJob' = Collection!Idle \/ collectionJob' = [collectionJob EXCEPT !.at = "send"]
      BY <2>3 DEF Collection!UploadSticker, Collection!Goes
    <3>3. collectionJob'.kind # "refresh"
      BY <3>1, <3>2 DEF Collection!Idle
    <3> QED  BY <3>3 DEF JobQuiet
  <2> QED  BY <2>1, <2>2, <2>3
<1> QED  BY <1>1, <1>2, QuietPublishes

\* A change is written, sent, confirmed or retired.
LEMMA ChangePublishes ==
    ASSUME CollectionInv, Onward,
           \/ Collection!QueueChange \/ Collection!DeliverChange \/ Collection!RecoverChange \/ Collection!SyncOutbox
           \/ \E i \in Collection!Items : Collection!Remove(i)
    PROVE  Published'
<1>1. Shared /\ Task /\ Published /\ Outbox /\ Logged /\ Begun
  BY DEF CollectionInv, Plain, Shared, Published
<1>2. CASE Collection!QueueChange
  <2>1. PICK o : o = IF collectionJob.kind = "add" THEN Collection!AddOp(edit.item) ELSE collectionJob.op
    OBVIOUS
  <2>2. PICK b : b = IF collectionJob.kind = "add" THEN Collection!Body("add", edit.item, edit.epoch, edit.revision + 1) ELSE collectionJob.body
    OBVIOUS
  <2>3. UNCHANGED <<events, collectionRelay, snaps, collectionSaved>> /\ (UNCHANGED rows \/ (o \notin DOMAIN rows /\ Collection!Row(o, b)))
    BY <1>2, <2>1, <2>2 DEF Collection!QueueChange, Collection!Writable, Collection!Known
  <2>4. b.kind # "part"
    BY <1>1, <1>2, <2>2, TaskTells DEF Collection!QueueChange, Collection!Body
  <2>5. collectionJob'.kind # "refresh"
    BY <1>2 DEF Collection!QueueChange, Collection!Idle
  <2>6. JobQuiet
    BY <2>5 DEF JobQuiet
  <2> QED  BY <1>1, <2>3, <2>4, <2>6, QuietPublishes, ChangeQueued
<1>3. CASE Collection!DeliverChange
  <2>1. collectionJob.op \in DOMAIN rows
    BY <1>1, <1>3, TaskTells DEF Collection!DeliverChange
  <2>2. PICK o \in DOMAIN rows : o = collectionJob.op
    BY <2>1
  <2>3. (Collection!Upload(o) \/ Collection!Lost(o) \/ Collection!Refused(o)) /\ UNCHANGED collectionSaved
    BY <1>3, <2>2 DEF Collection!DeliverChange
  <2>4. JobQuiet
    BY <1>3 DEF Collection!DeliverChange, Collection!Idle, JobQuiet
  <2> QED  BY <1>1, <2>3, <2>4, AnswerPublishes, PublishedKeeps
<1>4. CASE Collection!RecoverChange
  <2>1. PICK o \in Collection!QueuedChanges : \/ Collection!Committed(o) /\ Collection!Confirm(o) /\ UNCHANGED collectionRelay
                                              \/ Collection!Cancel(o) /\ Collection!Retire(o)
    BY <1>4 DEF Collection!RecoverChange
  <2>2. o \in DOMAIN rows /\ rows[o].body.kind # "part" /\ UNCHANGED <<events, snaps, collectionSaved>>
    BY <1>4 DEF Collection!RecoverChange, Collection!QueuedChanges
  <2>3. RowsKept
    BY <1>1, <2>1, <2>2, Marked DEF Collection!Confirm, Collection!Retire
  <2>4. \A q \in DOMAIN rows : q # o => rows'[q] = rows[q]
    BY <2>1 DEF Collection!Confirm, Collection!Retire
  <2>5. PartsSame
    BY <2>2, <2>3, <2>4 DEF RowsKept, PartsSame, PartsStay, PartRows
  <2>6. /\ DOMAIN collectionRelay' \subseteq DOMAIN collectionRelay \cup {o}
        /\ \A q \in PartRows : rows'[q] = rows[q] /\ (Collection!Committed(q)' <=> Collection!Committed(q))
    BY <2>1, <2>2, <2>4 DEF Collection!Cancel, Collection!Committed, PartRows
  <2>7. Logged'
    BY <1>1, <2>2, <2>3, <2>5, <2>6, LoggedStays DEF Logged, RowsKept
  <2>8. Begun'
    BY <1>1, <2>2, <2>5 DEF Begun, PartsSame, PartsStay
  <2>9. JobQuiet
    BY <1>4 DEF Collection!RecoverChange, Collection!Idle, JobQuiet
  <2> QED  BY <1>1, <2>2, <2>5, <2>7, <2>8, <2>9, PublishedKeeps
<1>5. CASE Collection!SyncOutbox
  <2>1. PICK o \in DOMAIN rows : Collection!Upload(o)
    BY <1>5 DEF Collection!SyncOutbox
  <2>2. UNCHANGED collectionSaved /\ JobQuiet
    BY <1>5 DEF Collection!SyncOutbox, Collection!Idle, JobQuiet
  <2> QED  BY <1>1, <2>1, <2>2, AnswerPublishes, PublishedKeeps
<1>6. CASE \E i \in Collection!Items : Collection!Remove(i)
  <2>1. UNCHANGED <<events, collectionRelay, rows, snaps, collectionSaved>> /\ JobQuiet
    BY <1>6 DEF Collection!Remove, JobQuiet
  <2> QED  BY <1>1, <2>1, QuietPublishes
<1> QED  BY <1>2, <1>3, <1>4, <1>5, <1>6

\* What others do, an inbox that is read, and a process that dies.
LEMMA RestPublishes ==
    ASSUME CollectionInv, Onward,
           \/ Collection!Crash \/ Collection!OtherAdds \/ Collection!ComeOrGo
           \/ \E p \in Collection!Phones : Collection!Pull(p)
    PROVE  Published'
<1>1. Shared /\ Log /\ Published /\ Logged /\ Begun
  BY DEF CollectionInv, Plain, Shared, Published
<1>2. CASE Collection!Crash \/ Collection!ComeOrGo \/ \E p \in Collection!Phones : Collection!Pull(p)
  <2>1. UNCHANGED <<events, collectionRelay, rows, snaps, collectionSaved>> /\ JobQuiet
    BY <1>2 DEF Collection!Crash, Collection!ComeOrGo, Collection!Pull, Collection!Idle, JobQuiet
  <2> QED  BY <1>1, <2>1, QuietPublishes
<1>3. CASE Collection!OtherAdds
  <2>1. PICK x : x = [op |-> <<"other", Collection!NextItem>>, to |-> Collection!Audience(collectionCircle.epoch),
                      body |-> Collection!Body("add", Collection!NextItem, collectionCircle.epoch, collectionCircle.revision + 1)]
    OBVIOUS
  <2>2. /\ events' = Append(events, x) /\ x.body.kind # "part" /\ JobQuiet
        /\ UNCHANGED <<collectionRelay, rows, snaps, collectionSaved>>
    BY <1>3, <2>1 DEF Collection!OtherAdds, Collection!Body, JobQuiet
  <2>3. PartsSame
    BY <2>2 DEF PartsSame, PartsStay, PartRows
  <2>4. \A q : Collection!Committed(q)' <=> Collection!Committed(q)
    BY <2>2 DEF Collection!Committed
  <2>5. Logged'
    BY <1>1, <2>2, <2>3, <2>4, LoggedGrows DEF Logged
  <2>6. Begun'
    BY <1>1, <2>2, <2>3 DEF Begun, PartsSame
  <2> QED  BY <1>1, <2>2, <2>3, <2>5, <2>6, PublishedKeeps
<1> QED  BY <1>2, <1>3

\* A refresh begins only where no publication is: one that was sent would be shown.
LEMMA StartPublishes == ASSUME CollectionInv, Onward, Collection!StartRefresh PROVE Published'
<1>1. Shared /\ Published /\ Finished /\ Logged /\ Begun /\ OnePublication
  BY DEF CollectionInv, Plain, Published
<1>2. PICK e, r : e = collectionCircle.epoch /\ r = collectionCircle.revision
  OBVIOUS
<1>3. /\ UNCHANGED <<events, collectionRelay, rows, snaps, collectionSaved>> /\ Collection!Offered
      /\ collectionJob'.kind = "refresh" /\ collectionJob'.at = "upload" /\ collectionJob'.snapshot = Len(snaps) + 1
      /\ collectionJob'.epoch = e /\ collectionJob'.revision = r /\ collectionJob'.part = 0
  BY <1>2 DEF Collection!StartRefresh
<1>4. collectionSaved = Collection!NoPublication => RowsOf(e, r) = {}
  BY <1>1, <1>2, <1>3, SentIsShown DEF Finished
<1>5. RowsOf(e, r)' = RowsOf(e, r)
  BY <1>3 DEF RowsOf, PartRows
<1>6. Uploading'
  BY <1>3, <1>4, <1>5 DEF Uploading
<1>7. Publishing'
  BY <1>3 DEF Publishing
<1>8. PartsSame
  BY <1>3 DEF PartsSame, PartsStay, PartRows
<1>9. \A q : Collection!Committed(q)' <=> Collection!Committed(q)
  BY <1>3 DEF Collection!Committed
<1>10. Logged'
  BY <1>1, <1>3, <1>8, <1>9, LoggedStays DEF Logged
<1>11. Begun'
  BY <1>1, <1>3, <1>8 DEF Begun, PartsSame
<1>12. \A x, y : RowsOf(x, y)' = RowsOf(x, y)
  BY <1>3 DEF RowsOf, PartRows
<1>13. OnePublication'
  BY <1>1, <1>3, <1>12 DEF OnePublication
<1>14. \A x, y : RowsOf(x, y) # {} /\ Complete(x, y) => Complete(x, y)'
  BY <1>1, <1>8, RowsOfRevision, CompleteStays DEF PartsSame
<1>15. Finished'
  BY <1>1, <1>3, <1>12, <1>14 DEF Finished
<1> QED  BY <1>6, <1>7, <1>10, <1>11, <1>13, <1>15 DEF Published

\* A sticker is looked at, or the uploads are acknowledged: nothing is published.
LEMMA ItemPublishes ==
    ASSUME CollectionInv, Onward,
           Collection!AcknowledgeUploads \/ \E i \in Collection!Items : Collection!KeepItem(i) \/ Collection!RefreshItem(i)
    PROVE  Published'
<1>1. Shared /\ Task /\ Published
  BY DEF CollectionInv, Plain
<1>2. UNCHANGED <<events, collectionRelay, rows, snaps, collectionSaved>>
  BY DEF Collection!AcknowledgeUploads, Collection!KeepItem, Collection!RefreshItem
<1>3. JobQuiet
  <2>1. CASE collectionJob' = Collection!Idle
    BY <2>1 DEF Collection!Idle, JobQuiet
  <2>2. CASE collectionJob' # Collection!Idle
    <3>1. PICK i \in Collection!Items : Collection!KeepItem(i) \/ Collection!RefreshItem(i)
      BY <2>2 DEF Collection!AcknowledgeUploads
    <3>2. collectionJob.kind = "refresh" /\ collectionJob.at = "upload"
      BY <3>1 DEF Collection!KeepItem, Collection!RefreshItem, Collection!Due
    <3>3. RefreshTrue
      BY <1>1, <3>2, TaskTells
    <3>4. \E left, new : \/ collectionJob' = [collectionJob EXCEPT !.todo = left]
                         \/ collectionJob' = [collectionJob EXCEPT !.todo = left, !.items = new]
      BY <2>2, <3>1 DEF Collection!KeepItem, Collection!RefreshItem
    <3>5. StillUploading
      BY <3>2, <3>3, <3>4 DEF StillUploading, RefreshTrue
    <3> QED  BY <1>2, <3>5 DEF JobQuiet
  <2> QED  BY <2>1, <2>2
<1> QED  BY <1>1, <1>2, <1>3, QuietPublishes

\* What is put into the vault is new: whatever was begun before is sent.
LEMMA VaultPublishes ==
    ASSUME CollectionInv, Onward, Collection!Publish \/ Collection!ClearPublication
    PROVE  Published'
<1>1. Shared /\ Task /\ Published /\ Log /\ Finished /\ Logged /\ Begun /\ OnePublication /\ Uploading /\ Publishing
  BY DEF CollectionInv, Plain, Published, Shared
<1>2. UNCHANGED <<events, collectionRelay, rows>> /\ collectionJob.kind = "refresh"
  BY DEF Collection!Publish, Collection!ClearPublication
<1>3. RefreshTrue
  BY <1>1, <1>2, TaskTells
<1>4. \A x, y : RowsOf(x, y)' = RowsOf(x, y)
  BY <1>2 DEF RowsOf, PartRows
<1>5. PartsSame
  BY <1>2 DEF PartsSame, PartsStay, PartRows
<1>6. \A x, y : RowsOf(x, y) # {} /\ Complete(x, y) => Complete(x, y)'
  BY <1>1, <1>5, RowsOfRevision, CompleteStays DEF PartsSame
<1>7. Logged'
  <2>1. \A q : Collection!Committed(q)' <=> Collection!Committed(q)
    BY <1>2 DEF Collection!Committed
  <2> QED  BY <1>1, <1>2, <1>5, <2>1, LoggedStays DEF Logged
<1>8. OnePublication'
  BY <1>1, <1>2, <1>4 DEF OnePublication
<1>9. PICK e, r : e = collectionJob.epoch /\ r = collectionJob.revision
  OBVIOUS
<1>10. CASE Collection!Publish /\ UNCHANGED <<collectionSaved, snaps>> /\ collectionJob' = Collection!Idle
  <2>1. JobQuiet
    BY <1>10 DEF Collection!Idle, JobQuiet
  <2> QED  BY <1>1, <1>2, <1>10, <2>1, QuietPublishes
<1>11. CASE /\ Collection!Publish /\ collectionSaved = Collection!NoPublication /\ collectionSaved' = <<collectionJob.snapshot>>
            /\ collectionJob' = [collectionJob EXCEPT !.at = "parts"] /\ snaps' = Append(snaps, {})
  <2>1. collectionJob.at = "upload" /\ collectionJob.todo = {}
    BY <1>11 DEF Collection!Publish
  <2>2. collectionJob.snapshot = Len(snaps) + 1 /\ collectionJob.part = 0 /\ RowsOf(e, r) = {}
    BY <1>1, <1>2, <1>9, <1>11, <2>1 DEF Uploading
  <2>3. snaps' \in Seq(SUBSET Nat) /\ DOMAIN snaps' = DOMAIN snaps \cup {Len(snaps) + 1}
    BY <1>1, <1>11 DEF Begun
  <2>4. Begun'
    BY <1>1, <1>5, <2>3 DEF Begun, PartsSame, PartsStay
  <2>5. collectionSaved' # Collection!NoPublication
    BY <1>11 DEF Collection!NoPublication
  <2>6. /\ collectionJob'.at = "parts" /\ collectionJob'.epoch = e /\ collectionJob'.revision = r /\ collectionJob'.todo = {}
        /\ collectionJob'.part = 0 /\ collectionJob'.ops = collectionJob.ops /\ collectionJob'.snapshot = Len(snaps) + 1
    BY <1>3, <1>9, <1>11, <2>1, <2>2 DEF RefreshTrue
  <2>7. \A k \in DOMAIN collectionJob.ops : ~(k < 0)
    BY <1>3 DEF RefreshTrue
  <2>8. \A x, y : RowsOf(x, y)' # {} => Complete(x, y)'
    BY <1>1, <1>4, <1>6, <1>11 DEF Finished
  <2>9. Publishing'
    BY <1>4, <2>2, <2>3, <2>5, <2>6, <2>7, <2>8 DEF Publishing, Done
  <2>10. Uploading' /\ Finished'
    BY <2>5, <2>6 DEF Uploading, Finished
  <2> QED  BY <1>7, <1>8, <2>4, <2>9, <2>10 DEF Published
<1>12. CASE Collection!ClearPublication
  <2>1. collectionJob.at = "clear" /\ collectionJob' = [collectionJob EXCEPT !.at = "acknowledge"] /\ UNCHANGED snaps
    BY <1>12 DEF Collection!ClearPublication, Collection!Goes
  <2>2. collectionJob'.at = "acknowledge"
    BY <1>3, <2>1 DEF RefreshTrue
  <2>3. Complete(e, r)
    BY <1>1, <1>2, <1>3, <1>9, <2>1 DEF Publishing, Done, Complete, RefreshTrue
  <2>4. \A x, y : RowsOf(x, y) # {} => Complete(x, y)
    BY <1>1, <1>2, <1>9, <2>1, <2>3 DEF Publishing
  <2>5. Finished'
    BY <1>4, <1>6, <2>4 DEF Finished
  <2>6. Begun'
    BY <1>1, <1>5, <2>1 DEF Begun, PartsSame, PartsStay
  <2>7. Uploading' /\ Publishing'
    BY <2>2 DEF Uploading, Publishing
  <2> QED  BY <1>7, <1>8, <2>5, <2>6, <2>7 DEF Published
<1>13. Collection!Publish => \/ UNCHANGED <<collectionSaved, snaps>> /\ collectionJob' = Collection!Idle
                             \/ /\ collectionSaved = Collection!NoPublication /\ collectionSaved' = <<collectionJob.snapshot>>
                                /\ collectionJob' = [collectionJob EXCEPT !.at = "parts"] /\ snaps' = Append(snaps, {})
  BY DEF Collection!Publish, Collection!VaultTakes, Collection!Goes
<1> QED  BY <1>10, <1>11, <1>12, <1>13

\* A part is written: it is the one of its number in the publication in hand.
LEMMA QueuePartPublishes == ASSUME CollectionInv, Onward, Collection!QueuePart PROVE Published'
<1>1. Shared /\ Task /\ Published /\ Log /\ Outbox /\ Finished /\ Logged /\ Begun /\ OnePublication /\ Publishing
  BY DEF CollectionInv, Plain, Published, Shared
<1>2. collectionJob.kind = "refresh" /\ collectionJob.at = "parts" /\ UNCHANGED <<events, collectionRelay, snaps, collectionSaved>>
  BY DEF Collection!QueuePart
<1>3. RefreshTrue
  BY <1>1, <1>2, TaskTells
<1>4. PICK o : o = collectionJob.ops[collectionJob.part]
  OBVIOUS
<1>5. PICK b : b = Collection!PartBody
  OBVIOUS
<1>6. CASE collectionJob' = Collection!Idle /\ UNCHANGED rows
  <2>1. JobQuiet
    BY <1>6 DEF Collection!Idle, JobQuiet
  <2> QED  BY <1>1, <1>2, <1>6, <2>1, QuietPublishes
<1>7. CASE Collection!Row(o, b) /\ UNCHANGED collectionJob /\ o \notin DOMAIN rows
  <2>1. PICK e, r : e = collectionJob.epoch /\ r = collectionJob.revision
    OBVIOUS
  <2>2. /\ DOMAIN rows' = DOMAIN rows \cup {o} /\ rows'[o] = [status |-> "queued", body |-> b]
        /\ \A x \in DOMAIN rows : x # o /\ rows'[x] = rows[x]
    BY <1>7 DEF Collection!Row
  <2>3. b = JobPart(collectionJob.part) /\ b.kind = "part" /\ b.epoch = e /\ b.revision = r /\ b.part = collectionJob.part
        /\ b.snapshot = collectionJob.snapshot
    BY <1>5, <2>1 DEF Collection!PartBody, JobPart
  <2>4. PartRows' = PartRows \cup {o} /\ o \notin PartRows
    BY <1>7, <2>2, <2>3 DEF PartRows
  <2>5. PartsStay
    BY <2>2, <2>4 DEF PartsStay, PartRows
  <2>6. \A x, y : RowsOf(x, y)' = IF x = e /\ y = r THEN RowsOf(x, y) \cup {o} ELSE RowsOf(x, y)
    BY <2>2, <2>3, <2>4 DEF RowsOf, PartRows
  <2>7. \A x, y : RowsOf(x, y) # {} => (Complete(x, y) => Complete(x, y)') /\ \A k : SentPart(x, y, k) => SentPart(x, y, k)'
    BY <1>1, <2>5, RowsOfRevision, CompleteStays
  <2>8. Logged'
    <3>1. \A q \in PartRows' : rows'[q].status = "sent" \/ Collection!Committed(q)'
                               => q \in PartRows /\ rows'[q] = rows[q] /\ (rows[q].status = "sent" \/ Collection!Committed(q))
      <4>1. ~Collection!Committed(o)'
        BY <1>1, <1>2, <1>7 DEF Logged, Collection!Committed
      <4> QED  BY <1>2, <2>2, <2>4, <4>1 DEF PartRows, Collection!Committed
    <3>2. \A n \in DOMAIN events : events[n].body.kind = "part" => events[n].op \in PartRows' /\ rows'[events[n].op].body = events[n].body
      BY <1>1, <2>5 DEF Logged, PartsStay
    <3> QED  BY <1>1, <1>2, <2>2, <3>1, <3>2 DEF Logged
  <2>9. Begun'
    BY <1>1, <1>2, <2>2, <2>3, <2>4, <2>5 DEF Begun, PartsStay, Publishing
  <2>10. \A q \in RowsOf(e, r) : rows[q].body = JobPart(rows[q].body.part)
    BY <1>1, <1>2, <2>1 DEF Publishing
  <2>11. \A q \in RowsOf(e, r)' : /\ rows'[q].body = JobPart(rows'[q].body.part)
                                  /\ rows'[q].body.snapshot = collectionJob.snapshot
    <3>1. \A q \in RowsOf(e, r) : rows'[q].body = rows[q].body
      BY <2>5 DEF PartsStay, RowsOf
    <3>2. rows'[o].body = b
      BY <2>2
    <3>3. \A k : JobPart(k).snapshot = collectionJob.snapshot
      BY DEF JobPart
    <3> QED  BY <2>3, <2>6, <2>10, <3>1, <3>2, <3>3
  <2>12. OnePublication'
    <3>1. \A x, y : \A q \in RowsOf(x, y) : rows'[q].body = rows[q].body
      BY <2>5 DEF PartsStay, RowsOf
    <3>2. \A x, y : (x # e \/ y # r) => RowsOf(x, y)' = RowsOf(x, y) /\ \A q \in RowsOf(x, y) : rows'[q].body = rows[q].body
      BY <2>6, <3>1
    <3>3. \A x, y : (x # e \/ y # r) => \A p, q \in RowsOf(x, y)' :
              /\ rows'[p].body.snapshot = rows'[q].body.snapshot
              /\ rows'[p].body.part = rows'[q].body.part => rows'[p].body = rows'[q].body
      BY <1>1, <3>2 DEF OnePublication
    <3>4. \A p, q \in RowsOf(e, r)' :
              /\ rows'[p].body.snapshot = rows'[q].body.snapshot
              /\ rows'[p].body.part = rows'[q].body.part => rows'[p].body = rows'[q].body
      BY <2>11
    <3> QED  BY <3>3, <3>4 DEF OnePublication
  <2>13. Finished' /\ Uploading'
    BY <1>1, <1>2, <1>7 DEF Publishing, Finished, Uploading
  <2>14. Publishing'
    <3>1. \A k : JobPart(k)' = JobPart(k)
      BY <1>7 DEF JobPart
    <3>2. \A x, y : RowsOf(x, y)' # {} => Complete(x, y)' \/ (x = e /\ y = r)
      BY <1>1, <1>2, <2>1, <2>6, <2>7 DEF Publishing
    <3>3. ASSUME NEW k \in DOMAIN collectionJob.ops, Done(k) PROVE SentPart(e, r, k)'
      <4>1. SentPart(e, r, k)
        BY <1>1, <1>2, <2>1, <3>3 DEF Publishing
      <4>2. RowsOf(e, r) # {}
        BY <4>1 DEF SentPart
      <4> QED  BY <2>7, <4>1, <4>2
    <3>4. \A k : Done(k)' <=> Done(k)
      BY <1>7 DEF Done
    <3>5. \A q \in RowsOf(e, r)' : rows'[q].body = JobPart(rows'[q].body.part)
      BY <2>11
    <3>6. collectionSaved' # Collection!NoPublication /\ collectionJob'.snapshot \in DOMAIN snaps' /\ collectionJob'.todo = {}
      BY <1>1, <1>2, <1>7 DEF Publishing
    <3>7. collectionJob'.epoch = e /\ collectionJob'.revision = r /\ collectionJob' = collectionJob
      BY <1>7, <2>1
    <3> QED  BY <3>1, <3>2, <3>3, <3>4, <3>5, <3>6, <3>7 DEF Publishing
  <2> QED  BY <2>8, <2>9, <2>12, <2>13, <2>14 DEF Published
<1> QED  BY <1>4, <1>5, <1>6, <1>7 DEF Collection!QueuePart

\* A part is sent, and the next one is due, or none is.
LEMMA SendPartPublishes == ASSUME CollectionInv, Onward, Collection!SendPart PROVE Published'
<1>1. Shared /\ Task /\ Published /\ Log /\ Outbox /\ Finished /\ Logged /\ Begun /\ OnePublication /\ Publishing
  BY DEF CollectionInv, Plain, Published, Shared
<1>2. collectionJob.kind = "refresh" /\ collectionJob.at = "parts" /\ UNCHANGED collectionSaved
  BY DEF Collection!SendPart
<1>3. RefreshTrue
  BY <1>1, <1>2, TaskTells
<1>4. PICK o \in DOMAIN rows : o = collectionJob.ops[collectionJob.part]
  BY DEF Collection!SendPart
<1>5. \/ collectionJob' = Collection!Idle /\ UNCHANGED <<collectionCircle, events, collectionRelay, rows, snaps>>
      \/ (Collection!Lost(o) \/ Collection!Refused(o)) /\ collectionJob' = Collection!Idle
      \/ rows[o].body = Collection!PartBody /\ Collection!Upload(o) /\ Collection!NextPart
  BY <1>4 DEF Collection!SendPart
<1>6. CASE collectionJob' = Collection!Idle
  <2>1. JobQuiet
    BY <1>6 DEF Collection!Idle, JobQuiet
  <2> QED  BY <1>1, <1>2, <1>5, <2>1, QuietPublishes, AnswerPublishes, PublishedKeeps
<1>7. CASE rows[o].body = Collection!PartBody /\ Collection!Upload(o) /\ Collection!NextPart
  <2>1. PartsSame /\ Logged' /\ Begun' /\ DOMAIN snaps' = DOMAIN snaps /\ rows'[o].status = "sent"
    BY <1>1, <1>7, AnswerPublishes
  <2>2. PICK e, r : e = collectionJob.epoch /\ r = collectionJob.revision
    OBVIOUS
  <2>3. \A x, y : RowsOf(x, y)' = RowsOf(x, y) /\ \A q \in RowsOf(x, y) : rows'[q].body = rows[q].body
    BY <2>1 DEF PartsSame, PartsStay, RowsOf
  <2>4. \A x, y : RowsOf(x, y) # {} => (Complete(x, y) => Complete(x, y)') /\ \A k : SentPart(x, y, k) => SentPart(x, y, k)'
    BY <1>1, <2>1, RowsOfRevision, CompleteStays DEF PartsSame
  <2>5. OnePublication'
    BY <1>1, <2>3 DEF OnePublication
  <2>6. PICK p : p = collectionJob.part
    OBVIOUS
  <2>7. SentPart(e, r, p)'
    <3>1. rows[o].body.kind = "part" /\ rows[o].body.epoch = e /\ rows[o].body.revision = r /\ rows[o].body.part = p
      BY <1>7, <2>2, <2>6 DEF Collection!PartBody
    <3>2. o \in RowsOf(e, r)
      BY <3>1 DEF RowsOf, PartRows
    <3>3. o \in RowsOf(e, r)' /\ rows'[o].body.part = p
      BY <2>3, <3>1, <3>2
    <3> QED  BY <2>1, <3>3 DEF SentPart
  <2>8. PICK n : n = Shares(ItemsAt(r))
    OBVIOUS
  <2>9. /\ DOMAIN collectionJob.ops = 0..(n - 1) /\ Collection!Cardinality(DOMAIN collectionJob.ops) = n
        /\ n \in Nat \ {0} /\ p \in 0..(n - 1)
    BY <1>1, <1>3, <2>2, <2>6, <2>8, PartsCounted DEF RefreshTrue
  <2>10. \/ p + 1 = n /\ collectionJob' = [collectionJob EXCEPT !.at = "clear"]
         \/ p + 1 # n /\ collectionJob' = [collectionJob EXCEPT !.part = p + 1]
    BY <1>7, <2>6, <2>9 DEF Collection!NextPart, Collection!Goes
  <2>11. /\ collectionJob'.epoch = e /\ collectionJob'.revision = r /\ collectionJob'.ops = collectionJob.ops
         /\ collectionJob'.items = collectionJob.items /\ collectionJob'.sizes = collectionJob.sizes
         /\ collectionJob'.snapshot = collectionJob.snapshot /\ collectionJob'.todo = collectionJob.todo
         /\ collectionJob'.at \in {"parts", "clear"}
         /\ (collectionJob'.at = "clear" => p + 1 = n) /\ (collectionJob'.at # "clear" => collectionJob'.part = p + 1)
    BY <1>2, <1>3, <2>2, <2>10 DEF RefreshTrue
  <2>12. \A k : JobPart(k)' = JobPart(k)
    BY <2>2, <2>11 DEF JobPart
  <2>13. ASSUME NEW k \in 0..(n - 1), Done(k)' PROVE SentPart(e, r, k)'
    <3>1. CASE k = p
      BY <2>7, <3>1
    <3>2. CASE k # p
      <4>1. k < p
        BY <2>9, <2>11, <2>13, <3>2 DEF Done
      <4>2. SentPart(e, r, k)
        BY <1>1, <1>2, <2>2, <2>6, <2>9, <4>1 DEF Publishing, Done
      <4>3. RowsOf(e, r) # {}
        BY <4>2 DEF SentPart
      <4> QED  BY <2>4, <4>2, <4>3
    <3> QED  BY <3>1, <3>2
  <2>14. \A x, y : RowsOf(x, y)' # {} => Complete(x, y)' \/ (x = e /\ y = r)
    BY <1>1, <1>2, <2>2, <2>3, <2>4 DEF Publishing
  <2>15. \A q \in RowsOf(e, r)' : rows'[q].body = JobPart(rows'[q].body.part)
    BY <1>1, <1>2, <2>2, <2>3 DEF Publishing
  <2>16. collectionSaved' # Collection!NoPublication /\ collectionJob'.snapshot \in DOMAIN snaps' /\ collectionJob'.todo = {}
    BY <1>1, <1>2, <2>1, <2>11 DEF Publishing
  <2>17. Publishing'
    BY <2>9, <2>11, <2>12, <2>13, <2>14, <2>15, <2>16 DEF Publishing
  <2>18. Finished' /\ Uploading'
    BY <2>11, <2>16 DEF Finished, Uploading
  <2> QED  BY <2>1, <2>5, <2>17, <2>18 DEF Published
<1> QED  BY <1>5, <1>6, <1>7

-----------------------------------------------------------------------------
(* All of them.                                                             *)

\* Nothing is contributed yet.
LEMMA CollectionInitInv == Collection!CollectionInit => CollectionInv
<1> SUFFICES ASSUME Collection!CollectionInit PROVE CollectionInv
  OBVIOUS
<1>1. /\ collectionCircle = [epoch |-> 1, revision |-> 0, items |-> {}, joined |-> FALSE] /\ events = <<>> /\ rows = <<>>
      /\ snaps = <<>> /\ collectionRelay = <<>>
      /\ edit = Collection!NoEdit /\ collectionJob = Collection!Idle /\ pulled = [p \in Collection!Phones |-> 0] /\ collectionMishaps = 0
  BY DEF Collection!CollectionInit
<1>2. DOMAIN events = {} /\ DOMAIN rows = {} /\ Len(events) = 0
  BY <1>1
<1>3. Changed = {}
  BY <1>2 DEF Changed
<1>4. ItemsAt(0) = {} /\ Taken(0) = {}
  BY <1>3 DEF ItemsAt, Added, Taken
<1>5. Circle
  BY <1>1, CollectionBounds DEF Circle
<1>6. Log /\ Outbox /\ Edits /\ AddedOnce /\ Task
  BY <1>1, <1>2, <1>3 DEF Log, Outbox, Edits, AddedOnce, Task
<1>7. OneEach
  BY <1>1, <1>3, <1>4 DEF OneEach
<1>8. Counts
  BY <1>1, <1>2, CollectionBounds DEF Counts
<1>9. DOMAIN collectionRelay = {} /\ PartRows = {} /\ snaps \in Seq(SUBSET Nat)
  BY <1>1, <1>2 DEF PartRows
<1>10. \A e, r : RowsOf(e, r) = {}
  BY <1>9 DEF RowsOf
<1>11. collectionJob.kind # "refresh"
  BY <1>1 DEF Collection!Idle
<1>12. Published
  BY <1>2, <1>9, <1>10, <1>11 DEF Published, Logged, Begun, OnePublication, Finished, Uploading, Publishing
<1> QED  BY <1>5, <1>6, <1>7, <1>8, <1>12 DEF CollectionInv, Plain, Shared

\* Every step of the collection keeps the invariant.
LEMMA CollectionStepInv == CollectionInv /\ Collection!CollectionNext => CollectionInv'
<1> SUFFICES ASSUME CollectionInv, Collection!CollectionNext PROVE CollectionInv'
  OBVIOUS
<1>1. CASE Collection!Choose \/ Collection!AddStep \/ Collection!Resolve
  <2>1. Plain' /\ Onward
    BY <1>1, ChooseKeeps, CheckKeeps, UploadStickerKeeps, QueueChangeKeeps, DeliverChangeKeeps,
         PutDownKeeps, RecoverChangeKeeps, Zenon DEF Collection!AddStep, Collection!Resolve
  <2>2. Published'
    BY <1>1, <2>1, AddPublishes, ChangePublishes, Zenon DEF Collection!AddStep, Collection!Resolve
  <2> QED  BY <2>1, <2>2 DEF CollectionInv
<1>2. CASE Collection!StartRefresh \/ Collection!RefreshStep
  <2>1. Plain' /\ Onward
    BY <1>2, StartRefreshKeeps, RefreshItemKeeps, VaultKeeps, QueuePartKeeps, SendPartKeeps,
         Zenon DEF Collection!RefreshStep
  <2>2. Published'
    BY <1>2, <2>1, StartPublishes, ItemPublishes, VaultPublishes, QueuePartPublishes, SendPartPublishes,
         Zenon DEF Collection!RefreshStep
  <2> QED  BY <2>1, <2>2 DEF CollectionInv
<1>3. CASE \/ Collection!Crash \/ Collection!SyncOutbox \/ Collection!OtherAdds \/ Collection!ComeOrGo
           \/ (\E i \in Collection!Items : Collection!Remove(i)) \/ \E p \in Collection!Phones : Collection!Pull(p)
  <2>1. Plain' /\ Onward
    BY <1>3, RestKeeps, OtherAddsKeeps, ComeOrGoKeeps, RemoveKeeps, Zenon
  <2>2. Published'
    BY <1>3, <2>1, ChangePublishes, RestPublishes, Zenon
  <2> QED  BY <2>1, <2>2 DEF CollectionInv
<1> QED  BY <1>1, <1>2, <1>3, Zenon DEF Collection!CollectionNext

\* What the invariant says of the collection.
LEMMA CollectionSays == CollectionInv => Collection!CollectionTypeOK /\ Collection!CollectionTrue
<1> SUFFICES ASSUME CollectionInv PROVE Collection!CollectionTypeOK /\ Collection!CollectionTrue
  OBVIOUS
<1>1. Shared /\ Published /\ Circle /\ Outbox /\ Counts /\ Log
  BY DEF CollectionInv, Plain, Shared
<1>2. Collection!CollectionTypeOK
  BY <1>1 DEF Collection!CollectionTypeOK, Circle, Outbox, Counts
<1>3. Collection!CollectionTrue
  BY <1>1, ShowsTheTruth DEF Collection!CollectionTrue
<1> QED  BY <1>2, <1>3

-----------------------------------------------------------------------------
(* PART 5.  The choices of a phone.                                           *)

Choice == [kind : {"set", "restore"}, chats : SUBSET Chats, on : BOOLEAN, base : SUBSET Chats]
Message == [what : {"preferences", "register", "unregister"}, muted : SUBSET Chats]

-----------------------------------------------------------------------------
(* The inductive invariant: what waits or travels is of this phone's         *)
(* conversations, and no more is ever saved than is read, so that what was   *)
(* saved is read back as it was.                                            *)

PhoneType == /\ saved \subseteq Chats /\ Readable(saved) /\ overfull \in BOOLEAN
             /\ prefs \in [phase : {"idle", "loading", "ready", "held"}, values : SUBSET Chats, queue : Seq(Choice)]
NetType == wire \subseteq Message /\ device \in [registered : BOOLEAN, muted : SUBSET Chats]
ChoicesInv == PhoneType /\ NetType /\ Kept

\* The invariant gives what is claimed of the choices.
LEMMA ChoicesInvSays == ChoicesInv => PrefTypeOK
  BY DEF ChoicesInv, PhoneType, NetType, PrefTypeOK

\* No entries at all are not too many, and so what is read is always readable.
LEMMA NoneIsRead == Readable({})
  BY FS_EmptySet, PreferenceBounds DEF Readable
LEMMA ReadIsReadable == \A values : Readable(Parse(values)) /\ Parse(values) \subseteq values
  BY NoneIsRead DEF Parse

\* Nothing is chosen yet.
LEMMA ChoicesInitInv == PrefInit => ChoicesInv
<1> SUFFICES ASSUME PrefInit PROVE ChoicesInv
  OBVIOUS
<1>1. <<>> \in Seq(Choice)
  OBVIOUS
<1>2. Readable({})
  BY NoneIsRead
<1> QED  BY <1>1, <1>2 DEF PrefInit, ChoicesInv, PhoneType, NetType, Kept, Closed

\* What was saved is read back as it was.
LEMMA ReadBack == ChoicesInv => Parse(saved) = saved
  BY DEF ChoicesInv, PhoneType, Parse

\* A choice applied to a set of conversations gives one.
LEMMA Applied == ASSUME NEW values \in SUBSET Chats, NEW choice \in Choice
                 PROVE  Apply(values, choice) \in SUBSET Chats
  BY DEF Apply, Choice

-----------------------------------------------------------------------------
\* The controller, step by step: only a save changes what is saved.
LEMMA LoadInv == ASSUME ChoicesInv, Load \/ Loaded \/ LoadFails PROVE ChoicesInv'
<1>1. saved' = saved /\ chosen' = chosen /\ wire' = wire /\ device' = device
  BY DEF Load, Loaded, LoadFails
<1>2. NetType'
  BY <1>1 DEF ChoicesInv, NetType
<1>3. CASE Load
  BY <1>1, <1>2, <1>3 DEF Load, ChoicesInv, PhoneType, Kept
<1>4. CASE Loaded
  BY <1>1, <1>2, <1>4, ReadBack DEF Loaded, ChoicesInv, PhoneType, Kept
<1>5. CASE LoadFails
  BY <1>1, <1>2, <1>5 DEF LoadFails, ChoicesInv, PhoneType, Kept
<1> QED  BY <1>3, <1>4, <1>5

\* What is chosen or restored waits in the queue.
LEMMA QueuedInv == ASSUME ChoicesInv, NEW choice \in Choice, Queued(choice) PROVE ChoicesInv'
<1>1. prefs' = [prefs EXCEPT !.queue = Append(prefs.queue, choice)] /\ UNCHANGED <<saved, chosen, overfull, wire, device>>
  BY DEF Queued
<1>2. Append(prefs.queue, choice) \in Seq(Choice)
  BY DEF ChoicesInv, PhoneType
<1> QED  BY <1>1, <1>2 DEF ChoicesInv, PhoneType, NetType, Kept

LEMMA ChooseInv ==
    ASSUME ChoicesInv, \/ \E c \in Chats, on \in BOOLEAN : Choose(c, on)
                       \/ \E values \in SUBSET Chats : Restore(values)
    PROVE  ChoicesInv'
<1>1. prefs.values \in SUBSET Chats
  BY DEF ChoicesInv, PhoneType
<1>2. ASSUME NEW c \in Chats, NEW on \in BOOLEAN, Choose(c, on) PROVE ChoicesInv'
  <2>1. [kind |-> "set", chats |-> {c}, on |-> on, base |-> prefs.values] \in Choice
    BY <1>1 DEF Choice
  <2> QED  BY <1>2, <2>1, QueuedInv DEF Choose
<1>3. ASSUME NEW values \in SUBSET Chats, Restore(values) PROVE ChoicesInv'
  <2>1. [kind |-> "restore", chats |-> values, on |-> TRUE, base |-> prefs.values] \in Choice
    BY <1>1 DEF Choice
  <2> QED  BY <1>3, <2>1, QueuedInv DEF Restore
<1> QED  BY <1>2, <1>3

\* A choice is applied to what is shown, which is what is saved.
LEMMA SaveInv == ASSUME ChoicesInv, SaveNext PROVE ChoicesInv'
<1> DEFINE choice == Head(prefs.queue)
<1>1. prefs.queue \in Seq(Choice) /\ prefs.queue # <<>> /\ prefs.phase = "ready"
  BY DEF SaveNext, ChoicesInv, PhoneType
<1>2. choice \in Choice /\ Tail(prefs.queue) \in Seq(Choice)
  BY <1>1
<1>3. prefs.values = saved /\ (~overfull => saved = chosen) /\ saved \in SUBSET Chats
  BY <1>1 DEF ChoicesInv, PhoneType, Kept
<1>4. Set(choice) = Parse(Apply(saved, choice)) /\ Set(choice) \in SUBSET Chats /\ Readable(Set(choice))
  BY <1>2, <1>3, Applied, ReadIsReadable DEF Set
<1>5. /\ saved' = Set(choice) /\ chosen' = Apply(chosen, choice)
      /\ overfull' = (overfull \/ ~Readable(Apply(saved, choice)))
      /\ prefs' = [prefs EXCEPT !.values = Set(choice), !.queue = Tail(@)]
      /\ wire' \in {wire, wire \cup {Call("preferences", Set(choice))}} /\ device' = device
  BY <1>3 DEF SaveNext
<1> HIDE DEF choice
<1>6. PhoneType'
  <2>1. overfull' \in BOOLEAN
    BY <1>5
  <2> QED  BY <1>2, <1>4, <1>5, <2>1 DEF ChoicesInv, PhoneType
<1>7. NetType'
  BY <1>4, <1>5 DEF ChoicesInv, NetType, Message, Call
<1>8. Kept'
  <2>1. prefs'.values = saved'
    BY <1>5 DEF ChoicesInv, PhoneType
  <2>2. ASSUME ~overfull' PROVE saved' = chosen'
    BY <1>3, <1>4, <1>5, <2>2 DEF Parse
  <2> QED  BY <2>1, <2>2 DEF Kept
<1> QED  BY <1>6, <1>7, <1>8 DEF ChoicesInv

\* A save that fails drops its choice.
LEMMA SaveFailsInv == ASSUME ChoicesInv, SaveFails PROVE ChoicesInv'
<1>1. Tail(prefs.queue) \in Seq(Choice)
  BY DEF SaveFails, ChoicesInv, PhoneType
<1> QED  BY <1>1 DEF SaveFails, ChoicesInv, PhoneType, NetType, Kept

\* A restart drops the choices that wait.
LEMMA RestartInv == ASSUME ChoicesInv, Restart PROVE ChoicesInv'
<1>1. <<>> \in Seq(Choice)
  OBVIOUS
<1> QED  BY <1>1 DEF Restart, Closed, ChoicesInv, PhoneType, NetType, Kept

\* What is sent, and what becomes of it, changes nothing on the phone.
LEMMA NetInv ==
    ASSUME ChoicesInv, Foreground \/ Status \/ Toggle \/ Permit \/ Deliver \/ Lose
    PROVE  ChoicesInv'
<1>1. UNCHANGED <<saved, prefs, chosen, overfull>>
  BY DEF Foreground, Status, Toggle, Permit, Deliver, Lose
<1>2. prefs.values \in SUBSET Chats
  BY DEF ChoicesInv, PhoneType
<1>3. NetType'
  <2>1. CASE Foreground
    BY <2>1, <1>2 DEF Foreground, Sync, Call, Message, ChoicesInv, NetType
  <2>2. CASE Status
    BY <2>2 DEF Status, Call, Message, ChoicesInv, NetType
  <2>3. CASE Toggle
    BY <2>3, <1>2 DEF Toggle, Register, Unregister, Asks, Call, Message, ChoicesInv, NetType
  <2>4. CASE Permit
    BY <2>4 DEF Permit, ChoicesInv, NetType
  <2>5. CASE Deliver
    <3>1. PICK m \in wire : wire' = wire \ {m} /\ device' = Answer(m)
      BY <2>5 DEF Deliver
    <3>2. m \in Message /\ device \in [registered : BOOLEAN, muted : SUBSET Chats]
      BY DEF ChoicesInv, NetType
    <3>3. Answer(m) \in [registered : BOOLEAN, muted : SUBSET Chats]
      BY <3>2 DEF Answer, Message
    <3> QED  BY <3>1, <3>3 DEF ChoicesInv, NetType
  <2>6. CASE Lose
    BY <2>6 DEF Lose, ChoicesInv, NetType
  <2> QED  BY <2>1, <2>2, <2>3, <2>4, <2>5, <2>6
<1> QED  BY <1>1, <1>3 DEF ChoicesInv, PhoneType, Kept

\* Every step of the preferences keeps the invariant.
LEMMA ChoicesStepInv == ASSUME ChoicesInv, PrefNext \/ UNCHANGED prefVars PROVE ChoicesInv'
<1>1. CASE UNCHANGED prefVars
  BY <1>1 DEF prefVars, ChoicesInv, PhoneType, NetType, Kept, Readable
<1> QED
  BY <1>1, LoadInv, ChooseInv, SaveInv, SaveFailsInv, RestartInv, NetInv DEF PrefNext

\* The same of the preferences by themselves: whatever waits, fails or is lost, the app
\* shows what it saved last, and that is what was chosen last unless there was once more
\* to save than is read (conversation-preferences.ts).
THEOREM ChoicesAreKept == PrefSpec => []ChoicesKept
<1>1. ChoicesInv => ChoicesKept
  BY ChoicesInvSays DEF ChoicesInv, ChoicesKept
<1> QED  BY <1>1, ChoicesInitInv, ChoicesStepInv, PTL DEF PrefSpec

-----------------------------------------------------------------------------
(* PART 6.  The phone.                                                      *)

SharesInv == ProfileInv /\ SharingInv /\ Picked /\ CollectionInv /\ MomentInv /\ ChoicesInv

\* The phone begins with the invariant of each component.
LEMMA SharesInitInv == Init => SharesInv
<1> SUFFICES ASSUME Init PROVE SharesInv
  OBVIOUS
<1>1. Profile!ProfileInit /\ Sharing!SharingInit /\ Collection!CollectionInit /\ Moments!MomentInit /\ PrefInit
  BY DEF Init
<1> QED  BY <1>1, ProfileInitInv, SharingInitInv, CollectionInitInv, MomentInitInv,
     ChoicesInitInv DEF SharesInv

\* A step of the phone is a step, or none, of each component.
LEMMA SharesSteps ==
    ASSUME [Next]_phoneVars
    PROVE  /\ Profile!ProfileNext \/ UNCHANGED profileState
           /\ Sharing!SharingNext \/ UNCHANGED sharingState
           /\ Collection!CollectionNext \/ UNCHANGED collectionState
           /\ Moments!MomentNext \/ UNCHANGED momentsState
           /\ PrefNext \/ UNCHANGED prefVars
<1>1. CASE ProfileStep
  BY <1>1 DEF ProfileStep
<1>2. CASE SharingStep
  BY <1>2 DEF SharingStep
<1>3. CASE CollectionStep
  BY <1>3 DEF CollectionStep
<1>4. CASE MomentsStep
  BY <1>4 DEF MomentsStep
<1>5. CASE PreferencesStep
  BY <1>5 DEF PreferencesStep
<1>6. CASE UNCHANGED phoneVars
  BY <1>6 DEF phoneVars
<1> QED  BY <1>1, <1>2, <1>3, <1>4, <1>5, <1>6 DEF Next

\* A component that is not looked at stands still, and keeps its invariant.
LEMMA ProfileStands == ProfileInv /\ UNCHANGED profileState => ProfileInv'
<1> SUFFICES ASSUME ProfileInv, UNCHANGED profileState PROVE ProfileInv'
  OBVIOUS
<1>1. Counted' /\ NoneBefore' /\ Reach' = Reach
  BY DEF ProfileInv, Counted, NoneBefore, Reach, profileState
<1>2. Held(Reach)
  BY DEF ProfileInv
<1>3. PICK n : n = Reach
  OBVIOUS
<1>4. Held(n)'
  BY <1>2, <1>3 DEF Held, Stores, Wires, Screen, Running, profileState
<1> QED  BY <1>1, <1>3, <1>4 DEF ProfileInv

\* The same of the Circle.
LEMMA SharingStands == SharingInv /\ Picked /\ UNCHANGED sharingState => SharingInv' /\ Picked'
<1> SUFFICES ASSUME SharingInv, Picked, UNCHANGED sharingState PROVE SharingInv' /\ Picked'
  OBVIOUS
<1>1. Sharing!Ops' = Sharing!Ops /\ Sharing!Pending' = Sharing!Pending /\ Sharing!Sent' = Sharing!Sent
  BY DEF Sharing!Ops, Sharing!Pending, Sharing!Sent, sharingState
<1>2. CircleShape' /\ OutboxShape'
  BY <1>1 DEF SharingInv, CircleShape, OutboxShape, Sharing!PictureForAudience, sharingState
<1>3. OneWaits'
  BY <1>1 DEF SharingInv, OneWaits, sharingState
<1>4. CreationKept' /\ Picked'
  BY DEF SharingInv, CreationKept, Sharing!NoStrayCircle, Picked, sharingState
<1> QED  BY <1>2, <1>3, <1>4 DEF SharingInv, sharingState

\* And of its stickers.
LEMMA CollectionStands == CollectionInv /\ UNCHANGED collectionState => CollectionInv'
<1> SUFFICES ASSUME CollectionInv, UNCHANGED collectionState PROVE CollectionInv'
  OBVIOUS
<1>1. /\ Shared /\ Published /\ Counts /\ Task /\ Circle
      /\ UNCHANGED <<collectionCircle, events, rows, collectionRelay, edit, collectionJob, pulled, collectionMishaps>>
      /\ UNCHANGED <<snaps, collectionSaved>>
  BY DEF CollectionInv, Plain, Shared, collectionState
<1>2. Shared' /\ Onward
  BY <1>1, QuietKeeps DEF Circle
<1>3. Task'
  BY <1>1, <1>2, TaskStays
<1>4. Published'
  BY <1>1, <1>2, QuietPublishes DEF JobQuiet
<1> QED  BY <1>1, <1>2, <1>3, <1>4, CountsStay DEF CollectionInv, Plain

\* Every step of the phone keeps them all.
LEMMA SharesStepInv == SharesInv /\ [Next]_phoneVars => SharesInv'
<1> SUFFICES ASSUME SharesInv, [Next]_phoneVars PROVE SharesInv'
  OBVIOUS
<1>1. ProfileInv'
  BY SharesSteps, ProfileStepInv, ProfileStands DEF SharesInv
<1>2. SharingInv' /\ Picked'
  BY SharesSteps, SharingStepInv, SharingStands DEF SharesInv
<1>3. MomentInv'
  <2>1. UNCHANGED momentsState => UNCHANGED Moments!momentVars
    BY DEF momentsState, Moments!momentVars
  <2> QED  BY <2>1, SharesSteps, MomentStep DEF SharesInv
<1>5. CollectionInv'
  BY SharesSteps, CollectionStepInv, CollectionStands DEF SharesInv
<1>4. ChoicesInv'
  BY SharesSteps, ChoicesStepInv DEF SharesInv
<1> QED  BY <1>1, <1>2, <1>3, <1>4, <1>5 DEF SharesInv

\* All of it holds in every state of the phone.
THEOREM SharesAlways == PhoneSpec => []SharesInv
  BY SharesInitInv, SharesStepInv, PTL DEF PhoneSpec

\* However the creation of a Circle, its profile and its invitations are interrupted, a
\* Circle without a profile is one that the phone remembers to finish, and the picture of
\* a profile was encrypted for the audience that gets it, for any number of people, of
\* updates and of mishaps (circle-creation.ts, circle-avatar.ts, circle-details.ts).
THEOREM CirclesAlwaysShared == PhoneSpec => []CirclesShared
<1>1. SharesInv => CirclesShared
  BY ProfileSays, SharingSays DEF SharesInv, CirclesShared
<1> QED  BY <1>1, SharesAlways, PTL

\* Whatever is added, removed, published, interrupted, lost or sent again, a phone that
\* shows a collection shows the stickers that the service holds, none missing and none
\* removed, and no phone meets two publications that disagree: for any numbers of
\* stickers, revisions, audiences and parts (circle-collection.ts, collection-snapshot.ts,
\* circle-collection-loader.ts).
THEOREM CollectionAlwaysTrue == PhoneSpec => []CollectionTrue
<1>1. SharesInv => CollectionTrue
  BY CollectionSays DEF SharesInv, CollectionTrue
<1> QED  BY <1>1, SharesAlways, PTL

\* Phones that have sent and received all show the same Moments, for any members, editors
\* and messages, whatever is lost or sent twice (circle-moments.ts).
THEOREM TimelinesAlwaysAgree == PhoneSpec => []TimelinesAgree
<1>1. SharesInv => TimelinesAgree
  BY MomentSafe DEF SharesInv, TimelinesAgree
<1> QED  BY <1>1, SharesAlways, PTL

\* No choice undoes another that was saved before it until there are more entries than are
\* read, and the app shows what it saved, whatever waits, fails or is lost, for any limit,
\* any conversations and any number of choices (conversation-preferences.ts).
THEOREM ChoicesAlwaysKept == PhoneSpec => []ChoicesKept
<1>1. SharesInv => ChoicesKept
  BY ChoicesInvSays DEF SharesInv, ChoicesInv, ChoicesKept
<1> QED  BY <1>1, SharesAlways, PTL
=============================================================================
