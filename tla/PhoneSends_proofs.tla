-------------------------- MODULE PhoneSends_proofs --------------------------
(***************************************************************************)
(* Proofs about what a phone sends and puts away, component by component: an *)
(* inductive invariant of each, that its steps keep it, and at the end the    *)
(* theorems of the whole.                                                   *)
(***************************************************************************)
EXTENDS PhoneSends, FiniteSetTheorems, FunctionTheorems, SequenceTheorems, WellFoundedInduction, TLAPS

-----------------------------------------------------------------------------
(* PART 1.  Media drafts.  The steps that a call has left are linked: what    *)
(* comes right before what.                                                 *)

Steps == {"file", "pointer", "attempt", "put", "mark", "recheck", "queue", "deliver", "confirm",
          "acknowledge", "clear", "unlink", "cancel"}

Link(a, b) ==
    /\ a # "unlink" /\ b # "file"
    /\ b = "pointer" => a = "file"
    /\ b = "unlink" => a \in {"acknowledge", "clear"}
    /\ b = "deliver" => a = "queue"
    /\ b = "confirm" => a = "deliver"
    /\ b \in {"acknowledge", "clear"} => a = "confirm"

Linked(s) ==
    /\ s \in Seq(Steps)
    /\ \A i \in 1..Len(s) : i + 1 <= Len(s) => Link(s[i], s[i + 1])

\* What a call may begin with.
Opening == {"file", "attempt", "put", "queue", "recheck", "acknowledge", "clear", "cancel"}

Opens(s) == Len(s) > 0 /\ s[1] \in Opening

\* Steps that a call may come to next, after any of the openings' ends.
LEMMA JoinLinked ==
    ASSUME NEW s, NEW t, Linked(s), Linked(t),
           Len(s) = 0 \/ Len(t) = 0 \/ Link(s[Len(s)], t[1])
    PROVE  /\ Linked(s \o t)
           /\ Len(s \o t) = Len(s) + Len(t)
           /\ Len(s) > 0 => (s \o t)[1] = s[1]
           /\ Len(s) = 0 => s \o t = t
           /\ Len(t) > 0 => (s \o t)[Len(s) + Len(t)] = t[Len(t)]
<1>1. s \in Seq(Steps) /\ t \in Seq(Steps)
  BY DEF Linked
<1>2. /\ s \o t \in Seq(Steps) /\ Len(s \o t) = Len(s) + Len(t)
      /\ \A i \in 1..Len(s) + Len(t) : (s \o t)[i] = IF i <= Len(s) THEN s[i] ELSE t[i - Len(s)]
  BY <1>1, ConcatProperties
<1>3. Len(s) \in Nat /\ Len(t) \in Nat
  BY <1>1, LenProperties
<1>4. ASSUME NEW i \in 1..Len(s) + Len(t), i + 1 <= Len(s) + Len(t)
      PROVE  Link((s \o t)[i], (s \o t)[i + 1])
  <2>1. CASE i + 1 <= Len(s)
    BY <1>2, <1>3, <2>1 DEF Linked
  <2>2. CASE i = Len(s)
    BY <1>2, <1>3, <1>4, <2>2
  <2>3. CASE i > Len(s)
    <3>1. i - Len(s) \in 1..Len(t) /\ (i - Len(s)) + 1 <= Len(t) /\ (i + 1) - Len(s) = (i - Len(s)) + 1
      BY <1>3, <1>4, <2>3
    <3>2. Link(t[i - Len(s)], t[(i - Len(s)) + 1])
      BY <3>1 DEF Linked
    <3>3. (s \o t)[i] = t[i - Len(s)]
      BY <1>2, <1>3, <1>4, <2>3
    <3>4. i + 1 \in 1..Len(s) + Len(t) /\ ~(i + 1 <= Len(s))
      BY <1>3, <1>4, <2>3
    <3>5. (s \o t)[i + 1] = t[(i + 1) - Len(s)]
      BY <1>2, <3>4
    <3>6. t[(i + 1) - Len(s)] = t[(i - Len(s)) + 1]
      BY <3>1
    <3> HIDE DEF Link
    <3> QED  BY <3>2, <3>3, <3>5, <3>6
  <2>4. i + 1 <= Len(s) \/ i = Len(s) \/ i > Len(s)
    BY <1>3
  <2> QED  BY <2>1, <2>2, <2>3, <2>4
<1>5. Len(s) = 0 => s \o t = t
  BY <1>1, EmptySeq
<1> QED  BY <1>2, <1>3, <1>4, <1>5 DEF Linked

LEMMA TailLinked ==
    ASSUME NEW s, Linked(s), Len(s) > 0
    PROVE  /\ Linked(Tail(s)) /\ Head(s) = s[1] /\ s[1] \in Steps
           /\ Len(Tail(s)) > 0 => Link(s[1], Tail(s)[1]) /\ Head(Tail(s)) = Tail(s)[1]
           /\ s[1] = "unlink" => Tail(s) = <<>>
           /\ Tail(s) # <<>> => Len(Tail(s)) > 0
<1>1. s \in Seq(Steps) /\ s # <<>> /\ Len(s) \in Nat
  BY EmptySeq, LenProperties DEF Linked
<1>2. Tail(s) \in Seq(Steps) /\ Len(Tail(s)) = Len(s) - 1 /\ \A i \in 1..Len(Tail(s)) : Tail(s)[i] = s[i + 1]
  BY <1>1, HeadTailProperties
<1>3. \A i \in 1..Len(Tail(s)) : i + 1 <= Len(Tail(s)) => Link(Tail(s)[i], Tail(s)[i + 1])
  <2> SUFFICES ASSUME NEW i \in 1..Len(Tail(s)), i + 1 <= Len(Tail(s)) PROVE Link(Tail(s)[i], Tail(s)[i + 1])
    OBVIOUS
  <2>1. i + 1 \in 1..Len(s) /\ (i + 1) + 1 <= Len(s) /\ i + 1 \in 1..Len(Tail(s))
    BY <1>1, <1>2
  <2>2. Link(s[i + 1], s[(i + 1) + 1])
    BY <2>1 DEF Linked
  <2> QED  BY <1>2, <2>1, <2>2
<1>4. Linked(Tail(s))
  BY <1>2, <1>3 DEF Linked
<1>5. Head(s) = s[1] /\ s[1] \in Steps
  BY <1>1
<1>6. Len(Tail(s)) > 0 => Link(s[1], Tail(s)[1]) /\ Head(Tail(s)) = Tail(s)[1]
  <2>1. SUFFICES ASSUME Len(Tail(s)) > 0 PROVE Link(s[1], Tail(s)[1]) /\ Head(Tail(s)) = Tail(s)[1]
    OBVIOUS
  <2>2. 1 \in 1..Len(s) /\ 1 + 1 <= Len(s) /\ 1 \in 1..Len(Tail(s))
    BY <1>1, <1>2, <2>1
  <2>3. Link(s[1], s[1 + 1])
    BY <2>2 DEF Linked
  <2>4. Tail(s)[1] = s[1 + 1]
    BY <1>2, <2>2
  <2>5. Head(Tail(s)) = Tail(s)[1]
    BY <1>2, <2>1, EmptySeq
  <2> QED  BY <2>3, <2>4, <2>5
<1>7. Tail(s) # <<>> => Len(Tail(s)) > 0
  BY <1>2, EmptySeq, LenProperties
<1>8. s[1] = "unlink" => Tail(s) = <<>>
  BY <1>6, <1>7 DEF Link
<1> QED  BY <1>4, <1>5, <1>6, <1>7, <1>8

LEMMA SmallLists ==
    /\ Linked(<<>>) /\ Len(<<>>) = 0
    /\ Linked(<<"attempt">>) /\ Linked(<<"recheck">>) /\ Linked(<<"put", "mark">>)
    /\ Linked(<<"put", "recheck">>) /\ Linked(<<"queue", "deliver", "confirm">>)
    /\ Linked(<<"acknowledge", "unlink">>) /\ Linked(<<"clear", "unlink">>)
    /\ Linked(<<"file", "pointer">>) /\ Linked(<<"cancel">>)
<1>2. \A s \in Seq(Steps) : Len(s) = 2 /\ Link(s[1], s[2]) => Linked(s)
  BY DEF Linked
<1>3. \A s \in Seq(Steps) : Len(s) = 3 /\ Link(s[1], s[2]) /\ Link(s[2], s[3]) => Linked(s)
  BY DEF Linked
<1>4. Linked(<<>>) /\ Len(<<>>) = 0
  BY DEF Linked
<1>5. \A e \in Steps : Linked(<<e>>)
  <2> SUFFICES ASSUME NEW e \in Steps PROVE Linked(<<e>>)
    OBVIOUS
  <2>1. <<e>> \in Seq(Steps) /\ Len(<<e>>) = 1
    OBVIOUS
  <2>2. \A i \in 1..Len(<<e>>) : ~(i + 1 <= Len(<<e>>))
    BY <2>1
  <2> QED  BY <2>1, <2>2 DEF Linked
<1>6. Linked(<<"attempt">>) /\ Linked(<<"recheck">>) /\ Linked(<<"cancel">>)
  BY <1>5 DEF Steps
<1>7. Linked(<<"put", "mark">>)
  <2> DEFINE s == <<"put", "mark">>
  <2>1. s \in Seq(Steps) /\ Len(s) = 2 /\ s[1] = "put" /\ s[2] = "mark"
    BY DEF Steps
  <2> QED  BY <1>2, <2>1 DEF Link
<1>8. Linked(<<"put", "recheck">>)
  <2> DEFINE s == <<"put", "recheck">>
  <2>1. s \in Seq(Steps) /\ Len(s) = 2 /\ s[1] = "put" /\ s[2] = "recheck"
    BY DEF Steps
  <2> QED  BY <1>2, <2>1 DEF Link
<1>9. Linked(<<"acknowledge", "unlink">>)
  <2> DEFINE s == <<"acknowledge", "unlink">>
  <2>1. s \in Seq(Steps) /\ Len(s) = 2 /\ s[1] = "acknowledge" /\ s[2] = "unlink"
    BY DEF Steps
  <2> QED  BY <1>2, <2>1 DEF Link
<1>10. Linked(<<"clear", "unlink">>)
  <2> DEFINE s == <<"clear", "unlink">>
  <2>1. s \in Seq(Steps) /\ Len(s) = 2 /\ s[1] = "clear" /\ s[2] = "unlink"
    BY DEF Steps
  <2> QED  BY <1>2, <2>1 DEF Link
<1>11. Linked(<<"file", "pointer">>)
  <2> DEFINE s == <<"file", "pointer">>
  <2>1. s \in Seq(Steps) /\ Len(s) = 2 /\ s[1] = "file" /\ s[2] = "pointer"
    BY DEF Steps
  <2> QED  BY <1>2, <2>1 DEF Link
<1>12. Linked(<<"queue", "deliver", "confirm">>)
  <2> DEFINE s == <<"queue", "deliver", "confirm">>
  <2>1. s \in Seq(Steps) /\ Len(s) = 3 /\ s[1] = "queue" /\ s[2] = "deliver" /\ s[3] = "confirm"
    BY DEF Steps
  <2> QED  BY <1>3, <2>1 DEF Link
<1> QED  BY <1>4, <1>5, <1>6, <1>7, <1>8, <1>9, <1>10, <1>11, <1>12

\* A list of steps that opens a call, and may follow the pointer.
Starts(s) == Linked(s) /\ Opens(s)

LEMMA StartsJoin ==
    ASSUME NEW s, NEW t, Starts(s), Starts(t), t[1] # "file", s[Len(s)] # "unlink",
           t[1] \in {"acknowledge", "clear"} => s[Len(s)] = "confirm"
    PROVE  Starts(s \o t) /\ (s \o t)[1] = s[1]
           /\ (s \o t)[Len(s \o t)] = t[Len(t)]
<1>1. Len(s) \in Nat /\ Len(t) \in Nat /\ Len(s) > 0 /\ Len(t) > 0
  BY LenProperties DEF Starts, Linked, Opens
<1>2. Link(s[Len(s)], t[1])
  BY DEF Starts, Opens, Opening, Link
<1>3. Linked(s) /\ Linked(t)
  BY DEF Starts
<1> QED  BY <1>1, <1>2, <1>3, JoinLinked DEF Starts, Opens

\* What the lists of steps begin and end with.
Ends(s) == Starts(s) /\ s[1] # "file"
Begins(s) == Ends(s) /\ s[1] \notin {"acknowledge", "clear"}
GoesOn(s) == Begins(s) /\ s[Len(s)] # "unlink"
Sends(s) == GoesOn(s) /\ s[Len(s)] = "confirm"

LEMMA Parts ==
    /\ GoesOn(<<"attempt">>) /\ GoesOn(<<"recheck">>) /\ GoesOn(<<"put", "mark">>)
    /\ GoesOn(<<"put", "recheck">>) /\ Sends(<<"queue", "deliver", "confirm">>)
    /\ Ends(<<"acknowledge", "unlink">>) /\ Ends(<<"clear", "unlink">>) /\ Begins(<<"cancel">>)
    /\ Starts(<<"file", "pointer">>) /\ Len(<<"file", "pointer">>) = 2 /\ <<"file", "pointer">>[2] = "pointer"
  BY SmallLists DEF Sends, GoesOn, Begins, Ends, Starts, Opens, Opening

LEMMA GoesOnJoin ==
    ASSUME NEW s, NEW t, GoesOn(s), Begins(t)
    PROVE  /\ Begins(s \o t)
           /\ GoesOn(t) => GoesOn(s \o t)
           /\ Sends(t) => Sends(s \o t)
<1>1. Starts(s \o t) /\ (s \o t)[1] = s[1] /\ (s \o t)[Len(s \o t)] = t[Len(t)]
  BY StartsJoin DEF GoesOn, Begins, Ends
<1> QED  BY <1>1 DEF Sends, GoesOn, Begins, Ends

\* Only what has been sent is cleared away.
LEMMA SendsJoin ==
    ASSUME NEW s, NEW t, Sends(s), Ends(t)
    PROVE  Begins(s \o t)
<1>1. Starts(s \o t) /\ (s \o t)[1] = s[1]
  BY StartsJoin DEF Sends, GoesOn, Begins, Ends
<1> QED  BY <1>1 DEF Sends, GoesOn, Begins, Ends

LEMMA Appended ==
    ASSUME NEW s, NEW t, s = <<>> \/ GoesOn(s), Begins(t)
    PROVE  /\ Begins(s \o t)
           /\ GoesOn(t) => GoesOn(s \o t)
           /\ Sends(t) => Sends(s \o t)
<1>1. CASE s = <<>>
  <2>1. t \in Seq(Steps)
    BY DEF Begins, Ends, Starts, Linked
  <2>2. s \o t = t
    BY <1>1, <2>1
  <2> QED  BY <2>2
<1>2. CASE GoesOn(s)
  BY <1>2, GoesOnJoin
<1> QED  BY <1>1, <1>2

LEMMA MediaLists ==
    ASSUME NEW task
    PROVE  /\ Starts(Media!PostSteps(task)) /\ Media!PostSteps(task)[1] = "file"
           /\ Begins(Media!RetrySteps(task))
           /\ \A c \in BOOLEAN : Ends(Media!AfterCancel(task, c))
           /\ Ends(Media!CancelUpload(task))
           /\ task.attempted => Begins(Media!CancelUpload(task))
<1>1. Media!UploadSteps(task) = <<>> \/ GoesOn(Media!UploadSteps(task))
  <2>1. GoesOn(<<"attempt">> \o <<"put", "mark">>)
    BY Parts, GoesOnJoin DEF GoesOn
  <2>2. GoesOn(<<>> \o <<"put", "mark">>)
    BY Parts, Appended DEF GoesOn
  <2> QED  BY <2>1, <2>2 DEF Media!UploadSteps
<1>2. Sends(Media!SendSteps) /\ Begins(Media!SendSteps)
  BY Parts DEF Media!SendSteps, Sends, GoesOn
<1>3. Sends(Media!UploadSteps(task) \o Media!SendSteps)
  BY <1>1, <1>2, Appended
<1>4. Begins((Media!UploadSteps(task) \o Media!SendSteps) \o <<"acknowledge", "unlink">>)
  BY <1>3, Parts, SendsJoin
<1>5. Begins(Media!PhotoSendJob(task)) /\ Begins(Media!StickerSendJob(task)) /\ Begins(Media!MomentSendJob(task))
  BY <1>4 DEF Media!PhotoSendJob, Media!StickerSendJob, Media!MomentSendJob
<1>6. Media!PrivateAttempt(task) = <<>> \/ GoesOn(Media!PrivateAttempt(task))
  BY Parts DEF Media!PrivateAttempt
<1>7. Ends(Media!ClearSteps)
  BY Parts DEF Media!ClearSteps
<1>8. Begins(<<"put", "recheck">>) /\ GoesOn(<<"put", "recheck">>) /\ GoesOn(<<"recheck">>)
  BY Parts DEF GoesOn
<1>9. GoesOn(Media!PrivateAttempt(task) \o <<"put", "recheck">>)
  BY <1>6, <1>8, Appended
<1>10. Sends((Media!PrivateAttempt(task) \o <<"put", "recheck">>) \o Media!SendSteps)
  BY <1>2, <1>9, GoesOnJoin
<1>11. Begins(((Media!PrivateAttempt(task) \o <<"put", "recheck">>) \o Media!SendSteps) \o Media!ClearSteps)
  BY <1>7, <1>10, SendsJoin
<1>12. Begins(Media!PrivateMomentSend(task))
  BY <1>11 DEF Media!PrivateMomentSend
<1>13. GoesOn(<<"recheck">> \o Media!PrivateAttempt(task))
  <2>1. CASE Media!PrivateAttempt(task) = <<>>
    <3>1. <<"recheck">> \o <<>> = <<"recheck">>
      OBVIOUS
    <3> QED  BY <1>8, <2>1, <3>1
  <2>2. CASE GoesOn(Media!PrivateAttempt(task))
    BY <1>8, <2>2, GoesOnJoin DEF GoesOn
  <2> QED  BY <1>6, <2>1, <2>2
<1>14. GoesOn((<<"recheck">> \o Media!PrivateAttempt(task)) \o <<"put", "recheck">>)
  BY <1>8, <1>13, GoesOnJoin
<1>15. Sends(((<<"recheck">> \o Media!PrivateAttempt(task)) \o <<"put", "recheck">>) \o Media!SendSteps)
  BY <1>2, <1>14, GoesOnJoin
<1>16. Begins((((<<"recheck">> \o Media!PrivateAttempt(task)) \o <<"put", "recheck">>) \o Media!SendSteps) \o Media!ClearSteps)
  BY <1>7, <1>15, SendsJoin
<1>17. Begins(Media!PrivateSend(task))
  BY <1>16 DEF Media!PrivateSend
<1>18. \A t : Begins(t) => Starts(Media!PrepareSteps \o t) /\ (Media!PrepareSteps \o t)[1] = "file"
  <2> SUFFICES ASSUME NEW t, Begins(t)
               PROVE  Starts(Media!PrepareSteps \o t) /\ (Media!PrepareSteps \o t)[1] = "file"
    OBVIOUS
  <2>1. /\ Starts(<<"file", "pointer">>) /\ <<"file", "pointer">>[Len(<<"file", "pointer">>)] # "unlink"
        /\ <<"file", "pointer">>[1] = "file"
    BY Parts
  <2> QED  BY <2>1, StartsJoin DEF Begins, Ends, Media!PrepareSteps
<1>19. Starts(Media!PostSteps(task)) /\ Media!PostSteps(task)[1] = "file"
  BY <1>5, <1>12, <1>17, <1>18 DEF Media!PostSteps
<1>20. Begins(<<"recheck">> \o Media!PrivateMomentSend(task))
  BY <1>8, <1>12, GoesOnJoin
<1>21. Begins(Media!RetrySteps(task))
  BY <1>5, <1>17, <1>20 DEF Media!RetrySteps
<1>22. Ends(<<"acknowledge", "unlink">>) /\ Begins(<<"cancel">>)
  BY Parts
<1>23. \A c \in BOOLEAN : Ends(Media!AfterCancel(task, c))
  BY <1>5, <1>7, <1>22 DEF Media!AfterCancel, Begins
<1>24. Ends(Media!CancelUpload(task)) /\ (task.attempted => Begins(Media!CancelUpload(task)))
  BY <1>7, <1>22 DEF Media!CancelUpload, Begins
<1> QED  BY <1>19, <1>21, <1>23, <1>24

\* What holds while a call is at work: its file is there, the pointer is gone before the
\* file, and what was sealed for its operation before is what it would seal.
CallReady ==
    mediaCall # Media!Idle =>
        LET task == mediaCall.job
            at == mediaCall.todo[1]
        IN /\ at = "file" \/ task.op \in mediaFiles
           /\ at = "unlink" => draft = Media!NoDraft
           /\ at \in {"deliver", "confirm"} => outbox[task.op] # "none"
           /\ outbox[task.op] # "none" => said[task.op] = Media!Body(task)
           /\ draft # Media!NoDraft => draft.op = task.op /\ Media!Body(draft) = Media!Body(task)

CallLinked == mediaCall # Media!Idle => Linked(mediaCall.todo) /\ Len(mediaCall.todo) > 0

DraftSealed ==
    draft # Media!NoDraft /\ outbox[draft.op] # "none" => said[draft.op] = Media!Body(draft)

Messages == [as : Media!EditorKinds, audience : 1..MaxAudience] \cup {Media!Unsaid}

MediaInv ==
    /\ Media!MediaTypeOK /\ said \in [Media!Drafts -> Messages]
    /\ Media!PointerIntact /\ DraftSealed /\ CallLinked /\ CallReady

LEMMA MediaInvSays == MediaInv => Media!MediaTypeOK /\ Media!PointerIntact /\ Media!SameMessage
<1> SUFFICES ASSUME MediaInv PROVE Media!SameMessage
  BY DEF MediaInv
<1> QED  BY DEF MediaInv, Media!SameMessage, CallReady, Media!At, Media!Job

LEMMA MediaInitInv == Media!MediaInit => MediaInv
<1> SUFFICES ASSUME Media!MediaInit PROVE MediaInv
  OBVIOUS
<1>1. Media!MediaTypeOK
  BY SendBounds DEF Media!MediaInit, Media!MediaTypeOK
<1>2. said \in [Media!Drafts -> Messages]
  BY DEF Media!MediaInit, Messages
<1>3. Media!PointerIntact /\ DraftSealed /\ CallLinked /\ CallReady
  BY DEF Media!MediaInit, Media!PointerIntact, DraftSealed, CallLinked, CallReady
<1> QED  BY <1>1, <1>2, <1>3 DEF MediaInv

\* What a step finds.
LEMMA MediaFacts ==
    ASSUME MediaInv
    PROVE  /\ draft # Media!NoDraft => draft \in Media!Jobs /\ draft.op \in Media!Drafts
           /\ mediaCall # Media!Idle =>
                /\ mediaCall.job \in Media!Jobs /\ mediaCall.job.op \in Media!Drafts
                /\ Linked(mediaCall.todo) /\ Len(mediaCall.todo) > 0
                /\ Head(mediaCall.todo) = mediaCall.todo[1]
           /\ \A j \in Media!Jobs : j.op \in Media!Drafts /\ j # Media!NoDraft
<1>1. \A j \in Media!Jobs : j.op \in Media!Drafts /\ j # Media!NoDraft
  BY SendBounds DEF Media!Jobs, Media!NoDraft, Media!Drafts
<1>2. mediaCall # Media!Idle => Linked(mediaCall.todo) /\ Len(mediaCall.todo) > 0 /\ mediaCall.job \in Media!Jobs
  BY DEF MediaInv, CallLinked, Media!MediaTypeOK
<1>3. mediaCall # Media!Idle => Head(mediaCall.todo) = mediaCall.todo[1]
  BY <1>2, TailLinked
<1>4. draft # Media!NoDraft => draft \in Media!Jobs
  BY DEF MediaInv, Media!MediaTypeOK
<1> QED  BY <1>1, <1>2, <1>3, <1>4

\* A call that goes on: the rest of its steps, linked to the one that was taken.
LEMMA GoesOnTo ==
    ASSUME MediaInv, mediaCall # Media!Idle, NEW task, Media!Go(task)
    PROVE  \/ mediaCall' = Media!Idle
           \/ /\ mediaCall' # Media!Idle /\ mediaCall'.job = task
              /\ Linked(mediaCall'.todo) /\ Len(mediaCall'.todo) > 0 /\ mediaCall'.todo # <<>>
              /\ Link(mediaCall.todo[1], mediaCall'.todo[1])
<1>1. Linked(mediaCall.todo) /\ Len(mediaCall.todo) > 0
  BY MediaFacts
<1> DEFINE rest == Tail(mediaCall.todo)
<1>2. Linked(rest) /\ (rest # <<>> => Len(rest) > 0 /\ Link(mediaCall.todo[1], rest[1]))
  BY <1>1, TailLinked
<1>3. rest # <<>> => mediaCall' = [job |-> task, todo |-> rest]
  BY DEF Media!Go
<1>4. rest = <<>> => mediaCall' = Media!Idle
  BY DEF Media!Go
<1>5. rest # <<>> => [job |-> task, todo |-> rest] # Media!Idle
  BY DEF Media!Idle
<1> HIDE DEF rest
<1> QED  BY <1>2, <1>3, <1>4, <1>5

\* The parts of the invariant that the types of the variables make up.
LEMMA CallKept ==
    ASSUME MediaInv, mediaCall # Media!Idle, NEW task, task \in Media!Jobs,
           Media!Go(task) \/ Media!Refuse
    PROVE  /\ CallLinked'
           /\ mediaCall' = Media!Idle \/ (mediaCall'.job \in Media!Jobs /\ mediaCall'.todo # <<>>)
           /\ mediaCall' # Media!Idle => /\ mediaCall'.job = task
                                         /\ Link(mediaCall.todo[1], mediaCall'.todo[1])
<1>1. CASE Media!Go(task)
  BY <1>1, GoesOnTo DEF CallLinked
<1>2. CASE Media!Refuse
  BY <1>2 DEF Media!Refuse, CallLinked
<1> QED  BY <1>1, <1>2

LEMMA PostInv == ASSUME MediaInv, Media!Post PROVE MediaInv'
<1>1. PICK op \in Media!Drafts :
        /\ object[op] = "none" /\ op \notin mediaFiles /\ outbox[op] = "none"
        /\ Media!Start(Media!NewJob(op), Media!PostSteps(Media!NewJob(op)))
  BY DEF Media!Post, Media!PostCircle, Media!PostMoment, Media!PostPrivate
<1>2. /\ UNCHANGED <<kind, draft, mediaFiles, audience, object, outbox, said, lost>>
      /\ draft = Media!NoDraft
  BY DEF Media!Post
<1> DEFINE j == Media!NewJob(op)
           todo == Media!PostSteps(j)
<1>3. j \in Media!Jobs /\ j.op = op
  BY SendBounds DEF MediaInv, Media!MediaTypeOK, Media!NewJob, Media!Jobs
<1>4. Starts(todo)
  BY MediaLists
<1>5. Len(todo) > 0 /\ todo # <<>> /\ todo[1] \in Opening /\ Linked(todo)
  BY <1>4 DEF Starts, Opens
<1>6. mediaCall' = [job |-> j, todo |-> todo]
  BY <1>1 DEF Media!Start
<1>7. todo[1] = "file"
  BY MediaLists
<1> HIDE DEF j, todo
<1>8. mediaCall' # Media!Idle => mediaCall'.job = j /\ mediaCall'.todo = todo
  BY <1>6
<1>9. Media!MediaTypeOK' /\ (said \in [Media!Drafts -> Messages])'
  BY <1>2, <1>3, <1>5, <1>6 DEF MediaInv, Media!MediaTypeOK
<1>10. CallLinked'
  BY <1>5, <1>8 DEF CallLinked
<1>11. CallReady'
  BY <1>1, <1>2, <1>3, <1>7, <1>8 DEF CallReady
<1>12. Media!PointerIntact' /\ DraftSealed'
  BY <1>2 DEF Media!PointerIntact, DraftSealed
<1> QED  BY <1>9, <1>10, <1>11, <1>12 DEF MediaInv

\* A draft that can be taken up again reads back as it was saved.
LEMMA ReadsBack == ASSUME MediaInv, Media!Readable
                   PROVE  Media!Load(draft) = draft /\ draft \in Media!Jobs /\ draft.op \in mediaFiles
<1>1. kind \notin Media!Private
  BY DEF Media!Readable, Media!LoadedBinding, Media!EditorBinding
<1>2. Media!Load(draft) = draft
  BY <1>1 DEF Media!Load, Media!CircleLoad
<1> QED  BY <1>2, MediaFacts DEF Media!Readable, Media!Decodes

LEMMA TakeUpInv == ASSUME MediaInv, Media!Retry \/ Media!Discard PROVE MediaInv'
<1>1. /\ UNCHANGED <<kind, draft, mediaFiles, audience, object, outbox, said, lost>>
      /\ Media!Readable /\ draft # Media!NoDraft
  BY DEF Media!Retry, Media!Discard, Media!Readable
<1>2. Media!Load(draft) = draft /\ draft \in Media!Jobs /\ draft.op \in mediaFiles
  BY <1>1, ReadsBack
<1>3. PICK todo : mediaCall' = [job |-> draft, todo |-> todo] /\ Ends(todo)
  BY <1>2, MediaLists DEF Media!Retry, Media!Discard, Media!Start, Begins
<1>4. todo # <<>> /\ Len(todo) > 0 /\ Linked(todo) /\ todo[1] \in Opening
  BY <1>3 DEF Ends, Starts, Opens
<1>5. mediaCall'.job = draft /\ mediaCall'.todo = todo
  BY <1>3
<1>6. Media!MediaTypeOK' /\ (said \in [Media!Drafts -> Messages])'
  BY <1>1, <1>2, <1>4, <1>5 DEF MediaInv, Media!MediaTypeOK
<1>7. CallLinked'
  BY <1>4, <1>5 DEF CallLinked
<1>8. CallReady'
  BY <1>1, <1>2, <1>4, <1>5 DEF MediaInv, DraftSealed, CallReady, Opening
<1>9. Media!PointerIntact' /\ DraftSealed'
  BY <1>1 DEF MediaInv, Media!PointerIntact, DraftSealed
<1> QED  BY <1>6, <1>7, <1>8, <1>9 DEF MediaInv

LEMMA WriteFileInv == ASSUME MediaInv, Media!WriteFile PROVE MediaInv'
<1>1. /\ UNCHANGED <<kind, draft, audience, object, outbox, said, lost>>
      /\ mediaFiles' = mediaFiles \cup {mediaCall.job.op}
      /\ mediaCall # Media!Idle /\ Media!Go(mediaCall.job)
      /\ mediaCall.todo[1] = "file"
  BY MediaFacts DEF Media!WriteFile, Media!At, Media!Job
<1>2. mediaCall.job \in Media!Jobs /\ mediaCall.job.op \in Media!Drafts
  BY <1>1, MediaFacts
<1>3. CallLinked' /\ (mediaCall' = Media!Idle \/ (mediaCall'.job \in Media!Jobs /\ mediaCall'.todo # <<>>))
  BY <1>1, <1>2, CallKept
<1>4. mediaCall' # Media!Idle => mediaCall'.job = mediaCall.job /\ Link("file", mediaCall'.todo[1])
  BY <1>1, <1>2, CallKept
<1>5. Media!MediaTypeOK' /\ (said \in [Media!Drafts -> Messages])'
  BY <1>1, <1>2, <1>3 DEF MediaInv, Media!MediaTypeOK
<1>6. CallReady'
  BY <1>1, <1>4 DEF MediaInv, CallReady, Link
<1>7. Media!PointerIntact' /\ DraftSealed'
  BY <1>1 DEF MediaInv, Media!PointerIntact, DraftSealed
<1> QED  BY <1>3, <1>5, <1>6, <1>7 DEF MediaInv

\* The three writes of the pointer.
LEMMA SavesInv ==
    ASSUME MediaInv, mediaCall # Media!Idle, NEW new, new \in Media!Jobs,
           new.op = mediaCall.job.op, Media!Body(new) = Media!Body(mediaCall.job),
           mediaCall.todo[1] \in {"pointer", "attempt", "mark"}, Media!Save(new),
           UNCHANGED <<kind, mediaFiles, audience, object, outbox, said, lost>>
    PROVE  MediaInv'
<1>1. (draft' = new /\ Media!Go(new)) \/ (draft' = draft /\ Media!Refuse)
  BY DEF Media!Save
<1>2. CallLinked' /\ (mediaCall' = Media!Idle \/ (mediaCall'.job \in Media!Jobs /\ mediaCall'.todo # <<>>))
  BY <1>1, CallKept
<1>3. mediaCall' # Media!Idle =>
        mediaCall'.job = new /\ Link(mediaCall.todo[1], mediaCall'.todo[1])
  BY <1>1, CallKept
<1>4. mediaCall' # Media!Idle => draft' = new
  BY <1>1 DEF Media!Refuse
<1>5. mediaCall.job.op \in mediaFiles
  BY DEF MediaInv, CallReady
<1>6. outbox[new.op] # "none" => said[new.op] = Media!Body(new)
  BY DEF MediaInv, CallReady
<1>7. Media!MediaTypeOK' /\ (said \in [Media!Drafts -> Messages])'
  BY <1>1, <1>2 DEF MediaInv, Media!MediaTypeOK
<1>8. CallReady'
  BY <1>3, <1>4, <1>5, <1>6 DEF CallReady, Link
<1>9. Media!PointerIntact'
  BY <1>1, <1>5 DEF MediaInv, Media!PointerIntact
<1>10. DraftSealed'
  BY <1>1, <1>6 DEF MediaInv, DraftSealed
<1> QED  BY <1>2, <1>7, <1>8, <1>9, <1>10 DEF MediaInv

LEMMA WriteInv == ASSUME MediaInv, Media!WritePointer \/ Media!SaveAttempt \/ Media!MarkUploaded
                  PROVE  MediaInv'
<1>1. /\ UNCHANGED <<kind, mediaFiles, audience, object, outbox, said, lost>>
      /\ mediaCall # Media!Idle /\ mediaCall.todo[1] \in {"pointer", "attempt", "mark"}
  BY MediaFacts DEF Media!WritePointer, Media!SaveAttempt, Media!MarkUploaded, Media!At
<1>2. PICK j \in Media!Jobs : j = mediaCall.job
  BY <1>1, MediaFacts
<1>3. \A new \in {j, [j EXCEPT !.attempted = TRUE], [j EXCEPT !.phase = "uploaded"]} :
        new \in Media!Jobs /\ new.op = j.op /\ Media!Body(new) = Media!Body(j)
  BY DEF Media!Jobs, Media!Body
<1>4. \E new \in {j, [j EXCEPT !.attempted = TRUE], [j EXCEPT !.phase = "uploaded"]} : Media!Save(new)
  BY <1>2 DEF Media!WritePointer, Media!SaveAttempt, Media!MarkUploaded, Media!Job
<1> QED  BY <1>1, <1>2, <1>3, <1>4, SavesInv

\* Steps that ask the server, and leave the draft, the file and the message alone.
LEMMA AskingInv ==
    ASSUME MediaInv, Media!Put \/ Media!Recheck \/ Media!Deliver
    PROVE  MediaInv'
<1>1. /\ UNCHANGED <<kind, draft, mediaFiles, audience, outbox, said, lost>>
      /\ mediaCall # Media!Idle /\ mediaCall.todo[1] \in {"put", "recheck", "deliver"}
      /\ Media!Go(mediaCall.job) \/ Media!Refuse
  BY MediaFacts DEF Media!Put, Media!Recheck, Media!Deliver, Media!At, Media!Job
<1>2. object' \in [Media!Drafts -> {"none", "stored", "cancelled", "committed"}]
  BY DEF MediaInv, Media!MediaTypeOK, Media!Put, Media!Recheck, Media!Deliver
<1>3. mediaCall.job \in Media!Jobs
  BY <1>1, MediaFacts
<1>4. /\ CallLinked' /\ (mediaCall' = Media!Idle \/ (mediaCall'.job \in Media!Jobs /\ mediaCall'.todo # <<>>))
      /\ mediaCall' # Media!Idle => mediaCall'.job = mediaCall.job /\ Link(mediaCall.todo[1], mediaCall'.todo[1])
  BY <1>1, <1>3, CallKept
<1>5. Media!MediaTypeOK' /\ (said \in [Media!Drafts -> Messages])'
  BY <1>1, <1>2, <1>4 DEF MediaInv, Media!MediaTypeOK
<1>6. CallReady'
  BY <1>1, <1>4 DEF MediaInv, CallReady, Link
<1>7. Media!PointerIntact' /\ DraftSealed'
  BY <1>1 DEF MediaInv, Media!PointerIntact, DraftSealed
<1> QED  BY <1>4, <1>5, <1>6, <1>7 DEF MediaInv

LEMMA QueueInv == ASSUME MediaInv, Media!Queue PROVE MediaInv'
<1>1. /\ UNCHANGED <<kind, draft, mediaFiles, audience, object, lost>>
      /\ mediaCall # Media!Idle /\ mediaCall.todo[1] = "queue"
  BY MediaFacts DEF Media!Queue, Media!At
<1>2. PICK j \in Media!Jobs : j = mediaCall.job /\ j.op \in Media!Drafts
  BY <1>1, MediaFacts
<1>3. \/ /\ outbox[j.op] # "none" /\ UNCHANGED <<outbox, said>> /\ Media!Go(j)
      \/ /\ outbox[j.op] = "none" /\ Media!Go(j)
         /\ outbox' = [outbox EXCEPT ![j.op] = "queued"]
         /\ said' = [said EXCEPT ![j.op] = Media!Body(j)]
      \/ Media!Refuse /\ UNCHANGED <<outbox, said>>
  BY <1>2 DEF Media!Queue, Media!Job
<1>4. /\ CallLinked' /\ (mediaCall' = Media!Idle \/ (mediaCall'.job \in Media!Jobs /\ mediaCall'.todo # <<>>))
      /\ mediaCall' # Media!Idle => mediaCall'.job = j /\ Link("queue", mediaCall'.todo[1])
  BY <1>1, <1>2, <1>3, CallKept
<1>5. Media!Body(j) \in Messages
  BY DEF Media!Body, Media!Jobs, Messages
<1>6. /\ outbox' \in [Media!Drafts -> {"none", "queued", "sent"}]
      /\ said' \in [Media!Drafts -> Messages]
  BY <1>2, <1>3, <1>5 DEF MediaInv, Media!MediaTypeOK
<1>7. Media!MediaTypeOK'
  BY <1>1, <1>4, <1>6 DEF MediaInv, Media!MediaTypeOK
<1>8. /\ DOMAIN outbox = Media!Drafts /\ DOMAIN said = Media!Drafts
      /\ outbox[j.op] # "none" => said[j.op] = Media!Body(j)
      /\ draft # Media!NoDraft => draft.op = j.op /\ Media!Body(draft) = Media!Body(j)
      /\ j.op \in mediaFiles
  BY <1>1, <1>2 DEF MediaInv, Media!MediaTypeOK, CallReady
<1>9. outbox'[j.op] # "none" => said'[j.op] = Media!Body(j)
  BY <1>2, <1>3, <1>8
<1>10. mediaCall' # Media!Idle => outbox'[j.op] # "none"
  BY <1>2, <1>3, <1>8 DEF Media!Refuse
<1>11. CallReady'
  BY <1>1, <1>4, <1>8, <1>9, <1>10 DEF CallReady, Link
<1>12. DraftSealed'
  BY <1>1, <1>8, <1>9 DEF DraftSealed
<1>13. Media!PointerIntact'
  BY <1>1 DEF MediaInv, Media!PointerIntact
<1> QED  BY <1>4, <1>6, <1>7, <1>11, <1>12, <1>13 DEF MediaInv

LEMMA ConfirmInv == ASSUME MediaInv, Media!Confirm PROVE MediaInv'
<1>1. /\ UNCHANGED <<kind, draft, mediaFiles, audience, object, said, lost>>
      /\ mediaCall # Media!Idle /\ mediaCall.todo[1] = "confirm"
  BY MediaFacts DEF Media!Confirm, Media!At
<1>2. PICK j \in Media!Jobs : j = mediaCall.job /\ j.op \in Media!Drafts
  BY <1>1, MediaFacts
<1>3. outbox' = [outbox EXCEPT ![j.op] = "sent"] /\ Media!Go(j)
  BY <1>2 DEF Media!Confirm, Media!Job
<1>4. /\ CallLinked' /\ (mediaCall' = Media!Idle \/ (mediaCall'.job \in Media!Jobs /\ mediaCall'.todo # <<>>))
      /\ mediaCall' # Media!Idle => mediaCall'.job = j /\ Link("confirm", mediaCall'.todo[1])
  BY <1>1, <1>2, <1>3, CallKept
<1>5. outbox' \in [Media!Drafts -> {"none", "queued", "sent"}]
  BY <1>3 DEF MediaInv, Media!MediaTypeOK
<1>6. Media!MediaTypeOK' /\ (said \in [Media!Drafts -> Messages])'
  BY <1>1, <1>4, <1>5 DEF MediaInv, Media!MediaTypeOK
<1>7. /\ said[j.op] = Media!Body(j) /\ j.op \in mediaFiles
      /\ draft # Media!NoDraft => draft.op = j.op /\ Media!Body(draft) = Media!Body(j)
  BY <1>1, <1>2 DEF MediaInv, CallReady
<1>8. CallReady'
  BY <1>1, <1>4, <1>7 DEF CallReady, Link
<1>9. Media!PointerIntact' /\ DraftSealed'
  BY <1>1, <1>7 DEF MediaInv, Media!PointerIntact, DraftSealed
<1> QED  BY <1>4, <1>6, <1>8, <1>9 DEF MediaInv

LEMMA ClearInv == ASSUME MediaInv, Media!Acknowledge \/ Media!ClearPointer PROVE MediaInv'
<1>1. /\ UNCHANGED <<kind, mediaFiles, audience, object, outbox, said, lost>>
      /\ mediaCall # Media!Idle /\ mediaCall.todo[1] \in {"acknowledge", "clear"}
      /\ (draft' = Media!NoDraft /\ Media!Go(mediaCall.job)) \/ (draft' = draft /\ Media!Refuse)
  BY MediaFacts DEF Media!Acknowledge, Media!ClearPointer, Media!At, Media!Job
<1>2. mediaCall.job \in Media!Jobs
  BY <1>1, MediaFacts
<1>3. /\ CallLinked' /\ (mediaCall' = Media!Idle \/ (mediaCall'.job \in Media!Jobs /\ mediaCall'.todo # <<>>))
      /\ mediaCall' # Media!Idle => mediaCall'.job = mediaCall.job /\ Link(mediaCall.todo[1], mediaCall'.todo[1])
  BY <1>1, <1>2, CallKept
<1>4. mediaCall' # Media!Idle => draft' = Media!NoDraft
  BY <1>1 DEF Media!Refuse
<1>5. Media!MediaTypeOK' /\ (said \in [Media!Drafts -> Messages])'
  BY <1>1, <1>3 DEF MediaInv, Media!MediaTypeOK
<1>6. CallReady'
  BY <1>1, <1>3, <1>4 DEF MediaInv, CallReady, Link
<1>7. Media!PointerIntact' /\ DraftSealed'
  BY <1>1 DEF MediaInv, Media!PointerIntact, DraftSealed
<1> QED  BY <1>3, <1>5, <1>6, <1>7 DEF MediaInv

LEMMA RemoveInv == ASSUME MediaInv, Media!RemoveFile PROVE MediaInv'
<1>1. /\ UNCHANGED <<kind, draft, audience, object, outbox, said, lost>>
      /\ mediaFiles' = mediaFiles \ {mediaCall.job.op}
      /\ mediaCall # Media!Idle /\ Media!Go(mediaCall.job)
      /\ mediaCall.todo[1] = "unlink"
  BY MediaFacts DEF Media!RemoveFile, Media!At, Media!Job
<1>2. mediaCall.job \in Media!Jobs
  BY <1>1, MediaFacts
<1>3. /\ CallLinked'
      /\ mediaCall' # Media!Idle => Link("unlink", mediaCall'.todo[1])
  BY <1>1, <1>2, CallKept
<1>4. mediaCall' = Media!Idle /\ draft = Media!NoDraft
  BY <1>1, <1>3 DEF MediaInv, CallReady, Link
<1>5. Media!MediaTypeOK' /\ (said \in [Media!Drafts -> Messages])'
  BY <1>1, <1>4 DEF MediaInv, Media!MediaTypeOK
<1>6. CallReady' /\ Media!PointerIntact' /\ DraftSealed'
  BY <1>1, <1>4 DEF CallReady, Media!PointerIntact, DraftSealed
<1> QED  BY <1>3, <1>5, <1>6 DEF MediaInv

LEMMA CancelInv == ASSUME MediaInv, Media!Cancel PROVE MediaInv'
<1>1. /\ UNCHANGED <<kind, draft, mediaFiles, audience, outbox, said, lost>>
      /\ mediaCall # Media!Idle /\ mediaCall.todo[1] = "cancel"
  BY MediaFacts DEF Media!Cancel, Media!At
<1>2. PICK j \in Media!Jobs : j = mediaCall.job /\ j.op \in Media!Drafts
  BY <1>1, MediaFacts
<1>3. /\ object' = [object EXCEPT ![j.op] = IF object[j.op] = "committed" THEN @ ELSE "cancelled"]
      /\ Media!Start(j, Media!AfterCancel(j, object[j.op] = "committed"))
  BY <1>2 DEF Media!Cancel, Media!Job
<1>4. object' \in [Media!Drafts -> {"none", "stored", "cancelled", "committed"}]
  BY <1>2, <1>3 DEF MediaInv, Media!MediaTypeOK
<1>5. PICK todo : mediaCall' = [job |-> j, todo |-> todo] /\ Ends(todo)
  BY <1>3, MediaLists DEF Media!Start
<1>6. todo # <<>> /\ Len(todo) > 0 /\ Linked(todo) /\ todo[1] \in Opening /\ todo[1] # "file"
  BY <1>5 DEF Ends, Starts, Opens
<1>7. mediaCall'.job = j /\ mediaCall'.todo = todo
  BY <1>5
<1>8. Media!MediaTypeOK' /\ (said \in [Media!Drafts -> Messages])'
  BY <1>1, <1>4, <1>6, <1>7 DEF MediaInv, Media!MediaTypeOK
<1>9. CallLinked'
  BY <1>6, <1>7 DEF CallLinked
<1>10. CallReady'
  BY <1>1, <1>2, <1>6, <1>7 DEF MediaInv, CallReady, Opening
<1>11. Media!PointerIntact' /\ DraftSealed'
  BY <1>1 DEF MediaInv, Media!PointerIntact, DraftSealed
<1> QED  BY <1>8, <1>9, <1>10, <1>11 DEF MediaInv

LEMMA SyncInv == ASSUME MediaInv, Media!SyncOutbox PROVE MediaInv'
<1>1. UNCHANGED <<kind, draft, mediaFiles, mediaCall, audience, said, lost>>
  BY DEF Media!SyncOutbox
<1>2. PICK op \in Media!Drafts :
        /\ outbox[op] = "queued"
        /\ object' = [object EXCEPT ![op] = "committed"]
        /\ outbox' = [outbox EXCEPT ![op] = "sent"]
  BY DEF Media!SyncOutbox
<1>3. /\ object' \in [Media!Drafts -> {"none", "stored", "cancelled", "committed"}]
      /\ outbox' \in [Media!Drafts -> {"none", "queued", "sent"}]
      /\ \A d \in Media!Drafts : outbox'[d] # "none" <=> outbox[d] # "none"
  BY <1>2 DEF MediaInv, Media!MediaTypeOK
<1>4. Media!MediaTypeOK' /\ (said \in [Media!Drafts -> Messages])'
  BY <1>1, <1>3 DEF MediaInv, Media!MediaTypeOK
<1>5. CallLinked' /\ Media!PointerIntact'
  BY <1>1 DEF MediaInv, CallLinked, Media!PointerIntact
<1>6. CallReady'
  BY <1>1, <1>3, MediaFacts DEF MediaInv, CallReady
<1>7. DraftSealed'
  BY <1>1, <1>3, MediaFacts DEF MediaInv, DraftSealed
<1> QED  BY <1>4, <1>5, <1>6, <1>7 DEF MediaInv

LEMMA LoseInv == ASSUME MediaInv, Media!Lose \/ Media!ChangeAudience PROVE MediaInv'
<1>0. /\ MaxLost \in Nat /\ MaxAudience \in Nat
      /\ lost \in 0..MaxLost /\ audience \in 1..MaxAudience
  BY SendBounds DEF MediaInv, Media!MediaTypeOK
<1>1. /\ UNCHANGED <<kind, draft, mediaFiles, object, outbox, said>>
      /\ mediaCall' \in {mediaCall, Media!Idle}
      /\ lost' \in 0..MaxLost /\ audience' \in 1..MaxAudience
  <2>1. CASE Media!Lose
    BY <1>0, <2>1 DEF Media!Lose
  <2>2. CASE Media!ChangeAudience
    BY <1>0, <2>2 DEF Media!ChangeAudience
  <2> QED  BY <2>1, <2>2
<1>2. Media!MediaTypeOK' /\ (said \in [Media!Drafts -> Messages])'
  BY <1>1 DEF MediaInv, Media!MediaTypeOK
<1>3. CallLinked' /\ CallReady'
  BY <1>1 DEF MediaInv, CallLinked, CallReady
<1>4. Media!PointerIntact' /\ DraftSealed'
  BY <1>1 DEF MediaInv, Media!PointerIntact, DraftSealed
<1> QED  BY <1>2, <1>3, <1>4 DEF MediaInv

LEMMA MediaStay == ASSUME MediaInv, UNCHANGED mediaState PROVE MediaInv'
<1>1. Media!MediaTypeOK' /\ (said \in [Media!Drafts -> Messages])'
  BY DEF mediaState, MediaInv, Media!MediaTypeOK
<1>2. CallLinked' /\ CallReady' /\ Media!PointerIntact' /\ DraftSealed'
  BY DEF mediaState, MediaInv, CallLinked, CallReady, Media!PointerIntact, DraftSealed
<1> QED  BY <1>1, <1>2 DEF MediaInv

LEMMA MediaNextInv == ASSUME MediaInv, Media!MediaNext \/ UNCHANGED mediaState PROVE MediaInv'
  BY PostInv, TakeUpInv, WriteFileInv, WriteInv, AskingInv, QueueInv, ConfirmInv, ClearInv,
     RemoveInv, CancelInv, SyncInv, LoseInv, MediaStay DEF Media!MediaNext, Media!CallStep

\* A call that is about to drop a draft has its answer, or the draft was never offered.
Answered ==
    mediaCall # Media!Idle /\ mediaCall.todo[1] \in {"confirm", "acknowledge", "clear"} =>
        \/ object[mediaCall.job.op] \in {"committed", "cancelled"}
        \/ draft # Media!NoDraft => ~draft.attempted

LEMMA AnsweredInit == Media!MediaInit => Answered
  BY DEF Media!MediaInit, Answered

\* A call begins with an answer to wait for, unless its draft was never offered.
LEMMA AnsweredStart ==
    ASSUME MediaInv, Media!Post \/ Media!Retry \/ Media!Discard
    PROVE  Answered'
<1>1. CASE Media!Post
  <2>1. PICK op \in Media!Drafts : Media!Start(Media!NewJob(op), Media!PostSteps(Media!NewJob(op)))
    BY <1>1 DEF Media!Post, Media!PostCircle, Media!PostMoment, Media!PostPrivate
  <2>2. mediaCall'.todo[1] = "file"
    BY <2>1, MediaLists DEF Media!Start
  <2> QED  BY <2>2 DEF Answered
<1>2. CASE Media!Retry
  <2>1. Begins(mediaCall'.todo)
    BY <1>2, MediaLists DEF Media!Retry, Media!Start
  <2> QED  BY <2>1 DEF Begins, Ends, Starts, Opens, Opening, Answered
<1>3. CASE Media!Discard
  <2>1. draft' = draft /\ mediaCall'.todo = Media!CancelUpload(draft)
    BY <1>3 DEF Media!Discard, Media!Start
  <2>2. draft.attempted => Begins(mediaCall'.todo)
    BY <2>1, MediaLists
  <2> QED  BY <2>1, <2>2 DEF Begins, Ends, Starts, Opens, Opening, Answered
<1> QED  BY <1>1, <1>2, <1>3

\* A step that is neither the delivery nor what follows it comes to no such step.
LEMMA AnsweredElsewhere ==
    ASSUME MediaInv, mediaCall # Media!Idle, NEW task, task \in Media!Jobs,
           mediaCall.todo[1] \notin {"deliver", "confirm"}, Media!Go(task) \/ Media!Refuse
    PROVE  Answered'
  BY CallKept DEF Answered, Link

LEMMA AnsweredCall ==
    ASSUME MediaInv, Answered, Media!CallStep
    PROVE  Answered'
<1>1. mediaCall # Media!Idle /\ mediaCall.job \in Media!Jobs /\ mediaCall.job.op \in Media!Drafts
      /\ Head(mediaCall.todo) = mediaCall.todo[1]
  BY MediaFacts DEF Media!CallStep, Media!WriteFile, Media!WritePointer, Media!SaveAttempt, Media!Put,
     Media!MarkUploaded, Media!Recheck, Media!Queue, Media!Deliver, Media!Confirm, Media!Acknowledge,
     Media!ClearPointer, Media!RemoveFile, Media!Cancel, Media!At
<1> DEFINE j == mediaCall.job
<1>2. CASE Media!WritePointer \/ Media!SaveAttempt \/ Media!MarkUploaded
  <2>1. mediaCall.todo[1] \in {"pointer", "attempt", "mark"}
    BY <1>1, <1>2 DEF Media!WritePointer, Media!SaveAttempt, Media!MarkUploaded, Media!At
  <2>2. \A new \in {j, [j EXCEPT !.attempted = TRUE], [j EXCEPT !.phase = "uploaded"]} : new \in Media!Jobs
    BY <1>1 DEF Media!Jobs
  <2>3. \E new \in {j, [j EXCEPT !.attempted = TRUE], [j EXCEPT !.phase = "uploaded"]} : Media!Go(new) \/ Media!Refuse
    BY <1>2 DEF Media!WritePointer, Media!SaveAttempt, Media!MarkUploaded, Media!Job, Media!Save
  <2> QED  BY <1>1, <2>1, <2>2, <2>3, AnsweredElsewhere
<1>3. CASE \/ Media!WriteFile \/ Media!Put \/ Media!Recheck \/ Media!Queue
           \/ Media!Acknowledge \/ Media!ClearPointer \/ Media!RemoveFile
  <2>1. /\ mediaCall.todo[1] \in {"file", "put", "recheck", "queue", "acknowledge", "clear", "unlink"}
        /\ Media!Go(j) \/ Media!Refuse
    BY <1>1, <1>3 DEF Media!WriteFile, Media!Put, Media!Recheck, Media!Queue, Media!Acknowledge,
                      Media!ClearPointer, Media!RemoveFile, Media!At, Media!Job
  <2> QED  BY <1>1, <2>1, AnsweredElsewhere
<1>4. CASE Media!Deliver
  <2>1. \/ object' = [object EXCEPT ![j.op] = "committed"] /\ Media!Go(j)
        \/ Media!Refuse
    BY <1>4 DEF Media!Deliver, Media!Job
  <2>2. mediaCall' # Media!Idle => mediaCall'.job = j /\ object'[j.op] = "committed"
    BY <1>1, <2>1, CallKept DEF MediaInv, Media!MediaTypeOK, Media!Refuse
  <2> QED  BY <2>2 DEF Answered
<1>5. CASE Media!Confirm
  <2>1. UNCHANGED <<draft, object>> /\ mediaCall.todo[1] = "confirm" /\ Media!Go(j)
    BY <1>1, <1>5 DEF Media!Confirm, Media!At, Media!Job
  <2>2. mediaCall' # Media!Idle => mediaCall'.job = j
    BY <1>1, <2>1, CallKept
  <2> QED  BY <1>1, <2>1, <2>2 DEF Answered
<1>6. CASE Media!Cancel
  <2>1. /\ object' = [object EXCEPT ![j.op] = IF object[j.op] = "committed" THEN @ ELSE "cancelled"]
        /\ mediaCall'.job = j
    BY <1>6 DEF Media!Cancel, Media!Job, Media!Start
  <2>2. object'[j.op] \in {"committed", "cancelled"}
    BY <1>1, <2>1 DEF MediaInv, Media!MediaTypeOK
  <2> QED  BY <2>1, <2>2 DEF Answered
<1> QED  BY <1>2, <1>3, <1>4, <1>5, <1>6 DEF Media!CallStep

LEMMA AnsweredNext == ASSUME MediaInv, Answered, Media!MediaNext \/ UNCHANGED mediaState PROVE Answered'
<1>1. CASE Media!SyncOutbox
  <2>1. PICK op \in Media!Drafts : object' = [object EXCEPT ![op] = "committed"]
    BY <1>1 DEF Media!SyncOutbox
  <2>2. UNCHANGED <<draft, mediaCall>>
    BY <1>1 DEF Media!SyncOutbox
  <2>3. \A d \in Media!Drafts : object[d] \in {"committed", "cancelled"} =>
                                object'[d] \in {"committed", "cancelled"}
    BY <2>1 DEF MediaInv, Media!MediaTypeOK
  <2>4. mediaCall # Media!Idle => mediaCall.job.op \in Media!Drafts
    BY MediaFacts
  <2> QED  BY <2>2, <2>3, <2>4 DEF Answered
<1>2. CASE Media!Lose
  BY <1>2 DEF Media!Lose, Answered
<1>3. CASE Media!ChangeAudience \/ UNCHANGED mediaState
  BY <1>3 DEF Media!ChangeAudience, mediaState, Answered
<1> QED  BY <1>1, <1>2, <1>3, AnsweredStart, AnsweredCall DEF Media!MediaNext

\* What a step that drops the draft finds.
LEMMA KeptStep ==
    ASSUME MediaInv, Answered, Media!MediaNext \/ UNCHANGED mediaState,
           draft # Media!NoDraft, draft' = Media!NoDraft
    PROVE  ~draft.attempted \/ object[draft.op] \in {"committed", "cancelled"}
<1>1. CASE Media!Acknowledge \/ Media!ClearPointer
  <2>1. mediaCall # Media!Idle /\ mediaCall.todo[1] \in {"acknowledge", "clear"}
    BY <1>1, MediaFacts DEF Media!Acknowledge, Media!ClearPointer, Media!At
  <2>2. draft.op = mediaCall.job.op
    BY <2>1 DEF MediaInv, CallReady
  <2> QED  BY <2>1, <2>2 DEF Answered
<1>2. CASE Media!WritePointer \/ Media!SaveAttempt \/ Media!MarkUploaded
  <2>1. PICK j \in Media!Jobs : j = mediaCall.job
    BY <1>2, MediaFacts DEF Media!WritePointer, Media!SaveAttempt, Media!MarkUploaded, Media!At
  <2>2. \A new \in {j, [j EXCEPT !.attempted = TRUE], [j EXCEPT !.phase = "uploaded"]} : new # Media!NoDraft
    <3>1. \A new \in {j, [j EXCEPT !.attempted = TRUE], [j EXCEPT !.phase = "uploaded"]} : new \in Media!Jobs
      BY DEF Media!Jobs
    <3> QED  BY <3>1, MediaFacts
  <2>3. \E new \in {j, [j EXCEPT !.attempted = TRUE], [j EXCEPT !.phase = "uploaded"]} : draft' = new \/ draft' = draft
    BY <1>2, <2>1 DEF Media!WritePointer, Media!SaveAttempt, Media!MarkUploaded, Media!Job, Media!Save
  <2> QED  BY <2>2, <2>3
<1>3. CASE \/ Media!Post \/ Media!Retry \/ Media!Discard \/ Media!SyncOutbox \/ Media!Lose
           \/ Media!ChangeAudience \/ UNCHANGED mediaState
  BY <1>3 DEF Media!Post, Media!Retry, Media!Discard, Media!SyncOutbox, Media!Lose,
              Media!ChangeAudience, mediaState
<1>4. CASE \/ Media!WriteFile \/ Media!Put \/ Media!Recheck \/ Media!Queue
           \/ Media!Deliver \/ Media!Confirm \/ Media!RemoveFile \/ Media!Cancel
  BY <1>4 DEF Media!WriteFile, Media!Put, Media!Recheck, Media!Queue, Media!Deliver,
              Media!Confirm, Media!RemoveFile, Media!Cancel
<1> QED  BY <1>1, <1>2, <1>3, <1>4 DEF Media!MediaNext, Media!CallStep

-----------------------------------------------------------------------------
(* PART 2.  The outbox.  Keys are given under the name of their message, once  *)
(* for each name; and a row says what the relay holds.                       *)

RowShapes ==
    /\ relay \in [Outbox!Drafts -> {"none", "sent", "delivered", "cancelled"}]
    /\ DOMAIN row = Outbox!Drafts /\ row = [d \in Outbox!Drafts |-> row[d]]
    /\ \A d \in Outbox!Drafts : "status" \in DOMAIN row[d]
KeysNamed ==
    /\ \A key \in given : key = [id |-> Outbox!AllocationID(key.for), for |-> key.for, keys |-> key.keys]
    /\ \A k, l \in given : k.id = l.id => k = l
RelayTold == RowShapes /\ KeysNamed /\ Outbox!OutboxTells

LEMMA SameCount == \A S : Outbox!Cardinality(S) = Cardinality(S)
  BY DEF Outbox!Cardinality, Cardinality

\* Two keys of one message would have one name.
LEMMA OneKey == KeysNamed => Outbox!OneKeyPerMessage
<1> SUFFICES ASSUME KeysNamed, NEW d \in Outbox!Drafts PROVE Cardinality({key \in given : key.for = d}) <= 1
  BY SameCount DEF Outbox!OneKeyPerMessage
<1> DEFINE S == {key \in given : key.for = d}
<1>1. \A k, l \in S : k = l
  BY DEF KeysNamed
<1>2. CASE S = {}
  BY <1>2, FS_EmptySet
<1>3. CASE S # {}
  <2>1. PICK k : k \in S
    BY <1>3
  <2>2. S = {k}
    BY <1>1, <2>1
  <2> HIDE DEF S
  <2>3. Cardinality(S) = 1
    BY <2>2, FS_Singleton
  <2> QED  BY <2>3 DEF S
<1> QED  BY <1>2, <1>3

\* Another status in a row changes nothing else.
LEMMA Marked ==
    ASSUME RowShapes, NEW e, NEW s
    PROVE  LET marked == [row EXCEPT ![e].status = s]
           IN  /\ DOMAIN marked = Outbox!Drafts /\ marked = [d \in Outbox!Drafts |-> marked[d]]
               /\ \A d \in Outbox!Drafts : "status" \in DOMAIN marked[d]
               /\ \A d \in Outbox!Drafts \ {e} : marked[d] = row[d]
               /\ e \in Outbox!Drafts => marked[e].status = s
<1> DEFINE marked == [row EXCEPT ![e].status = s]
<1>1. DOMAIN marked = Outbox!Drafts /\ marked = [d \in Outbox!Drafts |-> marked[d]]
  BY DEF RowShapes
<1>2. \A d \in Outbox!Drafts \ {e} : marked[d] = row[d]
  BY DEF RowShapes
<1>3. ASSUME e \in Outbox!Drafts PROVE "status" \in DOMAIN marked[e] /\ marked[e].status = s
  <2>1. marked[e] = [row[e] EXCEPT !.status = s]
    BY <1>3 DEF RowShapes
  <2>2. "status" \in DOMAIN row[e]
    BY <1>3 DEF RowShapes
  <2> HIDE DEF marked
  <2> QED  BY <2>1, <2>2
<1> HIDE DEF marked
<1> QED  BY <1>1, <1>2, <1>3 DEF RowShapes, marked

LEMMA ToldInit == Outbox!OutboxInit => RelayTold
  BY DEF Outbox!OutboxInit, Outbox!NoRow, RelayTold, RowShapes, KeysNamed, Outbox!OutboxTells

\* A step that leaves the relay, the rows and the keys alone.
LEMMA RowsStay == ASSUME RelayTold, UNCHANGED <<relay, row, given>> PROVE RelayTold'
  BY DEF RelayTold, RowShapes, KeysNamed, Outbox!OutboxTells

\* What the relay holds of a message only ever goes on from nothing, or to delivered.
Onwards ==
    \A d \in Outbox!Drafts :
        \/ relay'[d] = relay[d]
        \/ relay[d] = "none"
        \/ relay[d] = "sent" /\ relay'[d] = "delivered"

LEMMA TellsStay ==
    ASSUME RelayTold, Onwards, NEW d \in Outbox!Drafts, row'[d] = row[d]
    PROVE  /\ row'[d].status = "sent" => relay'[d] \in {"sent", "delivered"}
           /\ row'[d].status = "delivered" => relay'[d] = "delivered"
           /\ row'[d].status = "retired" => relay'[d] = "cancelled"
  BY DEF RelayTold, Outbox!OutboxTells, Onwards

\* A key is given under the name of its message, and given again when it is asked for again.
LEMMA AllocateInv == ASSUME RelayTold, Outbox!SendAllocate PROVE RelayTold'
<1> DEFINE new == [id |-> Outbox!AllocationID(job.of), for |-> job.of, keys |-> world.keys]
<1>1. UNCHANGED <<relay, row>>
  BY DEF Outbox!SendAllocate
<1>2. CASE given' = given
  BY <1>1, <1>2, RowsStay
<1>3. CASE given' # given
  <2>1. given' = given \cup {new} /\ ~\E key \in Outbox!Allocation(job.of) : key.keys # world.keys
    BY <1>3 DEF Outbox!SendAllocate
  <2>2. ASSUME NEW k \in given, k.id = new.id PROVE k = new
    <3>1. k \in Outbox!Allocation(job.of)
      BY <2>2 DEF Outbox!Allocation
    <3>2. k.keys = world.keys /\ k.id = Outbox!AllocationID(k.for) /\ k.for = job.of
      BY <2>1, <2>2, <3>1 DEF RelayTold, KeysNamed, Outbox!AllocationID
    <3> QED  BY <2>2, <3>2 DEF RelayTold, KeysNamed
  <2> HIDE DEF new
  <2>3. new = [id |-> Outbox!AllocationID(new.for), for |-> new.for, keys |-> new.keys]
    BY DEF new
  <2> QED  BY <1>1, <2>1, <2>2, <2>3 DEF RelayTold, RowShapes, KeysNamed, Outbox!OutboxTells
<1> QED  BY <1>2, <1>3

\* An encrypted draft is queued.
LEMMA SaveInv == ASSUME RelayTold, Outbox!SendSave PROVE RelayTold'
<1>1. relay' = relay /\ given' = given
  BY DEF Outbox!SendSave
<1> DEFINE queued == [status |-> "queued", revision |-> pin.revision, keys |-> pin.keys, epoch |-> job.context.epoch]
<1>2. row' = row \/ row' = [row EXCEPT ![job.of] = queued]
  BY DEF Outbox!SendSave
<1>3. queued.status = "queued" /\ "status" \in DOMAIN queued
  OBVIOUS
<1> HIDE DEF queued
<1>4. CASE row' = [row EXCEPT ![job.of] = queued]
  BY <1>1, <1>3, <1>4 DEF RelayTold, RowShapes, KeysNamed, Outbox!OutboxTells
<1> QED  BY <1>1, <1>2, <1>4, RowsStay

\* A row is marked with what the relay holds, which has gone on at most.
LEMMA MarkInv ==
    ASSUME RelayTold, NEW e, NEW s, row' = [row EXCEPT ![e].status = s],
           relay' \in [Outbox!Drafts -> {"none", "sent", "delivered", "cancelled"}], Onwards, given' = given,
           e \in Outbox!Drafts =>
               /\ s = "sent" => relay'[e] \in {"sent", "delivered"}
               /\ s = "delivered" => relay'[e] = "delivered"
               /\ s = "retired" => relay'[e] = "cancelled"
    PROVE  RelayTold'
<1>1. RowShapes'
  BY Marked DEF RelayTold, RowShapes
<1>2. KeysNamed'
  BY DEF RelayTold, KeysNamed
<1>3. ASSUME NEW d \in Outbox!Drafts
      PROVE  /\ row'[d].status = "sent" => relay'[d] \in {"sent", "delivered"}
             /\ row'[d].status = "delivered" => relay'[d] = "delivered"
             /\ row'[d].status = "retired" => relay'[d] = "cancelled"
  <2>1. CASE d = e
    BY <2>1, Marked DEF RelayTold
  <2>2. CASE d # e
    BY <2>2, Marked, TellsStay DEF RelayTold
  <2> QED  BY <2>1, <2>2
<1> QED  BY <1>1, <1>2, <1>3 DEF RelayTold, Outbox!OutboxTells

\* Only what the relay holds goes on.
LEMMA RelayInv ==
    ASSUME RelayTold, relay' \in [Outbox!Drafts -> {"none", "sent", "delivered", "cancelled"}], Onwards, UNCHANGED <<row, given>>
    PROVE  RelayTold'
  BY TellsStay DEF RelayTold, RowShapes, KeysNamed, Outbox!OutboxTells

LEMMA UploadInv == ASSUME RelayTold, Outbox!Upload PROVE RelayTold'
<1>1. relay' = [relay EXCEPT ![job.of] = Outbox!Received(job.of)] /\ given' = given
  BY DEF Outbox!Upload
<1>2. relay' \in [Outbox!Drafts -> {"none", "sent", "delivered", "cancelled"}]
  BY <1>1 DEF RelayTold, RowShapes, Outbox!Received
<1>3. Onwards
  BY <1>1 DEF RelayTold, RowShapes, Onwards, Outbox!Received
<1> DEFINE s == IF row[job.of].status = "delivered" THEN "delivered" ELSE "sent"
<1>4. \/ row' = row
      \/ Outbox!Received(job.of) \in {"sent", "delivered"} /\ row' = [row EXCEPT ![job.of].status = s]
  BY DEF Outbox!Upload, Outbox!Confirmed
<1>5. CASE Outbox!Received(job.of) \in {"sent", "delivered"} /\ row' = [row EXCEPT ![job.of].status = s]
  <2>1. ASSUME job.of \in Outbox!Drafts
        PROVE  relay'[job.of] = Outbox!Received(job.of) /\ (row[job.of].status = "delivered" => relay[job.of] = "delivered")
    BY <1>1, <2>1 DEF RelayTold, RowShapes, Outbox!OutboxTells
  <2>2. s \in {"sent", "delivered"} /\ (s = "delivered" => row[job.of].status = "delivered")
    OBVIOUS
  <2>3. relay[job.of] = "delivered" => Outbox!Received(job.of) = "delivered"
    BY DEF Outbox!Received
  <2> HIDE DEF s
  <2> QED  BY <1>1, <1>2, <1>3, <1>5, <2>1, <2>2, <2>3, MarkInv
<1> QED  BY <1>1, <1>2, <1>3, <1>4, <1>5, RelayInv

LEMMA AskInv == ASSUME RelayTold, Outbox!AskStatus PROVE RelayTold'
<1> DEFINE s == IF row[job.of].status = "delivered" THEN row[job.of].status ELSE relay[job.of]
<1>1. relay' = relay /\ given' = given /\ (row' = row \/ row' = [row EXCEPT ![job.of].status = s])
  BY DEF Outbox!AskStatus, Outbox!Confirmed
<1>2. Onwards /\ relay' \in [Outbox!Drafts -> {"none", "sent", "delivered", "cancelled"}]
  BY <1>1 DEF Onwards, RelayTold, RowShapes
<1>3. ASSUME job.of \in Outbox!Drafts
      PROVE  s = relay[job.of] /\ s \in {"none", "sent", "delivered", "cancelled"}
  BY <1>3 DEF RelayTold, RowShapes, Outbox!OutboxTells
<1> HIDE DEF s
<1> QED  BY <1>1, <1>2, <1>3, MarkInv, RowsStay

\* A profile that is given up is one that the relay will not take any more.
LEMMA RecoverInv == ASSUME RelayTold, Outbox!RecoverCancel PROVE RelayTold'
<1>1. relay' = [relay EXCEPT ![job.of] = IF @ = "none" THEN "cancelled" ELSE @] /\ given' = given
  BY DEF Outbox!RecoverCancel
<1>2. relay' \in [Outbox!Drafts -> {"none", "sent", "delivered", "cancelled"}] /\ Onwards
  BY <1>1 DEF RelayTold, RowShapes, Onwards
<1>3. CASE row' = row
  BY <1>1, <1>2, <1>3, RelayInv
<1>4. CASE relay'[job.of] = "cancelled" /\ row' = [row EXCEPT ![job.of].status = "retired"]
  BY <1>1, <1>2, <1>4, MarkInv
<1>5. CASE relay'[job.of] # "cancelled" /\ row' = Outbox!Confirmed(job.of, "sent")
  <2> DEFINE s == IF row[job.of].status = "delivered" THEN row[job.of].status ELSE "sent"
  <2>1. row' = [row EXCEPT ![job.of].status = s]
    BY <1>5 DEF Outbox!Confirmed
  <2>2. ASSUME job.of \in Outbox!Drafts
        PROVE  relay'[job.of] \in {"sent", "delivered"} /\ (s = "delivered" => relay'[job.of] = "delivered") /\ s # "retired"
    BY <1>1, <1>5, <2>2 DEF RelayTold, RowShapes, Outbox!OutboxTells
  <2> HIDE DEF s
  <2> QED  BY <1>1, <1>2, <2>1, <2>2, MarkInv
<1> QED  BY <1>3, <1>4, <1>5 DEF Outbox!RecoverCancel

LEMMA DeliverInv == ASSUME RelayTold, NEW d \in Outbox!Drafts, Outbox!Deliver(d) PROVE RelayTold'
<1>1. relay' \in [Outbox!Drafts -> {"none", "sent", "delivered", "cancelled"}] /\ Onwards
  BY DEF Outbox!Deliver, RelayTold, RowShapes, Onwards
<1> QED  BY <1>1, RelayInv DEF Outbox!Deliver, Outbox!phone

LEMMA ToldNext == ASSUME RelayTold, [Outbox!OutboxNext]_(Outbox!outboxVars) PROVE RelayTold'
<1>1. CASE Outbox!StartJob \/ Outbox!SendSaved \/ Outbox!SendContext \/ Outbox!SendPeer \/ Outbox!ListOutbox \/ Outbox!RetryNext \/ Outbox!RecoverDraft
  <2>1. UNCHANGED <<relay, row, given>>
    BY <1>1 DEF Outbox!StartJob, Outbox!SendSaved, Outbox!SendContext, Outbox!SendPeer, Outbox!ListOutbox, Outbox!RetryNext, Outbox!RecoverDraft, Outbox!phone
  <2> QED  BY <2>1, RowsStay
<1>2. CASE \/ Outbox!Reconcile \/ Outbox!LoseUpload \/ Outbox!EpochMoves \/ Outbox!PeerReinstalls \/ Outbox!Acknowledge \/ Outbox!Restart
           \/ \E d \in Outbox!Drafts : Outbox!Send(d) \/ Outbox!Recover(d)
           \/ UNCHANGED Outbox!outboxVars
  <2>1. UNCHANGED <<relay, row, given>>
    BY <1>2 DEF Outbox!Reconcile, Outbox!LoseUpload, Outbox!EpochMoves, Outbox!PeerReinstalls, Outbox!Acknowledge, Outbox!Restart, Outbox!Send, Outbox!Recover, Outbox!phone, Outbox!outboxVars
  <2> QED  BY <2>1, RowsStay
<1>3. CASE Outbox!Working
  BY <1>1, <1>3, AllocateInv, SaveInv, UploadInv, AskInv, RecoverInv DEF Outbox!Working
<1> QED  BY <1>2, <1>3, DeliverInv DEF Outbox!OutboxNext


\* The types, and what they rest on: a reconciliation waits in the line at most once, and
\* asks for the status of a row that it has seen sent.
Contexts == [epoch : 0..MaxEpoch, keys : 0..MaxKeys]
JobFields == {"kind", "of", "at", "context", "list", "tried"}
JobShape(j) ==
    /\ DOMAIN j = JobFields /\ j.context \in Contexts
    /\ Len(j.list) \in 0..OutboxMaxDrafts /\ j.tried \in Nat
JobSet == [kind : {"send", "recover", "reconcile"}, of : {0} \cup Outbox!Drafts, at : {"start"},
           context : {[epoch |-> 0, keys |-> 0]}, list : {<<>>}, tried : {0}]
Waits(j) == j.kind = "reconcile" /\ j.of = 0
Stages == {"none", "queued", "sent", "delivered", "retired"}

WorldTypes ==
    /\ world \in [epoch : 1..MaxEpoch, keys : 1..MaxKeys]
    /\ pin \in [keys : 0..MaxKeys, revision : Nat, pending : 0..MaxKeys]
    /\ ratchet \in 0..pin.revision
    /\ turn \in 0..OutboxMaxDrafts /\ outboxMishaps \in 0..MaxFaults

LineShort ==
    /\ line \in Seq(JobSet)
    /\ \/ Len(line) <= MaxLine
       \/ Len(line) = MaxLine + 1 /\ \E i \in 1..Len(line) : Waits(line[i])

RowTypes == \A d \in Outbox!Drafts : row[d].status \in Stages
AsksSent == job.kind = "reconcile" /\ job.at = "status" /\ job.of \in Outbox!Drafts
                => row[job.of].status = "sent"

OutboxTypes == WorldTypes /\ JobShape(job) /\ LineShort /\ RowTypes /\ AsksSent
OutboxInv == RelayTold /\ OutboxTypes

LEMMA OutboxBounds ==
    /\ OutboxMaxDrafts \in Nat /\ MaxLine \in Nat /\ MaxFaults \in Nat
    /\ MaxEpoch \in Nat /\ MaxEpoch >= 1 /\ MaxKeys \in Nat /\ MaxKeys >= 1
  BY SendBounds

LEMMA OutboxInvSays == OutboxInv => Outbox!OutboxTypeOK /\ Outbox!OutboxTrue
<1> SUFFICES ASSUME OutboxInv PROVE Outbox!OutboxTypeOK /\ Outbox!OutboxTrue
  OBVIOUS
<1>1. Outbox!OutboxTrue
  BY OneKey DEF OutboxInv, RelayTold, Outbox!OutboxTrue
<1>2. Len(line) <= MaxLine + 1
  BY OutboxBounds, LenProperties DEF OutboxInv, OutboxTypes, LineShort
<1>3. Outbox!OutboxTypeOK
  BY <1>2 DEF OutboxInv, OutboxTypes, RelayTold, RowShapes, WorldTypes, RowTypes, Stages, Outbox!OutboxTypeOK
<1> QED  BY <1>1, <1>3

LEMMA NoJobShape == JobShape(Outbox!NoJob) /\ Outbox!NoJob.kind = "none"
<1>1. DOMAIN Outbox!NoJob = JobFields
  BY DEF Outbox!NoJob, JobFields
<1>2. Outbox!NoJob.context = [epoch |-> 0, keys |-> 0] /\ Outbox!NoJob.kind = "none"
  BY DEF Outbox!NoJob
<1>3. [epoch |-> 0, keys |-> 0] \in Contexts
  BY OutboxBounds DEF Contexts
<1>4. Outbox!NoJob.list = <<>> /\ Outbox!NoJob.tried = 0
  BY DEF Outbox!NoJob
<1>5. Len(Outbox!NoJob.list) \in 0..OutboxMaxDrafts
  BY <1>4, OutboxBounds
<1> QED  BY <1>1, <1>2, <1>3, <1>4, <1>5 DEF JobShape

LEMMA OutboxInitInv == Outbox!OutboxInit => OutboxInv
<1> SUFFICES ASSUME Outbox!OutboxInit PROVE OutboxInv
  OBVIOUS
<1>1. WorldTypes
  BY OutboxBounds DEF Outbox!OutboxInit, WorldTypes, Outbox!NoPin
<1>2. JobShape(job) /\ AsksSent
  <2>1. job = Outbox!NoJob
    BY DEF Outbox!OutboxInit
  <2> QED  BY <2>1, NoJobShape DEF AsksSent
<1>3. line \in Seq(JobSet) /\ Len(line) = 0
  BY DEF Outbox!OutboxInit
<1>4. LineShort
  BY <1>3, OutboxBounds DEF LineShort
<1>5. RowTypes
  BY DEF Outbox!OutboxInit, Outbox!NoRow, RowTypes, Stages
<1> QED  BY <1>1, <1>2, <1>4, <1>5, ToldInit DEF OutboxInv, OutboxTypes

\* The list of what is not delivered is no longer than the outbox.
LEMMA UndeliveredShort == Len(Outbox!Undelivered) \in 0..OutboxMaxDrafts
<1>0. Cardinality(Outbox!Open) = Outbox!Cardinality(Outbox!Open)
  BY SameCount
<1>1. IsFiniteSet(Outbox!Drafts) /\ Cardinality(Outbox!Drafts) = OutboxMaxDrafts
  BY OutboxBounds, FS_Interval DEF Outbox!Drafts
<1>2. Cardinality(Outbox!Open) \in Nat /\ Cardinality(Outbox!Open) <= OutboxMaxDrafts
  BY <1>1, FS_Subset, FS_CardinalityType DEF Outbox!Open
<1> DEFINE n == Outbox!Cardinality(Outbox!Open)
           nth(i) == CHOOSE d \in Outbox!Open : Outbox!Cardinality({e \in Outbox!Open : e < d}) = i - 1
<1>3. Outbox!Undelivered = [i \in 1..n |-> nth(i)]
  BY DEF Outbox!Undelivered
<1> HIDE DEF nth
<1>4. Len([i \in 1..n |-> nth(i)]) = n
  BY <1>0, <1>2
<1> HIDE DEF n
<1> QED  BY <1>0, <1>2, <1>3, <1>4 DEF n

\* A job at another step, and a job that ended.
LEMMA JobGoesOn ==
    ASSUME JobShape(job), NEW at, NEW j, j = [job EXCEPT !.at = at]
    PROVE  JobShape(j) /\ j.kind = job.kind /\ j.of = job.of /\ j.at = at
  BY DEF JobShape, JobFields

\* The line stays short: behind the user's jobs one reconciliation at most.
LEMMA EnqueueShort ==
    ASSUME LineShort, NEW k \in {"send", "recover", "reconcile"}, NEW d \in {0} \cup Outbox!Drafts,
           k = "reconcile" => d = 0, Outbox!Enqueue(k, d)
    PROVE  LineShort'
<1> DEFINE j == Outbox!Job(k, d)
<1>1. j = [kind |-> k, of |-> d, at |-> "start", context |-> [epoch |-> 0, keys |-> 0], list |-> <<>>, tried |-> 0]
  <2> DEFINE a == [Outbox!NoJob EXCEPT !.kind = k]
             b == [a EXCEPT !.of = d]
             c == [b EXCEPT !.at = "start"]
  <2>1. a = [kind |-> k, of |-> 0, at |-> "idle", context |-> [epoch |-> 0, keys |-> 0], list |-> <<>>, tried |-> 0]
    BY DEF Outbox!NoJob
  <2> HIDE DEF a
  <2>2. b = [kind |-> k, of |-> d, at |-> "idle", context |-> [epoch |-> 0, keys |-> 0], list |-> <<>>, tried |-> 0]
    BY <2>1
  <2> HIDE DEF b
  <2>3. c = [kind |-> k, of |-> d, at |-> "start", context |-> [epoch |-> 0, keys |-> 0], list |-> <<>>, tried |-> 0]
    BY <2>2
  <2>4. j = c
    BY DEF Outbox!Job, a, b
  <2> HIDE DEF j, c
  <2> QED  BY <2>3, <2>4
<1>2. j \in JobSet /\ j.kind = k /\ j.of = d
  BY <1>1 DEF JobSet
<1>3. /\ k = "reconcile" \/ Len(line) < MaxLine
      /\ ~\E i \in 1..Len(line) : line[i].kind = k /\ line[i].of = d
      /\ line' = Append(line, j)
  BY DEF Outbox!Enqueue
<1> HIDE DEF j
<1>4. line \in Seq(JobSet) /\ Len(line) \in Nat
  BY LenProperties DEF LineShort
<1>5. /\ line' \in Seq(JobSet) /\ Len(line') = Len(line) + 1 /\ line'[Len(line) + 1] = j
  BY <1>2, <1>3, <1>4, AppendProperties
<1>6. CASE Len(line) < MaxLine
  BY <1>4, <1>5, <1>6, OutboxBounds DEF LineShort
<1>7. CASE k = "reconcile"
  <2>1. Len(line) <= MaxLine
    BY <1>3, <1>7 DEF LineShort, Waits
  <2>2. Waits(line'[Len(line) + 1])
    BY <1>2, <1>5, <1>7 DEF Waits
  <2>3. Len(line) + 1 \in 1..Len(line')
    BY <1>4, <1>5
  <2>4. Len(line') <= MaxLine \/ Len(line') = MaxLine + 1
    BY <1>4, <1>5, <2>1, OutboxBounds
  <2> QED  BY <1>5, <2>2, <2>3, <2>4 DEF LineShort
<1> QED  BY <1>3, <1>6, <1>7

LEMMA StartShort == ASSUME LineShort, Outbox!StartJob PROVE LineShort' /\ JobShape(job)' /\ job'.at = "start"
<1>1. line \in Seq(JobSet) /\ line # <<>> /\ line' = Tail(line) /\ job' = Head(line)
  BY DEF LineShort, Outbox!StartJob
<1>2. line' \in Seq(JobSet) /\ Len(line') = Len(line) - 1 /\ job' \in JobSet
  BY <1>1, HeadTailProperties
<1>3. Len(line) <= MaxLine + 1 /\ Len(line) \in Nat
  BY <1>1, LenProperties, OutboxBounds DEF LineShort
<1>4. LineShort'
  BY <1>2, <1>3, OutboxBounds DEF LineShort
<1>5. \A j \in JobSet : /\ DOMAIN j = JobFields /\ j.context = [epoch |-> 0, keys |-> 0] /\ j.at = "start"
                        /\ j.list = <<>> /\ j.tried = 0
  BY DEF JobSet, JobFields
<1>6. [epoch |-> 0, keys |-> 0] \in Contexts /\ Len(<<>>) \in 0..OutboxMaxDrafts
  BY OutboxBounds DEF Contexts
<1> QED  BY <1>2, <1>4, <1>5, <1>6 DEF JobShape

Fault == outboxMishaps' = outboxMishaps \/ (outboxMishaps < MaxFaults /\ outboxMishaps' = outboxMishaps + 1)

LEMMA FaultType == ASSUME WorldTypes, Fault PROVE outboxMishaps' \in 0..MaxFaults
  BY OutboxBounds DEF WorldTypes, Fault

\* The steps of a job that change nothing but the job.
LEMMA JobTypes ==
    ASSUME OutboxTypes, UNCHANGED <<world, pin, ratchet, row, line, turn>>, Fault, JobShape(job)', AsksSent'
    PROVE  OutboxTypes'
<1>1. WorldTypes'
  BY FaultType DEF OutboxTypes, WorldTypes
<1>2. LineShort' /\ RowTypes'
  BY DEF OutboxTypes, LineShort, RowTypes
<1> QED  BY <1>1, <1>2 DEF OutboxTypes

\* A job that goes on to a step that is not a question of status, or ends.
LEMMA PlainJob ==
    ASSUME OutboxTypes,
           job' = Outbox!NoJob \/ (\E at \in {"context", "peer", "allocate", "save", "upload", "cancel"} :
                                       job' = [job EXCEPT !.at = at])
    PROVE  JobShape(job)' /\ AsksSent'
<1>1. CASE job' = Outbox!NoJob
  BY <1>1, NoJobShape DEF AsksSent
<1>2. ASSUME NEW at \in {"context", "peer", "allocate", "save", "upload", "cancel"}, job' = [job EXCEPT !.at = at]
      PROVE  JobShape(job)' /\ AsksSent'
  <2>1. JobShape(job') /\ job'.at = at
    BY <1>2, JobGoesOn DEF OutboxTypes
  <2> QED  BY <2>1 DEF AsksSent
<1> QED  BY <1>1, <1>2

LEMMA SavedTypes == ASSUME OutboxTypes, Outbox!SendSaved \/ Outbox!RecoverDraft \/ Outbox!LoseUpload PROVE OutboxTypes'
<1>1. /\ UNCHANGED <<world, pin, ratchet, row, line, turn>> /\ Fault
      /\ job' = Outbox!NoJob \/ (\E at \in {"context", "peer", "allocate", "save", "upload", "cancel"} :
                                       job' = [job EXCEPT !.at = at])
  BY DEF Outbox!SendSaved, Outbox!RecoverDraft, Outbox!LoseUpload, Outbox!Unanswered, Outbox!EndJob,
         Outbox!Step, Outbox!phone, Fault
<1> QED  BY <1>1, PlainJob, JobTypes

LEMMA ContextTypes == ASSUME OutboxTypes, Outbox!SendContext PROVE OutboxTypes'
<1>1. UNCHANGED <<world, pin, ratchet, row, line, turn>> /\ Fault
  BY DEF Outbox!SendContext, Outbox!Unanswered, Outbox!phone, Fault
<1>2. job' = Outbox!NoJob \/ job' = [job EXCEPT !.at = "peer", !.context = world]
  BY DEF Outbox!SendContext, Outbox!Unanswered, Outbox!EndJob
<1>3. CASE job' = Outbox!NoJob
  BY <1>1, <1>3, PlainJob, JobTypes
<1>4. CASE job' = [job EXCEPT !.at = "peer", !.context = world]
  <2>1. world \in Contexts
    BY OutboxBounds DEF OutboxTypes, WorldTypes, Contexts
  <2> DEFINE j == [job EXCEPT !.at = "peer"]
  <2>2. JobShape(j) /\ j.at = "peer"
    BY JobGoesOn DEF OutboxTypes
  <2>3. job' = [j EXCEPT !.context = world]
    BY <1>4
  <2> HIDE DEF j
  <2>4. JobShape(job') /\ job'.at = "peer"
    BY <2>1, <2>2, <2>3 DEF JobShape, JobFields
  <2>5. AsksSent'
    BY <2>4 DEF AsksSent
  <2> QED  BY <1>1, <2>4, <2>5, JobTypes
<1> QED  BY <1>2, <1>3, <1>4

LEMMA PinFacts ==
    ASSUME OutboxTypes
    PROVE  /\ pin.keys \in 0..MaxKeys /\ pin.revision \in Nat /\ pin.pending \in 0..MaxKeys
           /\ ratchet \in 0..pin.revision /\ job.context.keys \in 0..MaxKeys
           /\ turn \in 0..OutboxMaxDrafts /\ outboxMishaps \in 0..MaxFaults
  BY DEF OutboxTypes, WorldTypes, JobShape, Contexts

LEMMA PeerTypes == ASSUME OutboxTypes, Outbox!SendPeer PROVE OutboxTypes'
<1>1. UNCHANGED <<world, ratchet, row, line, turn>> /\ outboxMishaps' = outboxMishaps
      /\ pin' = Outbox!Observed(job.context.keys)
  BY DEF Outbox!SendPeer
<1>2. job' = Outbox!NoJob \/ (\E at \in {"context", "peer", "allocate", "save", "upload", "cancel"} :
                                       job' = [job EXCEPT !.at = at])
  BY DEF Outbox!SendPeer, Outbox!EndJob, Outbox!Step
<1>3. /\ pin' \in [keys : 0..MaxKeys, revision : Nat, pending : 0..MaxKeys]
      /\ pin'.revision >= pin.revision
  <2>1. pin \in [keys : 0..MaxKeys, revision : Nat, pending : 0..MaxKeys]
    BY DEF OutboxTypes, WorldTypes
  <2>2. \/ pin' = pin
        \/ pin.revision = 0 /\ pin' = [keys |-> job.context.keys, revision |-> 1, pending |-> 0]
        \/ pin' = [pin EXCEPT !.pending = job.context.keys]
    BY <1>1 DEF Outbox!Observed
  <2>3. CASE pin.revision = 0 /\ pin' = [keys |-> job.context.keys, revision |-> 1, pending |-> 0]
    BY <2>3, PinFacts, OutboxBounds
  <2>4. CASE pin' = [pin EXCEPT !.pending = job.context.keys]
    BY <2>1, <2>4, PinFacts
  <2> QED  BY <2>1, <2>2, <2>3, <2>4
<1>4. ratchet' \in 0..pin'.revision
  BY <1>1, <1>3, PinFacts
<1>5. WorldTypes'
  BY <1>1, <1>3, <1>4 DEF OutboxTypes, WorldTypes
<1>6. LineShort' /\ RowTypes'
  BY <1>1 DEF OutboxTypes, LineShort, RowTypes
<1> QED  BY <1>2, <1>5, <1>6, PlainJob DEF OutboxTypes

LEMMA AllocateTypes == ASSUME OutboxTypes, Outbox!SendAllocate PROVE OutboxTypes'
<1>1. UNCHANGED <<world, pin, row, line, turn>> /\ Fault /\ ratchet' \in {ratchet, pin.revision}
  BY DEF Outbox!SendAllocate, Fault
<1>2. job' = Outbox!NoJob \/ (\E at \in {"context", "peer", "allocate", "save", "upload", "cancel"} :
                                       job' = [job EXCEPT !.at = at])
  BY DEF Outbox!SendAllocate, Outbox!EndJob, Outbox!Step
<1>3. ratchet' \in 0..pin'.revision
  BY <1>1, PinFacts
<1>4. WorldTypes'
  BY <1>1, <1>3, FaultType DEF OutboxTypes, WorldTypes
<1>5. LineShort' /\ RowTypes'
  BY <1>1 DEF OutboxTypes, LineShort, RowTypes
<1> QED  BY <1>2, <1>4, <1>5, PlainJob DEF OutboxTypes

\* Other fields of a job.
LEMMA JobOf ==
    ASSUME NEW j, JobShape(j), NEW v, NEW k, k = [j EXCEPT !.of = v]
    PROVE  JobShape(k) /\ k.of = v /\ k.at = j.at
  BY DEF JobShape, JobFields

LEMMA JobTried ==
    ASSUME NEW j, JobShape(j), NEW v \in Nat, NEW k, k = [j EXCEPT !.tried = v]
    PROVE  JobShape(k) /\ k.of = j.of /\ k.at = j.at
  BY DEF JobShape, JobFields

LEMMA JobList ==
    ASSUME NEW j, JobShape(j), NEW v, Len(v) \in 0..OutboxMaxDrafts, NEW k, k = [j EXCEPT !.list = v]
    PROVE  JobShape(k) /\ k.of = j.of /\ k.at = j.at
  BY DEF JobShape, JobFields

LEMMA RowMarked ==
    ASSUME RowShapes, RowTypes, NEW e, NEW s \in Stages, row' = [row EXCEPT ![e].status = s]
    PROVE  RowTypes'
<1> SUFFICES ASSUME NEW d \in Outbox!Drafts PROVE row'[d].status \in Stages
  BY DEF RowTypes
<1>1. CASE d = e
  BY <1>1, Marked
<1>2. CASE d # e
  BY <1>2, Marked DEF RowTypes
<1> QED  BY <1>1, <1>2

LEMMA WorldStays ==
    ASSUME OutboxTypes, UNCHANGED <<world, pin, ratchet, line, turn>>, Fault
    PROVE  WorldTypes' /\ LineShort'
  BY FaultType DEF OutboxTypes, WorldTypes, LineShort

LEMMA SaveTypes == ASSUME OutboxInv, Outbox!SendSave PROVE OutboxTypes'
<1>1. UNCHANGED <<world, pin, ratchet, line, turn>> /\ Fault
  BY DEF Outbox!SendSave, Fault
<1>2. job' = Outbox!NoJob \/ (\E at \in {"context", "peer", "allocate", "save", "upload", "cancel"} :
                                       job' = [job EXCEPT !.at = at])
  BY DEF Outbox!SendSave, Outbox!EndJob, Outbox!Step
<1> DEFINE queued == [status |-> "queued", revision |-> pin.revision, keys |-> pin.keys, epoch |-> job.context.epoch]
<1>3. row' = row \/ row' = [row EXCEPT ![job.of] = queued]
  BY DEF Outbox!SendSave
<1>4. queued.status = "queued"
  OBVIOUS
<1> HIDE DEF queued
<1>5. RowTypes'
  BY <1>3, <1>4 DEF OutboxInv, OutboxTypes, RelayTold, RowShapes, RowTypes, Stages
<1>6. WorldTypes' /\ LineShort'
  BY <1>1, WorldStays DEF OutboxInv
<1> QED  BY <1>2, <1>5, <1>6, PlainJob DEF OutboxInv, OutboxTypes

\* A job done with a record of the outbox.
LEMMA OnwardJob == ASSUME OutboxTypes, Outbox!Onward \/ Outbox!EndJob PROVE JobShape(job)' /\ AsksSent'
<1>1. job' = Outbox!NoJob \/ job' = [job EXCEPT !.at = "next", !.of = 0]
  BY DEF Outbox!Onward, Outbox!EndJob
<1>2. CASE job' = Outbox!NoJob
  BY <1>2, PlainJob
<1>3. CASE job' = [job EXCEPT !.at = "next", !.of = 0]
  <2> DEFINE j == [job EXCEPT !.at = "next"]
  <2>1. JobShape(j) /\ j.at = "next"
    BY JobGoesOn DEF OutboxTypes
  <2>2. job' = [j EXCEPT !.of = 0]
    BY <1>3
  <2> HIDE DEF j
  <2>3. JobShape(job') /\ job'.at = "next"
    BY <2>1, <2>2, JobOf
  <2> QED  BY <2>3 DEF AsksSent
<1> QED  BY <1>1, <1>2, <1>3

LEMMA UploadTypes == ASSUME OutboxInv, Outbox!Upload PROVE OutboxTypes'
<1>1. UNCHANGED <<world, pin, ratchet, line, turn>> /\ Fault
  BY DEF Outbox!Upload, Outbox!Unanswered, Fault
<1>2. Outbox!Onward \/ Outbox!EndJob
  BY DEF Outbox!Upload, Outbox!Unanswered
<1>3. row' = row \/ \E s \in Stages : row' = [row EXCEPT ![job.of].status = s]
  <2>1. row' = row \/ \E s \in {"sent", "delivered"} : row' = Outbox!Confirmed(job.of, s)
    BY DEF Outbox!Upload
  <2>2. ASSUME NEW s \in {"sent", "delivered"}, row' = Outbox!Confirmed(job.of, s)
        PROVE  \E t \in Stages : row' = [row EXCEPT ![job.of].status = t]
    <3> DEFINE t == IF row[job.of].status = "delivered" THEN row[job.of].status ELSE s
    <3>1. row' = [row EXCEPT ![job.of].status = t]
      BY <2>2 DEF Outbox!Confirmed
    <3>2. t \in Stages
      BY DEF Stages
    <3> HIDE DEF t
    <3> QED  BY <3>1, <3>2
  <2> QED  BY <2>1, <2>2
<1>4. RowTypes'
  BY <1>3, RowMarked DEF OutboxInv, OutboxTypes, RelayTold, RowTypes
<1>5. WorldTypes' /\ LineShort'
  BY <1>1, WorldStays DEF OutboxInv
<1> QED  BY <1>2, <1>4, <1>5, OnwardJob DEF OutboxInv, OutboxTypes

LEMMA AskTypes == ASSUME OutboxInv, Outbox!AskStatus PROVE OutboxTypes'
<1>1. UNCHANGED <<world, pin, ratchet, line, turn>> /\ Fault
  BY DEF Outbox!AskStatus, Outbox!Unanswered, Fault
<1>2. Outbox!Onward \/ Outbox!EndJob
  BY DEF Outbox!AskStatus, Outbox!Unanswered
<1>3. RowTypes'
  <2>1. CASE row' = row
    BY <2>1 DEF OutboxInv, OutboxTypes, RowTypes
  <2>2. CASE row' = Outbox!Confirmed(job.of, relay[job.of])
    <3> DEFINE t == IF row[job.of].status = "delivered" THEN row[job.of].status ELSE relay[job.of]
    <3>1. row' = [row EXCEPT ![job.of].status = t]
      BY <2>2 DEF Outbox!Confirmed
    <3>2. CASE job.of \notin Outbox!Drafts
      BY <3>1, <3>2 DEF OutboxInv, OutboxTypes, RelayTold, RowShapes, RowTypes
    <3>3. CASE job.of \in Outbox!Drafts
      <4>1. row[job.of].status = "sent"
        BY <3>3 DEF OutboxInv, OutboxTypes, AsksSent, Outbox!AskStatus, Outbox!At
      <4>2. t \in Stages
        BY <3>3, <4>1 DEF OutboxInv, RelayTold, Outbox!OutboxTells, Stages
      <4> HIDE DEF t
      <4> QED  BY <3>1, <4>2, RowMarked DEF OutboxInv, OutboxTypes, RelayTold
    <3> QED  BY <3>2, <3>3
  <2> QED  BY <2>1, <2>2 DEF Outbox!AskStatus
<1>4. WorldTypes' /\ LineShort'
  BY <1>1, WorldStays DEF OutboxInv
<1> QED  BY <1>2, <1>3, <1>4, OnwardJob DEF OutboxInv, OutboxTypes

LEMMA CancelTypes == ASSUME OutboxInv, Outbox!RecoverCancel PROVE OutboxTypes'
<1>1. UNCHANGED <<world, pin, ratchet, line, turn>> /\ Fault
  BY DEF Outbox!RecoverCancel, Outbox!Unanswered, Fault
<1>2. job' = Outbox!NoJob
  BY DEF Outbox!RecoverCancel, Outbox!Unanswered, Outbox!EndJob
<1>3. RowTypes'
  <2>1. \/ row' = row
        \/ row' = [row EXCEPT ![job.of].status = "retired"]
        \/ row' = Outbox!Confirmed(job.of, "sent")
    BY DEF Outbox!RecoverCancel
  <2>2. CASE row' = row
    BY <2>2 DEF OutboxInv, OutboxTypes, RowTypes
  <2>3. CASE row' = [row EXCEPT ![job.of].status = "retired"]
    BY <2>3, RowMarked DEF OutboxInv, OutboxTypes, RelayTold, Stages
  <2>4. CASE row' = Outbox!Confirmed(job.of, "sent")
    <3> DEFINE t == IF row[job.of].status = "delivered" THEN row[job.of].status ELSE "sent"
    <3>1. row' = [row EXCEPT ![job.of].status = t]
      BY <2>4 DEF Outbox!Confirmed
    <3>2. t \in Stages
      BY DEF Stages
    <3> HIDE DEF t
    <3> QED  BY <3>1, <3>2, RowMarked DEF OutboxInv, OutboxTypes, RelayTold
  <2> QED  BY <2>1, <2>2, <2>3, <2>4
<1>4. WorldTypes' /\ LineShort'
  BY <1>1, WorldStays DEF OutboxInv
<1> QED  BY <1>2, <1>3, <1>4, PlainJob DEF OutboxInv, OutboxTypes

LEMMA ListTypes == ASSUME OutboxTypes, Outbox!ListOutbox PROVE OutboxTypes'
<1>1. UNCHANGED <<world, pin, ratchet, row, line, turn>> /\ Fault
  BY DEF Outbox!ListOutbox, Outbox!phone, Fault
<1> DEFINE list == Outbox!Undelivered
           j == [job EXCEPT !.at = "next"]
<1>2. Len(list) \in 0..OutboxMaxDrafts
  BY UndeliveredShort
<1>3. JobShape(j) /\ j.at = "next"
  BY JobGoesOn DEF OutboxTypes
<1>4. job' = [j EXCEPT !.list = list]
  BY DEF Outbox!ListOutbox
<1> HIDE DEF j, list
<1>5. JobShape(job') /\ job'.at = "next"
  BY <1>2, <1>3, <1>4, JobList
<1>6. AsksSent'
  BY <1>5 DEF AsksSent
<1> QED  BY <1>1, <1>5, <1>6, JobTypes

LEMMA RetryTypes == ASSUME OutboxTypes, Outbox!RetryNext PROVE OutboxTypes'
<1>1. UNCHANGED <<world, pin, ratchet, row, line>> /\ Fault
  BY DEF Outbox!RetryNext, Outbox!phone, Fault
<1>2. Len(job.list) \in Nat /\ Len(job.list) <= OutboxMaxDrafts /\ job.tried \in Nat
  BY OutboxBounds DEF OutboxTypes, JobShape
<1>3. turn' \in 0..OutboxMaxDrafts
  <2>1. CASE turn' = turn
    BY <2>1, PinFacts
  <2>2. CASE turn' # turn
    <3> DEFINE n == Len(job.list)
    <3>1. turn' = (turn + 1) % n /\ n > 0
      BY <1>2, <2>2 DEF Outbox!RetryNext, Outbox!NextRecord, Outbox!Passed, Outbox!Untried
    <3>2. turn + 1 \in Nat /\ n \in Nat \ {0} /\ n <= OutboxMaxDrafts
      BY <1>2, <3>1, PinFacts, OutboxBounds
    <3> HIDE DEF n
    <3>3. (turn + 1) % n \in 0..(n - 1)
      BY <3>2
    <3> QED  BY <3>1, <3>2, <3>3, OutboxBounds
  <2> QED  BY <2>1, <2>2
<1>4. JobShape(job)' /\ AsksSent'
  <2>1. \/ job' = Outbox!NoJob
        \/ \E d : \E at \in {"status", "upload"} :
              /\ at = "status" => row[d].status = "sent"
              /\ job' = [job EXCEPT !.at = at, !.of = d, !.tried = @ + 1]
    BY DEF Outbox!RetryNext, Outbox!NextRecord, Outbox!EndJob
  <2>2. CASE job' = Outbox!NoJob
    BY <2>2, PlainJob
  <2>3. ASSUME NEW d, NEW at \in {"status", "upload"}, at = "status" => row[d].status = "sent",
               job' = [job EXCEPT !.at = at, !.of = d, !.tried = @ + 1]
        PROVE  JobShape(job)' /\ AsksSent'
    <3> DEFINE j == [job EXCEPT !.at = at]
               k == [j EXCEPT !.of = d]
    <3>1. JobShape(j) /\ j.at = at
      BY JobGoesOn DEF OutboxTypes
    <3>2. k = [j EXCEPT !.of = d] /\ job' = [k EXCEPT !.tried = job.tried + 1]
      BY <2>3
    <3> HIDE DEF j, k
    <3>3. JobShape(k) /\ k.at = at /\ k.of = d
      BY <3>1, <3>2, JobOf
    <3>4. job.tried + 1 \in Nat
      BY <1>2
    <3>5. JobShape(job') /\ job'.at = at /\ job'.of = d
      BY <3>2, <3>3, <3>4, JobTried
    <3>6. AsksSent'
      BY <1>1, <2>3, <3>5 DEF AsksSent
    <3> QED  BY <3>5, <3>6
  <2> QED  BY <2>1, <2>2, <2>3
<1>5. WorldTypes'
  BY <1>1, <1>3, FaultType DEF OutboxTypes, WorldTypes
<1>6. LineShort' /\ RowTypes'
  BY <1>1 DEF OutboxTypes, LineShort, RowTypes
<1> QED  BY <1>4, <1>5, <1>6 DEF OutboxTypes

\* The line, and what happens around the phone.
LEMMA LineTypes ==
    ASSUME OutboxTypes, \/ Outbox!Reconcile \/ Outbox!StartJob
                        \/ \E d \in Outbox!Drafts : Outbox!Send(d) \/ Outbox!Recover(d)
    PROVE  OutboxTypes'
<1>1. UNCHANGED <<world, pin, ratchet, row, turn>> /\ outboxMishaps' = outboxMishaps
  BY DEF Outbox!Reconcile, Outbox!StartJob, Outbox!Send, Outbox!Recover, Outbox!phone
<1>2. LineShort' /\ JobShape(job)' /\ AsksSent'
  <2>1. CASE Outbox!StartJob
    BY <2>1, StartShort DEF OutboxTypes, AsksSent
  <2>2. CASE Outbox!Reconcile
    <3>1. Outbox!Enqueue("reconcile", 0) /\ job' = job
      BY <2>2 DEF Outbox!Reconcile
    <3> QED  BY <1>1, <3>1, EnqueueShort DEF OutboxTypes, AsksSent
  <2>3. ASSUME NEW d \in Outbox!Drafts, Outbox!Send(d) \/ Outbox!Recover(d) PROVE LineShort' /\ JobShape(job)' /\ AsksSent'
    <3>1. job' = job /\ \E k \in {"send", "recover"} : Outbox!Enqueue(k, d)
      BY <2>3 DEF Outbox!Send, Outbox!Recover
    <3> QED  BY <1>1, <3>1, EnqueueShort DEF OutboxTypes, AsksSent
  <2> QED  BY <2>1, <2>2, <2>3
<1>3. WorldTypes' /\ RowTypes'
  BY <1>1 DEF OutboxTypes, WorldTypes, RowTypes
<1> QED  BY <1>2, <1>3 DEF OutboxTypes

LEMMA WorldMoves ==
    ASSUME OutboxTypes, \/ Outbox!EpochMoves \/ Outbox!PeerReinstalls \/ Outbox!Acknowledge
                        \/ \E d \in Outbox!Drafts : Outbox!Deliver(d)
    PROVE  OutboxTypes'
<1>1. UNCHANGED <<row, line, job, turn>> /\ outboxMishaps' = outboxMishaps
  BY DEF Outbox!EpochMoves, Outbox!PeerReinstalls, Outbox!Acknowledge, Outbox!Deliver, Outbox!phone
<1>2. world' \in [epoch : 1..MaxEpoch, keys : 1..MaxKeys]
  <2>1. world \in [epoch : 1..MaxEpoch, keys : 1..MaxKeys]
    BY DEF OutboxTypes, WorldTypes
  <2>2. CASE Outbox!EpochMoves
    BY <2>1, <2>2, OutboxBounds DEF Outbox!EpochMoves
  <2>3. CASE Outbox!PeerReinstalls
    BY <2>1, <2>3, OutboxBounds DEF Outbox!PeerReinstalls
  <2>4. CASE world' = world
    BY <2>1, <2>4
  <2> QED  BY <2>2, <2>3, <2>4 DEF Outbox!Acknowledge, Outbox!Deliver
<1>3. pin' \in [keys : 0..MaxKeys, revision : Nat, pending : 0..MaxKeys] /\ ratchet' \in 0..pin'.revision
  <2>1. CASE Outbox!Acknowledge
    BY <2>1, PinFacts, OutboxBounds DEF Outbox!Acknowledge
  <2>2. CASE pin' = pin /\ ratchet' = ratchet
    BY <2>2 DEF OutboxTypes, WorldTypes
  <2> QED  BY <2>1, <2>2 DEF Outbox!EpochMoves, Outbox!PeerReinstalls, Outbox!Deliver, Outbox!phone
<1>4. WorldTypes'
  BY <1>1, <1>2, <1>3 DEF OutboxTypes, WorldTypes
<1>5. LineShort' /\ RowTypes' /\ JobShape(job)' /\ AsksSent'
  BY <1>1 DEF OutboxTypes, LineShort, RowTypes, AsksSent
<1> QED  BY <1>4, <1>5 DEF OutboxTypes

LEMMA RestartTypes == ASSUME OutboxTypes, Outbox!Restart PROVE OutboxTypes'
<1>1. /\ UNCHANGED <<world, pin, ratchet, row>> /\ Fault
      /\ job' = Outbox!NoJob /\ line' = <<>> /\ turn' = 0
  BY DEF Outbox!Restart, Outbox!phone, Fault
<1>2. WorldTypes'
  BY <1>1, FaultType, OutboxBounds DEF OutboxTypes, WorldTypes
<1>3. line' \in Seq(JobSet) /\ Len(line') = 0
  BY <1>1
<1>4. LineShort'
  BY <1>3, OutboxBounds DEF LineShort
<1>5. RowTypes' /\ JobShape(job)' /\ AsksSent'
  BY <1>1, PlainJob DEF OutboxTypes, RowTypes
<1> QED  BY <1>2, <1>4, <1>5 DEF OutboxTypes

LEMMA OutboxStay == ASSUME OutboxInv, UNCHANGED outboxState PROVE OutboxInv'
<1>1. RelayTold'
  BY RowsStay DEF OutboxInv, outboxState
<1>2. WorldTypes' /\ LineShort' /\ RowTypes' /\ JobShape(job)' /\ AsksSent'
  BY DEF outboxState, OutboxInv, OutboxTypes, WorldTypes, LineShort, RowTypes, AsksSent
<1> QED  BY <1>1, <1>2 DEF OutboxInv, OutboxTypes

LEMMA OutboxNextInv == ASSUME OutboxInv, Outbox!OutboxNext \/ UNCHANGED outboxState PROVE OutboxInv'
<1>1. CASE Outbox!OutboxNext
  <2>1. RelayTold'
    BY <1>1, ToldNext DEF OutboxInv
  <2>2. OutboxTypes /\ (Outbox!Working => OutboxTypes')
    BY SavedTypes, ContextTypes, PeerTypes, AllocateTypes, SaveTypes, UploadTypes, ListTypes, RetryTypes,
       AskTypes, CancelTypes, LineTypes DEF OutboxInv, Outbox!Working
  <2>3. OutboxTypes'
    BY <1>1, <2>2, SavedTypes, LineTypes, WorldMoves, RestartTypes DEF Outbox!OutboxNext
  <2> QED  BY <2>1, <2>3 DEF OutboxInv
<1> QED  BY <1>1, OutboxStay

-----------------------------------------------------------------------------
(* PART 3.  The track that plays.  A friend has one update queued at most, the *)
(* last, and has received those before it.                                   *)

Songs == {Playing!Nothing} \cup Playing!Tracks
Update == [what : Songs, fresh : BOOLEAN, status : {"queued", "sent"}]

Asked ==
    /\ media \in Songs /\ stored \in BOOLEAN /\ front \in BOOLEAN
    /\ settings \in [phase : {"idle", "loading", "ready", "error"}, sharing : BOOLEAN, track : Songs]
    /\ reads \subseteq [by : {"mount", "life", "screen"}, loads : BOOLEAN, sharing : BOOLEAN, track : Songs]
    /\ writes \in Seq(BOOLEAN)

Fanning ==
    /\ fan \in [on : BOOLEAN, next : SUBSET Songs, target : Songs, friend : 0..MaxFriends,
                at : {"friend", "resend", "upload"}, row : Nat]
    /\ \A a, b \in fan.next : a = b
    /\ fan.friend # 0 /\ fan.at # "friend" => fan.row \in 1..Len(rows[fan.friend])

Updates ==
    /\ rows \in [Playing!Friends -> Seq(Update)]
    /\ seen \in [Playing!Friends -> Seq(Nat)]

InOrder ==
    \A f \in Playing!Friends :
        /\ seen[f] = [i \in 1..Len(seen[f]) |-> i]
        /\ Len(seen[f]) <= Len(rows[f])
        /\ \A i \in 1..Len(rows[f]) : /\ rows[f][i].status = "sent" => i <= Len(seen[f])
                                      /\ rows[f][i].status = "queued" => i = Len(rows[f])

PlayInv == Asked /\ Fanning /\ Updates /\ InOrder

LEMMA PlayBounds == MaxFriends \in Nat /\ MaxFriends >= 1 /\ 1 \in Playing!Friends
  BY SendBounds DEF Playing!Friends

LEMMA PlayCount == \A S : Playing!Cardinality(S) = Cardinality(S)
  BY DEF Playing!Cardinality, Cardinality

LEMMA AtMostOne == ASSUME NEW S, \A a, b \in S : a = b PROVE Playing!Cardinality(S) <= 1
<1>1. CASE S = {}
  BY <1>1, FS_EmptySet, PlayCount
<1>2. CASE S # {}
  <2>1. PICK a : S = {a}
    BY <1>2
  <2>2. Cardinality({a}) = 1
    BY FS_Singleton
  <2> QED  BY <2>1, <2>2, PlayCount
<1> QED  BY <1>1, <1>2

LEMMA PlayInvSays == PlayInv => Playing!PlayTypeOK /\ Playing!UpdatesInOrder
<1> SUFFICES ASSUME PlayInv PROVE Playing!PlayTypeOK /\ Playing!UpdatesInOrder
  OBVIOUS
<1>1. Playing!UpdatesInOrder
  BY DEF PlayInv, InOrder, Playing!UpdatesInOrder
<1>2. Playing!Cardinality(fan.next) <= 1
  BY AtMostOne DEF PlayInv, Fanning
<1>3. ASSUME NEW f \in Playing!Friends, NEW i \in DOMAIN seen[f] PROVE seen[f][i] \in DOMAIN rows[f]
  <2>1. seen[f] \in Seq(Nat) /\ rows[f] \in Seq(Update)
    BY DEF PlayInv, Updates
  <2>2. DOMAIN seen[f] = 1..Len(seen[f]) /\ DOMAIN rows[f] = 1..Len(rows[f]) /\ Len(seen[f]) \in Nat /\ Len(rows[f]) \in Nat
    BY <2>1, LenProperties
  <2>3. seen[f][i] = i /\ Len(seen[f]) <= Len(rows[f])
    BY <2>2 DEF PlayInv, InOrder
  <2> QED  BY <2>2, <2>3
<1>4. media \in Songs /\ stored \in BOOLEAN /\ front \in BOOLEAN
  BY DEF PlayInv, Asked
<1>5. settings.phase \in {"idle", "loading", "ready", "error"} /\ settings.sharing \in BOOLEAN
  BY DEF PlayInv, Asked
<1>6. fan.friend \in 0..MaxFriends
  BY DEF PlayInv, Fanning
<1>7. Playing!PlayTypeOK
  BY <1>2, <1>3, <1>4, <1>5, <1>6 DEF Playing!PlayTypeOK, Songs
<1> QED  BY <1>1, <1>7

LEMMA PlayInitInv == ASSUME NEW c, c \subseteq BOOLEAN, Playing!PlayInit(c) PROVE PlayInv
<1>1. Asked
  BY DEF Playing!PlayInit, Playing!Idle, Asked, Songs
<1>2. fan = [on |-> FALSE, next |-> {}, target |-> Playing!Nothing, friend |-> 0, at |-> "friend", row |-> 0]
  BY DEF Playing!PlayInit, Playing!Asleep
<1>3. Fanning
  BY <1>2, PlayBounds DEF Fanning, Songs
<1>4. \A f \in Playing!Friends : rows[f] = <<>> /\ seen[f] = <<>>
  BY DEF Playing!PlayInit
<1>5. Updates
  BY DEF Playing!PlayInit, Updates
<1>6. InOrder
  BY <1>4 DEF InOrder
<1> QED  BY <1>1, <1>3, <1>5, <1>6 DEF PlayInv

\* What is queued for a friend is its last update.
LEMMA QueuedLast ==
    ASSUME PlayInv, NEW f \in Playing!Friends
    PROVE  /\ DOMAIN rows[f] = 1..Len(rows[f]) /\ Len(rows[f]) \in Nat /\ Len(seen[f]) \in Nat
           /\ rows[f] \in Seq(Update) /\ seen[f] \in Seq(Nat)
           /\ \A i \in Playing!Queued(f) : i = Len(rows[f]) /\ i \in 1..Len(rows[f])
<1>1. rows[f] \in Seq(Update) /\ seen[f] \in Seq(Nat)
  BY DEF PlayInv, Updates
<1>2. DOMAIN rows[f] = 1..Len(rows[f]) /\ Len(rows[f]) \in Nat /\ Len(seen[f]) \in Nat
  BY <1>1, LenProperties
<1> QED  BY <1>1, <1>2 DEF PlayInv, InOrder, Playing!Queued

\* An update reaches its friend: it was there before, or is the next one.
LEMMA TakenInOrder ==
    ASSUME PlayInv, NEW f \in Playing!Friends, NEW i \in 1..Len(rows[f])
    PROVE  LET s == Playing!Taken(f, i)[f]
           IN /\ Playing!Taken(f, i) \in [Playing!Friends -> Seq(Nat)]
              /\ \A g \in Playing!Friends \ {f} : Playing!Taken(f, i)[g] = seen[g]
              /\ s = [k \in 1..Len(s) |-> k] /\ Len(s) \in Nat /\ Len(s) <= Len(rows[f])
              /\ i <= Len(s) /\ Len(seen[f]) <= Len(s)
<1> DEFINE n == Len(seen[f])
           t == IF Playing!Contains(seen[f], i) THEN seen[f] ELSE Append(seen[f], i)
<1>1. seen \in [Playing!Friends -> Seq(Nat)] /\ Playing!Taken(f, i) = [seen EXCEPT ![f] = t]
  BY DEF PlayInv, Updates, Playing!Taken
<1>2. n \in Nat /\ Len(rows[f]) \in Nat /\ seen[f] \in Seq(Nat) /\ i \in Nat
  BY QueuedLast
<1>3. seen[f] = [k \in 1..n |-> k] /\ n <= Len(rows[f])
  BY DEF PlayInv, InOrder
<1>4. Playing!Contains(seen[f], i) <=> i <= n
  BY <1>2, <1>3 DEF Playing!Contains
<1>5. n >= Len(rows[f]) - 1
  <2>1. CASE Len(rows[f]) <= 1
    BY <1>2, <2>1
  <2>2. CASE Len(rows[f]) > 1
    <3> DEFINE m == Len(rows[f]) - 1
    <3>1. m \in 1..Len(rows[f]) /\ m # Len(rows[f]) /\ m \in DOMAIN rows[f]
      BY <1>2, <2>2, QueuedLast
    <3>2. rows[f][m] \in Update
      BY <3>1, QueuedLast
    <3>3. rows[f][m].status \in {"queued", "sent"}
      BY <3>2 DEF Update
    <3>4. rows[f][m].status = "sent"
      BY <3>1, <3>3 DEF PlayInv, InOrder
    <3> QED  BY <3>1, <3>4 DEF PlayInv, InOrder
  <2> QED  BY <1>2, <2>1, <2>2
<1>6. CASE i <= n
  <2>1. t = seen[f]
    BY <1>4, <1>6
  <2> HIDE DEF t
  <2> QED  BY <1>1, <1>2, <1>3, <1>6, <2>1
<1>7. CASE i = n + 1
  <2>1. t = Append(seen[f], i)
    BY <1>2, <1>4, <1>7
  <2> HIDE DEF t
  <2>2. t \in Seq(Nat) /\ Len(t) = n + 1
    BY <1>2, <2>1, AppendProperties
  <2>3. \A k \in 1..n + 1 : t[k] = k
    BY <1>2, <1>3, <1>7, <2>1, AppendProperties
  <2>4. DOMAIN t = 1..n + 1 /\ t = [k \in 1..n + 1 |-> t[k]]
    BY <2>2
  <2>5. t = [k \in 1..n + 1 |-> k]
    BY <2>3, <2>4
  <2>6. Playing!Taken(f, i)[f] = t /\ \A g \in Playing!Friends \ {f} : Playing!Taken(f, i)[g] = seen[g]
    BY <1>1
  <2>7. Playing!Taken(f, i) \in [Playing!Friends -> Seq(Nat)]
    BY <1>1, <2>2
  <2>8. t = [k \in 1..Len(t) |-> k]
    BY <2>2, <2>5
  <2>9. Len(t) \in Nat /\ Len(t) <= Len(rows[f]) /\ i <= Len(t) /\ Len(seen[f]) <= Len(t)
    BY <1>2, <1>7, <2>2
  <2> HIDE DEF n
  <2> QED  BY <2>6, <2>7, <2>8, <2>9
<1>8. i <= n \/ i = n + 1
  BY <1>2, <1>5
<1> QED  BY <1>6, <1>7, <1>8

\* A row is marked as sent.
LEMMA MarkedSent ==
    ASSUME PlayInv, NEW f \in Playing!Friends, NEW i \in 1..Len(rows[f])
    PROVE  LET marked == Playing!Confirmed(f, i)
           IN /\ marked \in [Playing!Friends -> Seq(Update)]
              /\ \A g \in Playing!Friends : Len(marked[g]) = Len(rows[g])
              /\ \A g \in Playing!Friends \ {f} : marked[g] = rows[g]
              /\ \A k \in 1..Len(rows[f]) : k # i => marked[f][k] = rows[f][k]
              /\ marked[f][i].status = "sent"
<1>1. rows \in [Playing!Friends -> Seq(Update)] /\ rows[f] \in Seq(Update) /\ DOMAIN rows[f] = 1..Len(rows[f])
  BY QueuedLast DEF PlayInv, Updates
<1> DEFINE u == [rows[f][i] EXCEPT !.status = "sent"]
           list == [rows[f] EXCEPT ![i] = u]
<1>2. Playing!Confirmed(f, i) = [rows EXCEPT ![f] = list]
  BY <1>1 DEF Playing!Confirmed
<1>3. rows[f][i] \in Update
  BY <1>1
<1>4. u \in Update /\ u.status = "sent"
  BY <1>3 DEF Update
<1> HIDE DEF u
<1>5. list \in Seq(Update) /\ Len(list) = Len(rows[f])
  BY <1>1, <1>4
<1>6. list[i] = u /\ \A k \in 1..Len(rows[f]) : k # i => list[k] = rows[f][k]
  BY <1>1
<1> HIDE DEF list
<1> QED  BY <1>1, <1>2, <1>4, <1>5, <1>6

\* An update that was taken and, if its answer came, marked.
LEMMA TakenInv ==
    ASSUME PlayInv, NEW f \in Playing!Friends, NEW i \in 1..Len(rows[f]),
           seen' = Playing!Taken(f, i), rows' = rows \/ rows' = Playing!Confirmed(f, i)
    PROVE  /\ Updates' /\ InOrder' /\ \A g \in Playing!Friends : Len(rows'[g]) = Len(rows[g])
<1> DEFINE s == Playing!Taken(f, i)[f]
<1>1. /\ seen' \in [Playing!Friends -> Seq(Nat)] /\ seen'[f] = s
      /\ \A g \in Playing!Friends \ {f} : seen'[g] = seen[g]
      /\ s = [k \in 1..Len(s) |-> k] /\ Len(s) \in Nat /\ Len(s) <= Len(rows[f])
      /\ i <= Len(s) /\ Len(seen[f]) <= Len(s)
  BY TakenInOrder
<1>2. /\ rows' \in [Playing!Friends -> Seq(Update)]
      /\ \A g \in Playing!Friends : Len(rows'[g]) = Len(rows[g])
      /\ \A g \in Playing!Friends \ {f} : rows'[g] = rows[g]
      /\ \A k \in 1..Len(rows[f]) : k # i => rows'[f][k] = rows[f][k]
      /\ rows'[f][i] = rows[f][i] \/ rows'[f][i].status = "sent"
  <2>1. CASE rows' = rows
    BY <2>1 DEF PlayInv, Updates
  <2>2. CASE rows' = Playing!Confirmed(f, i)
    BY <2>2, MarkedSent
  <2> QED  BY <2>1, <2>2
<1> HIDE DEF s
<1>3. ASSUME NEW g \in Playing!Friends, NEW k \in 1..Len(rows'[g])
      PROVE  /\ rows'[g][k].status = "sent" => k <= Len(seen'[g])
             /\ rows'[g][k].status = "queued" => k = Len(rows'[g])
  <2>1. k \in 1..Len(rows[g]) /\ Len(rows'[g]) = Len(rows[g]) /\ k \in Nat
    BY <1>2
  <2>2. /\ rows[g][k].status = "sent" => k <= Len(seen[g])
        /\ rows[g][k].status = "queued" => k = Len(rows[g])
    BY <2>1 DEF PlayInv, InOrder
  <2>3. CASE g # f
    BY <1>1, <1>2, <2>1, <2>2, <2>3
  <2>4. CASE g = f /\ k # i
    <3>1. rows'[g][k] = rows[g][k] /\ seen'[g] = s /\ Len(seen[g]) \in Nat
      BY <1>1, <1>2, <2>1, <2>4, QueuedLast
    <3> QED  BY <1>1, <2>1, <2>2, <2>4, <3>1
  <2>5. CASE g = f /\ k = i
    <3>1. k <= Len(seen'[g])
      BY <1>1, <2>5
    <3>2. rows'[g][k].status = "queued" => rows'[g][k] = rows[g][k]
      BY <1>2, <2>5
    <3> QED  BY <2>1, <2>2, <3>1, <3>2
  <2> QED  BY <2>3, <2>4, <2>5
<1>4. ASSUME NEW g \in Playing!Friends
      PROVE  seen'[g] = [k \in 1..Len(seen'[g]) |-> k] /\ Len(seen'[g]) <= Len(rows'[g])
  BY <1>1, <1>2 DEF PlayInv, InOrder
<1>5. InOrder'
  BY <1>3, <1>4 DEF InOrder
<1> QED  BY <1>1, <1>2, <1>5 DEF Updates

\* Steps that leave the updates alone.
LEMMA RowsAlone == ASSUME PlayInv, UNCHANGED <<rows, seen>> PROVE Updates' /\ InOrder'
  BY DEF PlayInv, Updates, InOrder

LEMMA FanAlone == ASSUME PlayInv, fan' = fan, \A f \in Playing!Friends : Len(rows'[f]) = Len(rows[f]) PROVE Fanning'
<1>1. fan.friend # 0 => fan.friend \in Playing!Friends
  BY DEF PlayInv, Fanning, Playing!Friends
<1> QED  BY <1>1 DEF PlayInv, Fanning

LEMMA AskedAlone == ASSUME PlayInv, UNCHANGED <<media, stored, settings, reads, writes, front>> PROVE Asked'
  BY DEF PlayInv, Asked

\* The setting, its reads and its writes.
LEMMA ReadTypes ==
    ASSUME PlayInv, NEW by \in {"mount", "life", "screen"}, Playing!Read(by)
    PROVE  /\ reads' \subseteq [by : {"mount", "life", "screen"}, loads : BOOLEAN, sharing : BOOLEAN, track : Songs]
           /\ settings' \in [phase : {"idle", "loading", "ready", "error"}, sharing : BOOLEAN, track : Songs]
<1> DEFINE l == by = "mount" \/ settings.phase # "ready"
           sh == IF l THEN stored ELSE settings.sharing
           r == [by |-> by, loads |-> l, sharing |-> sh, track |-> Playing!ActiveTrack(sh)]
<1>1. /\ reads' = reads \cup {r}
      /\ settings' = IF l THEN [settings EXCEPT !.phase = "loading"] ELSE settings
  BY DEF Playing!Read
<1>2. sh \in BOOLEAN /\ l \in BOOLEAN
  BY DEF PlayInv, Asked
<1>3. \A x : Playing!ActiveTrack(x) \in Songs
  BY DEF PlayInv, Asked, Playing!ActiveTrack, Songs
<1> HIDE DEF sh, l
<1>4. r \in [by : {"mount", "life", "screen"}, loads : BOOLEAN, sharing : BOOLEAN, track : Songs]
  BY <1>2, <1>3
<1> QED  BY <1>1, <1>4 DEF PlayInv, Asked

LEMMA MountInv == ASSUME PlayInv, Playing!Mount \/ Playing!Poll PROVE PlayInv'
<1>1. UNCHANGED <<media, stored, writes, front, fan, rows, seen>> /\ \E by \in {"mount", "life", "screen"} : Playing!Read(by)
  BY DEF Playing!Mount, Playing!Poll, Playing!sent
<1>2. Asked'
  BY <1>1, ReadTypes DEF PlayInv, Asked
<1> QED  BY <1>1, <1>2, RowsAlone, FanAlone DEF PlayInv

LEMMA ReadDoneInv == ASSUME PlayInv, NEW r \in reads, Playing!ReadDone(r) PROVE PlayInv'
<1>1. /\ UNCHANGED <<media, stored, writes, front, rows, seen>> /\ reads' = reads \ {r}
      /\ settings' = [phase |-> "ready", sharing |-> IF r.loads THEN r.sharing ELSE settings.sharing, track |-> r.track]
      /\ fan' = fan \/ fan' = Playing!Requested
  BY DEF Playing!ReadDone
<1>2. r.loads \in BOOLEAN /\ r.sharing \in BOOLEAN /\ r.track \in Songs /\ settings.sharing \in BOOLEAN
  BY DEF PlayInv, Asked
<1>3. settings' \in [phase : {"idle", "loading", "ready", "error"}, sharing : BOOLEAN, track : Songs]
  BY <1>1, <1>2
<1>4. Asked'
  BY <1>1, <1>3 DEF PlayInv, Asked
<1>5. Fanning'
  <2>1. CASE fan' = fan
    BY <1>1, <2>1, FanAlone
  <2>2. CASE fan' = Playing!Requested
    <3> DEFINE t == IF settings'.sharing THEN settings'.track ELSE Playing!Nothing
               v == [fan EXCEPT !.on = TRUE]
    <3>1. t \in Songs
      BY <1>3 DEF Songs
    <3>2. fan' = [v EXCEPT !.next = {t}]
      BY <2>2 DEF Playing!Requested
    <3>3. v \in [on : BOOLEAN, next : SUBSET Songs, target : Songs, friend : 0..MaxFriends,
                 at : {"friend", "resend", "upload"}, row : Nat]
          /\ v.friend = fan.friend /\ v.at = fan.at /\ v.row = fan.row
      BY DEF PlayInv, Fanning
    <3> HIDE DEF t, v
    <3>4. fan' \in [on : BOOLEAN, next : SUBSET Songs, target : Songs, friend : 0..MaxFriends,
                    at : {"friend", "resend", "upload"}, row : Nat]
          /\ fan'.friend = fan.friend /\ fan'.at = fan.at /\ fan'.row = fan.row /\ fan'.next = {t}
      BY <3>1, <3>2, <3>3
    <3> QED  BY <1>1, <3>4 DEF PlayInv, Fanning
  <2> QED  BY <1>1, <2>1, <2>2
<1> QED  BY <1>1, <1>4, <1>5, RowsAlone DEF PlayInv

LEMMA ReadFailsInv == ASSUME PlayInv, NEW r \in reads, Playing!ReadFails(r) PROVE PlayInv'
<1>1. /\ UNCHANGED <<media, stored, writes, front, fan, rows, seen>> /\ reads' = reads \ {r}
      /\ settings' = [settings EXCEPT !.phase = "error"]
  BY DEF Playing!ReadFails, Playing!sent
<1>2. settings' \in [phase : {"idle", "loading", "ready", "error"}, sharing : BOOLEAN, track : Songs]
  BY <1>1 DEF PlayInv, Asked
<1>3. Asked'
  BY <1>1, <1>2 DEF PlayInv, Asked
<1> QED  BY <1>1, <1>3, RowsAlone, FanAlone DEF PlayInv

LEMMA SharingInv == ASSUME PlayInv, NEW on \in BOOLEAN, Playing!SetSharing(on) PROVE PlayInv'
<1>1. /\ UNCHANGED <<media, stored, reads, front, fan, rows, seen>>
      /\ settings' = settings \/ settings' = [settings EXCEPT !.sharing = FALSE, !.track = Playing!Nothing]
      /\ writes' = Append(writes, on)
  BY DEF Playing!SetSharing, Playing!sent
<1>2. settings' \in [phase : {"idle", "loading", "ready", "error"}, sharing : BOOLEAN, track : Songs]
  <2>1. settings \in [phase : {"idle", "loading", "ready", "error"}, sharing : BOOLEAN, track : Songs]
    BY DEF PlayInv, Asked
  <2> DEFINE v == [settings EXCEPT !.sharing = FALSE]
  <2>2. v \in [phase : {"idle", "loading", "ready", "error"}, sharing : BOOLEAN, track : Songs]
    BY <2>1
  <2>3. settings' = settings \/ settings' = [v EXCEPT !.track = Playing!Nothing]
    BY <1>1
  <2> HIDE DEF v
  <2> QED  BY <2>1, <2>2, <2>3 DEF Songs
<1>3. writes' \in Seq(BOOLEAN)
  BY <1>1, AppendProperties DEF PlayInv, Asked
<1>4. Asked'
  BY <1>1, <1>2, <1>3 DEF PlayInv, Asked
<1> QED  BY <1>1, <1>4, RowsAlone, FanAlone DEF PlayInv

LEMMA WrittenInv == ASSUME PlayInv, Playing!Written \/ Playing!WriteFails PROVE PlayInv'
<1>1. writes \in Seq(BOOLEAN) /\ writes # <<>> /\ writes' = Tail(writes)
  BY DEF PlayInv, Asked, Playing!Written, Playing!WriteFails
<1>2. writes' \in Seq(BOOLEAN) /\ Head(writes) \in BOOLEAN
  BY <1>1, HeadTailProperties
<1>3. UNCHANGED <<media, front, fan, rows, seen>>
  BY DEF Playing!Written, Playing!WriteFails, Playing!sent
<1>4. Asked'
  <2>1. CASE Playing!WriteFails
    BY <1>2, <2>1 DEF PlayInv, Asked, Playing!WriteFails
  <2>2. CASE Playing!Written
    <3> DEFINE h == Head(writes)
               v == [settings EXCEPT !.sharing = h]
               r == [by |-> "screen", loads |-> settings.phase # "ready", sharing |-> h, track |-> Playing!ActiveTrack(h)]
    <3>1. stored' = h /\ settings' = [v EXCEPT !.track = Playing!ActiveTrack(h)] /\ reads' = reads \cup {r}
      BY <2>2 DEF Playing!Written, Playing!Store
    <3>2. h \in BOOLEAN /\ Playing!ActiveTrack(h) \in Songs
      BY <1>2 DEF PlayInv, Asked, Playing!ActiveTrack, Songs
    <3>3. r \in [by : {"mount", "life", "screen"}, loads : BOOLEAN, sharing : BOOLEAN, track : Songs]
      BY <3>2
    <3>4. v \in [phase : {"idle", "loading", "ready", "error"}, sharing : BOOLEAN, track : Songs]
      BY <3>2 DEF PlayInv, Asked
    <3> HIDE DEF h, v, r
    <3>5. settings' \in [phase : {"idle", "loading", "ready", "error"}, sharing : BOOLEAN, track : Songs]
      BY <3>1, <3>2, <3>4
    <3>6. reads' \subseteq [by : {"mount", "life", "screen"}, loads : BOOLEAN, sharing : BOOLEAN, track : Songs]
      BY <3>1, <3>3 DEF PlayInv, Asked
    <3> QED  BY <1>2, <1>3, <3>1, <3>2, <3>5, <3>6 DEF PlayInv, Asked
  <2> QED  BY <2>1, <2>2
<1> QED  BY <1>3, <1>4, RowsAlone, FanAlone DEF PlayInv

LEMMA QuietInv ==
    ASSUME PlayInv, Playing!Foreground \/ Playing!Background \/ Playing!Interval \/ Playing!Change \/ UNCHANGED playingState
    PROVE  PlayInv'
<1>1. UNCHANGED <<stored, settings, reads, writes, fan, rows, seen>> /\ front' \in BOOLEAN /\ media' \in Songs
  BY DEF PlayInv, Asked, Songs, Playing!Foreground, Playing!Background, Playing!Interval, Playing!Change,
         Playing!asked, Playing!sent, playingState
<1>2. Asked'
  BY <1>1 DEF PlayInv, Asked
<1> QED  BY <1>1, <1>2, RowsAlone, FanAlone DEF PlayInv

LEMMA FanInit ==
    ASSUME PlayInv, NEW n \in SUBSET Songs, \A a, b \in n : a = b,
           fan' = [on |-> FALSE, next |-> n, target |-> Playing!Nothing, friend |-> 0, at |-> "friend", row |-> 0]
    PROVE  Fanning'
  BY PlayBounds DEF Fanning, Songs

LEMMA PlayRestartInv == ASSUME PlayInv, Playing!Restart PROVE PlayInv'
<1>1. /\ UNCHANGED <<media, stored, rows, seen>> /\ front' = TRUE /\ reads' = {} /\ writes' = <<>>
      /\ settings' = Playing!Idle /\ fan' = Playing!Asleep
  BY DEF Playing!Restart
<1>2. Asked'
  BY <1>1 DEF PlayInv, Asked, Playing!Idle, Songs
<1>3. Fanning'
  BY <1>1, FanInit DEF Playing!Asleep
<1> QED  BY <1>1, <1>2, <1>3, RowsAlone DEF PlayInv

\* The fanout.
FanType == [on : BOOLEAN, next : SUBSET Songs, target : Songs, friend : 0..MaxFriends,
            at : {"friend", "resend", "upload"}, row : Nat]

LEMMA StartInv == ASSUME PlayInv, Playing!PublishStart PROVE PlayInv'
<1>1. UNCHANGED <<media, stored, settings, reads, writes, front, rows, seen>>
  BY DEF Playing!PublishStart, Playing!asked
<1>2. PICK target \in fan.next, friend \in {0, 1} :
        fan' = [fan EXCEPT !.next = {}, !.target = target, !.at = "friend", !.friend = friend]
  BY DEF Playing!PublishStart
<1> DEFINE a == [fan EXCEPT !.next = {}]
           b == [a EXCEPT !.target = target]
           c == [b EXCEPT !.at = "friend"]
<1>3. fan \in FanType /\ target \in Songs /\ friend \in 0..MaxFriends
  BY PlayBounds DEF PlayInv, Fanning, FanType
<1>4. fan' = [c EXCEPT !.friend = friend]
  BY <1>2
<1>5. a \in FanType /\ a.next = {}
  BY <1>3 DEF FanType
<1> HIDE DEF a
<1>6. b \in FanType /\ b.next = {}
  BY <1>3, <1>5 DEF FanType, b
<1> HIDE DEF b
<1>7. c \in FanType /\ c.next = {} /\ c.at = "friend"
  BY <1>6 DEF FanType, c
<1> HIDE DEF c
<1>8. fan' \in FanType /\ fan'.next = {} /\ fan'.at = "friend"
  BY <1>3, <1>4, <1>7 DEF FanType
<1>9. Fanning'
  BY <1>8 DEF Fanning, FanType
<1> QED  BY <1>1, <1>9, AskedAlone, RowsAlone DEF PlayInv

LEMMA DrainedInv == ASSUME PlayInv, Playing!Drained PROVE PlayInv'
<1>1. UNCHANGED <<media, stored, settings, reads, writes, front, rows, seen>> /\ fan' = Playing!Asleep
  BY DEF Playing!Drained, Playing!asked
<1>2. Fanning'
  BY <1>1, FanInit DEF Playing!Asleep
<1> QED  BY <1>1, <1>2, AskedAlone, RowsAlone DEF PlayInv

\* The next friend.
LEMMA NextInFan ==
    ASSUME PlayInv, fan' = Playing!NextFriend
    PROVE  Fanning'
<1> DEFINE n == (fan.friend + 1) % (MaxFriends + 1)
           a == [fan EXCEPT !.friend = n]
<1>1. fan \in FanType /\ fan.friend \in Nat
  BY PlayBounds DEF PlayInv, Fanning, FanType
<1>2. n \in 0..MaxFriends
  <2>1. fan.friend + 1 \in Nat /\ MaxFriends + 1 \in Nat \ {0}
    BY <1>1, PlayBounds
  <2>2. \A x \in Nat, y \in Nat \ {0} : x % y \in 0..(y - 1)
    OBVIOUS
  <2>3. n \in 0..((MaxFriends + 1) - 1)
    BY <2>1, <2>2
  <2> QED  BY <2>3, PlayBounds
<1>3. fan' = [a EXCEPT !.at = "friend"]
  BY DEF Playing!NextFriend
<1> HIDE DEF n
<1>4. a \in FanType /\ a.next = fan.next
  BY <1>1, <1>2 DEF FanType
<1> HIDE DEF a
<1>5. fan' \in FanType /\ fan'.next = fan.next /\ fan'.at = "friend"
  BY <1>3, <1>4 DEF FanType
<1> QED  BY <1>5 DEF PlayInv, Fanning, FanType

\* What the fanout is at.
LEMMA FanAt ==
    ASSUME PlayInv, fan.friend # 0
    PROVE  /\ fan.friend \in Playing!Friends /\ fan \in FanType /\ fan.target \in Songs
           /\ fan.at # "friend" => fan.row \in 1..Len(rows[fan.friend])
  BY DEF PlayInv, Fanning, FanType, Playing!Friends

LEMMA FanToRow ==
    ASSUME PlayInv, NEW at \in {"resend", "upload"}, NEW i \in Nat, fan' = [fan EXCEPT !.at = at, !.row = i],
           i \in 1..Len(rows'[fan.friend])
    PROVE  Fanning'
<1> DEFINE a == [fan EXCEPT !.at = at]
<1>1. fan \in FanType
  BY DEF PlayInv, Fanning, FanType
<1>2. fan' = [a EXCEPT !.row = i]
  OBVIOUS
<1>3. a \in FanType /\ a.next = fan.next /\ a.friend = fan.friend
  BY <1>1 DEF FanType
<1> HIDE DEF a
<1>4. fan' \in FanType /\ fan'.next = fan.next /\ fan'.friend = fan.friend /\ fan'.row = i
  BY <1>2, <1>3 DEF FanType
<1> QED  BY <1>4 DEF PlayInv, Fanning, FanType

LEMMA TellInv == ASSUME PlayInv, Playing!Tell PROVE PlayInv'
<1>1. PICK f \in Playing!Friends : f = fan.friend
  BY FanAt DEF Playing!Tell
<1>2. UNCHANGED <<media, stored, settings, reads, writes, front, seen>> /\ fan.friend # 0
  BY DEF Playing!Tell, Playing!asked
<1>3. fan.target \in Songs
  BY <1>2, FanAt
<1>4. CASE Playing!Pending(f) # {} /\ fan' = [fan EXCEPT !.at = "resend", !.row = Playing!Min(Playing!Pending(f))] /\ rows' = rows
  <2> DEFINE n == Len(rows[f])
  <2>1. Playing!Pending(f) = {n} /\ n \in 1..Len(rows[f]) /\ n \in Nat
    BY <1>4, QueuedLast DEF Playing!Pending
  <2> HIDE DEF n
  <2>2. Playing!Min({n}) = n
    BY <2>1 DEF Playing!Min
  <2>3. fan' = [fan EXCEPT !.at = "resend", !.row = n]
    BY <1>4, <2>1, <2>2
  <2>4. Fanning'
    BY <1>1, <1>4, <2>1, <2>3, FanToRow
  <2> QED  BY <1>2, <1>4, <2>4, AskedAlone, RowsAlone DEF PlayInv
<1>5. CASE fan' = Playing!NextFriend /\ rows' = rows
  BY <1>2, <1>5, NextInFan, AskedAlone, RowsAlone DEF PlayInv
<1>6. CASE /\ Playing!Pending(f) = {}
           /\ rows' = [rows EXCEPT ![f] = Append(@, [what |-> fan.target, fresh |-> TRUE, status |-> "queued"])]
           /\ fan' = [fan EXCEPT !.at = "upload", !.row = Len(rows[f]) + 1]
  <2> DEFINE u == [what |-> fan.target, fresh |-> TRUE, status |-> "queued"]
             n == Len(rows[f])
             list == Append(rows[f], u)
  <2>1. u \in Update /\ u.status = "queued"
    BY <1>3 DEF Update
  <2> HIDE DEF u
  <2>2. rows[f] \in Seq(Update) /\ n \in Nat /\ Len(seen[f]) \in Nat /\ DOMAIN rows[f] = 1..n
    BY QueuedLast
  <2>3. list \in Seq(Update) /\ Len(list) = n + 1 /\ list[n + 1] = u /\ \A i \in 1..n : list[i] = rows[f][i]
    BY <2>1, <2>2, AppendProperties
  <2>4. rows \in [Playing!Friends -> Seq(Update)] /\ rows' = [rows EXCEPT ![f] = list]
    BY <1>6 DEF PlayInv, Updates, u
  <2> HIDE DEF list
  <2>5. rows' \in [Playing!Friends -> Seq(Update)] /\ rows'[f] = list /\ \A g \in Playing!Friends \ {f} : rows'[g] = rows[g]
    BY <2>3, <2>4
  <2>6. \A i \in 1..n : i <= Len(seen[f])
    <3> SUFFICES ASSUME NEW i \in 1..n PROVE i <= Len(seen[f])
      OBVIOUS
    <3>1. rows[f][i] \in Update /\ i \notin Playing!Queued(f) /\ i \in DOMAIN rows[f]
      BY <1>6, <2>2 DEF Playing!Pending
    <3>2. rows[f][i].status = "sent"
      BY <3>1 DEF Playing!Queued, Update
    <3> QED  BY <3>2 DEF PlayInv, InOrder
  <2>7. InOrder'
    <3> SUFFICES ASSUME NEW g \in Playing!Friends
                 PROVE  /\ seen'[g] = [i \in 1..Len(seen'[g]) |-> i]
                        /\ Len(seen'[g]) <= Len(rows'[g])
                        /\ \A i \in 1..Len(rows'[g]) : /\ rows'[g][i].status = "sent" => i <= Len(seen'[g])
                                                       /\ rows'[g][i].status = "queued" => i = Len(rows'[g])
      BY DEF InOrder
    <3>1. CASE g # f
      BY <1>2, <2>5, <3>1 DEF PlayInv, InOrder
    <3>2. CASE g = f
      <4>1. Len(seen[f]) <= n /\ seen'[g] = [i \in 1..Len(seen'[g]) |-> i]
        BY <1>2, <3>2 DEF PlayInv, InOrder
      <4>2. Len(rows'[g]) = n + 1 /\ rows'[g][n + 1].status = "queued" /\ Len(seen'[g]) = Len(seen[f])
        BY <1>2, <2>1, <2>3, <2>5, <3>2
      <4>3. ASSUME NEW i \in 1..n + 1
            PROVE  /\ rows'[g][i].status = "sent" => i <= Len(seen[f])
                   /\ rows'[g][i].status = "queued" => i = n + 1
        <5>1. CASE i = n + 1
          BY <4>2, <5>1
        <5>2. CASE i \in 1..n
          <6>1. rows'[g][i] = rows[f][i] /\ i <= Len(seen[f])
            BY <2>3, <2>5, <2>6, <3>2, <5>2
          <6>2. rows[f][i].status # "queued"
            BY <1>6, <2>2, <5>2 DEF Playing!Pending, Playing!Queued
          <6> QED  BY <6>1, <6>2
        <5> QED  BY <2>2, <5>1, <5>2
      <4> QED  BY <2>2, <4>1, <4>2, <4>3
    <3> QED  BY <3>1, <3>2
  <2>8. Updates'
    BY <1>2, <2>5 DEF PlayInv, Updates
  <2>9. n + 1 \in Nat /\ n + 1 \in 1..Len(rows'[fan.friend])
    BY <1>1, <2>2, <2>3, <2>5
  <2>10. Fanning'
    BY <1>6, <2>9, FanToRow
  <2> QED  BY <1>2, <2>7, <2>8, <2>10, AskedAlone DEF PlayInv
<1> QED  BY <1>1, <1>4, <1>5, <1>6 DEF Playing!Tell

LEMMA UploadedInv == ASSUME PlayInv, Playing!Uploaded PROVE PlayInv'
<1>0. fan.friend # 0 /\ fan.at # "friend"
  BY DEF Playing!Uploaded
<1>a. PICK f \in Playing!Friends : f = fan.friend
  BY <1>0, FanAt
<1>1. PICK i \in 1..Len(rows[f]) : f = fan.friend /\ i = fan.row
  BY <1>0, <1>a, FanAt
<1>2. /\ UNCHANGED <<media, stored, settings, reads, writes, front>>
      /\ rows' = Playing!Confirmed(f, i) /\ seen' = Playing!Taken(f, i)
      /\ fan' = [fan EXCEPT !.at = "friend"] \/ fan' = Playing!NextFriend
  BY <1>1 DEF Playing!Uploaded, Playing!asked
<1>3. Updates' /\ InOrder'
  BY <1>2, TakenInv
<1>4. Fanning'
  <2>1. CASE fan' = [fan EXCEPT !.at = "friend"]
    <3>1. fan \in FanType
      BY DEF PlayInv, Fanning, FanType
    <3>2. fan' \in FanType /\ fan'.next = fan.next /\ fan'.at = "friend"
      BY <2>1, <3>1 DEF FanType
    <3> QED  BY <3>2 DEF PlayInv, Fanning, FanType
  <2> QED  BY <1>2, <2>1, NextInFan
<1> QED  BY <1>2, <1>3, <1>4, AskedAlone DEF PlayInv

LEMMA PlayUnansweredInv == ASSUME PlayInv, Playing!Unanswered PROVE PlayInv'
<1>1. /\ UNCHANGED <<media, stored, settings, reads, writes, front, rows>> /\ fan.friend # 0
      /\ fan' = [Playing!Asleep EXCEPT !.next = fan.next]
      /\ seen' = seen \/ (fan.at # "friend" /\ seen' = Playing!Taken(fan.friend, fan.row))
  BY DEF Playing!Unanswered, Playing!Aborted, Playing!asked
<1>2. fan.next \in SUBSET Songs /\ \A a, b \in fan.next : a = b
  BY DEF PlayInv, Fanning
<1>3. fan' = [on |-> FALSE, next |-> fan.next, target |-> Playing!Nothing, friend |-> 0, at |-> "friend", row |-> 0]
  BY <1>1 DEF Playing!Asleep
<1>4. Fanning'
  BY <1>2, <1>3, FanInit
<1>5. Updates' /\ InOrder'
  <2>1. CASE seen' = seen
    BY <1>1, <2>1, RowsAlone
  <2>2. CASE fan.at # "friend" /\ seen' = Playing!Taken(fan.friend, fan.row)
    <3>1. PICK f \in Playing!Friends : f = fan.friend
      BY <1>1, FanAt
    <3>2. PICK i \in 1..Len(rows[f]) : i = fan.row
      BY <1>1, <2>2, <3>1, FanAt
    <3> QED  BY <1>1, <2>2, <3>1, <3>2, TakenInv
  <2> QED  BY <1>1, <2>1, <2>2
<1> QED  BY <1>1, <1>4, <1>5, AskedAlone DEF PlayInv

LEMMA PlayWorkerInv == ASSUME PlayInv, Playing!Worker PROVE PlayInv'
<1>1. PICK f \in Playing!Friends : \E i \in Playing!Queued(f) : rows' = Playing!Confirmed(f, i) /\ seen' = Playing!Taken(f, i)
  BY DEF Playing!Worker
<1>2. PICK i \in Playing!Queued(f) : rows' = Playing!Confirmed(f, i) /\ seen' = Playing!Taken(f, i)
  BY <1>1
<1>3. UNCHANGED <<media, stored, settings, reads, writes, front, fan>>
  BY DEF Playing!Worker, Playing!asked
<1>4. i \in 1..Len(rows[f])
  BY QueuedLast
<1>5. Updates' /\ InOrder' /\ \A g \in Playing!Friends : Len(rows'[g]) = Len(rows[g])
  BY <1>2, <1>4, TakenInv
<1> QED  BY <1>3, <1>5, AskedAlone, FanAlone DEF PlayInv

\* An update expires, which tells nobody anything.
LEMMA ExpireInv == ASSUME PlayInv, Playing!Expire PROVE PlayInv'
<1>1. UNCHANGED <<media, stored, settings, reads, writes, front, fan, seen>>
  BY DEF Playing!Expire, Playing!asked
<1>2. PICK f \in Playing!Friends :
        Playing!Playing(Playing!Latest(f)) # Playing!Nothing /\ rows' = [rows EXCEPT ![f][Len(rows[f])].fresh = FALSE]
  BY DEF Playing!Expire
<1> DEFINE n == Len(rows[f])
           u == [rows[f][n] EXCEPT !.fresh = FALSE]
           list == [rows[f] EXCEPT ![n] = u]
<1>3. rows[f] \in Seq(Update) /\ n \in Nat /\ DOMAIN rows[f] = 1..n /\ rows \in [Playing!Friends -> Seq(Update)]
  BY QueuedLast DEF PlayInv, Updates
<1>4. rows' = [rows EXCEPT ![f] = list]
  BY <1>2, <1>3
<1>5. rows[f] # <<>>
  BY <1>2 DEF Playing!Latest, Playing!Playing
<1>6. n \in 1..n
  BY <1>3, <1>5, EmptySeq
<1>7. rows[f][n] \in Update
  BY <1>3, <1>6
<1>8. u \in Update /\ u.status = rows[f][n].status
  BY <1>7 DEF Update
<1> HIDE DEF u
<1>9. list \in Seq(Update) /\ Len(list) = n /\ \A i \in 1..n : list[i].status = rows[f][i].status
  <2>0. ASSUME NEW q \in Seq(Update), NEW i \in 1..Len(q)
        PROVE  [q EXCEPT ![i] = u] \in Seq(Update) /\ Len([q EXCEPT ![i] = u]) = Len(q)
    BY <1>8
  <2>1. list \in Seq(Update) /\ Len(list) = n
    BY <1>3, <1>6, <2>0
  <2>2. list[n] = u /\ \A i \in 1..n : i # n => list[i] = rows[f][i]
    BY <1>3, <1>6
  <2> HIDE DEF list
  <2> QED  BY <1>8, <2>1, <2>2
<1> HIDE DEF list
<1>10. /\ rows' \in [Playing!Friends -> Seq(Update)]
       /\ \A g \in Playing!Friends : /\ Len(rows'[g]) = Len(rows[g])
                                     /\ \A i \in 1..Len(rows[g]) : rows'[g][i].status = rows[g][i].status
  BY <1>3, <1>4, <1>9
<1>11. Updates'
  BY <1>1, <1>10 DEF PlayInv, Updates
<1>12. InOrder'
  <2> SUFFICES ASSUME NEW g \in Playing!Friends
               PROVE  /\ seen'[g] = [i \in 1..Len(seen'[g]) |-> i]
                      /\ Len(seen'[g]) <= Len(rows'[g])
                      /\ \A i \in 1..Len(rows'[g]) : /\ rows'[g][i].status = "sent" => i <= Len(seen'[g])
                                                     /\ rows'[g][i].status = "queued" => i = Len(rows'[g])
    BY DEF InOrder
  <2>1. seen'[g] = seen[g] /\ Len(rows'[g]) = Len(rows[g])
    BY <1>1, <1>10
  <2>2. \A i \in 1..Len(rows[g]) : rows'[g][i].status = rows[g][i].status
    BY <1>10
  <2> QED  BY <2>1, <2>2 DEF PlayInv, InOrder
<1>13. Fanning'
  BY <1>1, <1>10, FanAlone
<1> QED  BY <1>1, <1>11, <1>12, <1>13, AskedAlone DEF PlayInv

LEMMA PlayNextInv == ASSUME PlayInv, Playing!PlayNext \/ UNCHANGED playingState PROVE PlayInv'
  BY MountInv, ReadDoneInv, ReadFailsInv, SharingInv, WrittenInv, QuietInv, PlayRestartInv, StartInv, DrainedInv,
     TellInv, UploadedInv, PlayUnansweredInv, PlayWorkerInv, ExpireInv DEF Playing!PlayNext

-----------------------------------------------------------------------------
(* PART 4.  The backups.  An archive has one id on Drive, that of its pointer; *)
(* a file that was whole stays so; and an import that is over is on the phone. *)

JobType == [archive : Nat, id : Nat, uri : BOOLEAN, phase : {"none", "prepared", "uploaded"}]
Places == {"idle", "export", "write", "file", "point", "id", "status", "begin", "begun", "put", "download", "finish",
           "ledger", "history", "stickers", "preferences"}
FileType == [id : Nat, archive : Nat, whole : BOOLEAN, uri : BOOLEAN]
CallType == [op : {"none", "local", "prepare", "upload", "restore"}, at : Places, under : Backup!Session,
             job : JobType, got : SUBSET {"text"}]

\* What an archive holds are items, a sticker with all of its parts.
SealedWhole(records) ==
    /\ \A item : <<item, 1>> \in records => item \in Items
    /\ <<"sticker", 1>> \in records => <<"sticker", 2>> \in records

BackupTypes ==
    /\ phone \subseteq Items /\ deleted \in BOOLEAN /\ google \in Backup!Session /\ drawn \in Nat
    /\ \E n \in 0..MaxArchives : DOMAIN archives = 1..n
    /\ \A a \in DOMAIN archives : archives[a].of \in Googles \cup {0} /\ SealedWhole(archives[a].holds)
    /\ backupFiles \subseteq DOMAIN archives /\ keys \subseteq DOMAIN archives
    /\ vault \in [Googles -> JobType] /\ drive \in [Googles -> SUBSET FileType] /\ backupCall \in CallType

DriveSound ==
    \A g \in Googles : \A f \in drive[g] :
        /\ f.archive \in DOMAIN archives /\ archives[f.archive].of = g /\ f.id \in 1..drawn
        /\ \A h \in drive[g] : f.id = h.id \/ f.archive = h.archive => f = h

WholeFile(g, j) == \E f \in drive[g] : f.id = j.id /\ f.archive = j.archive /\ f.whole

VaultSound ==
    \A g \in Googles : vault[g] # Backup!NoJob =>
        /\ vault[g].archive \in DOMAIN archives /\ archives[vault[g].archive].of = g
        /\ vault[g].archive \in backupFiles /\ vault[g].id \in 0..drawn
        /\ \A f \in drive[g] : f.archive = vault[g].archive <=> f.id = vault[g].id
        /\ vault[g].phase = "uploaded" => WholeFile(g, vault[g])

\* What a call has done so far.
Creating ==
    /\ backupCall.at = "export" => \E n \in 0..MaxArchives : DOMAIN archives = 1..n /\ n < MaxArchives
    /\ backupCall.op = "local" /\ backupCall.at = "write" => backupCall.job.archive \in DOMAIN archives
    /\ backupCall.op = "prepare" /\ backupCall.at \in {"file", "point"} =>
         /\ backupCall.job.archive \in DOMAIN archives /\ backupCall.under.as \in Googles
         /\ archives[backupCall.job.archive].of = backupCall.under.as
         /\ backupCall.job.id = 0 /\ backupCall.job.phase = "prepared"
         /\ \A g \in Googles : \A f \in drive[g] : f.archive # backupCall.job.archive
         /\ backupCall.at = "point" => backupCall.job.archive \in backupFiles

Uploads ==
    backupCall.op = "upload" =>
        LET g == backupCall.under.as
        IN /\ g \in Googles /\ vault[g] # Backup!NoJob /\ vault[g].phase = "prepared"
           /\ vault[g].archive = backupCall.job.archive /\ vault[g].id = backupCall.job.id
           /\ backupCall.job.phase = "prepared" /\ (backupCall.at = "id" <=> backupCall.job.id = 0)
           /\ backupCall.at \in {"download", "finish"} => WholeFile(g, backupCall.job)
           /\ backupCall.at \notin {"ledger", "history", "stickers", "preferences"}

Gone == IF deleted THEN {"text"} ELSE {}
HasMessages(a) == {item \in Backup!Messages : <<item, 1>> \in archives[a].holds} \ Gone \subseteq phone
HasSticker(a) == <<"sticker", 1>> \in archives[a].holds => "sticker" \in phone
HasPreferences(a) == <<"preferences", 1>> \in archives[a].holds => "preferences" \in phone

Restores ==
    backupCall.at \in {"ledger", "history", "stickers", "preferences"} =>
        LET a == backupCall.job.archive
        IN /\ a \in DOMAIN archives
           /\ backupCall.at = "history" => backupCall.got = Gone
           /\ backupCall.at \in {"stickers", "preferences"} => HasMessages(a)
           /\ backupCall.at = "preferences" => HasSticker(a)

Reported == restored # 0 => restored \in DOMAIN archives /\ HasMessages(restored) /\ HasSticker(restored) /\ HasPreferences(restored)

BackupInv == BackupTypes /\ DriveSound /\ VaultSound /\ Creating /\ Uploads /\ Restores /\ Reported

-----------------------------------------------------------------------------

LEMMA SendingBounds == /\ MaxArchives \in Nat /\ MaxIDs \in Nat /\ MaxConnects \in Nat
                       /\ Items \subseteq {"text", "event", "sticker", "preferences"} /\ 0 \notin Googles
  <1>1. /\ {MaxArchives, MaxIDs, MaxConnects, BackupMaxMishaps} \subseteq Nat
        /\ Items \subseteq Backup!Kinds /\ 0 \notin Googles
    BY SendBounds
  <1> QED  BY <1>1 DEF Backup!Kinds, Backup!Messages

LEMMA ArchiveCount == BackupTypes => /\ Backup!Cardinality(DOMAIN archives) \in Nat
                                     /\ DOMAIN archives = 1..Backup!Cardinality(DOMAIN archives)
                                     /\ Backup!Cardinality(DOMAIN archives) <= MaxArchives
  <1>1. SUFFICES ASSUME BackupTypes PROVE /\ Backup!Cardinality(DOMAIN archives) \in Nat
                                     /\ DOMAIN archives = 1..Backup!Cardinality(DOMAIN archives)
                                     /\ Backup!Cardinality(DOMAIN archives) <= MaxArchives
    OBVIOUS
  <1>2. PICK n \in 0..MaxArchives : DOMAIN archives = 1..n  BY <1>1 DEF BackupTypes
  <1>3. Cardinality(DOMAIN archives) = n  BY <1>2, SendingBounds, FS_Interval
  <1>4. Backup!Cardinality(DOMAIN archives) = Cardinality(DOMAIN archives)
    BY DEF Backup!Cardinality, Cardinality
  <1> QED  BY <1>2, <1>3, <1>4, SendingBounds

LEMMA NoJobType == Backup!NoJob \in JobType /\ Backup!NoJob.archive = 0 /\ Backup!NoJob.id = 0
                   /\ Backup!NoJob.uri = FALSE /\ Backup!NoJob.phase = "none"
  BY DEF Backup!NoJob, JobType

LEMMA NoCallType == Backup!NoCall \in CallType /\ Backup!NoCall.at = "idle" /\ Backup!NoCall.op = "none"
  <1>1. [as |-> 0, token |-> 0] \in Backup!Session  BY SendingBounds DEF Backup!Session
  <1>2. Backup!NoCall \in CallType  BY <1>1, NoJobType DEF Backup!NoCall, CallType, Places
  <1> QED  BY <1>2 DEF Backup!NoCall

\* A call that is over claims nothing.
LEMMA NothingClaimed == backupCall' = Backup!NoCall => backupCall' \in CallType /\ Creating' /\ Uploads' /\ Restores'
  <1>1. SUFFICES ASSUME backupCall' = Backup!NoCall
                 PROVE backupCall' \in CallType /\ Creating' /\ Uploads' /\ Restores'
    OBVIOUS
  <1>2. backupCall' \in CallType /\ backupCall'.at = "idle" /\ backupCall'.op = "none"  BY <1>1, NoCallType
  <1>3. Creating'  BY <1>2 DEF Creating
  <1>4. Uploads'  BY <1>2 DEF Uploads
  <1>5. Restores'  BY <1>2 DEF Restores
  <1> QED  BY <1>2, <1>3, <1>4, <1>5

LEMMA BackupInitInv == Backup!BackupInit => BackupInv
  <1>1. SUFFICES ASSUME Backup!BackupInit PROVE BackupInv  OBVIOUS
  <1> USE DEF Backup!BackupInit
  <1>2. google \in Backup!Session  BY <1>1, SendingBounds DEF Backup!Session
  <1>3. DOMAIN archives = {} /\ DOMAIN archives = 1..0 /\ 0 \in 0..MaxArchives  BY <1>1, SendingBounds
  <1>4. vault \in [Googles -> JobType]  BY <1>1, NoJobType
  <1>5. drive \in [Googles -> SUBSET FileType]  BY <1>1
  <1>6. BackupTypes  BY <1>1, <1>2, <1>3, <1>4, <1>5, NoCallType DEF BackupTypes
  <1>7. DriveSound  BY <1>1 DEF DriveSound
  <1>8. VaultSound  BY <1>1 DEF VaultSound
  <1>9. Creating /\ Uploads /\ Restores  BY <1>1, NoCallType DEF Creating, Uploads, Restores
  <1>10. Reported  BY <1>1 DEF Reported
  <1> QED  BY <1>6, <1>7, <1>8, <1>9, <1>10 DEF BackupInv

\* A step that leaves the backups alone, and goes on with a call or begins one.
LEMMA CallGoesOn ==
    ASSUME BackupInv, UNCHANGED <<phone, deleted, restored, archives, vault, backupFiles, drive, drawn>>,
           google' \in Backup!Session, keys' \subseteq DOMAIN archives, backupCall' \in CallType,
           Creating', Uploads', Restores'
    PROVE BackupInv'
  <1>1. BackupTypes'  BY DEF BackupInv, BackupTypes
  <1>2. DriveSound'  BY DEF BackupInv, DriveSound
  <1>3. VaultSound'  BY DEF BackupInv, VaultSound, WholeFile
  <1>4. Reported'  BY DEF BackupInv, Reported, HasMessages, HasSticker, HasPreferences, Gone
  <1> QED  BY <1>1, <1>2, <1>3, <1>4 DEF BackupInv

LEMMA CallEnds ==
    ASSUME BackupInv, UNCHANGED <<phone, deleted, restored, archives, vault, backupFiles, drive, drawn>>,
           google' \in Backup!Session, keys' \subseteq DOMAIN archives, backupCall' = Backup!NoCall
    PROVE BackupInv'
  <1>1. backupCall' \in CallType /\ Creating' /\ Uploads' /\ Restores'  BY NothingClaimed
  <1> QED  BY <1>1, CallGoesOn

LEMMA CallStays ==
    ASSUME BackupInv, UNCHANGED <<phone, deleted, restored, archives, vault, backupFiles, drive, drawn, backupCall>>,
           google' \in Backup!Session, keys' \subseteq DOMAIN archives
    PROVE BackupInv'
  <1>1. backupCall' \in CallType  BY DEF BackupInv, BackupTypes
  <1>2. Creating'  BY DEF BackupInv, Creating
  <1>3. Uploads'  BY DEF BackupInv, Uploads, WholeFile
  <1>4. Restores'  BY DEF BackupInv, Restores, HasMessages, HasSticker, Gone
  <1> QED  BY <1>1, <1>2, <1>3, <1>4, CallGoesOn

LEMMA ConnectInv == BackupInv /\ (Backup!Connect \/ Backup!Disconnect) => BackupInv'
  <1>1. SUFFICES ASSUME BackupInv, Backup!Connect \/ Backup!Disconnect PROVE BackupInv'  OBVIOUS
  <1>2. UNCHANGED <<phone, deleted, restored, archives, vault, backupFiles, drive, drawn, backupCall>> /\ keys' = keys
    BY <1>1 DEF Backup!Connect, Backup!Disconnect, Backup!phoneVars
  <1>3. google \in Backup!Session /\ keys \subseteq DOMAIN archives  BY <1>1 DEF BackupInv, BackupTypes
  <1>4. CASE Backup!Connect
    <2>1. PICK g \in Googles : google' = [as |-> g, token |-> google.token + 1]  BY <1>4 DEF Backup!Connect
    <2>2. google.token \in 0..MaxConnects /\ google.token < MaxConnects  BY <1>3, <1>4 DEF Backup!Connect, Backup!Session
    <2>3. google.token + 1 \in 0..MaxConnects  BY <2>2, SendingBounds
    <2>4. google' \in Backup!Session  BY <2>1, <2>3 DEF Backup!Session
    <2> QED  BY <1>1, <1>2, <1>3, <2>4, CallStays
  <1>5. CASE Backup!Disconnect
    <2>1. google' \in Backup!Session  BY <1>3, <1>5 DEF Backup!Disconnect, Backup!Session
    <2> QED  BY <1>1, <1>2, <1>3, <2>1, CallStays
  <1> QED  BY <1>1, <1>4, <1>5

\* What a call begins with.
LEMMA CallBegins ==
    ASSUME BackupTypes, NEW op \in {"none", "local", "prepare", "upload", "restore"}, NEW at \in Places
    PROVE /\ Backup!Call(op, at) \in CallType /\ Backup!Call(op, at).op = op /\ Backup!Call(op, at).at = at
          /\ Backup!Call(op, at).under = google
          /\ \A j \in JobType : LET c == [Backup!Call(op, at) EXCEPT !.job = j]
                                IN c \in CallType /\ c.op = op /\ c.at = at /\ c.under = google /\ c.job = j
  <1>1. google \in Backup!Session  BY DEF BackupTypes
  <1>2. Backup!Call(op, at) \in CallType  BY <1>1, NoJobType DEF Backup!Call, CallType
  <1>3. /\ Backup!Call(op, at).op = op /\ Backup!Call(op, at).at = at
        /\ Backup!Call(op, at).under = google
    BY DEF Backup!Call
  <1>4. ASSUME NEW j \in JobType
        PROVE LET c == [Backup!Call(op, at) EXCEPT !.job = j]
                                IN c \in CallType /\ c.op = op /\ c.at = at /\ c.under = google /\ c.job = j
    BY <1>1, <1>4, NoJobType DEF Backup!Call, CallType
  <1> QED  BY <1>2, <1>3, <1>4

LEMMA BeginsInv == BackupInv /\ (Backup!LocalCreate \/ Backup!Prepare) => BackupInv'
  <1>1. SUFFICES ASSUME BackupInv, Backup!LocalCreate \/ Backup!Prepare PROVE BackupInv'  OBVIOUS
  <1>2. /\ UNCHANGED <<phone, deleted, restored, archives, vault, backupFiles, drive, drawn>>
        /\ google' = google /\ keys' = keys
    BY <1>1 DEF Backup!LocalCreate, Backup!Prepare, Backup!phoneVars
  <1>3. google \in Backup!Session /\ keys \subseteq DOMAIN archives  BY <1>1 DEF BackupInv, BackupTypes
  <1>4. BackupTypes  BY <1>1 DEF BackupInv
  <1>5. \E op \in {"local", "prepare"} : backupCall' = Backup!Call(op, "export")
    BY <1>1 DEF Backup!LocalCreate, Backup!Prepare
  <1>6. backupCall' \in CallType /\ backupCall'.op \in {"local", "prepare"} /\ backupCall'.at = "export"
    BY <1>4, <1>5, CallBegins DEF Places
  <1>7. Backup!Room  BY <1>1 DEF Backup!LocalCreate, Backup!Prepare
  <1>8. \E n \in 0..MaxArchives : DOMAIN archives = 1..n /\ n < MaxArchives
    BY <1>4, <1>7, ArchiveCount, SendingBounds DEF Backup!Room
  <1>9. Creating'  BY <1>2, <1>6, <1>8 DEF Creating
  <1>10. Uploads' /\ Restores'  BY <1>6 DEF Uploads, Restores
  <1> QED  BY <1>1, <1>2, <1>3, <1>6, <1>9, <1>10, CallGoesOn

LEMMA AccountIn == BackupTypes /\ Backup!Connected => google.as \in Googles /\ vault[google.as] \in JobType
  BY DEF BackupTypes, Backup!Connected, Backup!Session

LEMMA BoundTo == BackupTypes /\ Backup!Bound =>
                    google.as = backupCall.under.as /\ google.as \in Googles /\ vault[google.as] \in JobType
  BY AccountIn DEF Backup!Bound

LEMMA SaveKeyInv == BackupInv /\ Backup!SaveKey => BackupInv'
  <1>1. SUFFICES ASSUME BackupInv, Backup!SaveKey PROVE BackupInv'  OBVIOUS
  <1>2. /\ UNCHANGED <<phone, deleted, restored, archives, vault, backupFiles, drive, drawn, backupCall>>
        /\ google' = google /\ keys' = keys \cup {vault[google.as].archive}
        /\ Backup!Connected /\ vault[google.as] # Backup!NoJob
    BY <1>1 DEF Backup!SaveKey, Backup!phoneVars, Backup!Pending
  <1>3. google \in Backup!Session /\ keys \subseteq DOMAIN archives  BY <1>1 DEF BackupInv, BackupTypes
  <1>4. google.as \in Googles  BY <1>1, <1>2, AccountIn DEF BackupInv
  <1>5. vault[google.as].archive \in DOMAIN archives  BY <1>1, <1>2, <1>4 DEF BackupInv, VaultSound
  <1> QED  BY <1>1, <1>2, <1>3, <1>5, CallStays

LEMMA UploadBeginsInv == BackupInv /\ Backup!Upload => BackupInv'
  <1>1. SUFFICES ASSUME BackupInv, Backup!Upload PROVE BackupInv'  OBVIOUS
  <1>2. /\ UNCHANGED <<phone, deleted, restored, archives, vault, backupFiles, drive, drawn>>
        /\ google' = google /\ keys' = keys /\ Backup!Connected /\ vault[google.as].phase = "prepared"
        /\ backupCall' = [Backup!Call("upload", Backup!From(vault[google.as])) EXCEPT !.job = vault[google.as]]
    BY <1>1 DEF Backup!Upload, Backup!phoneVars, Backup!Pending
  <1>3. google \in Backup!Session /\ keys \subseteq DOMAIN archives /\ BackupTypes  BY <1>1 DEF BackupInv, BackupTypes
  <1>4. google.as \in Googles /\ vault[google.as] \in JobType  BY <1>2, <1>3, AccountIn
  <1>5. PICK at \in {"id", "status", "begin"} : at = Backup!From(vault[google.as])
    BY DEF Backup!From
  <1>6. at = "id" <=> vault[google.as].id = 0  BY <1>5 DEF Backup!From
  <1>7. /\ backupCall' \in CallType /\ backupCall'.op = "upload" /\ backupCall'.at = at
        /\ backupCall'.under = google /\ backupCall'.job = vault[google.as]
    BY <1>2, <1>3, <1>4, <1>5, CallBegins DEF Places
  <1>8. Creating' /\ Restores'  BY <1>5, <1>7 DEF Creating, Restores
  <1>9. vault[google.as] # Backup!NoJob  BY <1>2, NoJobType
  <1>10. Uploads'  BY <1>2, <1>4, <1>5, <1>6, <1>7, <1>9 DEF Uploads
  <1> QED  BY <1>1, <1>2, <1>3, <1>7, <1>8, <1>10, CallGoesOn

LEMMA AcknowledgeInv == BackupInv /\ Backup!Acknowledge => BackupInv'
  <1>1. SUFFICES ASSUME BackupInv, Backup!Acknowledge PROVE BackupInv'  OBVIOUS
  <1> DEFINE u == google.as
  <1>2. /\ UNCHANGED <<phone, deleted, restored, google, archives, drive, drawn, backupCall>>
        /\ Backup!Connected /\ vault[u].phase = "uploaded" /\ backupCall = Backup!NoCall
        /\ vault' = [vault EXCEPT ![u] = Backup!NoJob] /\ backupFiles' = backupFiles \ {vault[u].archive}
        /\ keys' = keys \cup {vault[u].archive}
    BY <1>1 DEF Backup!Acknowledge, Backup!phoneVars, Backup!Pending, Backup!Free, Backup!Finished
  <1>3. BackupTypes /\ VaultSound /\ DriveSound  BY <1>1 DEF BackupInv
  <1>4. u \in Googles /\ vault[u] # Backup!NoJob  BY <1>2, <1>3, AccountIn, NoJobType
  <1>5. vault[u].archive \in DOMAIN archives /\ archives[vault[u].archive].of = u  BY <1>3, <1>4 DEF VaultSound
  <1>6. vault' \in [Googles -> JobType]  BY <1>2, <1>3, NoJobType DEF BackupTypes
  <1>7. backupFiles' \subseteq DOMAIN archives /\ keys' \subseteq DOMAIN archives  BY <1>2, <1>3, <1>5 DEF BackupTypes
  <1>8. BackupTypes'  BY <1>2, <1>3, <1>6, <1>7 DEF BackupTypes
  <1>9. DriveSound'  BY <1>2, <1>3 DEF DriveSound
  <1>10. VaultSound'
    <2>1. SUFFICES ASSUME NEW g \in Googles, vault'[g] # Backup!NoJob
                   PROVE /\ vault[g].archive \in DOMAIN archives /\ archives[vault[g].archive].of = g
                         /\ vault[g].archive \in backupFiles' /\ vault[g].id \in 0..drawn
                         /\ \A f \in drive[g] : f.archive = vault[g].archive <=> f.id = vault[g].id
                         /\ vault[g].phase = "uploaded" => WholeFile(g, vault[g])
                         /\ vault'[g] = vault[g]
      BY <1>2 DEF VaultSound, WholeFile
    <2>2. g # u /\ vault'[g] = vault[g]  BY <1>2, <1>3, <1>4, <2>1 DEF BackupTypes
    <2>3. /\ vault[g].archive \in DOMAIN archives /\ archives[vault[g].archive].of = g
          /\ vault[g].archive \in backupFiles /\ vault[g].id \in 0..drawn
          /\ \A f \in drive[g] : f.archive = vault[g].archive <=> f.id = vault[g].id
          /\ vault[g].phase = "uploaded" => WholeFile(g, vault[g])
      BY <1>3, <2>1, <2>2 DEF VaultSound
    <2>4. vault[g].archive # vault[u].archive  BY <1>5, <2>2, <2>3
    <2> QED  BY <1>2, <2>2, <2>3, <2>4
  <1>11. backupCall' = Backup!NoCall  BY <1>2
  <1>12. Reported'  BY <1>1, <1>2 DEF BackupInv, Reported, HasMessages, HasSticker, HasPreferences, Gone
  <1> QED  BY <1>8, <1>9, <1>10, <1>11, <1>12, NothingClaimed DEF BackupInv

LEMMA RefusedInv == BackupInv /\ Backup!CreateRefused => BackupInv'
  <1>1. SUFFICES ASSUME BackupInv, Backup!CreateRefused PROVE BackupInv'  OBVIOUS
  <1>2. /\ UNCHANGED <<phone, deleted, restored, archives, vault, backupFiles, drive, drawn>>
        /\ google' = google /\ keys' = keys /\ backupCall' = Backup!NoCall
    BY <1>1 DEF Backup!CreateRefused, Backup!phoneVars, Backup!Ends
  <1>3. google \in Backup!Session /\ keys \subseteq DOMAIN archives  BY <1>1 DEF BackupInv, BackupTypes
  <1> QED  BY <1>1, <1>2, <1>3, CallEnds

LEMMA FailInv == BackupInv /\ (Backup!Fail \/ Backup!PutPart) => BackupInv'
  <1>1. SUFFICES ASSUME BackupInv, Backup!Fail \/ Backup!PutPart PROVE BackupInv'  OBVIOUS
  <1>2. /\ UNCHANGED <<phone, deleted, restored, archives, vault, backupFiles, drive, drawn>>
        /\ google' = google /\ keys' = keys /\ backupCall' = Backup!NoCall
    BY <1>1 DEF Backup!Fail, Backup!PutPart, Backup!AfterPart, Backup!phoneVars, Backup!Ends
  <1>3. google \in Backup!Session /\ keys \subseteq DOMAIN archives  BY <1>1 DEF BackupInv, BackupTypes
  <1> QED  BY <1>1, <1>2, <1>3, CallEnds

\* Sealing what the phone holds: items, and a sticker as a whole.
LEMMA SealsWhole == phone \subseteq Items => SealedWhole(Backup!Sealed(phone))
  <1>1. SUFFICES ASSUME phone \subseteq Items PROVE SealedWhole(Backup!Sealed(phone))  OBVIOUS
  <1> USE DEF Backup!Sealed, Backup!StickerRecords, Backup!Settings, Backup!Messages
  <1>2. ASSUME NEW item, <<item, 1>> \in Backup!Sealed(phone) PROVE item \in phone
    BY <1>2
  <1>3. <<"sticker", 1>> \in Backup!Sealed(phone) => "sticker" \in phone
    BY <1>2
  <1>4. "sticker" \in phone => <<"sticker", 2>> \in Backup!Sealed(phone)
    OBVIOUS
  <1> QED  BY <1>1, <1>2, <1>3, <1>4 DEF SealedWhole

LEMMA CreateInv == BackupInv /\ (\/ backupCall.op = "local" /\ Backup!Create("write")
                                 \/ backupCall.op = "prepare" /\ Backup!Create("file")) => BackupInv'
  <1>1. SUFFICES ASSUME BackupInv, NEW next \in {"write", "file"}, Backup!Create(next),
                        backupCall.op = (IF next = "write" THEN "local" ELSE "prepare")
                 PROVE BackupInv'
    OBVIOUS
  <1> DEFINE n == Backup!Cardinality(DOMAIN archives) + 1
             new == [of |-> IF Backup!ToGoogle THEN google.as ELSE 0, holds |-> Backup!Sealed(phone)]
             made == [Backup!NoJob EXCEPT !.archive = n, !.phase = "prepared"]
  <1>2. /\ UNCHANGED <<phone, deleted, restored, google, vault, backupFiles, drive, drawn>> /\ keys' = keys
        /\ backupCall.at = "export" /\ (Backup!ToGoogle => Backup!Bound)
        /\ archives' = [a \in 1..n |-> IF a = n THEN new ELSE archives[a]]
        /\ backupCall' = [backupCall EXCEPT !.at = next, !.job = made]
    BY <1>1 DEF Backup!Create, Backup!phoneVars
  <1>3. BackupTypes /\ DriveSound /\ VaultSound /\ Creating  BY <1>1 DEF BackupInv
  <1>4. \E m \in 0..MaxArchives : DOMAIN archives = 1..m /\ m < MaxArchives  BY <1>2, <1>3 DEF Creating
  <1>5. n \in 1..MaxArchives /\ DOMAIN archives = 1..(n - 1)
    <2>1. PICK m \in 0..MaxArchives : DOMAIN archives = 1..m /\ m < MaxArchives  BY <1>4
    <2>2. m \in Nat /\ MaxArchives \in Nat  BY SendingBounds
    <2>3. Cardinality(1..m) = m  BY <2>2, FS_Interval
    <2>4. Backup!Cardinality(1..m) = m  BY <2>3 DEF Backup!Cardinality, Cardinality
    <2>5. n = m + 1  BY <2>1, <2>4
    <2> QED  BY <2>1, <2>2, <2>5
  <1> HIDE DEF n
  <1>6. DOMAIN archives' = 1..n /\ archives'[n] = new  BY <1>2, <1>5
  <1>7. \A a \in DOMAIN archives : a # n /\ a \in DOMAIN archives' /\ archives'[a] = archives[a]
    BY <1>2, <1>5, SendingBounds
  <1>8. made \in JobType /\ made.archive = n /\ made.id = 0 /\ made.phase = "prepared"
    <2>1. n \in Nat  BY <1>5, SendingBounds
    <2> QED  BY <2>1, NoJobType DEF JobType, Backup!NoJob
  <1> HIDE DEF made
  <1>9. /\ backupCall' \in CallType /\ backupCall'.at = next /\ backupCall'.job = made
        /\ backupCall'.op = backupCall.op /\ backupCall'.under = backupCall.under
    BY <1>2, <1>3, <1>8 DEF BackupTypes, CallType, Places
  <1>10. new.of \in Googles \cup {0} /\ SealedWhole(new.holds)
    BY <1>3, SealsWhole DEF BackupTypes, Backup!Session
  <1>11. next = "file" => new.of = backupCall.under.as /\ new.of \in Googles
    BY <1>1, <1>2, <1>3, BoundTo DEF Backup!ToGoogle
  <1> HIDE DEF new
  <1>12. \A a \in DOMAIN archives' : archives'[a].of \in Googles \cup {0} /\ SealedWhole(archives'[a].holds)
    <2>1. SUFFICES ASSUME NEW a \in 1..n
                   PROVE archives'[a].of \in Googles \cup {0} /\ SealedWhole(archives'[a].holds)
      BY <1>6
    <2>2. CASE a = n  BY <2>2, <1>6, <1>10
    <2>3. CASE a # n
      <3>1. a \in DOMAIN archives  BY <2>3, <1>5
      <3> QED  BY <3>1, <1>3, <1>7 DEF BackupTypes
    <2> QED  BY <2>2, <2>3
  <1>13. n \in 0..MaxArchives  BY <1>5
  <1>14. BackupTypes'  BY <1>2, <1>3, <1>6, <1>7, <1>9, <1>12, <1>13 DEF BackupTypes
  <1>15. DriveSound'  BY <1>2, <1>3, <1>7 DEF DriveSound
  <1>16. VaultSound'  BY <1>2, <1>3, <1>7 DEF VaultSound, WholeFile
  <1>17. \A g \in Googles : \A f \in drive[g] : f.archive # n  BY <1>3, <1>7 DEF DriveSound
  <1>18. Creating'
    <2>1. backupCall'.at # "export" /\ backupCall'.at # "point"  BY <1>9
    <2>2. backupCall'.op = "local" /\ backupCall'.at = "write" => backupCall'.job.archive \in DOMAIN archives'
      BY <1>5, <1>6, <1>8, <1>9
    <2>3. backupCall'.op = "prepare" /\ backupCall'.at \in {"file", "point"} =>
             /\ backupCall'.job.archive \in DOMAIN archives' /\ backupCall'.under.as \in Googles
             /\ archives'[backupCall'.job.archive].of = backupCall'.under.as
             /\ backupCall'.job.id = 0 /\ backupCall'.job.phase = "prepared"
             /\ \A g \in Googles : \A f \in drive'[g] : f.archive # backupCall'.job.archive
      BY <1>2, <1>5, <1>6, <1>8, <1>9, <1>11, <1>17
    <2> QED  BY <2>1, <2>2, <2>3 DEF Creating
  <1>19. Uploads' /\ Restores'  BY <1>1, <1>9 DEF Uploads, Restores
  <1>20. Reported'
    BY <1>1, <1>2, <1>7 DEF BackupInv, Reported, HasMessages, HasSticker, HasPreferences, Gone
  <1> QED  BY <1>14, <1>15, <1>16, <1>18, <1>19, <1>20 DEF BackupInv

\* A file is written for an archive, before anything names it.
LEMMA FilesKept ==
    ASSUME BackupInv, UNCHANGED <<phone, deleted, restored, google, archives, vault, drive, drawn>>,
           backupFiles \subseteq backupFiles', backupFiles' \subseteq DOMAIN archives, keys' \subseteq DOMAIN archives,
           backupCall' \in CallType, Creating', Uploads', Restores'
    PROVE BackupInv'
  <1>1. BackupTypes'  BY DEF BackupInv, BackupTypes
  <1>2. DriveSound'  BY DEF BackupInv, DriveSound
  <1>3. VaultSound'  BY DEF BackupInv, VaultSound, WholeFile
  <1>4. Reported'  BY DEF BackupInv, Reported, HasMessages, HasSticker, HasPreferences, Gone
  <1> QED  BY <1>1, <1>2, <1>3, <1>4 DEF BackupInv

LEMMA LocalWriteInv == BackupInv /\ Backup!LocalWrite => BackupInv'
  <1>1. SUFFICES ASSUME BackupInv, Backup!LocalWrite PROVE BackupInv'  OBVIOUS
  <1>2. /\ UNCHANGED <<phone, deleted, restored, google, archives, vault, drive, drawn>>
        /\ backupFiles' = backupFiles \cup {backupCall.job.archive} /\ keys' = keys \cup {backupCall.job.archive}
        /\ backupCall' = Backup!NoCall /\ backupCall.op = "local" /\ backupCall.at = "write"
    BY <1>1 DEF Backup!LocalWrite, Backup!phoneVars, Backup!Ends
  <1>3. backupCall.job.archive \in DOMAIN archives  BY <1>1, <1>2 DEF BackupInv, Creating
  <1>4. backupFiles \subseteq DOMAIN archives /\ keys \subseteq DOMAIN archives  BY <1>1 DEF BackupInv, BackupTypes
  <1>5. backupCall' \in CallType /\ Creating' /\ Uploads' /\ Restores'  BY <1>2, NothingClaimed
  <1> QED  BY <1>1, <1>2, <1>3, <1>4, <1>5, FilesKept

LEMMA PutFileInv == BackupInv /\ Backup!WriteFile => BackupInv'
  <1>1. SUFFICES ASSUME BackupInv, Backup!WriteFile PROVE BackupInv'  OBVIOUS
  <1>2. /\ UNCHANGED <<phone, deleted, restored, google, archives, vault, drive, drawn>> /\ keys' = keys
        /\ backupFiles' = backupFiles \cup {backupCall.job.archive}
        /\ backupCall' = [backupCall EXCEPT !.at = "point"] /\ backupCall.op = "prepare" /\ backupCall.at = "file"
    BY <1>1 DEF Backup!WriteFile, Backup!phoneVars, Backup!Goes
  <1>3. backupCall \in CallType /\ Creating  BY <1>1 DEF BackupInv, BackupTypes
  <1>4. /\ backupCall' \in CallType /\ backupCall'.at = "point" /\ backupCall'.op = "prepare"
        /\ backupCall'.job = backupCall.job /\ backupCall'.under = backupCall.under
    BY <1>2, <1>3 DEF CallType, Places
  <1>5. /\ backupCall.job.archive \in DOMAIN archives /\ backupCall.under.as \in Googles
        /\ archives[backupCall.job.archive].of = backupCall.under.as
        /\ backupCall.job.id = 0 /\ backupCall.job.phase = "prepared"
        /\ \A g \in Googles : \A f \in drive[g] : f.archive # backupCall.job.archive
    BY <1>2, <1>3 DEF Creating
  <1>6. backupFiles \subseteq DOMAIN archives /\ keys \subseteq DOMAIN archives  BY <1>1 DEF BackupInv, BackupTypes
  <1>7. Creating'  BY <1>2, <1>4, <1>5 DEF Creating
  <1>8. Uploads' /\ Restores'  BY <1>4 DEF Uploads, Restores
  <1> QED  BY <1>1, <1>2, <1>4, <1>5, <1>6, <1>7, <1>8, FilesKept

\* A saved job: of an archive of the account, with the id of its file.
Fits(u, j) ==
    /\ j \in JobType /\ j.archive \in DOMAIN archives /\ archives[j.archive].of = u
    /\ j.archive \in backupFiles
    /\ \A f \in drive[u] : f.archive = j.archive <=> f.id = j.id
    /\ j.phase = "uploaded" => WholeFile(u, j)

LEMMA Persisted ==
    ASSUME BackupInv, UNCHANGED <<phone, deleted, restored, google, archives, backupFiles, drive, keys>>,
           NEW u \in Googles, NEW j, Fits(u, j), vault' = [vault EXCEPT ![u] = j],
           drawn' \in Nat, drawn' >= drawn, j.id \in 0..drawn',
           backupCall' \in CallType, Creating', Uploads', Restores'
    PROVE BackupInv'
  <1> USE DEF Fits
  <1>1. vault' \in [Googles -> JobType] /\ vault'[u] = j /\ \A g \in Googles \ {u} : vault'[g] = vault[g]
    BY DEF BackupInv, BackupTypes
  <1>2. BackupTypes'  BY <1>1 DEF BackupInv, BackupTypes
  <1>3. drawn \in Nat  BY DEF BackupInv, BackupTypes
  <1>4. DriveSound'
    <2>1. SUFFICES ASSUME NEW g \in Googles, NEW f \in drive[g]
                   PROVE /\ f.archive \in DOMAIN archives /\ archives[f.archive].of = g /\ f.id \in 1..drawn'
                         /\ \A h \in drive[g] : f.id = h.id \/ f.archive = h.archive => f = h
      BY DEF DriveSound
    <2>2. /\ f.archive \in DOMAIN archives /\ archives[f.archive].of = g /\ f.id \in 1..drawn
          /\ \A h \in drive[g] : f.id = h.id \/ f.archive = h.archive => f = h
      BY DEF BackupInv, DriveSound
    <2> QED  BY <1>3, <2>2
  <1>5. VaultSound'
    <2>1. SUFFICES ASSUME NEW g \in Googles, vault'[g] # Backup!NoJob
                   PROVE /\ vault'[g].archive \in DOMAIN archives /\ archives[vault'[g].archive].of = g
                         /\ vault'[g].archive \in backupFiles /\ vault'[g].id \in 0..drawn'
                         /\ \A f \in drive[g] : f.archive = vault'[g].archive <=> f.id = vault'[g].id
                         /\ vault'[g].phase = "uploaded" => WholeFile(g, vault'[g])
      BY DEF VaultSound, WholeFile
    <2>2. CASE g = u  BY <1>1, <2>2
    <2>3. CASE g # u
      <3>1. vault'[g] = vault[g]  BY <1>1, <2>3
      <3>2. /\ vault[g].archive \in DOMAIN archives /\ archives[vault[g].archive].of = g
            /\ vault[g].archive \in backupFiles /\ vault[g].id \in 0..drawn
            /\ \A f \in drive[g] : f.archive = vault[g].archive <=> f.id = vault[g].id
            /\ vault[g].phase = "uploaded" => WholeFile(g, vault[g])
        BY <2>1, <3>1 DEF BackupInv, VaultSound
      <3> QED  BY <1>3, <3>1, <3>2
    <2> QED  BY <2>2, <2>3
  <1>6. Reported'  BY DEF BackupInv, Reported, HasMessages, HasSticker, HasPreferences, Gone
  <1> QED  BY <1>2, <1>4, <1>5, <1>6 DEF BackupInv

LEMMA PointerInv == BackupInv /\ Backup!WritePointer => BackupInv'
  <1>1. SUFFICES ASSUME BackupInv, Backup!WritePointer PROVE BackupInv'  OBVIOUS
  <1> DEFINE j == backupCall.job
  <1>2. /\ UNCHANGED <<phone, deleted, restored, google, archives, backupFiles, drive, drawn, keys>>
        /\ backupCall' = Backup!NoCall /\ backupCall.op = "prepare" /\ backupCall.at = "point"
        /\ Backup!Bound /\ vault' = [vault EXCEPT ![google.as] = j]
    BY <1>1 DEF Backup!WritePointer, Backup!Persist, Backup!phoneVars, Backup!Ends
  <1>3. BackupTypes /\ backupCall \in CallType /\ Creating /\ DriveSound /\ drawn \in Nat
    BY <1>1 DEF BackupInv, BackupTypes
  <1>4. PICK u \in Googles : u = google.as /\ u = backupCall.under.as  BY <1>2, <1>3, BoundTo
  <1>5. /\ j.archive \in DOMAIN archives /\ archives[j.archive].of = u /\ j.id = 0 /\ j.phase = "prepared"
        /\ \A g \in Googles : \A f \in drive[g] : f.archive # j.archive
        /\ j.archive \in backupFiles
    BY <1>2, <1>3, <1>4 DEF Creating
  <1>6. \A f \in drive[u] : f.id # 0  BY <1>3, <1>4 DEF DriveSound
  <1>7. j \in JobType  BY <1>3 DEF CallType
  <1>8. Fits(u, j)  BY <1>5, <1>6, <1>7 DEF Fits
  <1>9. backupCall' \in CallType /\ Creating' /\ Uploads' /\ Restores'  BY <1>2, NothingClaimed
  <1>10. drawn' \in Nat /\ drawn' >= drawn /\ j.id \in 0..drawn'  BY <1>2, <1>3, <1>5
  <1>11. PICK k : k = j  OBVIOUS
  <1>12. Fits(u, k) /\ vault' = [vault EXCEPT ![u] = k] /\ k.id \in 0..drawn'  BY <1>2, <1>4, <1>8, <1>10, <1>11
  <1> HIDE DEF j
  <1> QED  BY <1>1, <1>2, <1>9, <1>10, <1>12, Persisted

\* An upload that goes on has the job that is saved for its account.
LEMMA UploadLinked ==
    ASSUME BackupInv, backupCall.op = "upload", Backup!Bound
    PROVE \E u \in Googles :
              /\ u = google.as /\ u = backupCall.under.as /\ vault[u] # Backup!NoJob
              /\ vault[u].phase = "prepared" /\ backupCall.job.phase = "prepared"
              /\ vault[u].archive = backupCall.job.archive /\ vault[u].id = backupCall.job.id
              /\ backupCall.job \in JobType /\ backupCall.job.id \in 0..drawn /\ Fits(u, backupCall.job)
  <1> DEFINE j == backupCall.job
  <1>1. BackupTypes /\ VaultSound /\ Uploads /\ backupCall \in CallType  BY DEF BackupInv, BackupTypes
  <1>2. PICK u \in Googles : u = google.as /\ u = backupCall.under.as  BY <1>1, BoundTo
  <1>3. /\ vault[u] # Backup!NoJob /\ vault[u].phase = "prepared" /\ j.phase = "prepared"
        /\ vault[u].archive = j.archive /\ vault[u].id = j.id
    BY <1>1, <1>2 DEF Uploads
  <1>4. /\ vault[u].archive \in DOMAIN archives /\ archives[vault[u].archive].of = u
        /\ vault[u].archive \in backupFiles /\ vault[u].id \in 0..drawn
        /\ \A f \in drive[u] : f.archive = vault[u].archive <=> f.id = vault[u].id
    BY <1>1, <1>3 DEF VaultSound
  <1>5. j \in JobType  BY <1>1 DEF CallType
  <1>6. Fits(u, j)  BY <1>3, <1>4, <1>5 DEF Fits
  <1> QED  BY <1>2, <1>3, <1>4, <1>5, <1>6

\* The one file that Drive has of an id, or none.
LEMMA FileFound ==
    ASSUME BackupTypes, NEW u, u = google.as, backupCall.job.id # 0
    PROVE LET t == Backup!TheFile IN
          /\ (t \in drive[u] /\ t.id = backupCall.job.id) \/ (t = Backup!NoFile /\ ~t.whole /\ ~t.uri)
          /\ (\E f \in drive[u] : f.id = backupCall.job.id) => t \in drive[u] /\ t.id = backupCall.job.id
  <1> DEFINE S == Backup!Stored(google.as, backupCall.job.id)
             P(f) == S # {} => f # Backup!NoFile
             t == Backup!TheFile
  <1>1. \A f \in S : f \in drive[u] /\ f.id = backupCall.job.id /\ f # Backup!NoFile
    BY DEF Backup!Stored, Backup!NoFile
  <1>2. \A f \in drive[u] : f.id = backupCall.job.id => f \in S  BY DEF Backup!Stored
  <1>3. \E f \in S \cup {Backup!NoFile} : P(f)  BY <1>1
  <1>4. t = CHOOSE f \in S \cup {Backup!NoFile} : P(f)  BY DEF Backup!TheFile
  <1> HIDE DEF S, t
  <1>5. t \in S \cup {Backup!NoFile} /\ P(t)  BY <1>3, <1>4
  <1>6. t \in S \/ t = Backup!NoFile  BY <1>5
  <1>7. ~Backup!NoFile.whole /\ ~Backup!NoFile.uri  BY DEF Backup!NoFile
  <1>8. S # {} => t \in S  BY <1>5
  <1>9. (t \in drive[u] /\ t.id = backupCall.job.id) \/ (t = Backup!NoFile /\ ~t.whole /\ ~t.uri)
    BY <1>1, <1>6, <1>7
  <1>10. (\E f \in drive[u] : f.id = backupCall.job.id) => t \in drive[u] /\ t.id = backupCall.job.id
    BY <1>1, <1>2, <1>8
  <1> QED  BY <1>9, <1>10 DEF t

\* Where an upload may be once its id is known.
Later == {"begin", "begun", "status", "put", "download", "finish"}

Landed(at, D, j) == at \in {"download", "finish"} => \E f \in D : f.id = j.id /\ f.archive = j.archive /\ f.whole

\* An upload goes to the next request, with the job that is saved.
LEMMA UploadGoes ==
    ASSUME BackupInv, NEW u \in Googles, u = backupCall.under.as, vault' \in [Googles -> JobType],
           backupCall.op = "upload", NEW at \in Later, NEW j \in JobType,
           backupCall' = [backupCall EXCEPT !.job = j, !.at = at],
           vault'[u].archive = j.archive, vault'[u].id = j.id, j.id # 0,
           vault'[u].phase = "prepared", j.phase = "prepared",
           Landed(at, drive'[u], j)
    PROVE backupCall' \in CallType /\ Creating' /\ Uploads' /\ Restores'
  <1>1. backupCall \in CallType  BY DEF BackupInv, BackupTypes
  <1>2. /\ backupCall' \in CallType /\ backupCall'.op = "upload" /\ backupCall'.at = at /\ backupCall'.job = j
        /\ backupCall'.under.as = u
    BY <1>1 DEF CallType, Later, Places
  <1>3. Creating' /\ Restores'  BY <1>2 DEF Creating, Restores, Later
  <1>4. vault'[u] # Backup!NoJob  BY NoJobType
  <1>5. backupCall'.at # "id" /\ backupCall'.at \notin {"ledger", "history", "stickers", "preferences"}  BY <1>2 DEF Later
  <1>7. backupCall'.at \in {"download", "finish"} => WholeFile(u, j)'  BY <1>2 DEF Landed, WholeFile
  <1>6. Uploads'  BY <1>2, <1>4, <1>5, <1>7 DEF Uploads, WholeFile
  <1> QED  BY <1>2, <1>3, <1>6

LEMMA GenerateIDInv == BackupInv /\ Backup!GenerateID => BackupInv'
  <1>1. SUFFICES ASSUME BackupInv, Backup!GenerateID PROVE BackupInv'  OBVIOUS
  <1>2. /\ UNCHANGED <<phone, deleted, restored, google, archives, backupFiles, drive, keys>>
        /\ drawn' = drawn + 1 /\ vault' = [vault EXCEPT ![google.as] = [backupCall.job EXCEPT !.id = drawn + 1]]
        /\ backupCall' = [backupCall EXCEPT !.job = [backupCall.job EXCEPT !.id = drawn + 1], !.at = "begin"]
        /\ backupCall.op = "upload" /\ backupCall.at = "id" /\ Backup!Bound
    BY <1>1 DEF Backup!GenerateID, Backup!SaveID, Backup!Saves, Backup!Persist, Backup!Uploading, Backup!Granted,
                Backup!phoneVars
  <1>3. BackupTypes /\ drawn \in Nat /\ DriveSound /\ Uploads /\ vault \in [Googles -> JobType]
    BY <1>1 DEF BackupInv, BackupTypes
  <1>4. PICK u \in Googles :
              /\ u = google.as /\ u = backupCall.under.as /\ vault[u] # Backup!NoJob
              /\ vault[u].phase = "prepared" /\ backupCall.job.phase = "prepared"
              /\ backupCall.job \in JobType /\ Fits(u, backupCall.job)
    BY <1>1, <1>2, UploadLinked
  <1>5. backupCall.job.id = 0  BY <1>2, <1>3 DEF Uploads
  <1>6. PICK j : j = [backupCall.job EXCEPT !.id = drawn + 1]  OBVIOUS
  <1>7. /\ j \in JobType /\ j.id = drawn + 1 /\ j.archive = backupCall.job.archive
        /\ j.phase = "prepared"
    BY <1>3, <1>4, <1>6 DEF JobType
  <1>8. \A f \in drive[u] : f.id \in 1..drawn  BY <1>3 DEF DriveSound
  <1>9. \A f \in drive[u] : f.archive # j.archive /\ f.id # j.id
    BY <1>3, <1>4, <1>5, <1>7, <1>8 DEF Fits
  <1>10. Fits(u, j)  BY <1>4, <1>7, <1>9 DEF Fits
  <1>11. drawn' \in Nat /\ drawn' >= drawn /\ j.id \in 0..drawn' /\ j.id # 0  BY <1>2, <1>3, <1>7
  <1>12. vault' = [vault EXCEPT ![u] = j] /\ backupCall' = [backupCall EXCEPT !.job = j, !.at = "begin"]
    BY <1>2, <1>4, <1>6
  <1>13. /\ vault' \in [Googles -> JobType] /\ vault'[u] = j /\ vault'[u].archive = j.archive /\ vault'[u].id = j.id
         /\ vault'[u].phase = "prepared"
    BY <1>3, <1>7, <1>12
  <1>14. "begin" \in Later /\ Landed("begin", drive'[u], j)  BY DEF Later, Landed
  <1>15. backupCall' \in CallType /\ Creating' /\ Uploads' /\ Restores'
    BY <1>1, <1>2, <1>4, <1>7, <1>11, <1>12, <1>13, <1>14, UploadGoes
  <1> QED  BY <1>1, <1>2, <1>10, <1>11, <1>12, <1>15, Persisted

\* An upload that goes on with the same job, and leaves Drive and the pointer alone.
LEMMA UploadStep ==
    ASSUME BackupInv, UNCHANGED <<phone, deleted, restored, google, archives, vault, backupFiles, drive, drawn, keys>>,
           backupCall.op = "upload", Backup!Bound, backupCall.at # "id", NEW at \in Later,
           backupCall' = [backupCall EXCEPT !.at = at],
           at \in {"download", "finish"} => WholeFile(google.as, backupCall.job)
    PROVE BackupInv'
  <1>1. PICK u \in Googles :
              /\ u = google.as /\ u = backupCall.under.as
              /\ vault[u].phase = "prepared" /\ backupCall.job.phase = "prepared"
              /\ vault[u].archive = backupCall.job.archive /\ vault[u].id = backupCall.job.id
              /\ backupCall.job \in JobType
    BY UploadLinked
  <1>2. /\ vault \in [Googles -> JobType] /\ backupCall \in CallType /\ Uploads
        /\ google \in Backup!Session /\ keys \subseteq DOMAIN archives
    BY DEF BackupInv, BackupTypes
  <1>3. backupCall.job.id # 0  BY <1>2 DEF Uploads
  <1>4. PICK j \in JobType : j = backupCall.job  BY <1>1
  <1>5. backupCall' = [backupCall EXCEPT !.job = j, !.at = at]  BY <1>2, <1>4 DEF CallType
  <1>6. Landed(at, drive'[u], j)
    BY <1>1, <1>4 DEF WholeFile, Landed
  <1>7. /\ vault' \in [Googles -> JobType] /\ vault'[u].archive = j.archive /\ vault'[u].id = j.id /\ j.id # 0
        /\ vault'[u].phase = "prepared" /\ j.phase = "prepared"
    BY <1>1, <1>2, <1>3, <1>4
  <1>8. backupCall' \in CallType /\ Creating' /\ Uploads' /\ Restores'
    BY <1>1, <1>5, <1>6, <1>7, UploadGoes
  <1>9. google' \in Backup!Session /\ keys' \subseteq DOMAIN archives  BY <1>2
  <1> QED  BY <1>8, <1>9, CallGoesOn

\* An upload that saves its job, with another address of the session.
LEMMA UploadSaves ==
    ASSUME BackupInv, UNCHANGED <<phone, deleted, restored, google, archives, backupFiles, drive, drawn, keys>>,
           backupCall.op = "upload", Backup!Bound, backupCall.at # "id", NEW at \in Later \ {"download", "finish"},
           NEW uri \in BOOLEAN,
           vault' = [vault EXCEPT ![google.as] = [backupCall.job EXCEPT !.uri = uri]],
           backupCall' = [backupCall EXCEPT !.job = [backupCall.job EXCEPT !.uri = uri], !.at = at]
    PROVE BackupInv'
  <1>1. PICK u \in Googles :
              /\ u = google.as /\ u = backupCall.under.as
              /\ vault[u].phase = "prepared" /\ backupCall.job.phase = "prepared"
              /\ backupCall.job \in JobType /\ backupCall.job.id \in 0..drawn /\ Fits(u, backupCall.job)
    BY UploadLinked
  <1>2. vault \in [Googles -> JobType] /\ Uploads /\ drawn \in Nat  BY DEF BackupInv, BackupTypes
  <1>3. backupCall.job.id # 0  BY <1>2 DEF Uploads
  <1>4. PICK j : j = [backupCall.job EXCEPT !.uri = uri]  OBVIOUS
  <1>5. /\ j \in JobType /\ j.id = backupCall.job.id /\ j.archive = backupCall.job.archive
        /\ j.phase = "prepared"
    BY <1>1, <1>4 DEF JobType
  <1>6. Fits(u, j)  BY <1>1, <1>5 DEF Fits
  <1>7. vault' = [vault EXCEPT ![u] = j] /\ backupCall' = [backupCall EXCEPT !.job = j, !.at = at]  BY <1>1, <1>4
  <1>8. /\ vault' \in [Googles -> JobType] /\ vault'[u].archive = j.archive /\ vault'[u].id = j.id
        /\ vault'[u].phase = "prepared"
    BY <1>2, <1>5, <1>7
  <1>9. at \in Later /\ Landed(at, drive'[u], j)  BY DEF Landed
  <1>10. backupCall' \in CallType /\ Creating' /\ Uploads' /\ Restores'
    BY <1>1, <1>3, <1>5, <1>7, <1>8, <1>9, UploadGoes
  <1>11. drawn' \in Nat /\ drawn' >= drawn /\ j.id \in 0..drawn'  BY <1>1, <1>2, <1>5
  <1> QED  BY <1>1, <1>6, <1>7, <1>10, <1>11, Persisted

\* The file that an upload finds under its id is its own.
LEMMA FileIsOurs ==
    ASSUME BackupInv, backupCall.op = "upload", Backup!Bound, backupCall.at # "id"
    PROVE LET t == Backup!TheFile IN
          /\ t.whole \/ t.uri => t \in drive[google.as] /\ t.id = backupCall.job.id /\ t.archive = backupCall.job.archive
          /\ t.whole => WholeFile(google.as, backupCall.job)
          /\ ~t.whole => \A f \in drive[google.as] : f.id = backupCall.job.id => ~f.whole
  <1> DEFINE t == Backup!TheFile
  <1>1. PICK u \in Googles : u = google.as /\ Fits(u, backupCall.job)  BY UploadLinked
  <1>2. BackupTypes /\ DriveSound /\ backupCall.job.id # 0  BY DEF BackupInv, Uploads
  <1>3. /\ (t \in drive[u] /\ t.id = backupCall.job.id) \/ (t = Backup!NoFile /\ ~t.whole /\ ~t.uri)
        /\ (\E f \in drive[u] : f.id = backupCall.job.id) => t \in drive[u] /\ t.id = backupCall.job.id
    BY <1>1, <1>2, FileFound
  <1> HIDE DEF t
  <1>4. t.whole \/ t.uri => t \in drive[u] /\ t.id = backupCall.job.id /\ t.archive = backupCall.job.archive
    BY <1>1, <1>3 DEF Fits
  <1>5. t.whole => WholeFile(u, backupCall.job)  BY <1>4 DEF WholeFile
  <1>6. \A f \in drive[u] : f.id = backupCall.job.id => f = t  BY <1>2, <1>3 DEF DriveSound
  <1> QED  BY <1>1, <1>4, <1>5, <1>6 DEF t

LEMMA StatusInv == BackupInv /\ Backup!UploadStatus => BackupInv'
  <1>1. SUFFICES ASSUME BackupInv, Backup!UploadStatus PROVE BackupInv'  OBVIOUS
  <1>2. /\ UNCHANGED <<phone, deleted, restored, google, archives, backupFiles, drive, drawn, keys>>
        /\ backupCall.op = "upload" /\ backupCall.at = "status" /\ Backup!Bound
    BY <1>1 DEF Backup!UploadStatus, Backup!Uploading, Backup!Granted, Backup!phoneVars
  <1>3. backupCall.at # "id"  BY <1>2
  <1>4. CASE /\ backupCall' = [backupCall EXCEPT !.at = "finish"] /\ vault' = vault /\ Backup!TheFile.whole
    <2>1. WholeFile(google.as, backupCall.job)  BY <1>1, <1>2, <1>3, <1>4, FileIsOurs
    <2>2. "finish" \in Later  BY DEF Later
    <2> QED  BY <1>1, <1>2, <1>3, <1>4, <2>1, <2>2, UploadStep
  <1>5. CASE backupCall' = [backupCall EXCEPT !.at = "put"] /\ vault' = vault
    <2>1. "put" \in Later /\ "put" \notin {"download", "finish"}  BY DEF Later
    <2> QED  BY <1>1, <1>2, <1>3, <1>5, <2>1, UploadStep
  <1>6. CASE Backup!Saves(Backup!Forgotten(backupCall.job), Backup!Resumed(Backup!Forgotten(backupCall.job)))
    <2>1. Backup!Forgotten(backupCall.job) = [backupCall.job EXCEPT !.uri = FALSE]  BY DEF Backup!Forgotten
    <2>2. PICK at \in {"put", "begin"} : at = Backup!Resumed(Backup!Forgotten(backupCall.job))
      BY DEF Backup!Resumed
    <2>3. at \in Later \ {"download", "finish"}  BY <2>2 DEF Later
    <2>4. /\ vault' = [vault EXCEPT ![google.as] = [backupCall.job EXCEPT !.uri = FALSE]]
          /\ backupCall' = [backupCall EXCEPT !.job = [backupCall.job EXCEPT !.uri = FALSE], !.at = at]
      BY <1>6, <2>1, <2>2 DEF Backup!Saves, Backup!Persist
    <2> QED  BY <1>1, <1>2, <1>3, <2>3, <2>4, UploadSaves
  <1> QED  BY <1>1, <1>4, <1>5, <1>6 DEF Backup!UploadStatus, Backup!Goes

LEMMA SaveURIInv == BackupInv /\ Backup!SaveURI => BackupInv'
  <1>1. SUFFICES ASSUME BackupInv, Backup!SaveURI PROVE BackupInv'  OBVIOUS
  <1>2. /\ UNCHANGED <<phone, deleted, restored, google, archives, backupFiles, drive, drawn, keys>>
        /\ backupCall.op = "upload" /\ backupCall.at = "begun" /\ Backup!Bound
        /\ vault' = [vault EXCEPT ![google.as] = backupCall.job]
        /\ backupCall' = [backupCall EXCEPT !.job = backupCall.job, !.at = "put"]
    BY <1>1 DEF Backup!SaveURI, Backup!Saves, Backup!Persist, Backup!Uploading, Backup!Granted, Backup!phoneVars
  <1>3. backupCall.job \in JobType  BY <1>1 DEF BackupInv, BackupTypes, CallType
  <1>4. PICK uri \in BOOLEAN : uri = backupCall.job.uri  BY <1>3 DEF JobType
  <1>5. backupCall.job = [backupCall.job EXCEPT !.uri = uri]  BY <1>3, <1>4 DEF JobType
  <1>6. "put" \in Later \ {"download", "finish"} /\ backupCall.at # "id"  BY <1>2 DEF Later
  <1>7. /\ vault' = [vault EXCEPT ![google.as] = [backupCall.job EXCEPT !.uri = uri]]
        /\ backupCall' = [backupCall EXCEPT !.job = [backupCall.job EXCEPT !.uri = uri], !.at = "put"]
    BY <1>2, <1>5
  <1> QED  BY <1>1, <1>2, <1>6, <1>7, UploadSaves

LEMMA CompareInv == BackupInv /\ Backup!CompareFile => BackupInv'
  <1>1. SUFFICES ASSUME BackupInv, Backup!CompareFile PROVE BackupInv'  OBVIOUS
  <1>2. /\ UNCHANGED <<phone, deleted, restored, google, archives, vault, backupFiles, drive, drawn, keys>>
        /\ backupCall.op = "upload" /\ backupCall.at = "download" /\ Backup!Bound
        /\ backupCall' = [backupCall EXCEPT !.at = "finish"]
    BY <1>1 DEF Backup!CompareFile, Backup!Goes, Backup!Uploading, Backup!Granted, Backup!phoneVars
  <1>3. WholeFile(google.as, backupCall.job)  BY <1>1, <1>2 DEF BackupInv, Uploads, Backup!Bound
  <1>4. "finish" \in Later /\ backupCall.at # "id"  BY <1>2 DEF Later
  <1> QED  BY <1>1, <1>2, <1>3, <1>4, UploadStep

LEMMA FinishInv == BackupInv /\ Backup!FinishUpload => BackupInv'
  <1>1. SUFFICES ASSUME BackupInv, Backup!FinishUpload PROVE BackupInv'  OBVIOUS
  <1>2. /\ UNCHANGED <<phone, deleted, restored, google, archives, backupFiles, drive, drawn, keys>>
        /\ backupCall.op = "upload" /\ backupCall.at = "finish" /\ Backup!Bound
        /\ vault' = [vault EXCEPT ![google.as] = [backupCall.job EXCEPT !.phase = "uploaded"]]
        /\ backupCall' = Backup!NoCall
    BY <1>1 DEF Backup!FinishUpload, Backup!Persist, Backup!Ends, Backup!phoneVars
  <1>3. PICK u \in Googles :
              /\ u = google.as /\ u = backupCall.under.as
              /\ backupCall.job \in JobType /\ backupCall.job.id \in 0..drawn /\ Fits(u, backupCall.job)
    BY <1>1, <1>2, UploadLinked
  <1>4. WholeFile(u, backupCall.job)  BY <1>1, <1>2, <1>3 DEF BackupInv, Uploads
  <1>5. PICK j : j = [backupCall.job EXCEPT !.phase = "uploaded"]  OBVIOUS
  <1>6. j \in JobType /\ j.id = backupCall.job.id /\ j.archive = backupCall.job.archive
    BY <1>3, <1>5 DEF JobType
  <1>7. WholeFile(u, j)  BY <1>4, <1>6 DEF WholeFile
  <1>8. Fits(u, j)  BY <1>3, <1>6, <1>7 DEF Fits
  <1>9. vault' = [vault EXCEPT ![u] = j]  BY <1>2, <1>3, <1>5
  <1>10. drawn' \in Nat /\ drawn' >= drawn /\ j.id \in 0..drawn'  BY <1>1, <1>2, <1>3, <1>6 DEF BackupInv, BackupTypes
  <1>11. backupCall' \in CallType /\ Creating' /\ Uploads' /\ Restores'  BY <1>2, NothingClaimed
  <1> QED  BY <1>1, <1>2, <1>8, <1>9, <1>10, <1>11, Persisted

\* What Drive has of an account changes.
LEMMA DriveChanges ==
    ASSUME BackupInv, UNCHANGED <<phone, deleted, restored, archives, vault, backupFiles, drawn, keys>>,
           google' \in Backup!Session, NEW u \in Googles, NEW S \in SUBSET FileType, drive' = [drive EXCEPT ![u] = S],
           \A f \in S : /\ f.archive \in DOMAIN archives /\ archives[f.archive].of = u /\ f.id \in 1..drawn
                        /\ \A h \in S : f.id = h.id \/ f.archive = h.archive => f = h,
           vault[u] # Backup!NoJob =>
               /\ \A f \in S : f.archive = vault[u].archive <=> f.id = vault[u].id
               /\ vault[u].phase = "uploaded" => \E f \in S : /\ f.id = vault[u].id /\ f.archive = vault[u].archive
                                                              /\ f.whole,
           backupCall' \in CallType, Creating', Uploads', Restores'
    PROVE BackupInv'
  <1>1. drive' \in [Googles -> SUBSET FileType] /\ drive'[u] = S /\ \A g \in Googles \ {u} : drive'[g] = drive[g]
    BY DEF BackupInv, BackupTypes
  <1>2. BackupTypes'  BY <1>1 DEF BackupInv, BackupTypes
  <1>3. DriveSound'
    <2>1. SUFFICES ASSUME NEW g \in Googles, NEW f \in drive'[g]
                   PROVE /\ f.archive \in DOMAIN archives /\ archives[f.archive].of = g /\ f.id \in 1..drawn
                         /\ \A h \in drive'[g] : f.id = h.id \/ f.archive = h.archive => f = h
      BY DEF DriveSound
    <2>2. CASE g = u  BY <1>1, <2>2
    <2>3. CASE g # u  BY <1>1, <2>3 DEF BackupInv, DriveSound
    <2> QED  BY <2>2, <2>3
  <1>4. VaultSound'
    <2>1. SUFFICES ASSUME NEW g \in Googles, vault[g] # Backup!NoJob
                   PROVE /\ vault[g].archive \in DOMAIN archives /\ archives[vault[g].archive].of = g
                         /\ vault[g].archive \in backupFiles /\ vault[g].id \in 0..drawn
                         /\ \A f \in drive'[g] : f.archive = vault[g].archive <=> f.id = vault[g].id
                         /\ vault[g].phase = "uploaded" =>
                              \E f \in drive'[g] : f.id = vault[g].id /\ f.archive = vault[g].archive /\ f.whole
      BY DEF VaultSound, WholeFile
    <2>2. /\ vault[g].archive \in DOMAIN archives /\ archives[vault[g].archive].of = g
          /\ vault[g].archive \in backupFiles /\ vault[g].id \in 0..drawn
      BY <2>1 DEF BackupInv, VaultSound
    <2>3. CASE g = u  BY <1>1, <2>1, <2>2, <2>3
    <2>4. CASE g # u
      <3>1. /\ \A f \in drive[g] : f.archive = vault[g].archive <=> f.id = vault[g].id
            /\ vault[g].phase = "uploaded" =>
                  \E f \in drive[g] : f.id = vault[g].id /\ f.archive = vault[g].archive /\ f.whole
        BY <2>1 DEF BackupInv, VaultSound, WholeFile
      <3> QED  BY <1>1, <2>2, <2>4, <3>1
    <2> QED  BY <2>3, <2>4
  <1>5. Reported'  BY DEF BackupInv, Reported, HasMessages, HasSticker, HasPreferences, Gone
  <1> QED  BY <1>2, <1>3, <1>4, <1>5 DEF BackupInv

LEMMA BeginInv == BackupInv /\ Backup!BeginUpload => BackupInv'
  <1>1. SUFFICES ASSUME BackupInv, Backup!BeginUpload PROVE BackupInv'  OBVIOUS
  <1>2. /\ UNCHANGED <<phone, deleted, restored, google, archives, vault, backupFiles, drawn, keys>>
        /\ backupCall.op = "upload" /\ backupCall.at = "begin" /\ Backup!Bound
    BY <1>1 DEF Backup!BeginUpload, Backup!Uploading, Backup!Granted, Backup!phoneVars
  <1>3. backupCall.at # "id"  BY <1>2
  <1>4. CASE Backup!TheFile.whole /\ backupCall' = [backupCall EXCEPT !.at = "download"] /\ drive' = drive
    <2>1. WholeFile(google.as, backupCall.job)  BY <1>1, <1>2, <1>3, <1>4, FileIsOurs
    <2>2. "download" \in Later  BY DEF Later
    <2> QED  BY <1>1, <1>2, <1>3, <1>4, <2>1, <2>2, UploadStep
  <1>5. CASE /\ ~Backup!TheFile.whole /\ drive' = [drive EXCEPT ![google.as] = Backup!Begun]
             /\ backupCall' = [backupCall EXCEPT !.at = "begun", !.job.uri = TRUE]
    <2>1. PICK u \in Googles :
              /\ u = google.as /\ u = backupCall.under.as /\ vault[u] # Backup!NoJob
              /\ vault[u].phase = "prepared" /\ backupCall.job.phase = "prepared"
              /\ vault[u].archive = backupCall.job.archive /\ vault[u].id = backupCall.job.id
              /\ backupCall.job \in JobType /\ backupCall.job.id \in 0..drawn /\ Fits(u, backupCall.job)
      BY <1>1, <1>2, UploadLinked
    <2>2. /\ BackupTypes /\ DriveSound /\ backupCall.job.id # 0 /\ vault \in [Googles -> JobType] /\ drawn \in Nat
          /\ google \in Backup!Session /\ backupCall \in CallType /\ drive[u] \subseteq FileType
      BY <1>1, <1>2, <1>3, <2>1 DEF BackupInv, BackupTypes, Uploads
    <2> DEFINE new == [id |-> backupCall.job.id, archive |-> backupCall.job.archive, whole |-> FALSE, uri |-> TRUE]
    <2>3. new \in FileType /\ new.id = backupCall.job.id /\ new.archive = backupCall.job.archive
      BY <2>1 DEF FileType, JobType
    <2>4. Backup!Begun = {f \in drive[u] : f.id # backupCall.job.id} \cup {new}  BY <2>1 DEF Backup!Begun
    <2> HIDE DEF new
    <2>5. PICK S : S = Backup!Begun  OBVIOUS
    <2>6. S \in SUBSET FileType /\ drive' = [drive EXCEPT ![u] = S]  BY <1>5, <2>1, <2>2, <2>3, <2>4, <2>5
    <2>7. \A f \in S : (f \in drive[u] /\ f.id # backupCall.job.id /\ f.archive # backupCall.job.archive) \/ f = new
      BY <2>1, <2>4, <2>5 DEF Fits
    <2>8. \A f \in S : /\ f.archive \in DOMAIN archives /\ archives[f.archive].of = u /\ f.id \in 1..drawn
                       /\ \A h \in S : f.id = h.id \/ f.archive = h.archive => f = h
      <3>1. \A f \in S : f.archive \in DOMAIN archives /\ archives[f.archive].of = u
        BY <2>1, <2>2, <2>3, <2>7 DEF DriveSound, Fits
      <3>2. backupCall.job.id \in 1..drawn  BY <2>1, <2>2
      <3>3. \A f \in S : f.id \in 1..drawn  BY <2>2, <2>3, <2>7, <3>2 DEF DriveSound
      <3>4. \A f \in S, h \in S : f.id = h.id \/ f.archive = h.archive => f = h
        BY <2>2, <2>3, <2>7 DEF DriveSound
      <3> QED  BY <3>1, <3>3, <3>4
    <2>9. \A f \in S : f.archive = vault[u].archive <=> f.id = vault[u].id  BY <2>1, <2>3, <2>7
    <2>10. PICK j : j = [backupCall.job EXCEPT !.uri = TRUE]  OBVIOUS
    <2>11. j \in JobType /\ j.archive = backupCall.job.archive /\ j.id = backupCall.job.id /\ j.phase = "prepared"
      BY <2>1, <2>10 DEF JobType
    <2>12. backupCall' = [backupCall EXCEPT !.job = j, !.at = "begun"]
      BY <1>5, <2>2, <2>10 DEF CallType
    <2>13. "begun" \in Later /\ Landed("begun", drive'[u], j)  BY DEF Later, Landed
    <2>14. vault' \in [Googles -> JobType] /\ vault'[u].archive = j.archive /\ vault'[u].id = j.id /\ j.id # 0
           /\ vault'[u].phase = "prepared"
      BY <1>2, <2>1, <2>2, <2>11
    <2>15. backupCall' \in CallType /\ Creating' /\ Uploads' /\ Restores'
      BY <1>1, <1>2, <2>1, <2>11, <2>12, <2>13, <2>14, UploadGoes
    <2>16. google' \in Backup!Session /\ vault[u].phase # "uploaded"  BY <1>2, <2>1, <2>2
    <2> QED  BY <1>1, <1>2, <2>6, <2>8, <2>9, <2>15, <2>16, DriveChanges
  <1> QED  BY <1>1, <1>4, <1>5 DEF Backup!BeginUpload, Backup!Goes

\* One file of an account is redrawn or given up: it keeps its id and its archive,
\* and is whole if it was.
LEMMA FileRedrawn ==
    ASSUME BackupInv, UNCHANGED <<phone, deleted, restored, google, archives, vault, backupFiles, drawn, keys>>,
           NEW u \in Googles, NEW f \in drive[u], NEW new \in FileType, NEW S,
           new.id = f.id, new.archive = f.archive, f.whole => new.whole /\ new \in S,
           drive[u] \ {f} \subseteq S, S \subseteq (drive[u] \ {f}) \cup {new},
           drive' = [drive EXCEPT ![u] = S]
    PROVE /\ backupCall' \in CallType /\ Creating' /\ Uploads' /\ Restores' => BackupInv'
          /\ \A g \in Googles : \A j : WholeFile(g, j) => \E h \in drive'[g] : h.id = j.id /\ h.archive = j.archive /\ h.whole
          /\ \A g \in Googles : \A h \in drive'[g] : \E k \in drive[g] : k.archive = h.archive
          /\ backupCall' = backupCall => BackupInv'
  <1>1. /\ BackupTypes /\ DriveSound /\ VaultSound /\ drive \in [Googles -> SUBSET FileType]
        /\ google' \in Backup!Session /\ drive[u] \subseteq FileType
    BY DEF BackupInv, BackupTypes
  <1>2. drive'[u] = S /\ \A g \in Googles \ {u} : drive'[g] = drive[g]  BY <1>1
  <1>3. \A h \in S : (h \in drive[u] /\ h # f) \/ h = new  OBVIOUS
  <1>4. S \in SUBSET FileType  BY <1>1, <1>3
  <1>5. \A h \in S : /\ h.archive \in DOMAIN archives /\ archives[h.archive].of = u /\ h.id \in 1..drawn
                     /\ \A k \in S : h.id = k.id \/ h.archive = k.archive => h = k
    BY <1>1, <1>3 DEF DriveSound
  <1>6. \A j : WholeFile(u, j) => \E h \in S : h.id = j.id /\ h.archive = j.archive /\ h.whole
    BY <1>1, <1>3 DEF WholeFile
  <1>7. vault[u] # Backup!NoJob =>
            /\ \A h \in S : h.archive = vault[u].archive <=> h.id = vault[u].id
            /\ vault[u].phase = "uploaded" => \E h \in S : /\ h.id = vault[u].id /\ h.archive = vault[u].archive
                                                           /\ h.whole
    BY <1>1, <1>3, <1>6 DEF VaultSound
  <1>8. ASSUME backupCall' \in CallType, Creating', Uploads', Restores' PROVE BackupInv'
    BY <1>1, <1>4, <1>5, <1>7, <1>8, DriveChanges
  <1>9. \A g \in Googles : \A j : WholeFile(g, j) => \E h \in drive'[g] : h.id = j.id /\ h.archive = j.archive /\ h.whole
    BY <1>2, <1>6 DEF WholeFile
  <1>10. \A g \in Googles : \A h \in drive'[g] : \E k \in drive[g] : k.archive = h.archive
    BY <1>2, <1>3
  <1>11. ASSUME backupCall' = backupCall PROVE BackupInv'
    <2>1. backupCall' \in CallType  BY <1>11 DEF BackupInv, BackupTypes
    <2>2. Creating'  BY <1>10, <1>11 DEF BackupInv, Creating
    <2>3. Uploads'
      <3>1. SUFFICES ASSUME backupCall.op = "upload"
                     PROVE backupCall.under.as \in Googles /\
                           (backupCall.at \in {"download", "finish"} =>
                                \E h \in drive'[backupCall.under.as] : h.id = backupCall.job.id /\ h.archive = backupCall.job.archive /\ h.whole)
        BY <1>11 DEF BackupInv, Uploads, WholeFile
      <3> QED  BY <1>9, <3>1 DEF BackupInv, Uploads
    <2>4. Restores'  BY <1>11 DEF BackupInv, Restores, HasMessages, HasSticker, Gone
    <2> QED  BY <1>8, <2>1, <2>2, <2>3, <2>4
  <1> QED  BY <1>8, <1>9, <1>10, <1>11

LEMMA SessionExpireInv == BackupInv /\ Backup!ExpireSession => BackupInv'
  <1>1. SUFFICES ASSUME BackupInv, Backup!ExpireSession PROVE BackupInv'  OBVIOUS
  <1>2. UNCHANGED <<phone, deleted, restored, google, archives, vault, backupFiles, drawn, keys>> /\ backupCall' = backupCall
    BY <1>1 DEF Backup!ExpireSession, Backup!phoneVars
  <1>3. PICK u \in Googles : \E f \in drive[u] :
            drive' = [drive EXCEPT ![u] = (@ \ {f}) \cup (IF f.whole THEN {[f EXCEPT !.uri = FALSE]} ELSE {})]
    BY <1>1 DEF Backup!ExpireSession
  <1>4. PICK f \in drive[u] :
            drive' = [drive EXCEPT ![u] = (@ \ {f}) \cup (IF f.whole THEN {[f EXCEPT !.uri = FALSE]} ELSE {})]
    BY <1>3
  <1>5. drive \in [Googles -> SUBSET FileType] /\ f \in FileType  BY <1>1 DEF BackupInv, BackupTypes
  <1>6. PICK new : new = [f EXCEPT !.uri = FALSE]  OBVIOUS
  <1>7. new \in FileType /\ new.id = f.id /\ new.archive = f.archive /\ new.whole = f.whole
    BY <1>5, <1>6 DEF FileType
  <1>8. PICK S : S = (drive[u] \ {f}) \cup (IF f.whole THEN {new} ELSE {})  OBVIOUS
  <1>9. drive' = [drive EXCEPT ![u] = S]  BY <1>4, <1>5, <1>6, <1>8
  <1>10. /\ f.whole => new.whole /\ new \in S
         /\ drive[u] \ {f} \subseteq S /\ S \subseteq (drive[u] \ {f}) \cup {new}
    BY <1>7, <1>8
  <1> QED  BY <1>1, <1>2, <1>7, <1>9, <1>10, FileRedrawn

LEMMA PutBytesInv == BackupInv /\ Backup!PutBytes => BackupInv'
  <1>1. SUFFICES ASSUME BackupInv, Backup!PutBytes PROVE BackupInv'  OBVIOUS
  <1> DEFINE t == Backup!TheFile
  <1>2. /\ UNCHANGED <<phone, deleted, restored, google, archives, vault, backupFiles, drawn, keys>>
        /\ backupCall.op = "upload" /\ backupCall.at = "put" /\ Backup!Bound /\ t.uri
        /\ drive' = [drive EXCEPT ![google.as] = (@ \ {t}) \cup {[t EXCEPT !.whole = TRUE]}]
        /\ backupCall' = [backupCall EXCEPT !.at = "finish"]
    BY <1>1 DEF Backup!PutBytes, Backup!Goes, Backup!Uploading, Backup!Granted, Backup!phoneVars
  <1>3. PICK u \in Googles :
              /\ u = google.as /\ u = backupCall.under.as
              /\ vault[u].phase = "prepared" /\ backupCall.job.phase = "prepared"
              /\ vault[u].archive = backupCall.job.archive /\ vault[u].id = backupCall.job.id
              /\ backupCall.job \in JobType
    BY <1>1, <1>2, UploadLinked
  <1>4. backupCall.at # "id"  BY <1>2
  <1>5. t \in drive[u] /\ t.id = backupCall.job.id /\ t.archive = backupCall.job.archive
    BY <1>1, <1>2, <1>3, <1>4, FileIsOurs
  <1>6. /\ drive \in [Googles -> SUBSET FileType] /\ t \in FileType /\ vault \in [Googles -> JobType]
        /\ backupCall \in CallType /\ backupCall.job.id # 0
    BY <1>1, <1>4, <1>2, <1>5 DEF BackupInv, BackupTypes, Uploads
  <1> HIDE DEF t
  <1>7. PICK f : f = t  OBVIOUS
  <1>8. PICK new : new = [f EXCEPT !.whole = TRUE]  OBVIOUS
  <1>9. f \in drive[u] /\ new \in FileType /\ new.id = f.id /\ new.archive = f.archive /\ new.whole = TRUE
    BY <1>5, <1>6, <1>7, <1>8 DEF FileType
  <1>10. PICK S : S = (drive[u] \ {f}) \cup {new}  OBVIOUS
  <1>11. drive' = [drive EXCEPT ![u] = S] /\ drive'[u] = S  BY <1>2, <1>3, <1>6, <1>7, <1>8, <1>10
  <1>12. /\ f.whole => new.whole /\ new \in S
         /\ drive[u] \ {f} \subseteq S /\ S \subseteq (drive[u] \ {f}) \cup {new}
    BY <1>9, <1>10
  <1>13. backupCall' \in CallType /\ Creating' /\ Uploads' /\ Restores' => BackupInv'
    BY <1>1, <1>2, <1>9, <1>11, <1>12, FileRedrawn
  <1>14. PICK j \in JobType : j = backupCall.job  BY <1>3
  <1>15. backupCall' = [backupCall EXCEPT !.job = j, !.at = "finish"]  BY <1>2, <1>6, <1>14 DEF CallType
  <1>16. Landed("finish", drive'[u], j)
    BY <1>5, <1>7, <1>9, <1>10, <1>11, <1>14 DEF Landed
  <1>17. "finish" \in Later  BY DEF Later
  <1>18. /\ vault' \in [Googles -> JobType] /\ vault'[u].archive = j.archive /\ vault'[u].id = j.id /\ j.id # 0
         /\ vault'[u].phase = "prepared" /\ j.phase = "prepared"
    BY <1>2, <1>3, <1>6, <1>14
  <1>19. backupCall' \in CallType /\ Creating' /\ Uploads' /\ Restores'
    BY <1>1, <1>2, <1>3, <1>15, <1>16, <1>17, <1>18, UploadGoes
  <1> QED  BY <1>13, <1>19

\* What the phone holds changes.
LEMMA PhoneChanges ==
    ASSUME BackupInv, UNCHANGED <<google, archives, vault, backupFiles, drive, drawn, keys>>,
           phone' \subseteq Items, deleted' \in BOOLEAN,
           backupCall' \in CallType, Creating', Uploads', Restores', Reported'
    PROVE BackupInv'
  <1>1. BackupTypes'  BY DEF BackupInv, BackupTypes
  <1>2. DriveSound'  BY DEF BackupInv, DriveSound
  <1>3. VaultSound'  BY DEF BackupInv, VaultSound, WholeFile
  <1> QED  BY <1>1, <1>2, <1>3 DEF BackupInv

Importing == {"ledger", "history", "stickers", "preferences"}

\* A restore goes to the next import.
LEMMA RestoreGoes ==
    ASSUME BackupInv, UNCHANGED <<archives, vault, backupFiles, drive>>,
           backupCall.at \in Importing, NEW at \in Importing, NEW got \in SUBSET {"text"},
           backupCall' = [backupCall EXCEPT !.at = at, !.got = got],
           Restores', backupCall.op # "upload"
    PROVE backupCall' \in CallType /\ Creating' /\ Uploads' /\ Restores'
  <1>1. backupCall \in CallType  BY DEF BackupInv, BackupTypes
  <1>2. backupCall' \in CallType /\ backupCall'.at = at /\ backupCall'.op = backupCall.op
    BY <1>1 DEF CallType, Importing, Places
  <1>3. Creating'  BY <1>2 DEF Creating, Importing
  <1>4. Uploads'  BY <1>2 DEF Uploads
  <1> QED  BY <1>2, <1>3, <1>4

\* A restore is no upload.
LEMMA NoUpload == BackupInv /\ backupCall.at \in Importing => backupCall.op # "upload"
  BY DEF BackupInv, Uploads, Importing

LEMMA RestoreBegins == BackupInv /\ (\E a \in DOMAIN archives : Backup!Restore(a)) => BackupInv'
  <1>1. SUFFICES ASSUME BackupInv, NEW a \in DOMAIN archives, Backup!Restore(a) PROVE BackupInv'  OBVIOUS
  <1> DEFINE j == [Backup!NoJob EXCEPT !.archive = a]
             op == IF archives[a].of = 0 THEN "local" ELSE "restore"
  <1>2. /\ UNCHANGED <<phone, deleted, restored, archives, vault, backupFiles, drive, drawn>>
        /\ google' = google /\ keys' = keys
        /\ backupCall' = [Backup!Call(op, "ledger") EXCEPT !.job = j]
    BY <1>1 DEF Backup!Restore, Backup!phoneVars
  <1>3. BackupTypes /\ google \in Backup!Session /\ keys \subseteq DOMAIN archives  BY <1>1 DEF BackupInv, BackupTypes
  <1>4. a \in Nat  BY <1>3, ArchiveCount
  <1>5. j \in JobType /\ j.archive = a  BY <1>4, NoJobType DEF JobType, Backup!NoJob
  <1>6. op \in {"local", "restore"} /\ "ledger" \in Places  BY DEF Places
  <1> HIDE DEF j, op
  <1>7. PICK o \in {"local", "restore"}, k \in JobType : o = op /\ k = j  BY <1>5, <1>6
  <1>8. /\ backupCall' \in CallType /\ backupCall'.op = o /\ backupCall'.at = "ledger"
        /\ backupCall'.job = k
    BY <1>2, <1>3, <1>6, <1>7, CallBegins
  <1>9. Creating' /\ Uploads'  BY <1>7, <1>8 DEF Creating, Uploads
  <1>10. Restores'  BY <1>2, <1>5, <1>7, <1>8 DEF Restores
  <1> QED  BY <1>1, <1>2, <1>3, <1>8, <1>9, <1>10, CallGoesOn

LEMMA LedgerInv == BackupInv /\ Backup!ReadLedger => BackupInv'
  <1>1. SUFFICES ASSUME BackupInv, Backup!ReadLedger PROVE BackupInv'  OBVIOUS
  <1>2. /\ UNCHANGED <<phone, deleted, restored, archives, vault, backupFiles, drive, drawn>>
        /\ google' = google /\ keys' = keys /\ backupCall.at = "ledger"
        /\ backupCall' = [backupCall EXCEPT !.at = "history", !.got = Gone]
    BY <1>1 DEF Backup!ReadLedger, Backup!StillOurs, Backup!Restoring, Backup!phoneVars, Gone
  <1>3. backupCall \in CallType /\ google \in Backup!Session /\ keys \subseteq DOMAIN archives
    BY <1>1 DEF BackupInv, BackupTypes
  <1>4. PICK got \in SUBSET {"text"} : got = Gone  BY DEF Gone
  <1>5. backupCall' = [backupCall EXCEPT !.at = "history", !.got = got]  BY <1>2, <1>4
  <1>6. backupCall'.job = backupCall.job /\ backupCall'.got = got /\ backupCall'.at = "history"  BY <1>3, <1>5 DEF CallType
  <1>7. "ledger" \in Importing /\ "history" \in Importing  BY DEF Importing
  <1>8. backupCall.job.archive \in DOMAIN archives  BY <1>1, <1>2 DEF BackupInv, Restores
  <1>9. Restores'  BY <1>2, <1>4, <1>6, <1>8 DEF Restores, Gone
  <1>10. backupCall.op # "upload"  BY <1>1, <1>2, <1>7, NoUpload
  <1>11. backupCall' \in CallType /\ Creating' /\ Uploads'
    BY <1>1, <1>2, <1>5, <1>7, <1>9, <1>10, RestoreGoes
  <1> QED  BY <1>1, <1>2, <1>3, <1>9, <1>11, CallGoesOn

\* What an import has brought back stays while it goes on.
LEMMA KeepsReported ==
    ASSUME BackupInv, UNCHANGED <<archives, deleted, restored>>, phone \subseteq phone'
    PROVE Reported'
  BY DEF BackupInv, Reported, HasMessages, HasSticker, HasPreferences, Gone

LEMMA HistoryInv == BackupInv /\ Backup!ImportHistory => BackupInv'
  <1>1. SUFFICES ASSUME BackupInv, Backup!ImportHistory PROVE BackupInv'  OBVIOUS
  <1> DEFINE a == backupCall.job.archive
  <1>2. /\ UNCHANGED <<google, archives, vault, backupFiles, drive, drawn, keys>>
        /\ deleted' = deleted /\ restored' = restored /\ backupCall.at = "history"
        /\ backupCall' = [backupCall EXCEPT !.at = "stickers"]
        /\ phone' = phone \cup {item \in Backup!Messages \ backupCall.got : <<item, 1>> \in archives[a].holds}
    BY <1>1 DEF Backup!ImportHistory, Backup!StillOurs, Backup!Restoring, Backup!phoneVars, Backup!Goes,
                Backup!Reconciled, Backup!Holds
  <1>3. backupCall \in CallType /\ BackupTypes  BY <1>1 DEF BackupInv, BackupTypes
  <1>4. a \in DOMAIN archives /\ backupCall.got = Gone  BY <1>1, <1>2 DEF BackupInv, Restores
  <1>5. SealedWhole(archives[a].holds)  BY <1>3, <1>4 DEF BackupTypes
  <1>6. phone' \subseteq Items /\ phone \subseteq phone'  BY <1>2, <1>3, <1>5 DEF BackupTypes, SealedWhole
  <1>7. Reported'  BY <1>1, <1>2, <1>6, KeepsReported
  <1>8. /\ backupCall'.job = backupCall.job /\ backupCall'.at = "stickers"
    BY <1>2, <1>3 DEF CallType
  <1>9. PICK got \in SUBSET {"text"} : got = backupCall.got  BY <1>3 DEF CallType
  <1>10. backupCall' = [backupCall EXCEPT !.at = "stickers", !.got = got]  BY <1>2, <1>3, <1>9 DEF CallType
  <1>11. HasMessages(a)'  BY <1>2, <1>4, <1>8 DEF HasMessages, Gone
  <1>12. Restores'  BY <1>2, <1>4, <1>8, <1>11 DEF Restores
  <1>13. "stickers" \in Importing /\ "history" \in Importing  BY DEF Importing
  <1>14. backupCall.op # "upload"  BY <1>1, <1>2, <1>13, NoUpload
  <1>15. backupCall' \in CallType /\ Creating' /\ Uploads'
    BY <1>1, <1>2, <1>10, <1>12, <1>13, <1>14, RestoreGoes
  <1>16. deleted' \in BOOLEAN  BY <1>2, <1>3 DEF BackupTypes
  <1> QED  BY <1>1, <1>2, <1>6, <1>7, <1>12, <1>15, <1>16, PhoneChanges

LEMMA StickersInv == BackupInv /\ Backup!ImportStickers => BackupInv'
  <1>1. SUFFICES ASSUME BackupInv, Backup!ImportStickers PROVE BackupInv'  OBVIOUS
  <1> DEFINE a == backupCall.job.archive
  <1>2. /\ UNCHANGED <<google, archives, vault, backupFiles, drive, drawn, keys>>
        /\ deleted' = deleted /\ restored' = restored /\ backupCall.at = "stickers"
        /\ backupCall' = [backupCall EXCEPT !.at = "preferences"]
        /\ phone' = phone \cup Backup!RestoredStickers(archives[a].holds)
    BY <1>1 DEF Backup!ImportStickers, Backup!StillOurs, Backup!Restoring, Backup!phoneVars, Backup!Goes,
                Backup!Holds
  <1>3. backupCall \in CallType /\ BackupTypes  BY <1>1 DEF BackupInv, BackupTypes
  <1>4. a \in DOMAIN archives /\ HasMessages(a)  BY <1>1, <1>2 DEF BackupInv, Restores
  <1>5. SealedWhole(archives[a].holds)  BY <1>3, <1>4 DEF BackupTypes
  <1>6. /\ <<"sticker", 1>> \in archives[a].holds => "sticker" \in phone'
        /\ phone' \subseteq phone \cup {"sticker"}
        /\ ("sticker" \in phone' /\ "sticker" \notin phone => <<"sticker", 1>> \in archives[a].holds)
    BY <1>2, <1>5 DEF Backup!RestoredStickers, Backup!StickerRecords, SealedWhole
  <1>7. phone' \subseteq Items /\ phone \subseteq phone'  BY <1>2, <1>3, <1>5, <1>6 DEF BackupTypes, SealedWhole
  <1>8. Reported'  BY <1>1, <1>2, <1>7, KeepsReported
  <1>9. /\ backupCall'.job = backupCall.job /\ backupCall'.at = "preferences"
    BY <1>2, <1>3 DEF CallType
  <1>10. PICK got \in SUBSET {"text"} : got = backupCall.got  BY <1>3 DEF CallType
  <1>11. backupCall' = [backupCall EXCEPT !.at = "preferences", !.got = got]  BY <1>2, <1>3, <1>10 DEF CallType
  <1>12. HasMessages(a)'  BY <1>2, <1>4, <1>7, <1>9 DEF HasMessages, Gone
  <1>13. HasSticker(a)'  BY <1>2, <1>6, <1>9 DEF HasSticker
  <1>14. Restores'  BY <1>2, <1>4, <1>9, <1>12, <1>13 DEF Restores
  <1>15. "stickers" \in Importing /\ "preferences" \in Importing  BY DEF Importing
  <1>16. backupCall.op # "upload"  BY <1>1, <1>2, <1>15, NoUpload
  <1>17. backupCall' \in CallType /\ Creating' /\ Uploads'
    BY <1>1, <1>2, <1>11, <1>14, <1>15, <1>16, RestoreGoes
  <1>18. deleted' \in BOOLEAN  BY <1>2, <1>3 DEF BackupTypes
  <1> QED  BY <1>1, <1>2, <1>7, <1>8, <1>14, <1>17, <1>18, PhoneChanges

LEMMA PreferencesInv == BackupInv /\ Backup!ImportPreferences => BackupInv'
  <1>1. SUFFICES ASSUME BackupInv, Backup!ImportPreferences PROVE BackupInv'  OBVIOUS
  <1> DEFINE a == backupCall.job.archive
  <1>2. /\ UNCHANGED <<google, archives, vault, backupFiles, drive, drawn, keys>>
        /\ deleted' = deleted /\ restored' = a /\ backupCall.at = "preferences" /\ backupCall' = Backup!NoCall
        /\ phone' = phone \cup {item \in {"preferences"} : <<item, 1>> \in archives[a].holds}
    BY <1>1 DEF Backup!ImportPreferences, Backup!StillOurs, Backup!Restoring, Backup!phoneVars, Backup!Ends,
                Backup!Holds, Backup!Report, Backup!RestoredPreferences
  <1>3. BackupTypes  BY <1>1 DEF BackupInv
  <1>4. a \in DOMAIN archives /\ HasMessages(a) /\ HasSticker(a)  BY <1>1, <1>2 DEF BackupInv, Restores
  <1>5. SealedWhole(archives[a].holds)  BY <1>3, <1>4 DEF BackupTypes
  <1>6. phone' \subseteq Items /\ phone \subseteq phone'  BY <1>2, <1>3, <1>5 DEF BackupTypes, SealedWhole
  <1> HIDE DEF a
  <1>7. PICK k : k = a  OBVIOUS
  <1>8. HasMessages(k)' /\ HasSticker(k)'  BY <1>2, <1>4, <1>6, <1>7 DEF HasMessages, HasSticker, Gone
  <1>9. HasPreferences(k)'  BY <1>2, <1>7 DEF HasPreferences
  <1>10. Reported'  BY <1>2, <1>4, <1>7, <1>8, <1>9 DEF Reported, HasMessages, HasSticker, HasPreferences, Gone
  <1>11. backupCall' \in CallType /\ Creating' /\ Uploads' /\ Restores'  BY <1>2, NothingClaimed
  <1>12. deleted' \in BOOLEAN  BY <1>2, <1>3 DEF BackupTypes
  <1> QED  BY <1>1, <1>2, <1>6, <1>10, <1>11, <1>12, PhoneChanges

LEMMA KeepInv == BackupInv /\ (\E item \in Items : Backup!Keep(item)) => BackupInv'
  <1>1. SUFFICES ASSUME BackupInv, NEW item \in Items, Backup!Keep(item) PROVE BackupInv'  OBVIOUS
  <1>2. /\ UNCHANGED <<deleted, restored, google, archives, vault, backupFiles, drive, drawn, backupCall, keys>>
        /\ phone' = phone \cup {item}
    BY <1>1 DEF Backup!Keep
  <1>3. phone' \subseteq Items /\ phone \subseteq phone' /\ deleted' \in BOOLEAN /\ backupCall' \in CallType
    BY <1>1, <1>2 DEF BackupInv, BackupTypes
  <1>4. Creating'  BY <1>1, <1>2 DEF BackupInv, Creating
  <1>5. Uploads'  BY <1>1, <1>2 DEF BackupInv, Uploads, WholeFile
  <1>6. Restores'  BY <1>1, <1>2, <1>3 DEF BackupInv, Restores, HasMessages, HasSticker, Gone
  <1>7. Reported'  BY <1>1, <1>2, <1>3, KeepsReported
  <1> QED  BY <1>1, <1>2, <1>3, <1>4, <1>5, <1>6, <1>7, PhoneChanges

LEMMA DeleteTextInv == BackupInv /\ Backup!DeleteText => BackupInv'
  <1>1. SUFFICES ASSUME BackupInv, Backup!DeleteText PROVE BackupInv'  OBVIOUS
  <1>2. /\ UNCHANGED <<google, archives, vault, backupFiles, drive, drawn, backupCall, keys>>
        /\ phone' = phone \ {"text"} /\ deleted' = TRUE /\ restored' = 0 /\ backupCall.at # "history"
    BY <1>1 DEF Backup!DeleteText
  <1>3. phone' \subseteq Items /\ deleted' \in BOOLEAN /\ backupCall' \in CallType
    BY <1>1, <1>2 DEF BackupInv, BackupTypes
  <1>4. Creating'  BY <1>1, <1>2 DEF BackupInv, Creating
  <1>5. Uploads'  BY <1>1, <1>2 DEF BackupInv, Uploads, WholeFile
  <1>6. \A a : HasMessages(a) => {item \in Backup!Messages : <<item, 1>> \in archives[a].holds} \ {"text"} \subseteq phone'
    BY <1>2 DEF HasMessages, Gone
  <1>7. \A a : HasSticker(a) /\ <<"sticker", 1>> \in archives[a].holds => "sticker" \in phone'
    BY <1>2 DEF HasSticker
  <1>8. Restores'
    <2>1. SUFFICES ASSUME backupCall.at \in {"ledger", "history", "stickers", "preferences"}
                   PROVE LET a == backupCall.job.archive
                         IN /\ a \in DOMAIN archives
                            /\ backupCall.at \in {"stickers", "preferences"} =>
                                {item \in Backup!Messages : <<item, 1>> \in archives[a].holds} \ {"text"} \subseteq phone'
                            /\ backupCall.at = "preferences" => (<<"sticker", 1>> \in archives[a].holds => "sticker" \in phone')
      BY <1>2 DEF Restores, HasMessages, HasSticker, Gone
    <2> QED  BY <1>1, <1>6, <1>7, <2>1 DEF BackupInv, Restores
  <1>9. Reported'  BY <1>2 DEF Reported
  <1> QED  BY <1>1, <1>2, <1>3, <1>4, <1>5, <1>8, <1>9, PhoneChanges

LEMMA NewPhoneInv == BackupInv /\ Backup!NewPhone => BackupInv'
  <1>1. SUFFICES ASSUME BackupInv, Backup!NewPhone PROVE BackupInv'  OBVIOUS
  <1>2. /\ UNCHANGED <<deleted, archives, drive, drawn, keys>>
        /\ phone' = {} /\ restored' = 0 /\ google' = [google EXCEPT !.as = 0] /\ backupCall' = Backup!NoCall
        /\ vault' = [g \in Googles |-> Backup!NoJob] /\ backupFiles' = {a \in backupFiles : archives[a].of = 0}
    BY <1>1 DEF Backup!NewPhone, Backup!Ends
  <1>3. BackupTypes /\ DriveSound  BY <1>1 DEF BackupInv
  <1>4. google' \in Backup!Session  BY <1>2, <1>3 DEF BackupTypes, Backup!Session
  <1>5. vault' \in [Googles -> JobType]  BY <1>2, NoJobType
  <1>6. backupCall' \in CallType /\ Creating' /\ Uploads' /\ Restores'  BY <1>2, NothingClaimed
  <1>7. backupFiles' \subseteq DOMAIN archives  BY <1>2, <1>3 DEF BackupTypes
  <1>8. BackupTypes'  BY <1>2, <1>3, <1>4, <1>5, <1>6, <1>7 DEF BackupTypes
  <1>9. DriveSound'  BY <1>2, <1>3 DEF DriveSound
  <1>10. VaultSound'  BY <1>2 DEF VaultSound
  <1>11. Reported'  BY <1>2 DEF Reported
  <1> QED  BY <1>6, <1>8, <1>9, <1>10, <1>11 DEF BackupInv

LEMMA BackupNextInv == BackupInv /\ (Backup!BackupNext \/ UNCHANGED backupState) => BackupInv'
  <1>1. SUFFICES ASSUME BackupInv, Backup!BackupNext \/ UNCHANGED backupState PROVE BackupInv'  OBVIOUS
  <1>2. CASE UNCHANGED backupState
    <2>1. /\ UNCHANGED <<phone, deleted, restored, archives, vault, backupFiles, drive, drawn, backupCall>>
          /\ google' = google /\ keys' = keys
      BY <1>2 DEF backupState
    <2>2. google' \in Backup!Session /\ keys' \subseteq DOMAIN archives  BY <1>1, <2>1 DEF BackupInv, BackupTypes
    <2> QED  BY <1>1, <2>1, <2>2, CallStays
  <1>3. CASE Backup!Connect \/ Backup!Disconnect  BY <1>1, <1>3, ConnectInv
  <1>4. CASE Backup!LocalCreate \/ Backup!Prepare  BY <1>1, <1>4, BeginsInv
  <1>5. CASE Backup!SaveKey  BY <1>1, <1>5, SaveKeyInv
  <1>6. CASE Backup!Upload  BY <1>1, <1>6, UploadBeginsInv
  <1>7. CASE Backup!Acknowledge  BY <1>1, <1>7, AcknowledgeInv
  <1>8. CASE Backup!CreateStep
    BY <1>1, <1>8, CreateInv, RefusedInv, LocalWriteInv, PutFileInv, PointerInv DEF Backup!CreateStep
  <1>9. CASE Backup!UploadStep
    BY <1>1, <1>9, GenerateIDInv, StatusInv, BeginInv, SaveURIInv, PutBytesInv, FailInv, CompareInv, FinishInv
    DEF Backup!UploadStep
  <1>10. CASE Backup!RestoreStep
    BY <1>1, <1>10, LedgerInv, HistoryInv, StickersInv, PreferencesInv DEF Backup!RestoreStep
  <1>11. CASE \E a \in DOMAIN archives : Backup!Restore(a)  BY <1>1, <1>11, RestoreBegins
  <1>12. CASE \E item \in Items : Backup!Keep(item)  BY <1>1, <1>12, KeepInv
  <1>13. CASE Backup!DeleteText  BY <1>1, <1>13, DeleteTextInv
  <1>14. CASE Backup!Fail  BY <1>1, <1>14, FailInv
  <1>15. CASE Backup!ExpireSession  BY <1>1, <1>15, SessionExpireInv
  <1>16. CASE Backup!NewPhone  BY <1>1, <1>16, NewPhoneInv
  <1> QED  BY <1>1, <1>2, <1>3, <1>4, <1>5, <1>6, <1>7, <1>8, <1>9, <1>10, <1>11, <1>12, <1>13, <1>14, <1>15, <1>16
           DEF Backup!BackupNext

\* What the invariant says of the backups.
LEMMA BackupInvSays == BackupInv => Backup!BackupTypeOK /\ Backup!BackupsKept
  <1>1. SUFFICES ASSUME BackupInv PROVE Backup!BackupTypeOK /\ Backup!BackupsKept  OBVIOUS
  <1>2. BackupTypes /\ DriveSound /\ VaultSound /\ Reported  BY <1>1 DEF BackupInv
  <1>3. DOMAIN archives \subseteq Backup!Numbers
    <2>1. PICK n \in 0..MaxArchives : DOMAIN archives = 1..n  BY <1>2 DEF BackupTypes
    <2> QED  BY <2>1, SendingBounds DEF Backup!Numbers
  <1>4. \A g \in Googles : vault[g].archive \in DOMAIN archives \cup {0}
    BY <1>2, NoJobType DEF VaultSound
  <1>5. Backup!BackupTypeOK  BY <1>2, <1>3, <1>4 DEF Backup!BackupTypeOK, BackupTypes
  <1>6. Backup!OneFile  BY <1>2 DEF Backup!OneFile, DriveSound
  <1>7. Backup!PendingKept  BY <1>2 DEF Backup!PendingKept, VaultSound, WholeFile, Backup!Stored
  <1>8. Backup!RestoreIsWhole
    <2>1. SUFFICES ASSUME restored # 0, NEW item \in Items, <<item, 1>> \in archives[restored].holds,
                          item \notin (IF deleted THEN {"text"} ELSE {})
                   PROVE item \in phone
      BY DEF Backup!RestoreIsWhole
    <2>2. HasMessages(restored) /\ HasSticker(restored) /\ HasPreferences(restored)  BY <1>2, <2>1 DEF Reported
    <2>3. item \in Backup!Messages \/ item = "sticker" \/ item = "preferences"
      BY SendingBounds DEF Backup!Messages
    <2>4. CASE item \in Backup!Messages  BY <2>1, <2>2, <2>4 DEF HasMessages, Gone
    <2>5. CASE item = "sticker"  BY <2>1, <2>2, <2>5 DEF HasSticker
    <2>6. CASE item = "preferences"  BY <2>1, <2>2, <2>6 DEF HasPreferences
    <2> QED  BY <2>3, <2>4, <2>5, <2>6
  <1> QED  BY <1>5, <1>6, <1>7, <1>8 DEF Backup!BackupsKept

-----------------------------------------------------------------------------
(* PART 5.  The whole.  A step of one component leaves the state of the others  *)
(* alone, so the invariants hold together.                                    *)

SendsInv == MediaInv /\ OutboxInv /\ PlayInv /\ BackupInv

LEMMA SendsInitInv == Init => SendsInv
  <1>1. SUFFICES ASSUME Init PROVE SendsInv  OBVIOUS
  <1>2. MediaInv /\ OutboxInv /\ BackupInv  BY <1>1, MediaInitInv, OutboxInitInv, BackupInitInv DEF Init
  <1>3. PICK c : c = IF part = "playing" THEN BOOLEAN ELSE {FALSE}  OBVIOUS
  <1>4. c \subseteq BOOLEAN /\ Playing!PlayInit(c)  BY <1>1, <1>3 DEF Init
  <1>5. PlayInv  BY <1>4, PlayInitInv
  <1> QED  BY <1>2, <1>5 DEF SendsInv

\* A step of the phone is a step, or none, of each component.
LEMMA SendsSteps ==
    ASSUME [Next]_phoneVars
    PROVE  /\ Media!MediaNext \/ UNCHANGED mediaState
           /\ Outbox!OutboxNext \/ UNCHANGED outboxState
           /\ Playing!PlayNext \/ UNCHANGED playingState
           /\ Backup!BackupNext \/ UNCHANGED backupState
  <1>1. CASE MediaStep  BY <1>1 DEF MediaStep
  <1>2. CASE OutboxStep  BY <1>2 DEF OutboxStep
  <1>3. CASE PlayingStep  BY <1>3 DEF PlayingStep
  <1>4. CASE BackupStep  BY <1>4 DEF BackupStep
  <1>5. CASE UNCHANGED phoneVars  BY <1>5 DEF phoneVars
  <1> QED  BY <1>1, <1>2, <1>3, <1>4, <1>5 DEF Next

LEMMA SendsNextInv == SendsInv /\ [Next]_phoneVars => SendsInv'
  <1>1. SUFFICES ASSUME SendsInv, [Next]_phoneVars PROVE SendsInv'  OBVIOUS
  <1>2. MediaInv'  BY <1>1, SendsSteps, MediaNextInv DEF SendsInv
  <1>3. OutboxInv'  BY <1>1, SendsSteps, OutboxNextInv DEF SendsInv
  <1>4. PlayInv'  BY <1>1, SendsSteps, PlayNextInv DEF SendsInv
  <1>5. BackupInv'  BY <1>1, SendsSteps, BackupNextInv DEF SendsInv
  <1> QED  BY <1>2, <1>3, <1>4, <1>5 DEF SendsInv

\* All of it holds in every state of the phone.
THEOREM SendsAlways == PhoneSpec => []SendsInv
  BY SendsInitInv, SendsNextInv, PTL DEF PhoneSpec

\* Wherever a call is interrupted, and whatever is lost on the way, the pointer of a media
\* draft names a ciphertext that is on the phone, and a draft that is tried again asks for
\* the message it was first sealed with (upload-vault.ts, upload.ts, send.ts).
THEOREM DraftAlwaysIntact == PhoneSpec => []DraftIntact
  <1>1. SendsInv => DraftIntact  BY MediaInvSays DEF SendsInv, DraftIntact
  <1> QED  BY <1>1, SendsAlways, PTL

\* A media draft leaves the phone only when the server has committed or cancelled its
\* operation, or was never asked to store it, whatever was lost before (upload.ts).
THEOREM DraftStays == PhoneSpec => DraftKept
  <1>1. Init => Answered
    BY AnsweredInit DEF Init
  <1>2. SendsInv /\ Answered /\ [Next]_phoneVars => Answered'
    BY SendsSteps, AnsweredNext DEF SendsInv
  <1>3. SendsInv /\ Answered /\ [Next]_phoneVars =>
          [draft # Media!NoDraft /\ draft' = Media!NoDraft =>
             ~draft.attempted \/ object[draft.op] \in {"committed", "cancelled"}]_(Media!mediaVars)
    BY SendsSteps, KeptStep DEF SendsInv
  <1> QED  BY <1>1, <1>2, <1>3, SendsAlways, PTL DEF PhoneSpec, DraftKept, Media!DraftKept

\* However often a message is tried, recovered or cancelled, it costs the peer at most one
\* of its one-time keys, and the outbox says of it what the relay has decided, for any
\* number of drafts, devices and faults (send.ts, outbox-sync.ts, profile-recovery.ts).
THEOREM OutboxAlwaysTrue == PhoneSpec => []OutboxTrue
  <1>1. SendsInv => OutboxTrue  BY OutboxInvSays DEF SendsInv, OutboxTrue
  <1> QED  BY <1>1, SendsAlways, PTL

\* A friend gets the updates of what is played in the order in which they were made, none
\* between them left out, whatever is interrupted (fanout.ts, lifecycle.ts).
THEOREM UpdatesAlwaysInOrder == PhoneSpec => []UpdatesInOrder
  <1>1. SendsInv => UpdatesInOrder  BY PlayInvSays DEF SendsInv, UpdatesInOrder
  <1> QED  BY <1>1, SendsAlways, PTL

\* An archive has one file on Drive, in the account it was made for; a backup that is
\* pending has its ciphertext on the phone, and one that says it is uploaded is whole on
\* Drive; and a restore that was reported has brought back all that the archive holds
\* (drive-backup.ts, pending-backup-vault.ts, history-backup.ts).
THEOREM BackupsAlwaysKept == PhoneSpec => []BackupsKept
  <1>1. SendsInv => BackupsKept  BY BackupInvSays DEF SendsInv, BackupsKept
  <1> QED  BY <1>1, SendsAlways, PTL
=============================================================================
