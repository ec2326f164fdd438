---------------------------- MODULE Circles_proofs ----------------------------
(***************************************************************************)
(* Proofs about Circles: for any accounts, clients, capacity and bound of  *)
(* the epoch, an open Circle has one admin who alone has invitations       *)
(* pending, the stored count is the number of members, answers are true,   *)
(* an epoch names one audience, and an operation acts on the audience its  *)
(* author was shown.                                                       *)
(***************************************************************************)
EXTENDS Circles, FiniteSetTheorems, TLAPS

\* The types of what one transaction on the Circle's row reads and writes.
CircleTypes ==
    /\ epoch \in 1..MaxEpoch
    /\ count \in 0..Capacity
    /\ closed \in BOOLEAN
    /\ role \in [Accounts -> Roles]
    /\ interval \in [Accounts -> Nat]
    /\ invite \in [Accounts -> Invitations]

\* The Circle itself is in order.
CircleInv == CircleTypes /\ OneAuthority /\ CountMatches

\* A request in a vault or on its way was prepared when the Circle had the
\* epoch it names, and the epoch names the audience that was shown.
Confirmed(j) ==
    /\ j.action \in Actions
    /\ j.target \in Accounts
    /\ j.epoch \in 1..epoch
    /\ j.epoch = epoch => Audience = j.shown

Saved ==
    \A a \in Clients, op \in Operations :
        stage[a][op] # "unused" \/ sent[a][op] # {} => Confirmed(job[a][op])

\* The inductive invariant.
IInv == TypeOK /\ OneAuthority /\ CountMatches /\ AnswersAreTrue /\ Saved

-----------------------------------------------------------------------------
(* Members and their number *)

\* The members of a Circle are finitely many, and the count tells whether there
\* are any.
LEMMA MembersFinite ==
    ASSUME CircleInv
    PROVE  /\ IsFiniteSet(Members)
           /\ count = Cardinality(Members)
           /\ count = 0 <=> Members = {}
           /\ \A a \in Members : count = 1 => Members = {a}
<1>1. IsFiniteSet(Members)
  BY CirclesAssumption, FS_Subset DEF CirclesAssumption, Members
<1>2. count = Cardinality(Members)
  BY DEF CircleInv, CountMatches
<1>3. count = 0 <=> Members = {}
  BY <1>1, <1>2, FS_EmptySet
<1>4. ASSUME NEW a \in Members, count = 1
      PROVE  Members = {a}
  <2>1. PICK x : Members = {x}
    BY <1>1, <1>2, <1>4, FS_Singleton
  <2> QED
    BY <2>1
<1> QED
  BY <1>1, <1>2, <1>3, <1>4

\* A member who goes is one member less, one who comes is one more.
LEMMA MembersChange ==
    ASSUME CircleInv, NEW a \in Accounts
    PROVE  /\ a \in Members => Cardinality(Members \ {a}) = count - 1
           /\ a \notin Members => Cardinality(Members \cup {a}) = count + 1
<1>1. IsFiniteSet(Members) /\ count = Cardinality(Members)
  BY MembersFinite
<1> QED
  BY <1>1, FS_AddElement, FS_RemoveElement

\* Revoking invitations leaves invitations, none pending of who is in S.
LEMMA RevokedInvitations ==
    ASSUME CircleTypes, NEW S
    PROVE  /\ Revoked(S) \in [Accounts -> Invitations]
           /\ \A b \in Accounts :
                /\ Revoked(S)[b].inviter = invite[b].inviter
                /\ Revoked(S)[b].status = "pending" =>
                     invite[b].status = "pending" /\ invite[b].inviter \notin S
<1>1. ASSUME NEW b \in Accounts
      PROVE  [invite[b] EXCEPT !.status = "revoked"] \in Invitations
  BY <1>1 DEF CircleTypes, Invitations
<1> QED
  BY <1>1 DEF CircleTypes, Revoked, Invitations

-----------------------------------------------------------------------------
(* The transactions that hold the Circle's row *)

\* Leaving: the last member closes the Circle, an admin of others cannot go.
LEMMA LeaveStep ==
    ASSUME CircleInv, NEW a \in Accounts, LeaveTx(a)
    PROVE  CircleInv'
<1> USE DEF LeaveTx
<1>1. a \in Members /\ role' \in [Accounts -> Roles]
  BY DEF CircleInv, CircleTypes, Members, Roles
<1>2. Members' = Members \ {a} /\ Admins' = Admins \ {a}
  BY DEF CircleInv, CircleTypes, Members, Admins, Roles
<1>3. count \in Nat \ {0} /\ count <= Capacity
  BY <1>1, MembersFinite, CirclesAssumption DEF CircleInv, CircleTypes, CirclesAssumption
<1>4. CircleTypes'
  BY <1>1, <1>3, RevokedInvitations, CirclesAssumption DEF CircleInv, CircleTypes, CirclesAssumption
<1>5. CountMatches'
  <2>1. count' = Cardinality(Members')
    BY <1>1, <1>2, MembersChange
  <2>2. closed' <=> count = 1
    BY Zenon
  <2>3. count = 1 <=> count' = 0
    BY <1>3
  <2> QED
    BY <2>1, <2>2, <2>3 DEF CountMatches
<1>6. PICK x \in Accounts : Admins = {x}
  BY DEF CircleInv, OneAuthority, OneAdmin
<1>7. CASE count = 1
  <2>1. Members' = {}
    BY <1>1, <1>2, <1>7, MembersFinite
  <2>2. \A b \in Accounts : invite'[b].status # "pending"
    BY <1>7, RevokedInvitations DEF CircleInv, CircleTypes, Invitations
  <2> QED
    BY <1>4, <1>5, <1>7, <2>1, <2>2 DEF CircleInv, OneAuthority, OneAdmin, PendingFromAdmin
<1>8. CASE count # 1
  <2>1. x # a /\ Admins' = {x} /\ ~closed'
    BY <1>2, <1>3, <1>6, <1>8 DEF CircleInv, CircleTypes
  <2>2. PendingFromAdmin'
    <3> SUFFICES ASSUME NEW b \in Accounts, invite'[b].status = "pending"
                 PROVE  role'[invite'[b].inviter] = "admin" /\ role'[b] = "none"
      BY <2>1 DEF PendingFromAdmin
    <3>1. /\ invite[b].status = "pending"
          /\ invite[b].inviter # a
          /\ invite'[b].inviter = invite[b].inviter
      BY <1>8, RevokedInvitations DEF CircleInv
    <3>2. invite[b].inviter \in Accounts
      BY DEF CircleInv, CircleTypes, Invitations
    <3>3. role[invite[b].inviter] = "admin" /\ role[b] = "none"
      BY <3>1 DEF CircleInv, OneAuthority, PendingFromAdmin
    <3> QED
      BY <3>1, <3>2, <3>3 DEF CircleInv, CircleTypes
  <2> QED
    BY <1>4, <1>5, <2>1, <2>2 DEF CircleInv, OneAuthority, OneAdmin
<1> QED
  BY <1>7, <1>8

\* Removing: the admin stays, and so at least one member.
LEMMA RemoveStep ==
    ASSUME CircleInv, NEW a \in Accounts, NEW t \in Accounts, RemoveTx(a, t)
    PROVE  CircleInv'
<1> USE DEF RemoveTx
<1>1. a \in Members /\ t \in Members /\ role' \in [Accounts -> Roles]
  BY DEF CircleInv, CircleTypes, Members, Roles
<1>2. Members' = Members \ {t} /\ a \in Members'
  BY <1>1 DEF CircleInv, CircleTypes, Members, Roles
<1>3. count \in Nat \ {0} /\ count <= Capacity
  BY <1>1, MembersFinite, CirclesAssumption DEF CircleInv, CircleTypes, CirclesAssumption
<1>4. CircleTypes'
  <2>1. invite' \in [Accounts -> Invitations]
    BY RevokedInvitations DEF CircleInv
  <2>2. count' \in 0..Capacity /\ epoch' \in 1..MaxEpoch
    BY <1>3, CirclesAssumption DEF CircleInv, CircleTypes, CirclesAssumption
  <2> QED
    BY <1>1, <2>1, <2>2 DEF CircleInv, CircleTypes
<1>5. CountMatches'
  <2>1. count' = Cardinality(Members')
    BY <1>1, <1>2, MembersChange
  <2>2. count' # 0
    BY <1>1, <1>3, MembersFinite
  <2> QED
    BY <2>1, <2>2 DEF CountMatches
<1>6. PICK x \in Accounts : Admins = {x}
  BY DEF CircleInv, OneAuthority, OneAdmin
<1>7. x = a /\ Admins' = {a}
  BY <1>6 DEF CircleInv, CircleTypes, Admins, Roles
<1>8. PendingFromAdmin'
  <2> SUFFICES ASSUME NEW b \in Accounts, invite'[b].status = "pending"
               PROVE  ~closed /\ role'[invite'[b].inviter] = "admin" /\ role'[b] = "none"
    BY DEF PendingFromAdmin
  <2>1. /\ invite[b].status = "pending"
        /\ invite[b].inviter # t
        /\ invite'[b].inviter = invite[b].inviter
    BY RevokedInvitations DEF CircleInv
  <2>2. invite[b].inviter \in Accounts
    BY DEF CircleInv, CircleTypes, Invitations
  <2>3. role[invite[b].inviter] = "admin" /\ role[b] = "none"
    BY <2>1 DEF CircleInv, OneAuthority, PendingFromAdmin
  <2> QED
    BY <2>1, <2>2, <2>3 DEF CircleInv, CircleTypes
<1> QED
  BY <1>4, <1>5, <1>7, <1>8 DEF CircleInv, OneAuthority, OneAdmin

\* Handing over: another member is the admin, and the old one's invitations
\* are gone.
LEMMA HandoffStep ==
    ASSUME CircleInv, NEW a \in Accounts, NEW t \in Accounts, HandoffTx(a, t)
    PROVE  CircleInv' /\ Members' = Members
<1> USE DEF HandoffTx
<1>1. role' \in [Accounts -> Roles]
  BY DEF CircleInv, CircleTypes, Roles
<1>2. Members' = Members
  BY DEF CircleInv, CircleTypes, Members, Roles
<1>3. CircleTypes'
  BY <1>1, RevokedInvitations DEF CircleInv, CircleTypes
<1>4. CountMatches'
  BY <1>2 DEF CircleInv, CountMatches
<1>5. PICK x \in Accounts : Admins = {x}
  BY DEF CircleInv, OneAuthority, OneAdmin
<1>6. x = a /\ Admins' = {t}
  BY <1>5 DEF CircleInv, CircleTypes, Admins, Roles
<1>7. \A b \in Accounts : invite'[b].status # "pending"
  <2> SUFFICES ASSUME NEW b \in Accounts, invite'[b].status = "pending"
               PROVE  FALSE
    OBVIOUS
  <2>1. invite[b].status = "pending" /\ invite[b].inviter # a
    BY RevokedInvitations DEF CircleInv
  <2>2. invite[b].inviter \in Admins
    BY <2>1 DEF CircleInv, CircleTypes, Invitations, OneAuthority, PendingFromAdmin, Admins
  <2> QED
    BY <1>5, <1>6, <2>1, <2>2
<1> QED
  BY <1>2, <1>3, <1>4, <1>6, <1>7 DEF CircleInv, OneAuthority, OneAdmin, PendingFromAdmin

\* Each change of the membership keeps the Circle in order, never goes back to
\* an earlier epoch, and takes a new one when it changes the audience.
LEMMA MembershipStep ==
    ASSUME CircleInv, NEW a \in Accounts, NEW t \in Accounts, NEW action,
           MembershipTx(a, action, t)
    PROVE  /\ CircleInv'
           /\ epoch' \in {epoch, epoch + 1}
           /\ epoch' = epoch => Audience' = Audience
           /\ closed' => closed \/ action = "leave"
<1>0. epoch \in Nat
  BY CirclesAssumption DEF CircleInv, CircleTypes, CirclesAssumption
<1>1. CASE LeaveTx(a) /\ action = "leave"
  <2>1. CircleInv'
    BY <1>1, LeaveStep
  <2>2. epoch' = epoch + 1
    BY <1>1 DEF LeaveTx
  <2> QED
    BY <1>0, <1>1, <2>1, <2>2
<1>2. CASE RemoveTx(a, t)
  <2>1. CircleInv'
    BY <1>2, RemoveStep
  <2>2. epoch' = epoch + 1 /\ closed' = closed
    BY <1>2 DEF RemoveTx
  <2> QED
    BY <1>0, <2>1, <2>2
<1>3. CASE HandoffTx(a, t)
  <2>1. CircleInv' /\ Members' = Members
    BY <1>3, HandoffStep
  <2>2. UNCHANGED <<epoch, closed, interval>>
    BY <1>3 DEF HandoffTx
  <2>3. Audience' = Audience
    BY <2>1, <2>2 DEF Audience
  <2> QED
    BY <2>1, <2>2, <2>3
<1> QED
  BY <1>1, <1>2, <1>3 DEF MembershipTx

-----------------------------------------------------------------------------
(* Invitations *)

\* Inviting, expiry and declining leave the membership alone.
LEMMA InviteOnlyStep ==
    ASSUME CircleInv, UNCHANGED circleVars,
           \/ \E a, b \in Accounts : Invite(a, b)
           \/ \E b \in Accounts : Expire(b) \/ Decline(b)
    PROVE  CircleInv'
<1>1. PICK b \in Accounts, i \in Invitations :
        /\ invite' = [invite EXCEPT ![b] = i]
        /\ i.status = "pending" => ~closed /\ role[i.inviter] = "admin" /\ role[b] = "none"
  <2>1. ASSUME NEW a \in Accounts, NEW c \in Accounts, Invite(a, c)
        PROVE  \E b \in Accounts, i \in Invitations :
                 /\ invite' = [invite EXCEPT ![b] = i]
                 /\ i.status = "pending" => ~closed /\ role[i.inviter] = "admin" /\ role[b] = "none"
    <3> DEFINE i == [inviter |-> a, status |-> "pending", expired |-> FALSE]
    <3>1. i \in Invitations
      BY DEF Invitations
    <3> QED
      BY <2>1, <3>1 DEF Invite
  <2>2. ASSUME NEW c \in Accounts, Expire(c)
        PROVE  \E b \in Accounts, i \in Invitations :
                 /\ invite' = [invite EXCEPT ![b] = i]
                 /\ i.status = "pending" => ~closed /\ role[i.inviter] = "admin" /\ role[b] = "none"
    <3> DEFINE i == [invite[c] EXCEPT !.expired = TRUE]
    <3> HIDE DEF i
    <3>0. invite[c] \in Invitations
      BY DEF CircleInv, CircleTypes
    <3>1. i \in Invitations /\ i.inviter = invite[c].inviter
      BY <3>0 DEF i, Invitations
    <3>2. ~closed /\ role[i.inviter] = "admin" /\ role[c] = "none"
      BY <2>2, <3>1 DEF Expire, CircleInv, OneAuthority, PendingFromAdmin
    <3>3. invite' = [invite EXCEPT ![c] = i]
      BY <2>2 DEF Expire, i
    <3> QED
      BY <3>1, <3>2, <3>3
  <2>3. ASSUME NEW c \in Accounts, Decline(c)
        PROVE  \E b \in Accounts, i \in Invitations :
                 /\ invite' = [invite EXCEPT ![b] = i]
                 /\ i.status = "pending" => ~closed /\ role[i.inviter] = "admin" /\ role[b] = "none"
    <3> DEFINE i == [invite[c] EXCEPT !.status = "declined"]
    <3>1. i \in Invitations /\ i.status = "declined"
      BY DEF CircleInv, CircleTypes, Invitations
    <3> QED
      BY <2>3, <3>1 DEF Decline
  <2> QED
    BY <2>1, <2>2, <2>3
<1>2. invite' \in [Accounts -> Invitations]
  BY <1>1 DEF CircleInv, CircleTypes
<1>3. Members' = Members /\ Admins' = Admins
  BY DEF circleVars, Members, Admins
<1>4. PendingFromAdmin'
  BY <1>1, <1>2 DEF circleVars, CircleInv, CircleTypes, OneAuthority, PendingFromAdmin
<1> QED
  BY <1>2, <1>3, <1>4 DEF circleVars, CircleInv, CircleTypes, OneAuthority, OneAdmin, CountMatches

\* Accepting: one more member, in an epoch of its own.
LEMMA AcceptStep ==
    ASSUME CircleInv, NEW b \in Accounts, Accept(b)
    PROVE  CircleInv' /\ epoch' = epoch + 1
<1> USE DEF Accept, Respondable
<1>1. role' \in [Accounts -> Roles] /\ interval' \in [Accounts -> Nat]
  BY DEF CircleInv, CircleTypes, Roles
<1>2. [invite[b] EXCEPT !.status = "accepted"] \in Invitations
  BY DEF CircleInv, CircleTypes, Invitations
<1>3. invite' \in [Accounts -> Invitations]
  BY <1>2 DEF CircleInv, CircleTypes
<1>4. CircleTypes'
  BY <1>1, <1>3, CirclesAssumption DEF CircleInv, CircleTypes, CirclesAssumption
<1>5. b \notin Members /\ Members' = Members \cup {b} /\ Admins' = Admins
  BY DEF CircleInv, CircleTypes, Members, Admins, Roles
<1>6. CountMatches'
  BY <1>5, MembersChange DEF CircleInv, CircleTypes, CountMatches
<1>7. PendingFromAdmin'
  <2> SUFFICES ASSUME NEW c \in Accounts, invite'[c].status = "pending"
               PROVE  role'[invite'[c].inviter] = "admin" /\ role'[c] = "none"
    BY DEF PendingFromAdmin
  <2>1. c # b /\ invite'[c] = invite[c]
    BY <1>2 DEF CircleInv, CircleTypes, Invitations
  <2>2. role[invite[c].inviter] = "admin" /\ role[c] = "none" /\ invite[c].inviter \in Accounts
    BY <2>1 DEF CircleInv, CircleTypes, Invitations, OneAuthority, PendingFromAdmin
  <2> QED
    BY <2>1, <2>2 DEF CircleInv, CircleTypes
<1> QED
  BY <1>4, <1>5, <1>6, <1>7 DEF CircleInv, CircleTypes, OneAuthority, OneAdmin

\* One step of an invitation keeps the Circle in order as well.
LEMMA InviteStepInv ==
    ASSUME CircleInv, InviteStep
    PROVE  /\ CircleInv'
           /\ epoch' \in {epoch, epoch + 1}
           /\ epoch' = epoch => Audience' = Audience
<1>1. CASE \E b \in Accounts : Accept(b)
  BY <1>1, AcceptStep, CirclesAssumption DEF CircleInv, CircleTypes, CirclesAssumption
<1>2. CASE \/ \E a, b \in Accounts : Invite(a, b)
           \/ \E b \in Accounts : Expire(b) \/ Decline(b)
  <2>1. UNCHANGED circleVars
    BY <1>2 DEF Invite, Expire, Decline
  <2>2. CircleInv'
    BY <1>2, <2>1, InviteOnlyStep
  <2> QED
    BY <2>1, <2>2 DEF circleVars, Audience, Members
<1> QED
  BY <1>1, <1>2 DEF InviteStep

-----------------------------------------------------------------------------
(* Every step on the Circle *)

\* What a step does to the Circle as a whole, whoever takes it.
CircleStep ==
    /\ CircleInv'
    /\ epoch' \in {epoch, epoch + 1}
    /\ epoch' = epoch => Audience' = Audience

LEMMA CircleNext ==
    ASSUME CircleInv, Saved, [Next]_vars
    PROVE  CircleStep
<1>1. CASE InviteStep
  BY <1>1, InviteStepInv DEF CircleStep
<1>2. CASE \E a, t \in Accounts, action \in Actions : Legacy(a, action, t)
  BY <1>2, MembershipStep DEF Legacy, CircleStep
<1>3. ASSUME NEW a \in Clients, NEW op \in Operations, Mutate(a, op)
      PROVE  CircleStep
  <2>1. a \in Accounts /\ MembershipTx(a, job[a][op].action, job[a][op].target)
    BY <1>3, CirclesAssumption DEF CirclesAssumption, Mutate
  <2>2. job[a][op].target \in Accounts
    BY <1>3 DEF Mutate, Saved, Confirmed
  <2> QED
    BY <2>1, <2>2, MembershipStep DEF CircleStep
<1>4. CASE UNCHANGED <<circleVars, invite>>
  <2>1. CircleInv'
    BY <1>4 DEF circleVars, CircleInv, CircleTypes, OneAuthority, OneAdmin, PendingFromAdmin,
                CountMatches, Members, Admins
  <2> QED
    BY <1>4, <2>1 DEF circleVars, CircleStep, Audience, Members
<1>5. ASSUME NEW a \in Clients, NEW op \in Operations, OperationStep(a, op), ~Mutate(a, op)
      PROVE  UNCHANGED <<circleVars, invite>>
  BY <1>5 DEF OperationStep, CancelMembership, Prepare, Send, Learn, Acknowledge, serverVars
<1>6. CASE UNCHANGED vars
  BY <1>4, <1>6 DEF vars, serverVars
<1> QED
  BY <1>1, <1>2, <1>3, <1>4, <1>5, <1>6 DEF Next

-----------------------------------------------------------------------------
(* Requests and their answers *)

\* The types of the operations and of the clients' vaults.
OperationTypes ==
    /\ outcome \in [Clients -> [Operations -> Results]]
    /\ acts \in [Clients -> [Operations -> Nat]]
    /\ stage \in [Clients -> [Operations -> {"unused", "pending", "done"}]]
    /\ DOMAIN job = Clients
    /\ \A a \in Clients : DOMAIN job[a] = Operations
    /\ \A a \in Clients, op \in Operations : IsJob(job[a][op])
    /\ seen \in [Clients -> [Operations -> Results]]
    /\ sent \in [Clients -> [Operations -> SUBSET {"execute", "cancel"}]]

LEMMA Types == TypeOK <=> CircleTypes /\ OperationTypes
BY DEF TypeOK, CircleTypes, OperationTypes

\* A confirmed request stays confirmed: an epoch that is over does not return,
\* and the current one keeps its audience.
LEMMA StillConfirmed ==
    ASSUME CircleInv, CircleStep, NEW j, Confirmed(j)
    PROVE  Confirmed(j)'
<1>1. epoch \in Nat /\ epoch' \in {epoch, epoch + 1} /\ j.epoch \in 1..epoch
  BY CirclesAssumption DEF CircleInv, CircleTypes, CircleStep, Confirmed, CirclesAssumption
<1>2. j.epoch \in 1..epoch'
  BY <1>1
<1>3. ASSUME j.epoch = epoch'
      PROVE  Audience' = j.shown
  BY <1>1, <1>3 DEF CircleStep, Confirmed
<1> QED
  BY <1>2, <1>3 DEF Confirmed

\* Nobody but the operation's own client changes its request or its answer.
LEMMA OperationsAlone ==
    ASSUME OperationTypes,
           InviteStep \/ (\E a, t \in Accounts, action \in Actions : Legacy(a, action, t))
             \/ UNCHANGED vars
    PROVE  UNCHANGED <<outcome, acts, clientVars>>
BY DEF InviteStep, Invite, Expire, Accept, Decline, Legacy, vars, serverVars

\* The one operation a step is about, and what the step does to the others.
LEMMA OperationTyped ==
    ASSUME CircleInv, OperationTypes, NEW a \in Clients, NEW op \in Operations,
           OperationStep(a, op)
    PROVE  OperationTypes'
<1>1. CASE Mutate(a, op)
  BY <1>1 DEF Mutate, Decide, OperationTypes, clientVars, Results
<1>2. CASE CancelMembership(a, op)
  BY <1>2 DEF CancelMembership, Decide, OperationTypes, clientVars, Results
<1>3. ASSUME NEW action \in Actions, NEW t \in Accounts, Prepare(a, op, action, t)
      PROVE  OperationTypes'
  <2> DEFINE j == [action |-> action, target |-> t, epoch |-> epoch,
                   actorInterval |-> interval[a], targetInterval |-> interval[t],
                   shown |-> Audience]
  <2>1. IsJob(j)
    BY DEF IsJob, CircleInv, CircleTypes
  <2> HIDE DEF j
  <2>2. job' = [job EXCEPT ![a][op] = j]
    BY <1>3 DEF Prepare, j
  <2>3. /\ DOMAIN job' = Clients
        /\ \A x \in Clients : DOMAIN job'[x] = Operations
        /\ \A x \in Clients, y \in Operations : job'[x][y] \in {j, job[x][y]}
    BY <2>2 DEF OperationTypes
  <2>4. \A x \in Clients, y \in Operations : IsJob(job'[x][y])
    BY <2>1, <2>3 DEF OperationTypes
  <2>5. stage' \in [Clients -> [Operations -> {"unused", "pending", "done"}]]
    BY <1>3 DEF Prepare, OperationTypes
  <2> QED
    BY <1>3, <2>3, <2>4, <2>5 DEF Prepare, OperationTypes, serverVars, IsJob
<1>4. ASSUME NEW kind \in {"execute", "cancel"}, Send(a, op, kind)
      PROVE  OperationTypes'
  BY <1>4 DEF Send, OperationTypes, serverVars
<1>5. CASE Learn(a, op)
  BY <1>5 DEF Learn, OperationTypes, serverVars
<1>6. CASE Acknowledge(a, op)
  BY <1>6 DEF Acknowledge, OperationTypes, serverVars
<1> QED
  BY <1>1, <1>2, <1>3, <1>4, <1>5, <1>6 DEF OperationStep

\* An operation is decided once, counted with its decision, and answered by it.
LEMMA AnswersStep ==
    ASSUME OperationTypes, AnswersAreTrue, NEW a \in Clients, NEW op \in Operations,
           OperationStep(a, op)
    PROVE  AnswersAreTrue'
<1> USE DEF OperationTypes, AnswersAreTrue, ActsOnce, ClientAgrees
<1>1. CASE Mutate(a, op)
  BY <1>1 DEF Mutate, Decide, clientVars
<1>2. CASE CancelMembership(a, op)
  BY <1>2 DEF CancelMembership, Decide, clientVars
<1>3. ASSUME NEW action \in Actions, NEW t \in Accounts, Prepare(a, op, action, t)
      PROVE  AnswersAreTrue'
  BY <1>3 DEF Prepare, serverVars
<1>4. ASSUME NEW kind \in {"execute", "cancel"}, Send(a, op, kind)
      PROVE  AnswersAreTrue'
  BY <1>4 DEF Send, serverVars
<1>5. CASE Learn(a, op)
  BY <1>5 DEF Learn, serverVars
<1>6. CASE Acknowledge(a, op)
  BY <1>6 DEF Acknowledge, serverVars
<1> QED
  BY <1>1, <1>2, <1>3, <1>4, <1>5, <1>6 DEF OperationStep

\* What a step saves or sends was confirmed.
LEMMA SavedStep ==
    ASSUME CircleInv, OperationTypes, Saved, CircleStep,
           NEW a \in Clients, NEW op \in Operations, OperationStep(a, op)
    PROVE  Saved'
<1> SUFFICES ASSUME NEW x \in Clients, NEW y \in Operations,
                    (stage[x][y] # "unused" \/ sent[x][y] # {})'
             PROVE  Confirmed(job[x][y])'
  BY DEF Saved
<1>1. CASE job'[x][y] = job[x][y] /\ (stage[x][y] # "unused" \/ sent[x][y] # {})
  <2>1. PICK j : j = job[x][y] /\ Confirmed(j)
    BY <1>1 DEF Saved
  <2>2. Confirmed(j)' /\ j = job'[x][y]
    BY <1>1, <2>1, StillConfirmed
  <2> QED
    BY <2>2 DEF Confirmed
<1>2. ASSUME NEW action \in Actions, NEW t \in Accounts, Prepare(a, op, action, t),
             x = a, y = op
      PROVE  Confirmed(job[x][y])'
  <2> DEFINE r == [action |-> action, target |-> t, epoch |-> epoch,
                   actorInterval |-> interval[a], targetInterval |-> interval[t],
                   shown |-> Audience]
  <2>0. job' = [job EXCEPT ![a][op] = r]
    BY <1>2 DEF Prepare
  <2>1. PICK j : /\ j = job'[x][y]
                 /\ j.action = action /\ j.target = t
                 /\ j.epoch = epoch /\ j.shown = Audience
    <3>1. /\ r.action = action /\ r.target = t
          /\ r.epoch = epoch /\ r.shown = Audience
      OBVIOUS
    <3> HIDE DEF r
    <3>2. job'[x][y] = r
      BY <1>2, <2>0 DEF OperationTypes
    <3> QED
      BY <3>1, <3>2
  <2>2. Confirmed(j)
    BY <2>1, CirclesAssumption DEF Confirmed, CircleInv, CircleTypes, CirclesAssumption
  <2>3. Confirmed(j)'
    BY <2>2, StillConfirmed
  <2> QED
    BY <2>1, <2>3 DEF Confirmed
<1>3. ASSUME NEW action \in Actions, NEW t \in Accounts, Prepare(a, op, action, t),
             ~(x = a /\ y = op)
      PROVE  Confirmed(job[x][y])'
  BY <1>1, <1>3 DEF Prepare, OperationTypes
<1>4. CASE Mutate(a, op) \/ CancelMembership(a, op) \/ Learn(a, op)
  BY <1>1, <1>4 DEF Mutate, CancelMembership, Learn, clientVars
<1>5. ASSUME NEW kind \in {"execute", "cancel"}, Send(a, op, kind)
      PROVE  Confirmed(job[x][y])'
  BY <1>1, <1>5 DEF Send, OperationTypes
<1>6. CASE Acknowledge(a, op)
  BY <1>1, <1>6 DEF Acknowledge, OperationTypes
<1> QED
  BY <1>2, <1>3, <1>4, <1>5, <1>6 DEF OperationStep

-----------------------------------------------------------------------------
(* The inductive invariant *)

LEMMA InitInv == Init => IInv
<1> SUFFICES ASSUME Init PROVE IInv
  OBVIOUS
<1> USE CirclesAssumption DEF Init, CirclesAssumption
<1>1. CircleTypes
  <2>1. epoch \in 1..MaxEpoch /\ count \in 0..Capacity /\ closed \in BOOLEAN
    <3>1. epoch = 1 /\ count = 1 /\ closed = FALSE
      OBVIOUS
    <3>2. MaxEpoch \in Nat \ {0} /\ Capacity \in Nat \ {0}
      OBVIOUS
    <3> HIDE DEF Init, CirclesAssumption
    <3>3. 1 \in 1..MaxEpoch /\ 1 \in 0..Capacity
      BY <3>2
    <3> QED
      BY <3>1, <3>3
  <2>2. role \in [Accounts -> Roles] /\ interval \in [Accounts -> Nat]
    BY DEF Roles
  <2>3. NoInvite \in Invitations
    BY DEF NoInvite, Invitations
  <2>4. invite \in [Accounts -> Invitations]
    BY <2>3
  <2> QED
    BY <2>1, <2>2, <2>4 DEF CircleTypes
<1>2. OperationTypes
  BY DEF OperationTypes, Results, IsJob
<1>3. Members = {Creator} /\ Admins = {Creator}
  BY DEF Members, Admins
<1>4. CountMatches
  <2>1. Cardinality(Members) = 1
    BY <1>3, FS_Singleton
  <2>2. count = 1 /\ closed = FALSE
    OBVIOUS
  <2> QED
    BY <2>1, <2>2 DEF CountMatches
<1>5. OneAuthority
  BY <1>3 DEF OneAuthority, OneAdmin, PendingFromAdmin, NoInvite
<1>6. AnswersAreTrue /\ Saved
  BY DEF AnswersAreTrue, ActsOnce, ClientAgrees, Saved
<1> QED
  BY <1>1, <1>2, <1>4, <1>5, <1>6, Types DEF IInv

LEMMA NextInv == IInv /\ [Next]_vars => IInv'
<1> SUFFICES ASSUME IInv, [Next]_vars PROVE IInv'
  OBVIOUS
<1>1. CircleInv /\ OperationTypes /\ AnswersAreTrue /\ Saved
  BY Types DEF IInv, CircleInv
<1>2. CircleInv' /\ CircleStep
  BY <1>1, CircleNext DEF CircleStep
<1>3. ASSUME NEW a \in Clients, NEW op \in Operations, OperationStep(a, op)
      PROVE  OperationTypes' /\ AnswersAreTrue' /\ Saved'
  BY <1>1, <1>2, <1>3, OperationTyped, AnswersStep, SavedStep
<1>4. ASSUME \/ InviteStep
             \/ \E a, t \in Accounts, action \in Actions : Legacy(a, action, t)
             \/ UNCHANGED vars
      PROVE  OperationTypes' /\ AnswersAreTrue' /\ Saved'
  <2>1. UNCHANGED <<outcome, acts, stage, job, seen, sent>>
    BY <1>1, <1>4, OperationsAlone DEF clientVars
  <2>2. OperationTypes' /\ AnswersAreTrue'
    BY <1>1, <2>1 DEF OperationTypes, IsJob, AnswersAreTrue, ActsOnce, ClientAgrees
  <2>3. Saved'
    <3> SUFFICES ASSUME NEW x \in Clients, NEW y \in Operations,
                        (stage[x][y] # "unused" \/ sent[x][y] # {})'
                 PROVE  Confirmed(job[x][y])'
      BY DEF Saved
    <3>1. PICK j : j = job[x][y] /\ Confirmed(j)
      BY <1>1, <2>1 DEF Saved
    <3>2. Confirmed(j)' /\ j = job'[x][y]
      BY <1>1, <1>2, <2>1, <3>1, StillConfirmed
    <3> QED
      BY <3>2 DEF Confirmed
  <2> QED
    BY <2>2, <2>3
<1>5. OperationTypes' /\ AnswersAreTrue' /\ Saved'
  BY <1>3, <1>4 DEF Next
<1>6. TypeOK'
  BY <1>2, <1>5 DEF TypeOK, CircleInv, CircleTypes, OperationTypes
<1> QED
  BY <1>2, <1>5, <1>6 DEF IInv, CircleInv

THEOREM Invariance == Spec => []IInv
BY InitInv, NextInv, PTL DEF Spec

-----------------------------------------------------------------------------
(* What follows *)

\* The columns' checks of the tables hold, the capacity and the largest epoch
\* among them, for any number of accounts and operations.
THEOREM TypeCorrect == Spec => []TypeOK
<1>1. IInv => TypeOK
  BY DEF IInv
<1> QED
  BY <1>1, Invariance, PTL

\* Whatever members, admins and late requests do, an open Circle has one admin
\* and every pending invitation is that admin's; a closed Circle has nobody
\* (circles.go: leaveTx, removeTx, handoffTx, Invite, Respond).
THEOREM OneDecides == Spec => []OneAuthority
<1>1. IInv => OneAuthority
  BY DEF IInv
<1> QED
  BY <1>1, Invariance, PTL

\* member_count, kept by increments, never drifts from the open intervals.
THEOREM CountIsRight == Spec => []CountMatches
<1>1. IInv => CountMatches
  BY DEF IInv
<1> QED
  BY <1>1, Invariance, PTL

\* A membership operation acts at most once, never after its cancellation, and
\* its client says of it what the server decided (mutations.go, circle-membership.ts).
THEOREM Truthful == Spec => []AnswersAreTrue
<1>1. IInv => AnswersAreTrue
  BY DEF IInv
<1> QED
  BY <1>1, Invariance, PTL

\* Every change of who is a member, or by which interval, has an epoch of its
\* own: an epoch in an envelope or a media claim names one audience.
THEOREM AudienceOfEpoch == Spec => EpochNamesAudience
<1>1. IInv /\ [Next]_vars => [epoch' = epoch => Audience' = Audience]_vars
  BY CircleNext, Types DEF IInv, CircleInv, CircleStep
<1> QED
  BY <1>1, Invariance, PTL DEF Spec, EpochNamesAudience

\* A request that acts was confirmed for the audience it acts on, although it
\* names only an epoch and two intervals and may have been delayed for ever.
THEOREM ActsAsShown == Spec => ActsOnWhatWasShown
<1>1. ASSUME IInv, [Next]_vars, NEW a \in Clients, NEW op \in Operations,
             acts'[a][op] # acts[a][op]
      PROVE  Audience = job[a][op].shown
  <2>1. OperationTypes
    BY <1>1, Types DEF IInv
  <2>2. PICK b \in Clients, p \in Operations : OperationStep(b, p)
    BY <1>1, <2>1, OperationsAlone DEF Next
  <2>3. Mutate(b, p)
    BY <1>1, <2>2 DEF OperationStep, CancelMembership, Prepare, Send, Learn, Acknowledge, serverVars
  <2>4. a = b /\ op = p
    BY <1>1, <2>1, <2>3 DEF Mutate, OperationTypes
  <2>5. Confirmed(job[a][op]) /\ job[a][op].epoch = epoch
    BY <1>1, <2>3, <2>4 DEF Mutate, Unchanged, IInv, Saved
  <2> QED
    BY <2>5 DEF Confirmed
<1>2. IInv /\ [Next]_vars =>
        [\A a \in Clients, op \in Operations :
            acts'[a][op] # acts[a][op] => Audience = job[a][op].shown]_vars
  BY <1>1
<1> QED
  BY <1>2, Invariance, PTL DEF Spec, ActsOnWhatWasShown

\* MembershipSound for every value of the constants.
THEOREM Membership == Spec => []MembershipSound
<1>1. OneAuthority /\ CountMatches => MembershipSound
  BY DEF MembershipSound
<1> QED
  BY <1>1, OneDecides, CountIsRight, PTL

\* AudienceAsShown for every value of the constants.
THEOREM Audiences == Spec => AudienceAsShown
  BY AudienceOfEpoch, ActsAsShown DEF AudienceAsShown
=============================================================================
