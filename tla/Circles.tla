------------------------------ MODULE Circles ------------------------------
(***************************************************************************)
(* The membership of one Circle: its epoch, its admin, membership          *)
(* intervals and invitations on the server, and the guarded membership     *)
(* operations (leave, remove, hand the admin role over) that clients save, *)
(* send, retry and cancel.                                                 *)
(*                                                                         *)
(* Every transaction takes the Circle's row FOR UPDATE before it reads     *)
(* anything it decides on, so each is one action; what interleaves is the  *)
(* clients: a request reaches the server long after it was prepared, more  *)
(* than once, and after its answer was lost.  Friendship may refuse an     *)
(* invitation at any time and is left out: a refusal changes nothing.      *)
(***************************************************************************)
EXTENDS Naturals, FiniteSets

CONSTANTS
    Accounts,    \* account ids
    Creator,     \* the account that created the Circle
    Clients,     \* accounts whose client uses guarded operations
    Operations,  \* operation ids one client generates
    Capacity,    \* largest number of members (20 in the code)
    MaxEpoch     \* largest epoch (2^53 - 1 in the code)

ASSUME CirclesAssumption ==
    /\ IsFiniteSet(Accounts)
    /\ Creator \in Accounts
    /\ Clients \subseteq Accounts
    /\ Capacity \in Nat \ {0}
    /\ MaxEpoch \in Nat \ {0}

VARIABLES
    \* circles and circle_memberships
    epoch, count, closed,
    role,       \* role[a]: "none", or the role of a's open interval
    interval,   \* interval[a]: a's latest membership interval, 0 before any
    \* circle_invites
    invite,     \* invite[b]: the latest invitation of b
    \* circle_membership_operations
    outcome,    \* outcome[a][op]: the saved result, "none" when there is none
    acts,       \* acts[a][op]: times the operation changed the Circle (history)
    \* the clients' membership vaults and their requests
    stage,      \* stage[a][op]: "unused", "pending" in the vault, or "done"
    job,        \* job[a][op]: the request saved in the vault
    seen,       \* seen[a][op]: result saved with it, "none" when there is none
    sent        \* sent[a][op]: kinds of request sent, which may arrive any time

circleVars == <<epoch, count, closed, role, interval>>
serverVars == <<circleVars, invite, outcome, acts>>
clientVars == <<stage, job, seen, sent>>
vars == <<serverVars, clientVars>>

Members == {a \in Accounts : role[a] # "none"}
Admins  == {a \in Accounts : role[a] = "admin"}

\* Who is a member by which interval: what an audience and a screen show.
Audience == [a \in Members |-> interval[a]]

Actions == {"leave", "remove", "handoff"}
NoInvite == [inviter |-> Creator, status |-> "none", expired |-> FALSE]
NoJob == [action |-> "none"]

\* The pending invitations whose inviter is in S become revoked.
Revoked(S) ==
    [b \in Accounts |->
        IF invite[b].status = "pending" /\ invite[b].inviter \in S
        THEN [invite[b] EXCEPT !.status = "revoked"] ELSE invite[b]]

-----------------------------------------------------------------------------
(* The three changes, inside a transaction that holds the Circle's row *)

\* The last admin of others must hand over first; the last member closes the
\* Circle, and with it every invitation.
LeaveTx(a) ==
    /\ ~closed
    /\ role[a] # "none"
    /\ ~(count > 1 /\ Admins = {a})
    /\ epoch < MaxEpoch
    /\ epoch' = epoch + 1
    /\ count' = count - 1
    /\ closed' = (count = 1)
    /\ role' = [role EXCEPT ![a] = "none"]
    /\ invite' = Revoked(IF count = 1 THEN Accounts ELSE {a})
    /\ UNCHANGED interval

\* Mutant: the removed member is still counted.
RemoveTxUncounted(a, t) ==
    /\ t # a
    /\ ~closed
    /\ role[a] = "admin"
    /\ role[t] # "none"
    /\ epoch < MaxEpoch
    /\ epoch' = epoch + 1
    /\ role' = [role EXCEPT ![t] = "none"]
    /\ invite' = Revoked({t})
    /\ UNCHANGED <<count, closed, interval>>

RemoveTx(a, t) ==
    /\ t # a
    /\ ~closed
    /\ role[a] = "admin"
    /\ role[t] # "none"
    /\ epoch < MaxEpoch
    /\ epoch' = epoch + 1
    /\ count' = count - 1
    /\ role' = [role EXCEPT ![t] = "none"]
    /\ invite' = Revoked({t})
    /\ UNCHANGED <<closed, interval>>

\* Mutant: the former admin keeps the role.
HandoffTxShared(a, t) ==
    /\ t # a
    /\ ~closed
    /\ role[a] = "admin"
    /\ role[t] # "none"
    /\ role' = [role EXCEPT ![t] = "admin"]
    /\ invite' = Revoked({a})
    /\ UNCHANGED <<epoch, count, closed, interval>>

\* The audience does not change, and neither does the epoch.
HandoffTx(a, t) ==
    /\ t # a
    /\ ~closed
    /\ role[a] = "admin"
    /\ role[t] # "none"
    /\ role' = [role EXCEPT ![t] = "admin", ![a] = "member"]
    /\ invite' = Revoked({a})
    /\ UNCHANGED <<epoch, count, closed, interval>>

MembershipTx(a, action, t) ==
    \/ action = "leave" /\ LeaveTx(a)
    \/ action = "remove" /\ RemoveTx(a, t)
    \/ action = "handoff" /\ HandoffTx(a, t)

-----------------------------------------------------------------------------
(* Guarded operations: mutations.go *)

\* The actor and the target are members by the intervals the request names.
Unchanged(a, j) ==
    /\ epoch = j.epoch
    /\ role[a] # "none"
    /\ interval[a] = j.actorInterval
    /\ j.action # "leave" =>
         role[j.target] # "none" /\ interval[j.target] = j.targetInterval

Decide(a, op, result) == outcome' = [outcome EXCEPT ![a][op] = result]

\* The request as first decided.  A repeated one is answered with the saved
\* result; one whose membership changed is refused and stays undecided.
Mutate(a, op) ==
    /\ "execute" \in sent[a][op]
    /\ outcome[a][op] = "none"
    /\ ~closed
    /\ Unchanged(a, job[a][op])
    /\ MembershipTx(a, job[a][op].action, job[a][op].target)
    /\ Decide(a, op, IF closed' THEN "closed" ELSE "applied")
    /\ acts' = [acts EXCEPT ![a][op] = @ + 1]
    /\ UNCHANGED clientVars

\* Mutant: a closed Circle refuses the cancellation as well.
CancelMembershipOpen(a, op) ==
    /\ "cancel" \in sent[a][op]
    /\ outcome[a][op] = "none"
    /\ ~closed
    /\ Decide(a, op, "cancelled")
    /\ UNCHANGED <<circleVars, invite, acts, clientVars>>

\* The cancellation fence, saved even when the Circle is closed.
CancelMembership(a, op) ==
    /\ "cancel" \in sent[a][op]
    /\ outcome[a][op] = "none"
    /\ Decide(a, op, "cancelled")
    /\ UNCHANGED <<circleVars, invite, acts, clientVars>>

\* The endpoints of older clients, without operation or guard.
Legacy(a, action, t) ==
    /\ MembershipTx(a, action, t)
    /\ UNCHANGED <<outcome, acts, clientVars>>

-----------------------------------------------------------------------------
(* Invitations *)

\* A pending invitation is returned as it is, unless it expired.
Invite(a, b) ==
    /\ a # b
    /\ ~closed
    /\ role[a] = "admin"
    /\ role[b] = "none"
    /\ invite[b].status = "pending" => invite[b].expired
    /\ invite' = [invite EXCEPT ![b] =
                    [inviter |-> a, status |-> "pending", expired |-> FALSE]]
    /\ UNCHANGED <<circleVars, outcome, acts, clientVars>>

\* Seven days pass.
Expire(b) ==
    /\ invite[b].status = "pending"
    /\ ~invite[b].expired
    /\ invite' = [invite EXCEPT ![b].expired = TRUE]
    /\ UNCHANGED <<circleVars, outcome, acts, clientVars>>

Respondable(b) ==
    /\ ~closed
    /\ invite[b].status = "pending"
    /\ ~invite[b].expired

Decline(b) ==
    /\ Respondable(b)
    /\ invite' = [invite EXCEPT ![b].status = "declined"]
    /\ UNCHANGED <<circleVars, outcome, acts, clientVars>>

\* Mutant: a member joins within the epoch of those already there.
AcceptSameEpoch(b) ==
    /\ Respondable(b)
    /\ role[invite[b].inviter] = "admin"
    /\ role[b] = "none"
    /\ count < Capacity
    /\ epoch < MaxEpoch
    /\ count' = count + 1
    /\ role' = [role EXCEPT ![b] = "member"]
    /\ interval' = [interval EXCEPT ![b] = @ + 1]
    /\ invite' = [invite EXCEPT ![b].status = "accepted"]
    /\ UNCHANGED <<epoch, closed, outcome, acts, clientVars>>

\* Mutant: a full Circle takes one more.
AcceptOverfull(b) ==
    /\ Respondable(b)
    /\ role[invite[b].inviter] = "admin"
    /\ role[b] = "none"
    /\ epoch < MaxEpoch
    /\ epoch' = epoch + 1
    /\ count' = count + 1
    /\ role' = [role EXCEPT ![b] = "member"]
    /\ interval' = [interval EXCEPT ![b] = @ + 1]
    /\ invite' = [invite EXCEPT ![b].status = "accepted"]
    /\ UNCHANGED <<closed, outcome, acts, clientVars>>

Accept(b) ==
    /\ Respondable(b)
    /\ role[invite[b].inviter] = "admin"
    /\ role[b] = "none"
    /\ count < Capacity
    /\ epoch < MaxEpoch
    /\ epoch' = epoch + 1
    /\ count' = count + 1
    /\ role' = [role EXCEPT ![b] = "member"]
    /\ interval' = [interval EXCEPT ![b] = @ + 1]
    /\ invite' = [invite EXCEPT ![b].status = "accepted"]
    /\ UNCHANGED <<closed, outcome, acts, clientVars>>

-----------------------------------------------------------------------------
(* The client: features/social/circle-membership.ts *)

\* One saved request per Circle; the Circle's details are read and confirmed
\* when it is prepared.  shown is the audience the user confirmed.
Prepare(a, op, action, t) ==
    /\ \A p \in Operations : stage[a][p] # "pending"
    /\ stage[a][op] = "unused"
    /\ ~closed
    /\ role[a] # "none"
    /\ IF action = "leave" THEN t = a /\ ~(count > 1 /\ Admins = {a})
                           ELSE t # a /\ role[a] = "admin" /\ role[t] # "none"
    /\ stage' = [stage EXCEPT ![a][op] = "pending"]
    /\ job' = [job EXCEPT ![a][op] =
                 [action |-> action, target |-> t, epoch |-> epoch,
                  actorInterval |-> interval[a], targetInterval |-> interval[t],
                  shown |-> Audience]]
    /\ UNCHANGED <<serverVars, seen, sent>>

\* A request, or its retry after a lost or failing answer or a restart.
Send(a, op, kind) ==
    /\ stage[a][op] = "pending"
    /\ seen[a][op] = "none"
    /\ sent' = [sent EXCEPT ![a][op] = @ \cup {kind}]
    /\ UNCHANGED <<serverVars, stage, job, seen>>

\* Mutant: a request to cancel that fails counts as cancelled.
LearnHopefully(a, op) ==
    /\ stage[a][op] = "pending"
    /\ seen[a][op] = "none"
    /\ sent[a][op] # {}
    /\ seen' = [seen EXCEPT ![a][op] =
                  IF "cancel" \in sent[a][op] THEN "cancelled" ELSE outcome[a][op]]
    /\ UNCHANGED <<serverVars, stage, job, sent>>

\* An answer arrives and is saved before it is shown.
Learn(a, op) ==
    /\ stage[a][op] = "pending"
    /\ seen[a][op] = "none"
    /\ sent[a][op] # {}
    /\ outcome[a][op] # "none"
    /\ seen' = [seen EXCEPT ![a][op] = outcome[a][op]]
    /\ UNCHANGED <<serverVars, stage, job, sent>>

Acknowledge(a, op) ==
    /\ stage[a][op] = "pending"
    /\ seen[a][op] # "none"
    /\ stage' = [stage EXCEPT ![a][op] = "done"]
    /\ UNCHANGED <<serverVars, job, seen, sent>>

-----------------------------------------------------------------------------

Init ==
    /\ epoch = 1
    /\ count = 1
    /\ closed = FALSE
    /\ role = [a \in Accounts |-> IF a = Creator THEN "admin" ELSE "none"]
    /\ interval = [a \in Accounts |-> IF a = Creator THEN 1 ELSE 0]
    /\ invite = [a \in Accounts |-> NoInvite]
    /\ outcome = [a \in Clients |-> [op \in Operations |-> "none"]]
    /\ acts = [a \in Clients |-> [op \in Operations |-> 0]]
    /\ stage = [a \in Clients |-> [op \in Operations |-> "unused"]]
    /\ job = [a \in Clients |-> [op \in Operations |-> NoJob]]
    /\ seen = [a \in Clients |-> [op \in Operations |-> "none"]]
    /\ sent = [a \in Clients |-> [op \in Operations |-> {}]]

InviteStep ==
    \/ \E a, b \in Accounts : Invite(a, b)
    \/ \E b \in Accounts : Expire(b) \/ Accept(b) \/ Decline(b)

OperationStep(a, op) ==
    \/ Mutate(a, op)
    \/ CancelMembership(a, op)
    \/ \E action \in Actions, t \in Accounts : Prepare(a, op, action, t)
    \/ \E kind \in {"execute", "cancel"} : Send(a, op, kind)
    \/ Learn(a, op)
    \/ Acknowledge(a, op)

Next ==
    \/ InviteStep
    \/ \E a, t \in Accounts, action \in Actions : Legacy(a, action, t)
    \/ \E a \in Clients, op \in Operations : OperationStep(a, op)

\* A client that wants to cancel repeats the request until it is answered.
Fairness ==
    \A a \in Clients, op \in Operations :
        WF_vars(CancelMembership(a, op)) /\ WF_vars(Learn(a, op))

Spec == Init /\ [][Next]_vars
FairSpec == Spec /\ Fairness

-----------------------------------------------------------------------------
(* Properties *)

Roles == {"none", "member", "admin"}
Results == {"none", "applied", "closed", "cancelled"}
Invitations ==
    [inviter : Accounts, expired : BOOLEAN,
     status : {"none", "pending", "accepted", "declined", "revoked"}]
\* The same fields the server reads; shown is history.
IsJob(j) ==
    \/ j = NoJob
    \/ /\ j.action \in Actions
       /\ j.target \in Accounts
       /\ j.epoch \in 1..MaxEpoch

\* The columns' checks hold: no Circle grows over its capacity, no epoch over
\* its largest value, and a saved operation keeps its fields.
TypeOK ==
    /\ epoch \in 1..MaxEpoch
    /\ count \in 0..Capacity
    /\ closed \in BOOLEAN
    /\ role \in [Accounts -> Roles]
    /\ interval \in [Accounts -> Nat]
    /\ invite \in [Accounts -> Invitations]
    /\ outcome \in [Clients -> [Operations -> Results]]
    /\ acts \in [Clients -> [Operations -> Nat]]
    /\ stage \in [Clients -> [Operations -> {"unused", "pending", "done"}]]
    /\ DOMAIN job = Clients
    /\ \A a \in Clients : DOMAIN job[a] = Operations
    /\ \A a \in Clients, op \in Operations : IsJob(job[a][op])
    /\ seen \in [Clients -> [Operations -> Results]]
    /\ sent \in [Clients -> [Operations -> SUBSET {"execute", "cancel"}]]

\* An open Circle has exactly one admin whatever leaves, removals, handoffs and
\* their retries do, and a closed one has nobody.
OneAdmin == IF closed THEN Members = {} ELSE \E a \in Accounts : Admins = {a}

\* A pending invitation is the current admin's, to somebody outside; none
\* survives the authority of its inviter or the Circle.
PendingFromAdmin ==
    \A b \in Accounts : invite[b].status = "pending" =>
        ~closed /\ role[invite[b].inviter] = "admin" /\ role[b] = "none"

\* At every moment one person decides who joins, and only their invitations do.
OneAuthority == OneAdmin /\ PendingFromAdmin

\* member_count, which caps the Circle and decides who is the last to leave, is
\* the number of open intervals.
CountMatches == count = Cardinality(Members) /\ (closed <=> count = 0)

\* Who is in, who decides, and how many there are.
MembershipSound == OneAuthority /\ CountMatches

\* However often it is retried, and however late it arrives, an operation
\* changes the Circle once if its result says it was applied and never if it
\* was cancelled.
ActsOnce ==
    \A a \in Clients, op \in Operations :
        acts[a][op] = IF outcome[a][op] \in {"applied", "closed"} THEN 1 ELSE 0

\* What a client tells its user is what the server decided.
ClientAgrees ==
    \A a \in Clients, op \in Operations :
        seen[a][op] # "none" => seen[a][op] = outcome[a][op]

\* The answer a user gets is what happened to the Circle.
AnswersAreTrue == ActsOnce /\ ClientAgrees

\* Messages, media and key allocations name their audience by its epoch: the
\* members and their intervals do not change within one.
EpochNamesAudience == [][epoch' = epoch => Audience' = Audience]_vars

\* A saved operation acts on the Circle its author confirmed, though members
\* left and rejoined before it arrived.
ActsOnWhatWasShown ==
    [][\A a \in Clients, op \in Operations :
        acts'[a][op] # acts[a][op] => Audience = job[a][op].shown]_vars

\* A message and an operation concern exactly the people their author saw, although
\* both name no more than an epoch.
AudienceAsShown == EpochNamesAudience /\ ActsOnWhatWasShown

\* A user who cancels learns what became of the operation.
CancelResolves ==
    \A a \in Clients, op \in Operations :
        "cancel" \in sent[a][op] ~> seen[a][op] # "none"
=============================================================================
