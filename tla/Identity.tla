------------------------------ MODULE Identity ------------------------------
(***************************************************************************)
(* The identity service: SMS challenges, the login that replaces an        *)
(* account's phone, sign-out, and the authorization every other service    *)
(* takes inside its own transaction.                                       *)
(*                                                                         *)
(* An account is its phone number: the row is made by the first login,     *)
(* under the phone's lock.  A session is named by its account and          *)
(* generation.  A handler runs one request; requests arrive in any order,  *)
(* from any device, and an answer may be lost without a trace here.        *)
(***************************************************************************)
EXTENDS Naturals, FiniteSets

CONSTANTS
    Accounts,       \* phone numbers
    Devices,
    Operations,     \* operation ids, unique to one phone number
    Handlers,
    MaxGuesses,     \* wrong codes per challenge, 5 in the code
    MaxGeneration   \* bound on logins per account

ASSUME IdentityAssumption ==
    /\ MaxGuesses \in Nat \ {0}
    /\ MaxGeneration \in Nat \ {0}

VARIABLES
    challenge,  \* auth_challenges: challenge[o]
    paced,      \* accounts that got a challenge within the last minute
    starting,   \* operations whose handler awaits the SMS provider
    gen,        \* auth_accounts: gen[p], 0 before the first login
    session,    \* auth_sessions: session[p][g]
    verify,     \* verify[h]: a login past its checks, not yet committed
    work,       \* work[h]: another service's request
    texts,      \* texts[o]: SMS sent for o (history)
    guesses,    \* guesses[o]: wrong codes answered for o (history)
    logins,     \* logins[o]: sessions o's code opened (history)
    actor       \* actor[p]: generation of p's last committed work (history)

tables   == <<challenge, paced, starting, gen, session>>
handlers == <<verify, work>>
history  == <<texts, guesses, logins, actor>>
vars     == <<tables, handlers, history>>

Generations == 1..MaxGeneration

NoChallenge == [status |-> "none"]
NoSession   == [status |-> "none"]
Idle        == [step |-> "idle"]

Active(p, g) == session[p][g].status = "active"

\* Rows locked FOR SHARE by authorized transactions.
AccountShared(p)    == \E h \in Handlers : work[h].step = "locked" /\ work[h].account = p
SessionShared(p, g) == \E h \in Handlers : /\ work[h].step = "locked"
                                           /\ work[h].account = p /\ work[h].gen = g

-----------------------------------------------------------------------------
(* Start *)

\* A known operation is answered from its row and sends nothing; the network
\* limit refuses without a change.
Reserve(o, p, d) ==
    /\ challenge[o] = NoChallenge
    /\ p \notin paced
    /\ challenge' = [challenge EXCEPT ![o] =
                        [status |-> "pending", account |-> p, device |-> d, guesses |-> 0, live |-> TRUE]]
    /\ paced' = paced \cup {p}
    /\ starting' = starting \cup {o}
    /\ UNCHANGED <<gen, session, handlers, history>>

\* The provider's answer, and what the handler records of it.
SendCode(o, delivered) ==
    /\ o \in starting
    /\ starting' = starting \ {o}
    /\ texts' = [texts EXCEPT ![o] = @ + 1]
    /\ challenge' = [challenge EXCEPT ![o].status =
                        IF @ # "pending" THEN @ ELSE IF delivered THEN "ready" ELSE "failed"]
    /\ UNCHANGED <<paced, gen, session, handlers, guesses, logins, actor>>

\* The text is sent and the handler stops before it records the answer.
LoseStart(o) ==
    /\ o \in starting
    /\ starting' = starting \ {o}
    /\ texts' = [texts EXCEPT ![o] = @ + 1]
    /\ UNCHANGED <<challenge, paced, gen, session, handlers, guesses, logins, actor>>

Minute(p) ==
    /\ p \in paced
    /\ paced' = paced \ {p}
    /\ UNCHANGED <<challenge, starting, gen, session, handlers, history>>

Lapse(o) ==
    /\ challenge[o] # NoChallenge
    /\ challenge[o].live
    /\ challenge' = [challenge EXCEPT ![o].live = FALSE]
    /\ UNCHANGED <<paced, starting, gen, session, handlers, history>>

-----------------------------------------------------------------------------
(* Verify *)

\* The challenge's row is locked FOR UPDATE until the login commits.
RowFree(o) == \A h \in Handlers : verify[h].step # "idle" => verify[h].operation # o

\* Mutant: wrong codes are counted and never refused.
OpenUnlimited(o, d) ==
    /\ challenge[o].status = "ready"
    /\ challenge[o].device = d
    /\ challenge[o].live

Open(o, d) ==
    /\ challenge[o].status = "ready"
    /\ challenge[o].device = d
    /\ challenge[o].live
    /\ challenge[o].guesses < MaxGuesses

WrongCode(o, d) ==
    /\ RowFree(o)
    /\ Open(o, d)
    /\ challenge' = [challenge EXCEPT ![o].guesses = @ + 1]
    /\ guesses' = [guesses EXCEPT ![o] = @ + 1]
    /\ UNCHANGED <<paced, starting, gen, session, handlers, texts, logins, actor>>

\* Mutant: the challenge is read without a lock.
RightCodeUnlocked(h, o, d) ==
    /\ verify[h] = Idle /\ work[h] = Idle
    /\ Open(o, d)
    /\ verify' = [verify EXCEPT ![h] = [step |-> "checked", operation |-> o]]
    /\ UNCHANGED <<tables, work, history>>

RightCode(h, o, d) ==
    /\ verify[h] = Idle /\ work[h] = Idle
    /\ RowFree(o)
    /\ Open(o, d)
    /\ verify' = [verify EXCEPT ![h] = [step |-> "checked", operation |-> o]]
    /\ UNCHANGED <<tables, work, history>>

\* What the new login does to the sessions of its account.
Replaced(p, d) ==
    [g \in Generations |->
        IF g = gen[p] + 1 THEN [status |-> "active", device |-> d, live |-> TRUE]
        ELSE IF session[p][g].status = "active" THEN [session[p][g] EXCEPT !.status = "revoked"]
        ELSE session[p][g]]

\* Mutant: the account's row is changed under an authorized transaction.
LoginUnlocked(h) ==
    LET o == verify[h].operation
        p == challenge[o].account
    IN
    /\ verify[h].step = "checked"
    /\ gen[p] < MaxGeneration
    /\ gen' = [gen EXCEPT ![p] = @ + 1]
    /\ session' = [session EXCEPT ![p] = Replaced(p, challenge[o].device)]
    /\ challenge' = [challenge EXCEPT ![o].status = "consumed"]
    /\ verify' = [verify EXCEPT ![h] = Idle]
    /\ logins' = [logins EXCEPT ![o] = @ + 1]
    /\ UNCHANGED <<paced, starting, work, texts, guesses, actor>>

\* Under the phone's lock and the account's row lock, in one transaction.
Login(h) ==
    LET o == verify[h].operation
        p == challenge[o].account
    IN
    /\ verify[h].step = "checked"
    /\ ~AccountShared(p)
    /\ gen[p] < MaxGeneration
    /\ gen' = [gen EXCEPT ![p] = @ + 1]
    /\ session' = [session EXCEPT ![p] = Replaced(p, challenge[o].device)]
    /\ challenge' = [challenge EXCEPT ![o].status = "consumed"]
    /\ verify' = [verify EXCEPT ![h] = Idle]
    /\ logins' = [logins EXCEPT ![o] = @ + 1]
    /\ UNCHANGED <<paced, starting, work, texts, guesses, actor>>

\* The transaction rolls back: the code may be used again.
LoseLogin(h) ==
    /\ verify[h].step = "checked"
    /\ verify' = [verify EXCEPT ![h] = Idle]
    /\ UNCHANGED <<tables, work, history>>

-----------------------------------------------------------------------------
(* Authorized work *)

\* RequireSession, by the request's token.
RequireSession(h, p, g) ==
    /\ verify[h] = Idle /\ work[h] = Idle
    /\ Active(p, g)
    /\ session[p][g].live
    /\ gen[p] = g
    /\ work' = [work EXCEPT ![h] = [step |-> "principal", account |-> p, gen |-> g]]
    /\ UNCHANGED <<tables, verify, history>>

\* Mutant: only the session is read again, and only if it was signed out.
LockSessionLate(h) ==
    LET r == work[h] IN
    /\ r.step = "principal"
    /\ work' = [work EXCEPT ![h].step = "locked"]
    /\ UNCHANGED <<tables, verify, history>>

\* Inside the transaction the work is part of: account first, then session.
LockSession(h) ==
    LET r == work[h] IN
    /\ r.step = "principal"
    /\ gen[r.account] = r.gen
    /\ Active(r.account, r.gen)
    /\ session[r.account][r.gen].live
    /\ work' = [work EXCEPT ![h].step = "locked"]
    /\ UNCHANGED <<tables, verify, history>>

\* Refused, failed, or the caller went away.
GiveUp(h) ==
    /\ work[h] # Idle
    /\ work' = [work EXCEPT ![h] = Idle]
    /\ UNCHANGED <<tables, verify, history>>

Commit(h) ==
    /\ work[h].step = "locked"
    /\ actor' = [actor EXCEPT ![work[h].account] = work[h].gen]
    /\ work' = [work EXCEPT ![h] = Idle]
    /\ UNCHANGED <<tables, verify, texts, guesses, logins>>

\* Mutant: the session's row is changed under an authorized transaction.
SignOutUnlocked(p, g) ==
    /\ Active(p, g)
    /\ session' = [session EXCEPT ![p][g].status = "revoked"]
    /\ UNCHANGED <<challenge, paced, starting, gen, handlers, history>>

SignOut(p, g) ==
    /\ Active(p, g)
    /\ ~SessionShared(p, g)
    /\ session' = [session EXCEPT ![p][g].status = "revoked"]
    /\ UNCHANGED <<challenge, paced, starting, gen, handlers, history>>

\* Thirty days pass.
Expire(p, g) ==
    /\ session[p][g] # NoSession
    /\ session[p][g].live
    /\ session' = [session EXCEPT ![p][g].live = FALSE]
    /\ UNCHANGED <<challenge, paced, starting, gen, handlers, history>>

-----------------------------------------------------------------------------
Init ==
    /\ challenge = [o \in Operations |-> NoChallenge]
    /\ paced = {}
    /\ starting = {}
    /\ gen = [p \in Accounts |-> 0]
    /\ session = [p \in Accounts |-> [g \in Generations |-> NoSession]]
    /\ verify = [h \in Handlers |-> Idle]
    /\ work = [h \in Handlers |-> Idle]
    /\ texts = [o \in Operations |-> 0]
    /\ guesses = [o \in Operations |-> 0]
    /\ logins = [o \in Operations |-> 0]
    /\ actor = [p \in Accounts |-> 0]

Text(o) ==
    \/ \E p \in Accounts, d \in Devices : Reserve(o, p, d)
    \/ \E delivered \in BOOLEAN : SendCode(o, delivered)
    \/ LoseStart(o)
    \/ Lapse(o)

Code(o, d) ==
    \/ WrongCode(o, d)
    \/ \E h \in Handlers : RightCode(h, o, d)

Handle(h) == Login(h) \/ LoseLogin(h) \/ LockSession(h) \/ GiveUp(h) \/ Commit(h)

Token(p, g) ==
    \/ SignOut(p, g)
    \/ Expire(p, g)
    \/ \E h \in Handlers : RequireSession(h, p, g)

Next ==
    \/ \E o \in Operations : Text(o)
    \/ \E o \in Operations, d \in Devices : Code(o, d)
    \/ \E h \in Handlers : Handle(h)
    \/ \E p \in Accounts, g \in Generations : Token(p, g)
    \/ \E p \in Accounts : Minute(p)

Spec == Init /\ [][Next]_vars

-----------------------------------------------------------------------------
(* Properties *)

Challenges == [status : {"pending", "ready", "failed", "consumed"}, account : Accounts,
               device : Devices, guesses : 0..MaxGuesses, live : BOOLEAN]
Sessions == [status : {"active", "revoked"}, device : Devices, live : BOOLEAN]

\* The tables hold what their columns and checks allow; in particular the
\* attempts column, whose CHECK would turn a sixth wrong code into an error,
\* never passes its limit.
TypeOK ==
    /\ challenge \in [Operations -> Challenges \cup {NoChallenge}]
    /\ paced \subseteq Accounts
    /\ starting \subseteq Operations
    /\ gen \in [Accounts -> 0..MaxGeneration]
    /\ session \in [Accounts -> [Generations -> Sessions \cup {NoSession}]]
    /\ verify \in [Handlers -> [step : {"checked"}, operation : Operations] \cup {Idle}]
    /\ work \in [Handlers -> [step : {"principal", "locked"}, account : Accounts,
                              gen : Generations] \cup {Idle}]
    /\ texts \in [Operations -> Nat]
    /\ guesses \in [Operations -> Nat]
    /\ logins \in [Operations -> Nat]
    /\ actor \in [Accounts -> 0..MaxGeneration]

\* An account has at most one session that is not revoked, and it is that of
\* the newest generation: a login revokes its predecessor in the transaction
\* that creates it (auth_sessions_one_active_phone would refuse a second).
OneActiveSession ==
    \A p \in Accounts, g \in Generations : Active(p, g) => g = gen[p]

\* Work that LockSession admitted keeps its authority until it finishes:
\* neither a login on another phone nor a sign-out can pass it.
AuthorityHeld ==
    \A h \in Handlers : work[h].step = "locked" =>
        /\ gen[work[h].account] = work[h].gen
        /\ Active(work[h].account, work[h].gen)

\* One phone at a time, for the sessions and for the work done under them.
OnePhone == OneActiveSession /\ AuthorityHeld

\* A code opens one session at most, however many requests carry it at once.
CodeUsedOnce == \A o \in Operations : logins[o] <= 1

\* However many requests guess at once, a challenge answers MaxGuesses wrong
\* codes and no more.
GuessesCounted == \A o \in Operations : guesses[o] <= MaxGuesses

\* A retried Start never sends a second text for its operation.
OneText == \A o \in Operations : texts[o] <= 1

\* What one challenge can be used for, however its requests interleave: one
\* text, MaxGuesses wrong codes, one session.
ChallengeBounds == CodeUsedOnce /\ GuessesCounted /\ OneText

\* One phone, let in by a code that was sent once and guessed at most so often.
LoginSafe == OnePhone /\ ChallengeBounds

\* Committed work of an account never falls back to an earlier phone.
PhonesInOrder == [][\A p \in Accounts : actor'[p] >= actor[p]]_vars

\* The service implements exclusive sessions.
Holder(p) == IF gen[p] # 0 /\ Active(p, gen[p]) THEN gen[p] ELSE 0

Exclusive == INSTANCE ExclusiveSession
                WITH top <- gen, holder <- [p \in Accounts |-> Holder(p)]

\* The promise of ExclusiveSession, step by step.
ImplementsExclusive == Exclusive!Spec
=============================================================================
