--------------------------- MODULE Identity_proofs ---------------------------
(***************************************************************************)
(* Proofs about the identity service, for any accounts, devices,           *)
(* operations and handlers.                                                *)
(*                                                                         *)
(* The invariants lean on each other: a login keeps OneActiveSession only  *)
(* because it revokes what TypeOK says can be revoked, authorized work     *)
(* keeps its authority only because logins and sign-outs wait for its      *)
(* locks, and codes are used once only because a checked login holds its   *)
(* challenge's row (Checked).                                              *)
(***************************************************************************)
EXTENDS Identity, TLAPS

\* A login past its checks still has a ready challenge of its own.
Checked ==
    /\ \A h \in Handlers : verify[h] # Idle =>
            challenge[verify[h].operation].status = "ready"
    /\ \A h, k \in Handlers :
            verify[h] # Idle /\ verify[k] # Idle /\ verify[h].operation = verify[k].operation
                => h = k

\* What a challenge's row remembers of its history.
Remembered ==
    \A o \in Operations :
        /\ challenge[o] = NoChallenge => guesses[o] = 0 /\ texts[o] = 0 /\ o \notin starting
        /\ challenge[o] # NoChallenge => guesses[o] = challenge[o].guesses
        /\ challenge[o].status # "consumed" => logins[o] = 0
        /\ logins[o] <= 1
        /\ texts[o] <= 1
        /\ o \in starting => texts[o] = 0

\* Work was done by phones up to the newest one.
ActorBounded == \A p \in Accounts : actor[p] <= gen[p]

IInv == TypeOK /\ Checked /\ OneActiveSession /\ AuthorityHeld /\ Remembered /\ ActorBounded

-----------------------------------------------------------------------------
(* Facts about single records *)

LEMMA ChallengeFields ==
    ASSUME TypeOK, NEW o \in Operations
    PROVE  /\ challenge[o] = NoChallenge \/ challenge[o] \in Challenges
           /\ challenge[o] \in Challenges =>
                /\ challenge[o] # NoChallenge
                /\ challenge[o].status \in {"pending", "ready", "failed", "consumed"}
                /\ challenge[o].account \in Accounts
                /\ challenge[o].device \in Devices
                /\ challenge[o].guesses \in 0..MaxGuesses
           /\ challenge[o] = NoChallenge => challenge[o].status = "none"
  BY DEF TypeOK, Challenges, NoChallenge

LEMMA VerifyFields ==
    ASSUME TypeOK, NEW h \in Handlers
    PROVE  /\ verify[h] # Idle => verify[h].step = "checked" /\ verify[h].operation \in Operations
           /\ verify[h].step = "checked" => verify[h] # Idle
  BY DEF TypeOK, Idle

LEMMA WorkFields ==
    ASSUME TypeOK, NEW h \in Handlers
    PROVE  /\ work[h] # Idle => /\ work[h].step \in {"principal", "locked"}
                                /\ work[h].account \in Accounts
                                /\ work[h].gen \in Generations
           /\ work[h].step \in {"principal", "locked"} => work[h] # Idle
  BY DEF TypeOK, Idle

\* The account of a checked login is one.
LEMMA CheckedAccount ==
    ASSUME TypeOK, Checked, NEW h \in Handlers, verify[h].step = "checked"
    PROVE  /\ verify[h].operation \in Operations
           /\ challenge[verify[h].operation] \in Challenges
           /\ challenge[verify[h].operation].status = "ready"
           /\ challenge[verify[h].operation].account \in Accounts
           /\ challenge[verify[h].operation].device \in Devices
  <1>1. verify[h] # Idle /\ verify[h].operation \in Operations
    BY VerifyFields
  <1>2. challenge[verify[h].operation].status = "ready"
    BY <1>1 DEF Checked
  <1> QED  BY <1>1, <1>2, ChallengeFields

\* The sessions a login leaves are typed.
LEMMA ReplacedType ==
    ASSUME TypeOK, NEW p \in Accounts, NEW d \in Devices
    PROVE  Replaced(p, d) \in [Generations -> Sessions \cup {NoSession}]
  <1> SUFFICES ASSUME NEW g \in Generations
               PROVE  Replaced(p, d)[g] \in Sessions \cup {NoSession}
    BY DEF Replaced
  <1>1. session[p][g] \in Sessions \cup {NoSession}
    BY DEF TypeOK
  <1>2. CASE g = gen[p] + 1
    BY <1>2 DEF Replaced, Sessions
  <1>3. CASE g # gen[p] + 1 /\ session[p][g].status = "active"
    <2>1. session[p][g] \in Sessions
      BY <1>1, <1>3 DEF NoSession
    <2>2. [session[p][g] EXCEPT !.status = "revoked"] \in Sessions
      BY <2>1 DEF Sessions
    <2> QED  BY <1>3, <2>2 DEF Replaced
  <1>4. CASE g # gen[p] + 1 /\ session[p][g].status # "active"
    BY <1>1, <1>4 DEF Replaced
  <1> QED  BY <1>2, <1>3, <1>4

-----------------------------------------------------------------------------
(* Types *)

LEMMA TypeStep == ASSUME TypeOK, Checked, [Next]_vars PROVE TypeOK'
  <1> USE IdentityAssumption
  <1>1. ASSUME NEW o \in Operations, NEW p \in Accounts, NEW d \in Devices, Reserve(o, p, d)
        PROVE  TypeOK'
    <2>1. challenge' \in [Operations -> Challenges \cup {NoChallenge}]
      BY <1>1 DEF Reserve, TypeOK, Challenges
    <2> QED  BY <1>1, <2>1 DEF Reserve, TypeOK, handlers, history
  <1>2. ASSUME NEW o \in Operations, NEW b \in BOOLEAN, SendCode(o, b)
        PROVE  TypeOK'
    <2>1. challenge' \in [Operations -> Challenges \cup {NoChallenge}]
      <3>1. CASE challenge[o] = NoChallenge
        <4>1. challenge' = [challenge EXCEPT ![o].status = "none"]
          BY <1>2, <3>1, ChallengeFields DEF SendCode
        <4>2. [challenge[o] EXCEPT !.status = "none"] = NoChallenge
          BY <3>1 DEF NoChallenge
        <4> QED  BY <4>1, <4>2 DEF TypeOK
      <3>2. CASE challenge[o] \in Challenges
        <4>1. PICK s \in {"pending", "ready", "failed", "consumed"} :
                  challenge' = [challenge EXCEPT ![o].status = s]
          BY <1>2, <3>2, ChallengeFields DEF SendCode
        <4>2. [challenge[o] EXCEPT !.status = s] \in Challenges
          BY <3>2 DEF Challenges
        <4> QED  BY <4>1, <4>2 DEF TypeOK
      <3> QED  BY <3>1, <3>2, ChallengeFields
    <2> QED  BY <1>2, <2>1 DEF SendCode, TypeOK, handlers, history
  <1>3. ASSUME NEW o \in Operations, LoseStart(o) PROVE TypeOK'
    BY <1>3 DEF LoseStart, TypeOK, handlers, history
  <1>4. ASSUME NEW o \in Operations, Lapse(o) PROVE TypeOK'
    <2>1. challenge[o] \in Challenges
      BY <1>4, ChallengeFields DEF Lapse
    <2>2. [challenge[o] EXCEPT !.live = FALSE] \in Challenges
      BY <2>1 DEF Challenges
    <2>3. challenge' \in [Operations -> Challenges \cup {NoChallenge}]
      BY <1>4, <2>2 DEF Lapse, TypeOK
    <2> QED  BY <1>4, <2>3 DEF Lapse, TypeOK, handlers, history
  <1>5. ASSUME NEW o \in Operations, NEW d \in Devices, WrongCode(o, d) PROVE TypeOK'
    <2>1. challenge[o] \in Challenges /\ challenge[o].guesses < MaxGuesses
      BY <1>5, ChallengeFields DEF WrongCode, Open
    <2>2. [challenge[o] EXCEPT !.guesses = @ + 1] \in Challenges
      BY <2>1 DEF Challenges
    <2>3. challenge' \in [Operations -> Challenges \cup {NoChallenge}]
      BY <1>5, <2>2 DEF WrongCode, TypeOK
    <2> QED  BY <1>5, <2>3 DEF WrongCode, TypeOK, handlers, history
  <1>6. ASSUME NEW o \in Operations, NEW d \in Devices, NEW h \in Handlers, RightCode(h, o, d)
        PROVE  TypeOK'
    BY <1>6 DEF RightCode, TypeOK, tables, history
  <1>7. ASSUME NEW h \in Handlers, Login(h) PROVE TypeOK'
    <2> DEFINE o == verify[h].operation
               p == challenge[o].account
    <2>1. /\ o \in Operations /\ challenge[o] \in Challenges
          /\ p \in Accounts /\ challenge[o].device \in Devices
      BY <1>7, CheckedAccount DEF Login
    <2>2. [challenge[o] EXCEPT !.status = "consumed"] \in Challenges
      BY <2>1 DEF Challenges
    <2>3. challenge' \in [Operations -> Challenges \cup {NoChallenge}]
      BY <1>7, <2>1, <2>2 DEF Login, TypeOK
    <2>4. session' \in [Accounts -> [Generations -> Sessions \cup {NoSession}]]
      BY <1>7, <2>1, ReplacedType DEF Login, TypeOK
    <2>5. gen' \in [Accounts -> 0..MaxGeneration]
      BY <1>7, <2>1 DEF Login, TypeOK
    <2>6. logins' \in [Operations -> Nat]
      BY <1>7, <2>1 DEF Login, TypeOK
    <2>7. verify' \in [Handlers -> [step : {"checked"}, operation : Operations] \cup {Idle}]
      BY <1>7 DEF Login, TypeOK
    <2> QED  BY <1>7, <2>3, <2>4, <2>5, <2>6, <2>7 DEF Login, TypeOK
  <1>8. ASSUME NEW h \in Handlers, LoseLogin(h) PROVE TypeOK'
    BY <1>8 DEF LoseLogin, TypeOK, tables, history
  <1>9. ASSUME NEW h \in Handlers, LockSession(h) PROVE TypeOK'
    <2>1. work[h] # Idle
      BY <1>9, WorkFields DEF LockSession
    <2>2. work' \in [Handlers -> [step : {"principal", "locked"}, account : Accounts,
                                  gen : Generations] \cup {Idle}]
      BY <1>9, <2>1 DEF LockSession, TypeOK
    <2> QED  BY <1>9, <2>2 DEF LockSession, TypeOK, tables, history
  <1>10. ASSUME NEW h \in Handlers, GiveUp(h) PROVE TypeOK'
    BY <1>10 DEF GiveUp, TypeOK, tables, history
  <1>11. ASSUME NEW h \in Handlers, Commit(h) PROVE TypeOK'
    <2>1. work[h].account \in Accounts /\ work[h].gen \in Generations
      BY <1>11, WorkFields DEF Commit
    <2>2. actor' \in [Accounts -> 0..MaxGeneration]
      BY <1>11, <2>1 DEF Commit, TypeOK, Generations
    <2> QED  BY <1>11, <2>2 DEF Commit, TypeOK, tables
  <1>12. ASSUME NEW p \in Accounts, NEW g \in Generations, SignOut(p, g) PROVE TypeOK'
    <2>1. session[p][g] \in Sessions
      BY <1>12 DEF SignOut, Active, TypeOK, NoSession
    <2>2. [session[p][g] EXCEPT !.status = "revoked"] \in Sessions
      BY <2>1 DEF Sessions
    <2>3. session' \in [Accounts -> [Generations -> Sessions \cup {NoSession}]]
      BY <1>12, <2>2 DEF SignOut, TypeOK
    <2> QED  BY <1>12, <2>3 DEF SignOut, TypeOK, handlers, history
  <1>13. ASSUME NEW p \in Accounts, NEW g \in Generations, Expire(p, g) PROVE TypeOK'
    <2>1. session[p][g] \in Sessions
      BY <1>13 DEF Expire, TypeOK
    <2>2. [session[p][g] EXCEPT !.live = FALSE] \in Sessions
      BY <2>1 DEF Sessions
    <2>3. session' \in [Accounts -> [Generations -> Sessions \cup {NoSession}]]
      BY <1>13, <2>2 DEF Expire, TypeOK
    <2> QED  BY <1>13, <2>3 DEF Expire, TypeOK, handlers, history
  <1>14. ASSUME NEW p \in Accounts, NEW g \in Generations, NEW h \in Handlers,
                RequireSession(h, p, g)
         PROVE  TypeOK'
    BY <1>14 DEF RequireSession, TypeOK, tables, history
  <1>15. ASSUME NEW p \in Accounts, Minute(p) PROVE TypeOK'
    BY <1>15 DEF Minute, TypeOK, handlers, history
  <1>16. CASE UNCHANGED vars
    BY <1>16 DEF TypeOK, vars, tables, handlers, history
  <1> QED
    BY <1>1, <1>2, <1>3, <1>4, <1>5, <1>6, <1>7, <1>8, <1>9, <1>10, <1>11, <1>12, <1>13, <1>14,
       <1>15, <1>16 DEF Next, Text, Code, Handle, Token

-----------------------------------------------------------------------------
(* The invariant *)

LEMMA InitInvariant == Init => IInv
  <1> SUFFICES ASSUME Init PROVE IInv
    OBVIOUS
  <1> USE IdentityAssumption
  <1>1. TypeOK
    BY DEF Init, TypeOK, NoChallenge, NoSession, Idle
  <1>2. OneActiveSession /\ AuthorityHeld
    BY DEF Init, OneActiveSession, AuthorityHeld, Active, NoSession, Idle
  <1>3. Checked /\ Remembered /\ ActorBounded
    BY DEF Init, Checked, Remembered, ActorBounded, NoChallenge, Idle
  <1> QED  BY <1>1, <1>2, <1>3 DEF IInv

\* A login is the only step that leaves "ready", and it holds its row.
LEMMA CheckedStep == ASSUME TypeOK, Checked, [Next]_vars PROVE Checked'
  <1>1. ASSUME NEW o \in Operations, NEW p \in Accounts, NEW d \in Devices, Reserve(o, p, d)
        PROVE  Checked'
    <2>1. \A h \in Handlers : verify[h] # Idle => verify[h].operation # o
      BY <1>1 DEF Reserve, Checked, NoChallenge
    <2> QED  BY <1>1, <2>1, VerifyFields DEF Reserve, Checked, handlers, TypeOK
  <1>2. ASSUME NEW o \in Operations, NEW b \in BOOLEAN, SendCode(o, b)
        PROVE  Checked'
    <2>1. \A k \in Operations : challenge[k].status = "ready" => challenge'[k].status = "ready"
      BY <1>2 DEF SendCode, TypeOK
    <2> QED  BY <1>2, <2>1, VerifyFields DEF SendCode, Checked, handlers
  <1>3. ASSUME NEW o \in Operations, LoseStart(o) PROVE Checked'
    BY <1>3 DEF LoseStart, Checked, handlers
  <1>4. ASSUME NEW o \in Operations, Lapse(o) PROVE Checked'
    <2>1. \A k \in Operations : challenge'[k].status = challenge[k].status
      BY <1>4, ChallengeFields DEF Lapse, TypeOK, Challenges
    <2> QED  BY <1>4, <2>1, VerifyFields DEF Lapse, Checked, handlers
  <1>5. ASSUME NEW o \in Operations, NEW d \in Devices, WrongCode(o, d) PROVE Checked'
    <2>1. \A k \in Operations : challenge'[k].status = challenge[k].status
      BY <1>5, ChallengeFields DEF WrongCode, TypeOK, Challenges
    <2> QED  BY <1>5, <2>1, VerifyFields DEF WrongCode, Checked, handlers
  <1>6. ASSUME NEW o \in Operations, NEW d \in Devices, NEW h \in Handlers, RightCode(h, o, d)
        PROVE  Checked'
    BY <1>6 DEF RightCode, RowFree, Open, Checked, tables, TypeOK, Idle
  <1>7. ASSUME NEW h \in Handlers, Login(h) PROVE Checked'
    <2>1. verify[h] # Idle /\ verify[h].operation \in Operations
      BY <1>7, VerifyFields DEF Login
    <2>2. verify' = [verify EXCEPT ![h] = Idle]
      BY <1>7 DEF Login
    <2>3. challenge' = [challenge EXCEPT ![verify[h].operation].status = "consumed"]
      BY <1>7 DEF Login
    <2>4. \A k \in Handlers : verify'[k] # Idle =>
              k # h /\ verify'[k] = verify[k] /\ verify[k].operation # verify[h].operation
      BY <2>1, <2>2 DEF Checked, TypeOK
    <2>5. \A k \in Operations \ {verify[h].operation} : challenge'[k] = challenge[k]
      BY <2>3 DEF TypeOK
    <2> QED  BY <2>4, <2>5, VerifyFields DEF Checked
  <1>8. ASSUME NEW h \in Handlers, LoseLogin(h) PROVE Checked'
    BY <1>8 DEF LoseLogin, Checked, TypeOK, tables
  <1>9. ASSUME NEW h \in Handlers, LockSession(h) \/ GiveUp(h) \/ Commit(h) PROVE Checked'
    BY <1>9 DEF LockSession, GiveUp, Commit, Checked, tables
  <1>10. ASSUME NEW p \in Accounts, NEW g \in Generations,
                SignOut(p, g) \/ Expire(p, g) \/ \E h \in Handlers : RequireSession(h, p, g)
         PROVE  Checked'
    BY <1>10 DEF SignOut, Expire, RequireSession, Checked, tables, handlers
  <1>11. ASSUME NEW p \in Accounts, Minute(p) PROVE Checked'
    BY <1>11 DEF Minute, Checked, handlers
  <1>12. CASE UNCHANGED vars
    BY <1>12 DEF Checked, vars, tables, handlers
  <1> QED
    BY <1>1, <1>2, <1>3, <1>4, <1>5, <1>6, <1>7, <1>8, <1>9, <1>10, <1>11, <1>12
       DEF Next, Text, Code, Handle, Token

\* Steps that touch neither accounts, sessions nor work in progress.
Elsewhere == UNCHANGED <<gen, session, work, actor>>

LEMMA ElsewhereSteps ==
    ASSUME [Next]_vars
    PROVE  \/ Elsewhere
           \/ \E h \in Handlers : Login(h) \/ LockSession(h) \/ GiveUp(h) \/ Commit(h)
           \/ \E p \in Accounts, g \in Generations :
                SignOut(p, g) \/ Expire(p, g) \/ \E h \in Handlers : RequireSession(h, p, g)
  <1>1. ASSUME NEW o \in Operations, Text(o) PROVE Elsewhere
    BY <1>1 DEF Text, Reserve, SendCode, LoseStart, Lapse, Elsewhere, handlers, history
  <1>2. ASSUME NEW o \in Operations, NEW d \in Devices, Code(o, d) PROVE Elsewhere
    BY <1>2 DEF Code, WrongCode, RightCode, Elsewhere, tables, handlers, history
  <1>3. ASSUME NEW h \in Handlers, LoseLogin(h) PROVE Elsewhere
    BY <1>3 DEF LoseLogin, Elsewhere, tables, history
  <1>4. ASSUME NEW p \in Accounts, Minute(p) PROVE Elsewhere
    BY <1>4 DEF Minute, Elsewhere, handlers, history
  <1>5. CASE UNCHANGED vars
    BY <1>5 DEF vars, tables, handlers, history, Elsewhere
  <1> QED  BY <1>1, <1>2, <1>3, <1>4, <1>5 DEF Next, Handle, Token

\* What a login makes of the sessions of its account.
LEMMA LoginSessions ==
    ASSUME TypeOK, Checked, NEW h \in Handlers, Login(h),
           NEW q \in Accounts, NEW g \in Generations
    PROVE  LET p == challenge[verify[h].operation].account IN
           /\ p \in Accounts /\ gen[p] \in 0..MaxGeneration /\ gen[p] < MaxGeneration
           /\ gen' = [gen EXCEPT ![p] = gen[p] + 1]
           /\ q # p => session'[q][g] = session[q][g] /\ gen'[q] = gen[q]
           /\ q = p => (Active(q, g)' <=> g = gen[p] + 1) /\ gen'[q] = gen[p] + 1
  <1> DEFINE o == verify[h].operation
             p == challenge[o].account
             d == challenge[o].device
  <1>1. p \in Accounts /\ d \in Devices /\ gen[p] \in 0..MaxGeneration
    BY CheckedAccount DEF Login, TypeOK
  <1>2. /\ gen[p] < MaxGeneration
        /\ gen' = [gen EXCEPT ![p] = gen[p] + 1]
        /\ session' = [session EXCEPT ![p] = Replaced(p, d)]
    BY DEF Login
  <1>3. session[p][g] \in Sessions \cup {NoSession}
    BY <1>1 DEF TypeOK
  <1>4. Replaced(p, d)[g].status = "active" <=> g = gen[p] + 1
    <2>1. CASE g = gen[p] + 1
      BY <2>1 DEF Replaced
    <2>2. CASE g # gen[p] + 1 /\ session[p][g].status = "active"
      <3>1. session[p][g] \in Sessions
        BY <1>3, <2>2 DEF NoSession
      <3>2. [session[p][g] EXCEPT !.status = "revoked"].status = "revoked"
        BY <3>1 DEF Sessions
      <3> QED  BY <2>2, <3>2 DEF Replaced
    <2>3. CASE g # gen[p] + 1 /\ session[p][g].status # "active"
      BY <2>3 DEF Replaced
    <2> QED  BY <2>1, <2>2, <2>3
  <1>5. q # p => session'[q][g] = session[q][g] /\ gen'[q] = gen[q]
    BY <1>1, <1>2 DEF TypeOK
  <1>6. q = p => session'[q][g] = Replaced(p, d)[g] /\ gen'[q] = gen[p] + 1
    BY <1>1, <1>2 DEF TypeOK
  <1> QED  BY <1>1, <1>2, <1>4, <1>5, <1>6 DEF Active
LEMMA SessionsStep ==
    ASSUME TypeOK, Checked, OneActiveSession, AuthorityHeld, [Next]_vars
    PROVE  OneActiveSession' /\ AuthorityHeld'
  <1>1. CASE Elsewhere
    BY <1>1 DEF Elsewhere, OneActiveSession, AuthorityHeld, Active
  <1>2. ASSUME NEW h \in Handlers, Login(h) PROVE OneActiveSession' /\ AuthorityHeld'
    <2> DEFINE p == challenge[verify[h].operation].account
    <2>1. OneActiveSession'
      <3> SUFFICES ASSUME NEW q \in Accounts, NEW g \in Generations, Active(q, g)'
                   PROVE  g = gen'[q]
        BY DEF OneActiveSession
      <3> QED  BY <1>2, LoginSessions DEF OneActiveSession, Active
    <2>2. AuthorityHeld'
      <3> SUFFICES ASSUME NEW k \in Handlers, work[k].step = "locked"
                   PROVE  gen'[work[k].account] = work[k].gen /\ Active(work[k].account, work[k].gen)'
        BY <1>2 DEF Login, AuthorityHeld
      <3>1. work[k].account \in Accounts /\ work[k].gen \in Generations
        BY WorkFields
      <3>2. work[k].account # p
        BY <1>2 DEF Login, AccountShared
      <3>3. /\ session'[work[k].account][work[k].gen] = session[work[k].account][work[k].gen]
            /\ gen'[work[k].account] = gen[work[k].account]
        BY <1>2, <3>1, <3>2, LoginSessions
      <3>4. gen[work[k].account] = work[k].gen /\ Active(work[k].account, work[k].gen)
        BY DEF AuthorityHeld
      <3>5. work' = work
        BY <1>2 DEF Login
      <3> QED  BY <3>3, <3>4, <3>5 DEF Active
    <2> QED  BY <2>1, <2>2
  <1>3. ASSUME NEW h \in Handlers, LockSession(h) PROVE OneActiveSession' /\ AuthorityHeld'
    <2>1. OneActiveSession'
      BY <1>3 DEF LockSession, OneActiveSession, Active, tables
    <2>2. \A k \in Handlers : k # h => work'[k] = work[k]
      BY <1>3 DEF LockSession, TypeOK
    <2>3. /\ work'[h].account = work[h].account /\ work'[h].gen = work[h].gen
      BY <1>3, WorkFields DEF LockSession, TypeOK
    <2>4. gen' = gen /\ session' = session
      BY <1>3 DEF LockSession, tables
    <2>5. gen[work[h].account] = work[h].gen /\ Active(work[h].account, work[h].gen)
      BY <1>3 DEF LockSession
    <2> QED  BY <2>1, <2>2, <2>3, <2>4, <2>5 DEF AuthorityHeld, Active
  <1>4. ASSUME NEW h \in Handlers, GiveUp(h) \/ Commit(h)
        PROVE  OneActiveSession' /\ AuthorityHeld'
    <2>1. work' = [work EXCEPT ![h] = Idle] /\ gen' = gen /\ session' = session
      BY <1>4 DEF GiveUp, Commit, tables
    <2> QED  BY <2>1 DEF OneActiveSession, AuthorityHeld, Active, TypeOK, Idle
  <1>5. ASSUME NEW p \in Accounts, NEW g \in Generations, NEW h \in Handlers, RequireSession(h, p, g)
        PROVE  OneActiveSession' /\ AuthorityHeld'
    <2>1. /\ work' = [work EXCEPT ![h] = [step |-> "principal", account |-> p, gen |-> g]]
          /\ gen' = gen /\ session' = session
      BY <1>5 DEF RequireSession, tables
    <2> QED  BY <2>1 DEF OneActiveSession, AuthorityHeld, Active, TypeOK
  <1>6. ASSUME NEW p \in Accounts, NEW g \in Generations, SignOut(p, g)
        PROVE  OneActiveSession' /\ AuthorityHeld'
    <2>1. /\ session' = [session EXCEPT ![p][g].status = "revoked"]
          /\ gen' = gen /\ work' = work
      BY <1>6 DEF SignOut, handlers
    <2>2. session[p][g] \in Sessions
      BY <1>6 DEF SignOut, Active, TypeOK, NoSession
    <2>3. \A q \in Accounts, f \in Generations :
              Active(q, f)' <=> Active(q, f) /\ ~(q = p /\ f = g)
      <3> SUFFICES ASSUME NEW q \in Accounts, NEW f \in Generations
                   PROVE  Active(q, f)' <=> Active(q, f) /\ ~(q = p /\ f = g)
        OBVIOUS
      <3>1. CASE q = p /\ f = g
        <4>1. session'[p][g] = [session[p][g] EXCEPT !.status = "revoked"]
          BY <2>1 DEF TypeOK
        <4>2. session'[p][g].status = "revoked"
          BY <4>1, <2>2 DEF Sessions
        <4> QED  BY <3>1, <4>2 DEF Active
      <3>2. CASE ~(q = p /\ f = g)
        BY <2>1, <3>2 DEF TypeOK, Active
      <3> QED  BY <3>1, <3>2
    <2>4. \A k \in Handlers : work[k].step = "locked" =>
              ~(work[k].account = p /\ work[k].gen = g)
      BY <1>6 DEF SignOut, SessionShared
    <2>5. OneActiveSession'
      BY <2>1, <2>3 DEF OneActiveSession
    <2>6. AuthorityHeld'
      BY <2>1, <2>3, <2>4, WorkFields DEF AuthorityHeld
    <2> QED  BY <2>5, <2>6
  <1>7. ASSUME NEW p \in Accounts, NEW g \in Generations, Expire(p, g)
        PROVE  OneActiveSession' /\ AuthorityHeld'
    <2>1. /\ session' = [session EXCEPT ![p][g].live = FALSE]
          /\ gen' = gen /\ work' = work
      BY <1>7 DEF Expire, handlers
    <2>2. session[p][g] \in Sessions
      BY <1>7 DEF Expire, TypeOK
    <2>3. \A q \in Accounts, f \in Generations : Active(q, f)' <=> Active(q, f)
      <3> SUFFICES ASSUME NEW q \in Accounts, NEW f \in Generations
                   PROVE  session'[q][f].status = session[q][f].status
        BY DEF Active
      <3>1. CASE q = p /\ f = g
        <4>1. session'[p][g] = [session[p][g] EXCEPT !.live = FALSE]
          BY <2>1 DEF TypeOK
        <4> QED  BY <3>1, <4>1, <2>2 DEF Sessions
      <3>2. CASE ~(q = p /\ f = g)
        BY <2>1, <3>2 DEF TypeOK
      <3> QED  BY <3>1, <3>2
    <2> QED  BY <2>1, <2>3, WorkFields DEF OneActiveSession, AuthorityHeld
  <1> QED  BY <1>1, <1>2, <1>3, <1>4, <1>5, <1>6, <1>7, ElsewhereSteps

\* The generation of an account never falls, nor does that of its work.
LEMMA ActorStep ==
    ASSUME TypeOK, Checked, AuthorityHeld, ActorBounded, [Next]_vars
    PROVE  ActorBounded' /\ \A p \in Accounts : actor'[p] >= actor[p]
  <1> SUFFICES ASSUME NEW p \in Accounts
               PROVE  actor'[p] <= gen'[p] /\ actor'[p] >= actor[p]
    BY DEF ActorBounded
  <1>1. actor[p] \in Nat /\ gen[p] \in Nat /\ actor[p] <= gen[p]
    BY IdentityAssumption DEF TypeOK, ActorBounded
  <1>2. CASE Elsewhere
    BY <1>1, <1>2 DEF Elsewhere
  <1>3. ASSUME NEW h \in Handlers, Login(h) PROVE actor'[p] <= gen'[p] /\ actor'[p] >= actor[p]
    <2>1. actor' = actor
      BY <1>3 DEF Login
    <2>2. gen' = [gen EXCEPT ![challenge[verify[h].operation].account] = @ + 1]
      BY <1>3 DEF Login
    <2> QED  BY <1>1, <2>1, <2>2 DEF TypeOK
  <1>4. ASSUME NEW h \in Handlers, Commit(h) PROVE actor'[p] <= gen'[p] /\ actor'[p] >= actor[p]
    <2>1. gen' = gen /\ actor' = [actor EXCEPT ![work[h].account] = work[h].gen]
      BY <1>4 DEF Commit, tables
    <2>2. gen[work[h].account] = work[h].gen
      BY <1>4 DEF Commit, AuthorityHeld
    <2> QED  BY <1>1, <2>1, <2>2 DEF TypeOK
  <1>5. ASSUME NEW h \in Handlers, LockSession(h) \/ GiveUp(h)
        PROVE  actor'[p] <= gen'[p] /\ actor'[p] >= actor[p]
    BY <1>1, <1>5 DEF LockSession, GiveUp, tables, history
  <1>6. ASSUME NEW q \in Accounts, NEW g \in Generations,
               SignOut(q, g) \/ Expire(q, g) \/ \E h \in Handlers : RequireSession(h, q, g)
        PROVE  actor'[p] <= gen'[p] /\ actor'[p] >= actor[p]
    BY <1>1, <1>6 DEF SignOut, Expire, RequireSession, tables, history
  <1> QED  BY <1>2, <1>3, <1>4, <1>5, <1>6, ElsewhereSteps
\* A challenge's row counts what was done with it.
LEMMA RememberedStep ==
    ASSUME TypeOK, Checked, Remembered, [Next]_vars
    PROVE  Remembered'
  <1>1. ASSUME NEW o \in Operations, NEW p \in Accounts, NEW d \in Devices, Reserve(o, p, d)
        PROVE  Remembered'
    <2>1. /\ challenge'[o] # NoChallenge /\ challenge'[o].guesses = 0
          /\ challenge'[o].status = "pending"
      BY <1>1 DEF Reserve, TypeOK, NoChallenge
    <2>2. \A k \in Operations \ {o} : challenge'[k] = challenge[k] /\ (k \in starting' <=> k \in starting)
      BY <1>1 DEF Reserve, TypeOK
    <2>3. guesses[o] = 0 /\ texts[o] = 0 /\ logins[o] = 0
      BY <1>1, ChallengeFields DEF Reserve, Remembered
    <2>4. guesses' = guesses /\ texts' = texts /\ logins' = logins
      BY <1>1 DEF Reserve, history
    <2> QED  BY <2>1, <2>2, <2>3, <2>4 DEF Remembered
  <1>2. ASSUME NEW o \in Operations, NEW b \in BOOLEAN, SendCode(o, b)
        PROVE  Remembered'
    <2>1. challenge[o] \in Challenges
      BY <1>2, ChallengeFields DEF SendCode, Remembered
    <2>2. PICK s : /\ challenge' = [challenge EXCEPT ![o].status = s]
                   /\ s = "consumed" => challenge[o].status = "consumed"
                   /\ challenge[o].status = "consumed" => s = "consumed"
      BY <1>2, <2>1 DEF SendCode
    <2>3. /\ challenge'[o] # NoChallenge /\ challenge'[o].guesses = challenge[o].guesses
          /\ challenge'[o].status = "consumed" <=> challenge[o].status = "consumed"
      BY <2>1, <2>2 DEF TypeOK, Challenges, NoChallenge
    <2>4. \A k \in Operations \ {o} : challenge'[k] = challenge[k] /\ texts'[k] = texts[k]
      BY <1>2 DEF SendCode, TypeOK
    <2>5. starting' = starting \ {o} /\ texts'[o] = 1 /\ guesses' = guesses /\ logins' = logins
      BY <1>2 DEF SendCode, TypeOK, Remembered
    <2> QED  BY <2>1, <2>3, <2>4, <2>5, ChallengeFields DEF Remembered
  <1>3. ASSUME NEW o \in Operations, LoseStart(o) PROVE Remembered'
    <2>1. /\ starting' = starting \ {o} /\ challenge' = challenge
          /\ guesses' = guesses /\ logins' = logins
      BY <1>3 DEF LoseStart
    <2>2. texts'[o] = 1 /\ \A k \in Operations \ {o} : texts'[k] = texts[k]
      BY <1>3 DEF LoseStart, TypeOK, Remembered
    <2>3. challenge[o] # NoChallenge
      BY <1>3 DEF LoseStart, Remembered
    <2> QED  BY <2>1, <2>2, <2>3 DEF Remembered
  <1>4. ASSUME NEW o \in Operations, Lapse(o) PROVE Remembered'
    <2>1. challenge[o] \in Challenges
      BY <1>4, ChallengeFields DEF Lapse
    <2>2. \A k \in Operations : /\ challenge'[k] = NoChallenge <=> challenge[k] = NoChallenge
                                /\ challenge'[k].status = challenge[k].status
                                /\ challenge'[k].guesses = challenge[k].guesses
      BY <1>4, <2>1 DEF Lapse, TypeOK, Challenges, NoChallenge
    <2>3. UNCHANGED <<starting, texts, guesses, logins>>
      BY <1>4 DEF Lapse, history
    <2> QED  BY <2>2, <2>3 DEF Remembered
  <1>5. ASSUME NEW o \in Operations, NEW d \in Devices, WrongCode(o, d) PROVE Remembered'
    <2>1. challenge[o] \in Challenges
      BY <1>5, ChallengeFields DEF WrongCode, Open
    <2>2. /\ challenge'[o] # NoChallenge /\ challenge'[o].status = challenge[o].status
          /\ challenge'[o].guesses = challenge[o].guesses + 1
      BY <1>5, <2>1 DEF WrongCode, TypeOK, Challenges, NoChallenge
    <2>3. \A k \in Operations \ {o} : challenge'[k] = challenge[k] /\ guesses'[k] = guesses[k]
      BY <1>5 DEF WrongCode, TypeOK
    <2>4. guesses'[o] = guesses[o] + 1 /\ UNCHANGED <<starting, texts, logins>>
      BY <1>5 DEF WrongCode, TypeOK
    <2> QED  BY <2>1, <2>2, <2>3, <2>4, ChallengeFields DEF Remembered
  <1>6. ASSUME NEW h \in Handlers, Login(h) PROVE Remembered'
    <2> DEFINE o == verify[h].operation
    <2>1. o \in Operations /\ challenge[o] \in Challenges /\ challenge[o].status = "ready"
      BY <1>6, CheckedAccount DEF Login
    <2>2. /\ challenge'[o] # NoChallenge /\ challenge'[o].status = "consumed"
          /\ challenge'[o].guesses = challenge[o].guesses
      BY <1>6, <2>1 DEF Login, TypeOK, Challenges, NoChallenge
    <2>3. \A k \in Operations \ {o} : challenge'[k] = challenge[k] /\ logins'[k] = logins[k]
      BY <1>6 DEF Login, TypeOK
    <2>4. logins[o] = 0 /\ logins'[o] = 1 /\ UNCHANGED <<starting, texts, guesses>>
      BY <1>6, <2>1 DEF Login, TypeOK, Remembered
    <2> QED  BY <2>1, <2>2, <2>3, <2>4, ChallengeFields DEF Remembered
  <1>7. CASE UNCHANGED <<challenge, starting, texts, guesses, logins>>
    BY <1>7 DEF Remembered
  <1>8. ASSUME NEW o \in Operations, NEW d \in Devices, NEW h \in Handlers, RightCode(h, o, d)
        PROVE  Remembered'
    BY <1>7, <1>8 DEF RightCode, tables, history
  <1>9. ASSUME NEW h \in Handlers, LoseLogin(h) \/ LockSession(h) \/ GiveUp(h) \/ Commit(h)
        PROVE  Remembered'
    BY <1>7, <1>9 DEF LoseLogin, LockSession, GiveUp, Commit, tables, history
  <1>10. ASSUME NEW p \in Accounts, NEW g \in Generations, Token(p, g) PROVE Remembered'
    BY <1>7, <1>10 DEF Token, SignOut, Expire, RequireSession, tables, history
  <1>11. ASSUME NEW p \in Accounts, Minute(p) PROVE Remembered'
    BY <1>7, <1>11 DEF Minute, history
  <1>12. CASE UNCHANGED vars
    BY <1>7, <1>12 DEF vars, tables, history
  <1> QED
    BY <1>1, <1>2, <1>3, <1>4, <1>5, <1>6, <1>8, <1>9, <1>10, <1>11, <1>12 DEF Next, Text, Code, Handle

LEMMA Inductive == IInv /\ [Next]_vars => IInv'
  <1> SUFFICES ASSUME IInv, [Next]_vars PROVE IInv'
    OBVIOUS
  <1> QED  BY TypeStep, CheckedStep, SessionsStep, RememberedStep, ActorStep DEF IInv

-----------------------------------------------------------------------------
(* Theorems *)

\* The invariant holds of every state the service reaches.
THEOREM Invariance == Spec => []IInv
  <1> QED  BY InitInvariant, Inductive, PTL DEF Spec

\* The tables keep the types their columns and checks demand.
THEOREM TypeCorrect == Spec => []TypeOK
  <1>1. IInv => TypeOK
    BY DEF IInv
  <1> QED  BY <1>1, Invariance, PTL

\* One phone at a time: no login sequence leaves two sessions active, and
\* authorized work keeps its authority until it commits.
THEOREM OnePhoneAtATime == Spec => []OnePhone
  <1>1. IInv => OnePhone
    BY DEF IInv, OnePhone
  <1> QED  BY <1>1, Invariance, PTL

\* A challenge sends one text, answers MaxGuesses wrong codes and opens one
\* session at most, however its requests interleave.
THEOREM CodesBounded == Spec => []ChallengeBounds
  <1>1. ASSUME IInv PROVE ChallengeBounds
    <2>1. CodeUsedOnce /\ OneText
      BY <1>1 DEF IInv, Remembered, CodeUsedOnce, OneText
    <2>2. GuessesCounted
      <3> SUFFICES ASSUME NEW o \in Operations PROVE guesses[o] <= MaxGuesses
        BY DEF GuessesCounted
      <3> QED  BY <1>1, ChallengeFields, IdentityAssumption DEF IInv, Remembered
    <2> QED  BY <2>1, <2>2 DEF ChallengeBounds
  <1> QED  BY <1>1, Invariance, PTL

\* Committed work never falls back to an earlier phone of its account.
THEOREM WorkInOrder == Spec => PhonesInOrder
  <1>1. IInv /\ [Next]_vars => [\A p \in Accounts : actor'[p] >= actor[p]]_vars
    BY ActorStep DEF IInv
  <1> QED  BY <1>1, Invariance, PTL DEF Spec, PhonesInOrder
-----------------------------------------------------------------------------
(* Refinement *)

LEMMA HolderOf ==
    ASSUME TypeOK, OneActiveSession, NEW p \in Accounts, NEW g \in Generations, Active(p, g)
    PROVE  Holder(p) = g
  BY IdentityAssumption DEF OneActiveSession, Holder, Generations, TypeOK

\* Every step is a login, a revocation or work of ExclusiveSession, or none.
LEMMA StepRefines ==
    ASSUME IInv, IInv', [Next]_vars
    PROVE  [Exclusive!Next]_(Exclusive!vars)
  <1> USE DEF IInv
  <1> DEFINE holders == [p \in Accounts |-> Holder(p)]
  <1>1. CASE UNCHANGED <<gen, session, actor>>
    BY <1>1 DEF Exclusive!vars, Holder, Active
  <1>2. ASSUME NEW h \in Handlers, Login(h) PROVE Exclusive!Next
    <2>1. PICK p \in Accounts, d \in Devices, n \in Generations :
            /\ n = gen[p] + 1 /\ n # 0
            /\ gen' = [gen EXCEPT ![p] = n]
            /\ session' = [session EXCEPT ![p] = Replaced(p, d)]
      <3> DEFINE o == verify[h].operation
      <3>1. /\ challenge[o].account \in Accounts /\ challenge[o].device \in Devices
        BY <1>2, CheckedAccount DEF Login
      <3>2. /\ gen[challenge[o].account] < MaxGeneration
            /\ gen' = [gen EXCEPT ![challenge[o].account] = gen[challenge[o].account] + 1]
            /\ session' = [session EXCEPT ![challenge[o].account] =
                              Replaced(challenge[o].account, challenge[o].device)]
        BY <1>2 DEF Login
      <3>3. gen[challenge[o].account] \in 0..MaxGeneration
        BY <3>1 DEF TypeOK
      <3>4. gen[challenge[o].account] + 1 \in Generations /\ gen[challenge[o].account] + 1 # 0
        BY <3>2, <3>3, IdentityAssumption DEF Generations
      <3> HIDE DEF o
      <3> QED  BY <3>1, <3>2, <3>4
    <2>2. actor' = actor
      BY <1>2 DEF Login
    <2>3. gen'[p] = n /\ Replaced(p, d)[n].status = "active"
      BY <2>1 DEF TypeOK, Replaced
    <2>4. session'[p][n].status = "active"
      BY <2>1, <2>3 DEF TypeOK
    <2>5. Holder(p)' = n
      BY <2>1, <2>3, <2>4 DEF Holder, Active
    <2>6. \A q \in Accounts \ {p} : gen'[q] = gen[q] /\ session'[q] = session[q]
      BY <2>1 DEF TypeOK
    <2>7. \A q \in Accounts \ {p} : Holder(q)' = Holder(q)
      BY <2>6 DEF Holder, Active
    <2>8. holders' = [holders EXCEPT ![p] = n]
      BY <2>5, <2>7
    <2>9. Exclusive!Login(p)
      BY <2>1, <2>2, <2>8 DEF Exclusive!Login
    <2> QED  BY <2>9 DEF Exclusive!Next
  <1>3. ASSUME NEW h \in Handlers, Commit(h) PROVE Exclusive!Next
    <2> DEFINE p == work[h].account
    <2>1. /\ p \in Accounts /\ work[h].gen \in Generations
          /\ Active(p, work[h].gen)
      BY <1>3, WorkFields DEF Commit, AuthorityHeld
    <2>2. Holder(p) = work[h].gen /\ work[h].gen # 0
      BY <2>1, HolderOf DEF Generations
    <2>3. gen' = gen /\ session' = session /\ actor' = [actor EXCEPT ![p] = work[h].gen]
      BY <1>3 DEF Commit, tables
    <2>4. holders' = holders
      BY <2>3 DEF Holder, Active
    <2>5. Exclusive!Act(p)
      BY <2>1, <2>2, <2>3, <2>4 DEF Exclusive!Act
    <2> QED  BY <2>1, <2>5 DEF Exclusive!Next
  <1>4. ASSUME NEW p \in Accounts, NEW g \in Generations, SignOut(p, g) PROVE Exclusive!Next
    <2>1. gen' = gen /\ actor' = actor /\ session' = [session EXCEPT ![p][g].status = "revoked"]
      BY <1>4 DEF SignOut, history
    <2>2. g = gen[p]
      BY <1>4 DEF SignOut, OneActiveSession
    <2>3. ~Active(p, g)'
      <3>1. session[p][g] \in Sessions
        BY <1>4 DEF SignOut, Active, TypeOK, NoSession
      <3>2. session'[p][g] = [session[p][g] EXCEPT !.status = "revoked"]
        BY <2>1 DEF TypeOK
      <3> QED  BY <3>1, <3>2 DEF Sessions, Active
    <2>4. Holder(p)' = 0
      BY <2>1, <2>2, <2>3 DEF Holder, Active
    <2>5. \A q \in Accounts \ {p} : Holder(q)' = Holder(q)
      BY <2>1 DEF TypeOK, Holder, Active
    <2>6. holders' = [holders EXCEPT ![p] = 0]
      BY <2>4, <2>5
    <2>7. Exclusive!Revoke(p)
      BY <2>1, <2>6 DEF Exclusive!Revoke
    <2> QED  BY <2>7 DEF Exclusive!Next
  <1>5. ASSUME NEW p \in Accounts, NEW g \in Generations, Expire(p, g)
        PROVE  UNCHANGED Exclusive!vars
    <2>1. gen' = gen /\ actor' = actor /\ session' = [session EXCEPT ![p][g].live = FALSE]
      BY <1>5 DEF Expire, history
    <2>2. \A q \in Accounts, f \in Generations : session'[q][f].status = session[q][f].status
      <3> SUFFICES ASSUME NEW q \in Accounts, NEW f \in Generations
                   PROVE  session'[q][f].status = session[q][f].status
        OBVIOUS
      <3>1. CASE q = p /\ f = g
        <4>1. session[p][g] \in Sessions
          BY <1>5 DEF Expire, TypeOK
        <4>2. session'[p][g] = [session[p][g] EXCEPT !.live = FALSE]
          BY <2>1 DEF TypeOK
        <4> QED  BY <3>1, <4>1, <4>2 DEF Sessions
      <3>2. CASE ~(q = p /\ f = g)
        BY <2>1, <3>2 DEF TypeOK
      <3> QED  BY <3>1, <3>2
    <2>3. \A q \in Accounts : Holder(q)' = Holder(q)
      <3> SUFFICES ASSUME NEW q \in Accounts PROVE Holder(q)' = Holder(q)
        OBVIOUS
      <3>1. gen[q] # 0 => gen[q] \in Generations
        BY IdentityAssumption DEF TypeOK, Generations
      <3> QED  BY <2>1, <2>2, <3>1 DEF Holder, Active
    <2> QED  BY <2>1, <2>3 DEF Exclusive!vars
  <1>6. ASSUME NEW h \in Handlers, LockSession(h) \/ GiveUp(h)
        PROVE  UNCHANGED <<gen, session, actor>>
    BY <1>6 DEF LockSession, GiveUp, tables, history
  <1>7. ASSUME NEW p \in Accounts, NEW g \in Generations, NEW h \in Handlers, RequireSession(h, p, g)
        PROVE  UNCHANGED <<gen, session, actor>>
    BY <1>7 DEF RequireSession, tables, history
  <1> QED  BY <1>1, <1>2, <1>3, <1>4, <1>5, <1>6, <1>7, ElsewhereSteps DEF Elsewhere

\* Identity implements exclusive sessions: its accounts are held by one phone
\* at a time, the newest, and work is done in the holder's name.
THEOREM Refinement == Spec => ImplementsExclusive
  <1>1. Init => Exclusive!Init
    BY DEF Init, Exclusive!Init, Holder
  <1>2. IInv /\ IInv' /\ [Next]_vars => [Exclusive!Next]_(Exclusive!vars)
    BY StepRefines
  <1> QED  BY <1>1, <1>2, Invariance, PTL DEF Spec, ImplementsExclusive, Exclusive!Spec

\* LoginSafe for every value of the constants.
THEOREM Logins == Spec => []LoginSafe
  <1>1. OnePhone /\ ChallengeBounds => LoginSafe
    BY DEF LoginSafe
  <1> QED  BY <1>1, OnePhoneAtATime, CodesBounded, PTL
=============================================================================
