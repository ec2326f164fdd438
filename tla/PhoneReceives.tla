---------------------------- MODULE PhoneReceives ----------------------------
(***************************************************************************)
(* What a phone has and receives: its session with the service, every call    *)
(* under that session, the lists that follow the account, the inbox and the    *)
(* keys of its peers, and the database that keeps the history.  The parts      *)
(* share no state that is modelled, so each behaviour looks at one of them; the  *)
(* module of the database is extended, the others are instantiated.            *)
(***************************************************************************)
EXTENDS EncryptedHistory

CONSTANTS Numbers, MaxTokens, MaxLost, MaxBroken, Sessions, Gone, MaxCalls, Requests,
          MaxSignIns, MaxReads, Peers, PageSize, MaxMessages, MaxPhones, MaxFails, MaxSeen

VARIABLES part,   \* the component that is looked at, for the whole behaviour
          issued, live, saved, status, current, challenge, phase, attempt, call, bound, active,
          checking, timer, syncing, sessionTold, lost, broken,
          session, api, asked, serviceAnswer, acted, refused, serviceTold, calls,
          store, account, atServer, view, reads, storesAnswer, closed,
          relay, phones, theirs, pins, sessions, spent, sent, received, acked, cursor, work,
          pages, review, fails

Session == INSTANCE ClientSession WITH
    told <- sessionTold
Call == INSTANCE ServiceCall WITH
    answer <- serviceAnswer, told <- serviceTold
Stores == INSTANCE AccountStores WITH
    answer <- storesAnswer
Inbox == INSTANCE InboxSync

sessionState == <<issued, live, saved, status, current, challenge, phase, attempt, call, bound,
                 active, checking, timer, syncing, sessionTold, lost, broken>>
serviceState == <<session, api, asked, serviceAnswer, acted, refused, serviceTold, calls>>
storesState == <<store, account, atServer, view, reads, storesAnswer, closed>>
inboxState == <<relay, phones, theirs, pins, sessions, spent, sent, received, acked, cursor,
               work, pages, review, fails>>

phoneVars == <<part, sessionState, serviceState, storesState, inboxState, historyVars>>

SessionStep ==
    /\ part = "session" /\ Session!SessionNext
    /\ UNCHANGED <<part, serviceState, storesState, inboxState, historyVars>>
CallStep ==
    /\ part = "service" /\ Call!CallNext
    /\ UNCHANGED <<part, sessionState, storesState, inboxState, historyVars>>
StoresStep ==
    /\ part = "stores" /\ Stores!StoreNext
    /\ UNCHANGED <<part, sessionState, serviceState, inboxState, historyVars>>
InboxStep ==
    /\ part = "inbox" /\ Inbox!InboxNext
    /\ UNCHANGED <<part, sessionState, serviceState, storesState, historyVars>>
HistoryStep ==
    /\ part = "history" /\ HistoryNext
    /\ UNCHANGED <<part, sessionState, serviceState, storesState, inboxState>>

Init ==
    /\ part \in {"session", "service", "stores", "inbox", "history"}
    /\ Session!SessionInit
    /\ IF part = "service" THEN Call!CallInit(Call!APIs, Sessions)
       ELSE Call!CallInit({Call!MessageRequest}, {CHOOSE s \in Sessions : TRUE})
    /\ Stores!StoreInit(IF part = "stores" THEN Stores!Stores ELSE {"circles"})
    /\ Inbox!InboxInit
    /\ HistoryInit

Next == SessionStep \/ CallStep \/ StoresStep \/ InboxStep \/ HistoryStep

\* The fairness of each component, while it is looked at.
Fairness ==
    /\ WF_sessionState(part = "session" /\ Session!FlowStep)
    /\ WF_sessionState(part = "session" /\ Session!StartSync)
    /\ WF_sessionState(part = "session" /\ Session!EndSync)
    /\ WF_sessionState(part = "session" /\ Session!Pause /\ ~Session!Authenticated /\ Session!Refresh)
    /\ SF_sessionState(part = "session" /\ Session!Resume /\ ~Session!Busy /\ Session!Refresh)
    /\ WF_sessionState(part = "session" /\ Session!RetryPreparation /\ Session!Refresh)
    /\ WF_inboxState(part = "inbox" /\ Inbox!InboxStep)
    /\ WF_inboxState(part = "inbox" /\ Inbox!PagerStep)
    /\ SF_inboxState(part = "inbox" /\ Inbox!ReviewStep)
    /\ \A p \in Peers : SF_inboxState(part = "inbox" /\ Inbox!Refresh(p))
    /\ WF_historyVars(part = "history" /\ OpenStep)
    /\ WF_historyVars(part = "history" /\ WorkStep)

PhoneSpec == Init /\ [][Next]_phoneVars /\ Fairness

ASSUME ReceiveBounds == /\ {MaxTokens, MaxLost, MaxBroken, MaxCalls, MaxSignIns, MaxReads, MaxMessages, PageSize,
                             MaxGenerations} \subseteq Nat
                        /\ Sessions # {} /\ Gone \notin Sessions

-----------------------------------------------------------------------------

\* Whenever the app lets its user in, the encryption it hands out is of the account
\* and generation that are signed in; and a session that could not be saved is not
\* left alive on the server while its answers arrive (session-owner.ts, login-flow.ts).
SessionSafe == Session!SessionTypeOK /\ Session!ReadyIsBound /\ Session!NothingLeftAlive

\* A saved session that the server accepts is usable again in the end, and no
\* refresh, check or answer loses the timer of a phone that is open and signed in:
\* it synchronises again and again (foreground-session.ts, sync-scheduler.ts).
SessionLives == part = "session" => Session!SessionRecovers /\ Session!SyncKeepsRunning

\* What a caller is told of an operation is true, and meant for the session it is in;
\* a list shows what was listed for the account that is signed in, and nothing that
\* was answered here comes back with a page read before (messages/api.ts and the
\* other APIs, friends-flow.ts and the other lists).
AnswersAreCurrent == /\ Call!CallTypeOK /\ Call!AnswersBelong
                     /\ Stores!StoreTypeOK /\ Stores!OwnItems /\ Stores!AnsweredStays

\* The cursor never passes a delivery that is not in the history (inbox-sync.ts).
NothingSkipped == Inbox!InboxTypeOK /\ Inbox!NothingSkipped

\* New keys of a peer are relied on only when the owner has accepted those that the
\* screen showed (identity-review.ts).
TrustIsReviewed == Inbox!TrustIsReviewed

\* Every delivery is received and acknowledged if none stays unreadable, and no
\* database locks the app out (receive.ts, encrypted-history.native.ts).
ReceivingGoesOn == /\ part = "inbox" => Inbox!InboxCatchesUp
                   /\ part = "history" => OpensAgain

=============================================================================
