---------------------------- MODULE AccountStores ----------------------------
(***************************************************************************)
(* The lists that the app keeps for its screens: Circles, invitations to    *)
(* Circles, friend requests, saved Circle updates and the message history.   *)
(* Each is read page by page in calls whose answers come in any order, while *)
(* the owner answers requests and signs in and out.  The stores share no     *)
(* state, so a behaviour is about one of them.                              *)
(***************************************************************************)
EXTENDS Naturals, FiniteSets

CONSTANTS Requests,     \* what a list holds, once for each account
          MaxSignIns,   \* accounts that sign in one after another
          MaxReads      \* calls under way at a time

Stores == {"circles", "invitations", "friends", "saved", "history"}
OneAtATime == {"circles", "invitations", "friends"}   \* a second read is refused
Answered == {"invitations", "friends"}                \* lists of requests

VARIABLES store,        \* the list that is studied
          account,      \* the account signed in, 0 for none, and how many there were
          atServer,     \* for each account, what the relay, or the disk, lists
          view,         \* the snapshot: [phase, items, reading, busy]
          reads,        \* calls under way: [number, account, live, more, before, page]
          answer,       \* the answer to a request that is under way
          closed        \* the requests whose answer the app has confirmed

storeVars == <<store, account, atServer, view, reads, answer, closed>>

Items == [account : 1..MaxSignIns, id : Requests]
ItemsOf(a) == [account : {a}, id : Requests]
NotServed == [items |-> {}, served |-> FALSE]
NoAnswer == [of |-> [account |-> 0, id |-> 0], under |-> 0, done |-> FALSE]

\* A new ticket of the store: whatever the calls under way bring is not looked at.
Dropped == {[r EXCEPT !.live = FALSE, !.before = {}, !.page = NotServed] : r \in reads}
EmptyView == [phase |-> "idle", items |-> {}, reading |-> FALSE, busy |-> FALSE]
SignedIn == account.now # 0
Reading == IF store = "invitations" THEN view.busy ELSE view.reading

-----------------------------------------------------------------------------
(* Signing in and out.                                                      *)

\* Mutant: the list is only marked for another read.
ResetKeeping == [view EXCEPT !.phase = "idle", !.reading = FALSE, !.busy = FALSE]
Reset == EmptyView

SignOut ==
    /\ SignedIn
    /\ account' = [account EXCEPT !.now = 0]
    /\ view' = Reset /\ reads' = Dropped
    /\ UNCHANGED <<store, atServer, answer, closed>>

SignIn ==
    /\ ~SignedIn /\ account.last < MaxSignIns
    /\ account' = [now |-> account.last + 1, last |-> account.last + 1]
    /\ view' = Reset /\ reads' = Dropped
    /\ UNCHANGED <<store, atServer, answer, closed>>

-----------------------------------------------------------------------------
(* Reading.                                                                 *)

\* Calls that may be told apart: a slot for each.
Begun(n, more, kept) ==
    kept \cup {[number |-> n, account |-> account.now, live |-> TRUE, more |-> more, before |-> view.items, page |-> NotServed]}

FreeNumbers == {n \in 1..MaxReads : \A r \in reads : r.number # n}

\* A list of one read at a time keeps its ticket; the others supersede the read before.
Read(more) ==
    /\ SignedIn
    /\ store \in OneAtATime => ~Reading
    /\ more => store \in OneAtATime /\ view.phase = "ready"
    /\ FreeNumbers # {}
    /\ reads' = Begun(CHOOSE n \in FreeNumbers : TRUE, more, IF store \in OneAtATime THEN reads ELSE Dropped)
    /\ view' = [view EXCEPT !.phase = IF @ = "ready" /\ store # "saved" THEN @ ELSE "loading",
                            !.items = IF store = "saved" THEN {} ELSE @,
                            !.reading = TRUE, !.busy = @ \/ store = "invitations"]
    /\ UNCHANGED <<store, account, atServer, answer, closed>>

\* The relay reads its tables for a call of the session that it was made under.
Serve ==
    \E r \in {x \in reads : x.live /\ ~x.page.served} :
       /\ \E page \in SUBSET atServer[r.account] :
             reads' = (reads \ {r}) \cup {[r EXCEPT !.page = [items |-> page, served |-> TRUE]]}
       /\ UNCHANGED <<store, account, atServer, view, answer, closed>>

\* The page replaces the list, or is merged with what was listed when it was asked for.
Page(r) == [view EXCEPT !.phase = "ready", !.reading = FALSE, !.busy = @ /\ store # "invitations",
                        !.items = IF r.more THEN r.before \cup r.page.items ELSE r.page.items]

\* A call ends: with its page, refused, or lost, which leaves the list as it was.
Return ==
    \E r \in reads :
       /\ reads' = reads \ {r}
       /\ view' \in IF ~r.live THEN {view}
                    ELSE {[view EXCEPT !.phase = IF @ = "ready" \/ r.before # {} THEN "ready" ELSE "error",
                                       !.items = IF store = "saved" THEN {} ELSE @,
                                       !.reading = FALSE, !.busy = @ /\ store # "invitations"]}
                         \cup (IF r.page.served THEN {Page(r)} ELSE {})
       /\ UNCHANGED <<store, account, atServer, answer, closed>>

-----------------------------------------------------------------------------
(* Answering a request: respond, or block, which removes an account.        *)

Respond(item) ==
    /\ SignedIn /\ store \in Answered /\ ~view.busy /\ answer = NoAnswer
    /\ item \in view.items
    /\ answer' = [of |-> item, under |-> account.last, done |-> FALSE]
    /\ view' = [view EXCEPT !.busy = TRUE]
    /\ UNCHANGED <<store, account, atServer, reads, closed>>

\* The relay commits the answer.
Commit ==
    /\ answer # NoAnswer /\ ~answer.done
    /\ atServer' = [atServer EXCEPT ![answer.of.account] = @ \ {answer.of}]
    /\ answer' = [answer EXCEPT !.done = TRUE]
    /\ UNCHANGED <<store, account, view, reads, closed>>

\* Mutant: the reads under way are left as they are.
DropReadsNever == reads
\* The reads of a friend list that were under way are dropped.
DropReads == IF store = "friends" THEN Dropped ELSE reads

\* The app learns that the answer was committed.
Committed ==
    /\ answer.done /\ account.now = answer.under
    /\ reads' = DropReads
    /\ view' = [view EXCEPT !.items = @ \ {answer.of}, !.busy = FALSE, !.reading = FALSE,
                            !.phase = IF @ = "loading" THEN "idle" ELSE @]
    /\ closed' = closed \cup {answer.of} /\ answer' = NoAnswer
    /\ UNCHANGED <<store, account, atServer>>

\* The answer of the relay is lost, or belongs to a session that is over.
Unconfirmed ==
    /\ answer # NoAnswer
    /\ answer' = NoAnswer
    /\ view' = IF account.now = answer.under THEN [view EXCEPT !.busy = FALSE] ELSE view
    /\ UNCHANGED <<store, account, atServer, reads, closed>>

-----------------------------------------------------------------------------
StoreInit(studied) ==
    /\ store \in studied
    /\ account = [now |-> 0, last |-> 0]
    /\ atServer = [a \in 1..MaxSignIns |-> ItemsOf(a)]
    /\ view = EmptyView /\ reads = {} /\ answer = NoAnswer /\ closed = {}

StoreNext ==
    \/ SignOut \/ SignIn \/ Serve \/ Return \/ Commit \/ Committed \/ Unconfirmed
    \/ \E more \in BOOLEAN : Read(more)
    \/ \E item \in Items : Respond(item)

StoreSpec == StoreInit(Stores) /\ [][StoreNext]_storeVars

-----------------------------------------------------------------------------
(* A list holds items, and its calls are of accounts that signed in.        *)
StoreTypeOK ==
    /\ store \in Stores /\ account.now \in {0, account.last} /\ account.last \in 0..MaxSignIns
    /\ view.items \subseteq Items /\ view.phase \in {"idle", "loading", "ready", "error"}
    /\ Cardinality(reads) <= MaxReads /\ \A r \in reads : r.account \in 1..MaxSignIns

(* A screen never shows what was listed for another account, although the    *)
(* calls of the session before are answered after the next sign-in.          *)
OwnItems == \A item \in view.items : item.account = account.now

(* A request that was answered here does not come back to its list with a    *)
(* page that was read before the answer.                                     *)
AnsweredStays == view.items \cap closed = {}
=============================================================================
