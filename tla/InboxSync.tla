------------------------------ MODULE InboxSync ------------------------------
(***************************************************************************)
(* The phone's inbox.  The inbox worker fetches the deliveries that follow   *)
(* its cursor, the pager of an open conversation those that precede its own; *)
(* each delivery is checked, decrypted and committed under the keys pinned   *)
(* for its sender.  Meanwhile the owner writes, which pins the keys the      *)
(* server names and opens sessions, and reviews keys that changed.           *)
(***************************************************************************)
EXTENDS Naturals, Sequences, FiniteSets

CONSTANTS Peers,
          PageSize,     \* deliveries of a page
          MaxMessages, MaxPhones, MaxFails,
          MaxSeen       \* keys of a peer after which it stays locked

VARIABLES relay,        \* deliveries to this phone: [from, keys, chain, opens]
          phones,       \* the number of each peer's phone, which names its keys
          theirs,       \* the session each peer writes in
          pins,         \* the keys pinned for each peer, 0 for none
          sessions,     \* the session with each peer
          spent,        \* phones of peers whose opening message was decrypted
          sent,         \* the session the owner last wrote in
          received, acked, cursor,
          work,         \* the page each worker is at
          pages,        \* how far the pager of each conversation has come
          review,       \* what the security panel shows and does
          fails

peerVars == <<relay, phones, theirs>>
trustVars == <<pins, sessions, spent, sent>>
boxVars == <<received, acked, cursor, work, pages>>
inboxVars == <<peerVars, trustVars, boxVars, review, fails>>

Workers == {"inbox", "pager"}
NoPin == [current |-> 0, pending |-> 0, seen |-> 0, locked |-> FALSE]
NoSession == [keys |-> 0, chain |-> "none"]
NoWork == [at |-> "idle", todo |-> <<>>, page |-> <<>>, of |-> 0]
NoReview == [of |-> 0, pending |-> 0, job |-> "none"]

-----------------------------------------------------------------------------
(* Pins and sessions of the native store.                                   *)

\* Mutant: new keys are current at once.
ObservedTrusting(pin, k) ==
    IF pin.current = k THEN pin ELSE [pin EXCEPT !.current = k, !.seen = @ + 1]
\* New keys wait for the owner; too many of them lock the peer.
Observed(pin, k) ==
    IF pin.current = 0 THEN [NoPin EXCEPT !.current = k, !.seen = 1]
    ELSE IF pin.locked \/ k \in {pin.current, pin.pending} THEN pin
    ELSE IF pin.seen >= MaxSeen THEN [pin EXCEPT !.locked = TRUE]
    ELSE [pin EXCEPT !.pending = k, !.seen = @ + 1]
Usable(pin) == pin.current # 0 /\ pin.pending = 0 /\ ~pin.locked

Session(d) == [keys |-> d.keys, chain |-> d.chain]
\* With a session only its own messages are read; without one, a message that
\* opens one, by a key of ours that is used up.
Decrypts(d) ==
    /\ Usable(pins[d.from]) /\ pins[d.from].current = d.keys
    /\ \/ sessions[d.from] = Session(d)
       \/ /\ sessions[d.from] = NoSession
          /\ d.opens /\ <<d.from, d.keys>> \notin spent

-----------------------------------------------------------------------------
(* The peers.                                                               *)

PeerSends(p) ==
    /\ Len(relay) < MaxMessages
    /\ LET own == theirs[p] \in {"none", "opening"} IN
       /\ relay' = Append(relay, [from |-> p, keys |-> phones[p], opens |-> own,
                                  chain |-> IF theirs[p] = "me" THEN "me" ELSE "peer"])
       /\ theirs' = [theirs EXCEPT ![p] = IF own THEN "opening" ELSE @]
    /\ UNCHANGED <<phones, trustVars, boxVars, review, fails>>

\* The peer reads what the owner wrote, if it can.
PeerReads(p) ==
    /\ sent[p].keys = phones[p]
    /\ \/ theirs[p] = "none" /\ sent[p].chain = "me" /\ theirs' = [theirs EXCEPT ![p] = "me"]
       \/ theirs[p] = "opening" /\ sent[p].chain = "peer" /\ theirs' = [theirs EXCEPT ![p] = "peer"]
    /\ UNCHANGED <<relay, phones, trustVars, boxVars, review, fails>>

\* The peer signs in on another phone.
PeerMoves(p) ==
    /\ phones[p] < MaxPhones
    /\ phones' = [phones EXCEPT ![p] = @ + 1]
    /\ theirs' = [theirs EXCEPT ![p] = "none"]
    /\ UNCHANGED <<relay, trustVars, boxVars, review, fails>>

-----------------------------------------------------------------------------
(* The owner writes: the keys of the context are observed, a session opened. *)

WriteTo(p) ==
    /\ pins' = [pins EXCEPT ![p] = Observed(@, phones[p])]
    /\ IF Usable(pins'[p])
       THEN /\ sessions' = [sessions EXCEPT ![p] = IF @ = NoSession
                                                   THEN [keys |-> pins'[p].current, chain |-> "me"] ELSE @]
            /\ sent' = [sent EXCEPT ![p] = sessions'[p]]
       ELSE UNCHANGED <<sessions, sent>>
    /\ UNCHANGED <<peerVars, spent, boxVars, review, fails>>

-----------------------------------------------------------------------------
(* The workers.  Both take the deliveries of their page one after another.  *)

Task(w) == work[w]
Now(w) == Head(Task(w).todo)
Goes(w, at) == work' = [work EXCEPT ![w].at = at]
Stops(w) == work' = [work EXCEPT ![w] = NoWork]
Next1(rest) == IF rest = <<>> THEN "done" ELSE "check"
Taken(w) == work' = [work EXCEPT ![w].todo = Tail(@), ![w].at = Next1(Tail(Task(w).todo))]

\* What the server answers: the next deliveries in order, or the last ones before.
After(n) ==
    LET left == Len(relay) - n IN
    [k \in 1..(IF left < PageSize THEN left ELSE PageSize) |-> n + k]
Of(p, before) == {k \in DOMAIN relay : relay[k].from = p /\ k < before}
Newest(S) == CHOOSE k \in S : \A j \in S : j <= k
PageOf(p, before) ==
    LET first == Newest(Of(p, before)) IN
    IF Of(p, before) = {} THEN <<>>
    ELSE IF PageSize = 1 \/ Of(p, first) = {} THEN <<first>>
    ELSE <<first, Newest(Of(p, first))>>

FetchInbox ==
    /\ Task("inbox").at = "idle" /\ After(cursor) # <<>>
    /\ work' = [work EXCEPT !["inbox"] = [at |-> "check", todo |-> After(cursor), page |-> After(cursor), of |-> 0]]
    /\ UNCHANGED <<peerVars, trustVars, received, acked, cursor, pages, review, fails>>

\* A conversation is opened, or scrolled to its top.
LoadHistory(p) ==
    /\ Task("pager").at = "idle" /\ pages[p].more
    /\ LET page == PageOf(p, pages[p].before) IN
       work' = [work EXCEPT !["pager"] = [at |-> Next1(page), todo |-> page, page |-> page, of |-> p]]
    /\ UNCHANGED <<peerVars, trustVars, received, acked, cursor, pages, review, fails>>

\* Mutant: whether the delivery was received before is not asked.
CheckBlindly(w) == Goes(w, "observe")
Check(w) == IF Now(w) \notin received THEN Goes(w, "observe")
            ELSE IF w = "inbox" THEN Goes(w, "ack") ELSE Taken(w)
CheckCommitted(w) ==
    /\ Task(w).at = "check" /\ Check(w)
    /\ UNCHANGED <<peerVars, trustVars, received, acked, cursor, pages, review, fails>>

ObserveSender(w) ==
    /\ Task(w).at = "observe"
    /\ pins' = [pins EXCEPT ![relay[Now(w)].from] = Observed(@, relay[Now(w)].keys)]
    /\ Goes(w, "open")
    /\ UNCHANGED <<peerVars, sessions, spent, sent, received, acked, cursor, pages, review, fails>>

\* Mutant: a delivery that is refused is passed over.
RefusedSkips(w) == Taken(w)
\* A delivery that is refused ends the page where it is.
Refused(w) == Stops(w)
Receive(w) ==
    /\ Task(w).at = "open"
    /\ LET n == Now(w)
           d == relay[n] IN
       IF Decrypts(d) /\ n \notin received
       THEN /\ received' = received \cup {n}
            /\ sessions' = [sessions EXCEPT ![d.from] = Session(d)]
            /\ spent' = IF sessions[d.from] = NoSession THEN spent \cup {<<d.from, d.keys>>} ELSE spent
            /\ IF w = "inbox" THEN Goes(w, "ack") ELSE Taken(w)
       ELSE Refused(w) /\ UNCHANGED <<received, sessions, spent>>
    /\ UNCHANGED <<peerVars, pins, sent, acked, cursor, pages, review, fails>>

Acknowledge ==
    /\ Task("inbox").at = "ack"
    /\ acked' = acked \cup {Now("inbox")} /\ Taken("inbox")
    /\ UNCHANGED <<peerVars, trustVars, received, cursor, pages, review, fails>>

\* The page has been taken whole: its cursor is the one to go on from.
Advance ==
    /\ Task("inbox").at = "done"
    /\ cursor' = Task("inbox").page[Len(Task("inbox").page)]
    /\ Stops("inbox")
    /\ UNCHANGED <<peerVars, trustVars, received, acked, pages, review, fails>>

HistoryLoaded ==
    /\ Task("pager").at = "done"
    /\ LET p == Task("pager").of
           page == Task("pager").page
           last == page[Len(page)] IN
       pages' = [pages EXCEPT ![p] =
                   [before |-> IF page = <<>> THEN @.before ELSE last,
                    top |-> IF @.top = 0 /\ page # <<>> THEN page[1] ELSE @.top,
                    more |-> page # <<>> /\ Of(p, last) # {}]]
    /\ Stops("pager")
    /\ UNCHANGED <<peerVars, trustVars, received, acked, cursor, review, fails>>

\* A request of the worker fails, before or after it took effect.
Fail(w) ==
    /\ Task(w).at # "idle" /\ fails < MaxFails /\ fails' = fails + 1
    /\ acked' = IF Task(w).at = "ack" THEN acked \cup {Now(w)} ELSE acked
    /\ Stops(w)
    /\ UNCHANGED <<peerVars, trustVars, received, cursor, pages, review>>

\* The conversation is left; opened again, it has a pager of its own.
Leave(p) ==
    /\ Task("pager").at = "idle" /\ pages[p].top # 0
    /\ pages' = [pages EXCEPT ![p] = [before |-> MaxMessages + 1, top |-> 0, more |-> TRUE]]
    /\ UNCHANGED <<peerVars, trustVars, received, acked, cursor, work, review, fails>>

-----------------------------------------------------------------------------
(* The security panel.                                                      *)

\* What the panel shows after the server was asked for the peer's keys.
Refresh(p) ==
    /\ review.job = "none"
    /\ pins' = [pins EXCEPT ![p] = Observed(@, phones[p])]
    /\ review' = [of |-> p, pending |-> pins'[p].pending, job |-> "none"]
    /\ UNCHANGED <<peerVars, sessions, spent, sent, boxVars, fails>>

Shows == pins[review.of]
\* The owner accepts the new keys on the screen, or says that the keys there were compared.
TapAccept ==
    /\ review.job = "none" /\ review.pending # 0
    /\ review' = [review EXCEPT !.job = "accept"]
    /\ UNCHANGED <<peerVars, trustVars, boxVars, fails>>

\* The keys are asked for once more; they must still be those on the screen.
ReviewAgain ==
    /\ review.job = "accept"
    /\ LET p == review.of
           pin == Observed(pins[p], phones[p]) IN
       /\ pins' = [pins EXCEPT ![p] = pin]
       /\ review' = IF ~pin.locked /\ pin.pending = review.pending THEN [review EXCEPT !.job = "accepting"]
                    ELSE [of |-> p, pending |-> pin.pending, job |-> "none"]
    /\ UNCHANGED <<peerVars, sessions, spent, sent, boxVars, fails>>

Accepted(pin) == [pin EXCEPT !.current = pin.pending, !.pending = 0]
\* The session with the old keys is dropped with them.
AcceptKeys ==
    /\ review.job = "accepting"
    /\ LET p == review.of
           agrees == ~Shows.locked /\ Shows.pending = review.pending IN
       /\ pins' = IF agrees THEN [pins EXCEPT ![p] = Accepted(@)] ELSE pins
       /\ sessions' = IF agrees THEN [sessions EXCEPT ![p] = NoSession] ELSE sessions
    /\ review' = [review EXCEPT !.pending = pins'[review.of].pending, !.job = "none"]
    /\ UNCHANGED <<peerVars, spent, sent, boxVars, fails>>

-----------------------------------------------------------------------------
InboxInit ==
    /\ relay = <<>> /\ phones = [p \in Peers |-> 1] /\ theirs = [p \in Peers |-> "none"]
    /\ pins = [p \in Peers |-> NoPin] /\ sessions = [p \in Peers |-> NoSession]
    /\ spent = {} /\ sent = [p \in Peers |-> NoSession]
    /\ received = {} /\ acked = {} /\ cursor = 0
    /\ work = [w \in Workers |-> NoWork]
    /\ pages = [p \in Peers |-> [before |-> MaxMessages + 1, top |-> 0, more |-> TRUE]]
    /\ review = NoReview
    /\ fails = 0

WorkStep(w) == CheckCommitted(w) \/ ObserveSender(w) \/ Receive(w)
InboxStep == FetchInbox \/ WorkStep("inbox") \/ Acknowledge \/ Advance
PagerStep == WorkStep("pager") \/ HistoryLoaded
ReviewStep == TapAccept \/ ReviewAgain \/ AcceptKeys

InboxNext ==
    \/ \E p \in Peers : \/ PeerSends(p) \/ PeerReads(p) \/ PeerMoves(p) \/ WriteTo(p)
                        \/ LoadHistory(p) \/ Leave(p) \/ Refresh(p)
    \/ InboxStep \/ PagerStep \/ ReviewStep
    \/ \E w \in Workers : Fail(w)

\* The app stays in front; the owner looks at the keys and accepts new ones.
InboxFairness ==
    /\ WF_inboxVars(InboxStep) /\ WF_inboxVars(PagerStep)
    /\ SF_inboxVars(ReviewStep) /\ \A p \in Peers : SF_inboxVars(Refresh(p))

InboxSpec == InboxInit /\ [][InboxNext]_inboxVars
InboxFairSpec == InboxSpec /\ InboxFairness
-----------------------------------------------------------------------------
InboxTypeOK ==
    /\ received \cup acked \subseteq DOMAIN relay /\ cursor \in 0..Len(relay)
    /\ \A w \in Workers : \A k \in DOMAIN work[w].todo : work[w].todo[k] \in DOMAIN relay
    /\ \A p \in Peers : pins[p].current \in 0..phones[p] /\ pins[p].pending \in 0..phones[p]

(* Whatever fails or overlaps, the cursor never passes a delivery that is   *)
(* not in the history, only such deliveries are acknowledged, and a         *)
(* conversation that says it has no more has all from its newest one down.  *)
NothingSkipped ==
    /\ \A n \in DOMAIN relay : (n <= cursor \/ n \in acked) => n \in received
    /\ \A p \in Peers : ~pages[p].more /\ work["pager"].of # p =>
          \A n \in Of(p, pages[p].top + 1) : n \in received

(* Whatever the server and the inbox say of a peer's keys while the owner   *)
(* looks at them, new keys are relied on only when they are those that the  *)
(* owner has just accepted on the screen.                                   *)
TrustIsReviewed == [][\A p \in Peers : pins[p].current \notin {0, pins'[p].current} =>
                          /\ review.of = p /\ review.job # "none"
                          /\ pins'[p].current = review.pending]_inboxVars

Unreadable == \E n \in DOMAIN relay \ received : ~Decrypts(relay[n])

(* Every delivery is received and acknowledged in the end if none stays      *)
(* unreadable: retries, lost answers, changed keys and the pager of the      *)
(* conversation never leave the inbox stuck.                                *)
InboxCatchesUp == []<>~Unreadable =>
    \A n \in 1..MaxMessages : n \in DOMAIN relay ~> n \in acked

(* Every message sent to the phone reaches it.                              *)
InboxDelivers == \A n \in 1..MaxMessages : n \in DOMAIN relay ~> n \in received
=============================================================================
