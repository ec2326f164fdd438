---------------------------- MODULE RecipientLog ----------------------------
(***************************************************************************)
(* What the relay promises to a recipient, without sequences, locks or     *)
(* pages: each account has a log that only grows at its end, a message     *)
(* enters the logs of all its recipients at once, and a reader consumes    *)
(* a prefix of its log that only gets longer.                              *)
(***************************************************************************)
EXTENDS Naturals, Sequences

CONSTANTS Messages, Accounts

VARIABLES
    log,    \* log[r]: messages published to r, oldest first
    read    \* read[r]: how many of them r has consumed

vars == <<log, read>>

Init ==
    /\ log = [r \in Accounts |-> <<>>]
    /\ read = [r \in Accounts |-> 0]

Published(m) == \E r \in Accounts : \E i \in 1..Len(log[r]) : log[r][i] = m

Publish(m, R) ==
    /\ ~Published(m)
    /\ log' = [r \in Accounts |->
                 IF r \in R THEN Append(log[r], m) ELSE log[r]]
    /\ UNCHANGED read

Consume(r, k) ==
    /\ read[r] < k
    /\ read' = [read EXCEPT ![r] = k]
    /\ UNCHANGED log

Next ==
    \/ \E m \in Messages, R \in SUBSET Accounts : Publish(m, R)
    \/ \E r \in Accounts : \E k \in 1..Len(log[r]) : Consume(r, k)

Spec == Init /\ [][Next]_vars
=============================================================================
