-------------------------- MODULE ExclusiveSession --------------------------
(***************************************************************************)
(* What the identity service promises of an account: every login makes a   *)
(* new generation, the newest generation is the only one that may hold the *)
(* account, and work is done in the name of the holder at that instant.    *)
(***************************************************************************)
EXTENDS Naturals

CONSTANT Accounts

VARIABLES
    top,     \* top[p]: the newest generation
    holder,  \* holder[p]: the generation that holds p, 0 when none does
    actor    \* actor[p]: the generation p's last work was done for

vars == <<top, holder, actor>>

Init ==
    /\ top = [p \in Accounts |-> 0]
    /\ holder = [p \in Accounts |-> 0]
    /\ actor = [p \in Accounts |-> 0]

Login(p) ==
    /\ top' = [top EXCEPT ![p] = @ + 1]
    /\ holder' = [holder EXCEPT ![p] = top[p] + 1]
    /\ UNCHANGED actor

Revoke(p) ==
    /\ holder' = [holder EXCEPT ![p] = 0]
    /\ UNCHANGED <<top, actor>>

Act(p) ==
    /\ holder[p] # 0
    /\ actor' = [actor EXCEPT ![p] = holder[p]]
    /\ UNCHANGED <<top, holder>>

Next == \E p \in Accounts : Login(p) \/ Revoke(p) \/ Act(p)

Spec == Init /\ [][Next]_vars
=============================================================================
