------------------------------ MODULE Election ------------------------------
(***************************************************************************)
(* What networkd promises about its primary interface, whatever fails: as  *)
(* long as there is an interface one of them is the primary; once the      *)
(* network is initialized, interfaces come and go one at a time, one that  *)
(* appears never displaces the primary, and when the primary disappears    *)
(* another one takes its place in the same step.  Network implements this  *)
(* specification (Network!ImplementsElection).                             *)
(***************************************************************************)
CONSTANTS Member, Nobody

VARIABLES members, leader, settled

Init == members = {} /\ leader = Nobody /\ settled = FALSE

\* A discovery at boot starts over with the interfaces it finds.
Form(S) ==
    /\ ~settled /\ UNCHANGED settled
    /\ members' = S
    /\ IF S = {} THEN leader' = Nobody ELSE leader' \in S

\* The network has been initialized.
Settle ==
    /\ ~settled /\ settled' = TRUE
    /\ leader \in members
    /\ UNCHANGED <<members, leader>>

Join(i) ==
    /\ i \notin members
    /\ members' = members \cup {i}
    /\ leader' = IF members = {} THEN i ELSE leader
    /\ UNCHANGED settled

Leave(i) ==
    /\ i \in members
    /\ members' = members \ {i}
    /\ IF i # leader THEN leader' = leader
       ELSE IF members = {i} THEN leader' = Nobody
       ELSE leader' \in members \ {i}
    /\ UNCHANGED settled

\* Failover, or a backup that recovers.
Switch ==
    /\ leader \in members
    /\ leader' \in members \ {leader}
    /\ UNCHANGED <<members, settled>>

Next == \/ \E S \in SUBSET Member : Form(S)
        \/ Settle
        \/ \E i \in Member : Join(i) \/ Leave(i)
        \/ Switch

Spec == Init /\ [][Next]_<<members, leader, settled>>
=============================================================================
