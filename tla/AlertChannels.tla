--------------------------- MODULE AlertChannels ---------------------------
(***************************************************************************)
(* What an operator may rely on, without any of the machinery: the channels *)
(* tenderduty notifies, and which alerts stand on each of them.             *)
(***************************************************************************)
EXTENDS Naturals

CONSTANTS
    Channels,    \* destinations; "pd" is the one that pages
    Ids,         \* what can be alerted
    Remindable,  \* IDs that may be announced again while they stand
    NeverPaged,  \* IDs that must not page
    Gap          \* least time between two pages about one ID

VARIABLES
    now,
    standing,    \* the alerts that stand on a channel
    paged        \* when an ID last paged, 0 if it never did

MayPage(u) ==
    /\ u \notin NeverPaged
    /\ u \in Remindable \/ paged[u] = 0 \/ paged[u] + Gap <= now

\* An alert is announced on some of the channels at once.
Alert(u, D) ==
    /\ \A d \in D : u \in standing[d] => u \in Remindable
    /\ "pd" \in D => MayPage(u)
    /\ standing' = [d \in Channels |-> standing[d] \cup {v \in {u} : d \in D}]
    /\ paged' = IF "pd" \in D THEN [paged EXCEPT ![u] = now] ELSE paged
    /\ UNCHANGED now

\* Its end is announced where it stands.
Resolve(u, D) ==
    /\ \A d \in D : u \in standing[d]
    /\ standing' = [d \in Channels |-> standing[d] \ {v \in {u} : d \in D}]
    /\ UNCHANGED <<now, paged>>

Tick == now' = now + 1 /\ UNCHANGED <<standing, paged>>

Init ==
    /\ now = 1
    /\ standing = [d \in Channels |-> {}]
    /\ paged = [u \in Ids |-> 0]

Next ==
    \/ \E u \in Ids, D \in SUBSET Channels : Alert(u, D) \/ Resolve(u, D)
    \/ Tick

Spec == Init /\ [][Next]_<<now, standing, paged>>
=============================================================================
