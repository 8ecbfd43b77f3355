--------------------------- MODULE Announcements ---------------------------
(***************************************************************************)
(* What the outbox promises of low-stock events: a recorded event is       *)
(* announced to all of its recipients in one step, nobody is told of an    *)
(* event that was not recorded, and no announcement is ever taken back.    *)
(***************************************************************************)
CONSTANTS
    Events,      \* the rows outbox_events can hold
    Users,       \* the users of the business
    Recipients   \* [Events -> SUBSET Users] whom an event concerns

VARIABLES
    recorded,    \* the events that have been recorded
    announced    \* the pairs of an event and a user it has been announced to

Init ==
    /\ recorded = {}
    /\ announced = {}

Record(e) ==
    /\ e \notin recorded
    /\ recorded' = recorded \cup {e}
    /\ UNCHANGED announced

Announce(e) ==
    /\ e \in recorded
    /\ announced' = announced \cup {<<e, u>> : u \in Recipients[e]}
    /\ UNCHANGED recorded

Next == \E e \in Events : Record(e) \/ Announce(e)

Spec == Init /\ [][Next]_<<recorded, announced>>

=============================================================================
