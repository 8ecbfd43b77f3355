------------------------------ MODULE MCOutbox ------------------------------
(***************************************************************************)
(* Small instances of Outbox: two events, two users, one or two   *)
(* instances of the application.                                           *)
(***************************************************************************)
EXTENDS Outbox, TLC

CONSTANTS e1, e2, u1, u2, n1, n2, c1, c2

\* Both events are of the same second, so that either may be polled first.
MCCreated == [e \in Events |-> 1]

\* e1 concerns both users, e2 one of them.
MCRecipients == [e \in Events |-> IF e = e1 THEN {u1, u2} ELSE {u1}]

\* e1 is the older event.
MCCreatedInOrder == [e \in Events |-> IF e = e1 THEN 1 ELSE 2]

OneInstance == c1 :> n1 @@ c2 :> n1
TwoInstances == c1 :> n1 @@ c2 :> n2

AllFaults == {"find", "claim", "handler", "publish", "failure", "crash"}

\* The faults after which an event is taken up again.
PassingFaults == {"find", "claim", "handler", "publish"}

=============================================================================
