---------------------------- MODULE MCInventory ----------------------------
(***************************************************************************)
(* Small instances of Inventory: one store, up to three products and       *)
(* orders.                                                                 *)
(***************************************************************************)
EXTENDS Inventory, TLC

CONSTANTS t1, t2, t3, p1, p2, p3, o1, o2, o3, i1, i2, i3, i4

MCProducts == {p1, p2}
MCOrders == {o1, o2, o3}
MCItems == {i1, i2, i3, i4}

\* o1 has an item for each product, o2 as well; nothing is ordered on o3.
MCOrderOf   == i1 :> o1 @@ i2 :> o1 @@ i3 :> o2 @@ i4 :> o2
MCProductOf == i1 :> p1 @@ i2 :> p2 @@ i3 :> p1 @@ i4 :> p2
MCRequested == i1 :> 2 @@ i2 :> 3 @@ i3 :> 1 @@ i4 :> 1
MCSeedStatus == o1 :> "APPROVED" @@ o2 :> "SENT_TO_SUPPLIER" @@ o3 :> "DRAFT"

\* p1 starts above its reorder level, p2 has no stock row.
MCOpening == p1 :> 3 @@ p2 :> NONE
MCReorderPoint == p1 :> 1 @@ p2 :> 1

Line(i, n) == [item |-> i, quantity |-> n]
Delivery(o, lines) == [op |-> "receive", order |-> o, lines |-> lines]
Count(p, n) == [op |-> "count", product |-> p, quantity |-> n]
Create(p, n, d) == [op |-> "create", product |-> p, quantity |-> n,
                    direction |-> d]
Edit(o) == [op |-> "edit", order |-> o]

\* Deliveries in full and in part, with the products in either order.
Deliveries == {
    Delivery(o1, <<Line(i1, 1), Line(i2, 2)>>),
    Delivery(o1, <<Line(i2, 1)>>),
    Delivery(o2, <<Line(i4, 1), Line(i3, 1)>>)}

\* An item twice, an item of another order, more than was requested, an order
\* that is still a draft.
BadDeliveries == {
    Delivery(o1, <<Line(i2, 1), Line(i2, 1)>>),
    Delivery(o1, <<Line(i2, 1), Line(i3, 1)>>),
    Delivery(o1, <<Line(i2, 1), Line(i1, 2)>>),
    Delivery(o3, <<Line(i1, 1)>>)}

\* Counts to zero, to the reorder level, to the opening balance, above it.
Counts == {Count(p1, 0), Count(p1, 1), Count(p1, 3),
           Count(p1, 4), Count(p2, 0), Count(p2, 2)}

Creates == {Create(p2, 2, "IN"), Create(p2, 0, "IN"), Create(p1, 1, "IN")}

Edits == {Edit(o1), Edit(o3)}

AllRequests == Deliveries \cup BadDeliveries \cup Counts \cup Creates \cup Edits

\* p3 starts like p1 and is on no order.
MCSeparateProducts == {p1, p2, p3}
MCSeparateOpening == p1 :> 3 @@ p2 :> NONE @@ p3 :> 3
MCSeparateReorderPoint == p1 :> 1 @@ p2 :> 1 @@ p3 :> 1

\* p3 is counted, p1 and p2 are delivered on o1 alone, p2 is created as well: no
\* row is read without a lock by one request and overwritten by another.  The
\* deliveries complete o1 in two or three pieces.
SeparateRequests ==
    {Delivery(o1, <<Line(i1, 1), Line(i2, 2)>>), Delivery(o1, <<Line(i2, 1)>>),
     Delivery(o1, <<Line(i2, 2)>>), Delivery(o1, <<Line(i2, 1), Line(i2, 1)>>)}
    \cup {Count(p3, n) : n \in {0, 1, 3, 4}}
    \cup {Create(p2, 2, "IN"), Create(p1, 1, "IN")}

\* What the theorems about separate deliveries assume of the requests.
ASSUME SeparateRequestsAssumption ==
    /\ Separated(SeparateRequests)
    /\ InitialStocksAdd(SeparateRequests)
    /\ NoEdits(SeparateRequests)

\* Two deliveries that lock the products in opposite order, and counts.
CrossingRequests == {
    Delivery(o1, <<Line(i1, 1), Line(i2, 2)>>),
    Delivery(o2, <<Line(i4, 1), Line(i3, 1)>>),
    Count(p1, 0), Edit(o1)}

\* A delivery, a count of the same product.
LostDeliveryRequests == {Delivery(o1, <<Line(i1, 1)>>), Count(p1, 0)}

\* A delivery that completes o2, an edit of its header.
LateEditRequests == {Delivery(o2, <<Line(i3, 1), Line(i4, 1)>>), Edit(o2)}

\* The requests differ in nothing but their names.
Symmetry == Permutations(Txns)

=============================================================================
