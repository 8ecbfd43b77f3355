----------------------------- MODULE StockBook -----------------------------
(***************************************************************************)
(* What the stocks and purchase orders of a store promise to their         *)
(* clients: a request is carried out in one step, on the balances, items   *)
(* and order of that moment, before it is answered as done, or it is       *)
(* refused and leaves no trace.                                            *)
(***************************************************************************)
EXTENDS Integers, Sequences

CONSTANTS Txns, Products, Items, OrderOf, ProductOf, Requested, ReorderPoint,
          Requests, NONE

VARIABLES
    quantity, ledger, received, status, outbox,   \* the tables
    asked,    \* the request of a client, NONE before
    answer,   \* "none" until it is "done" or "refused"
    overtaken \* the counts that were right for a while and went wrong as they waited

tables == <<quantity, ledger, received, status, outbox>>

Init ==
    /\ \A p \in Products :
          IF ledger[p] = <<>> THEN quantity[p] \in {NONE, 0}
          ELSE quantity[p] = ledger[p][Len(ledger[p])].after
    /\ \A i \in Items : received[i] <= Requested[i]
    /\ outbox = {}
    /\ asked = [t \in Txns |-> NONE]
    /\ answer = [t \in Txns |-> "none"]
    /\ overtaken = {}

Entry(t, type, direction, amount, before, after) ==
    [type |-> type, direction |-> direction, quantity |-> amount,
     before |-> before, after |-> after, by |-> t]

\* A missing row counts as an empty one.
OnHand(p) == IF quantity[p] = NONE THEN 0 ELSE quantity[p]

\* The one entry of an initial stock, in the direction the client names.
InitialEntry(t, r) == Entry(t, "ADJUSTMENT", r.direction, r.quantity, 0, r.quantity)

CreateStock(t) == LET r == asked[t] IN
    /\ quantity[r.product] = NONE /\ r.quantity > 0
    /\ quantity' = [quantity EXCEPT ![r.product] = r.quantity]
    /\ ledger' = [ledger EXCEPT ![r.product] = Append(@, InitialEntry(t, r))]
    /\ UNCHANGED <<received, status, outbox>>

\* What a count posts: the difference to what was on hand, if there is one.
CountEntries(t, r) == LET before == OnHand(r.product) IN
    IF r.quantity > before
    THEN << Entry(t, "ADJUSTMENT", "IN", r.quantity - before, before, r.quantity) >>
    ELSE IF r.quantity < before
    THEN << Entry(t, "ADJUSTMENT", "OUT", before - r.quantity, before, r.quantity) >>
    ELSE <<>>

Announced(t, r) ==
    IF OnHand(r.product) > ReorderPoint[r.product] /\ ReorderPoint[r.product] >= r.quantity
    THEN {[product |-> r.product, quantity |-> r.quantity, by |-> t]} ELSE {}

\* An overtaken count posts its entry and leaves the balance as it is.
Count(t) == LET r == asked[t] IN
    /\ quantity' = [quantity EXCEPT ![r.product] =
                        IF t \in overtaken THEN @ ELSE r.quantity]
    /\ ledger' = [ledger EXCEPT ![r.product] = @ \o CountEntries(t, r)]
    /\ outbox' = outbox \cup Announced(t, r)
    /\ UNCHANGED <<received, status>>

\* The entries are the first n lines of product p, in their order.
ListsLines(entries, lines, n, p) ==
    \E at \in [1..Len(entries) -> {j \in 1..n : ProductOf[lines[j].item] = p}] :
        /\ \A j \in 1..n : ProductOf[lines[j].item] = p =>
                \E k \in 1..Len(entries) : at[k] = j
        /\ \A k, l \in 1..Len(entries) : k < l => at[k] < at[l]
        /\ \A k \in 1..Len(entries) : entries[k].quantity = lines[at[k]].quantity

\* They are receipts, each of which starts where the one before it ended.
ReceiptsFrom(t, entries, start) ==
    \A k \in 1..Len(entries) :
        LET before == IF k = 1 THEN start ELSE entries[k - 1].after
            amount == entries[k].quantity
        IN entries[k] = Entry(t, "RECEIPT", "IN", amount, before, before + amount)

\* The lines name different items of the order and what is still open of them.
Receivable(r) ==
    /\ status[r.order] \notin {"RECEIVED", "CANCELLED", "DRAFT"}
    /\ \A j \in 1..Len(r.lines) : LET i == r.lines[j].item IN
          /\ OrderOf[i] = r.order
          /\ received[i] + r.lines[j].quantity <= Requested[i]
          /\ \A k \in 1..Len(r.lines) : r.lines[k].item = i => k = j

\* What a request has added to the ledger of p.
Added(p) == SubSeq(ledger'[p], Len(ledger[p]) + 1, Len(ledger'[p]))

Deliver(t) == LET r == asked[t] IN
    /\ Receivable(r)
    /\ \A p \in Products :
          /\ ledger'[p] = ledger[p] \o Added(p)
          /\ ListsLines(Added(p), r.lines, Len(r.lines), p)
          /\ ReceiptsFrom(t, Added(p), OnHand(p))
          /\ quantity'[p] = IF Added(p) = <<>> THEN quantity[p]
                            ELSE Added(p)[Len(Added(p))].after
    /\ \A j \in 1..Len(r.lines) : LET i == r.lines[j].item IN
          received'[i] = received[i] + r.lines[j].quantity
    /\ \A i \in Items : (\A j \in 1..Len(r.lines) : r.lines[j].item # i) =>
          received'[i] = received[i]
    /\ status' = [status EXCEPT ![r.order] =
          IF \A i \in Items : OrderOf[i] = r.order => received'[i] >= Requested[i]
          THEN "RECEIVED" ELSE @]
    /\ UNCHANGED outbox

Ask(t) ==
    /\ asked[t] = NONE /\ answer[t] = "none"
    /\ \E r \in Requests : asked' = [asked EXCEPT ![t] = r]
    /\ UNCHANGED <<tables, answer, overtaken>>

Waits(t) == asked[t] \in Requests /\ answer[t] = "none"

Refuse(t) ==
    /\ Waits(t)
    /\ answer' = [answer EXCEPT ![t] = "refused"]
    /\ UNCHANGED <<tables, asked, overtaken>>

\* The balances that waiting counts ask for, and that a step takes from them.
TakenFrom == {u \in Txns : /\ Waits(u) /\ asked[u].op = "count"
                           /\ quantity[asked[u].product] = asked[u].quantity
                           /\ quantity'[asked[u].product] # asked[u].quantity}

Do(t) ==
    /\ Waits(t)
    /\ \/ asked[t].op = "create" /\ CreateStock(t)
       \/ asked[t].op = "count" /\ Count(t)
       \/ asked[t].op = "receive" /\ Deliver(t)
    /\ answer' = [answer EXCEPT ![t] = "done"]
    /\ \E late \in SUBSET TakenFrom : overtaken' = overtaken \cup late
    /\ UNCHANGED asked

Next == \E t \in Txns : Ask(t) \/ Refuse(t) \/ Do(t)

Spec == Init /\ [][Next]_<<tables, asked, answer, overtaken>>

=============================================================================
