----------------------------- MODULE Inventory -----------------------------
(***************************************************************************)
(* Stock balances, the stock movement ledger, the receiving of purchase    *)
(* orders and the low-stock rows of the outbox: what StocksService.create, *)
(* StocksService.update (the manual physical count),                       *)
(* PurchaseOrdersService.receive and PurchaseOrdersService.update do to    *)
(* the database when their requests interleave.                            *)
(*                                                                         *)
(* Every request runs in a database transaction on a connection of its     *)
(* own.  A step of the model is a stretch of a handler between two points  *)
(* where another request can come in: a read of shared rows, the wait for  *)
(* a row lock, the commit.  The rows a transaction has written are in its  *)
(* session until Commit; plain reads see the snapshot of the first plain   *)
(* read, locking reads and writes see the committed rows (InnoDB under     *)
(* REPEATABLE READ).  The model is of one store: the stock rows of another *)
(* store are other products.                                               *)
(***************************************************************************)
EXTENDS Integers, Sequences, SequencesExt

CONSTANTS
    Txns,           \* the requests of a run; each runs once
    Products,       \* the products that can have a stock row in the store
    Orders,         \* the purchase orders of the store
    Items,          \* their items
    OrderOf,        \* [Items -> Orders]    purchase_order_id
    ProductOf,      \* [Items -> Products]  product_id
    Requested,      \* [Items -> Nat]       quantity_requested
    SeedStatus,     \* [Orders -> Statuses] the status an order is seeded with
    Opening,        \* [Products -> Nat \cup {NONE}] the seeded stock rows
    ReorderPoint,   \* [Products -> Nat]    product.default_reorder_point ?? 5
    Requests,       \* the requests clients may send
    NONE            \* no row, no value, nobody

Statuses == {"DRAFT", "PENDING", "APPROVED", "RECEIVED", "CANCELLED",
             "PENDING_APPROVAL", "SENT_TO_SUPPLIER"}

Directions == {"IN", "OUT"}

\* One line of a ReceivePurchaseOrderDto: any item may be named, of any order.
Lines == [item: Items, quantity: Nat \ {0}]

CreateRequests  == [op: {"create"}, product: Products, quantity: Nat,
                    direction: Directions]
CountRequests   == [op: {"count"}, product: Products, quantity: Nat]
ReceiveRequests == [op: {"receive"}, order: Orders, lines: Seq(Lines) \ {<<>>}]
EditRequests    == [op: {"edit"}, order: Orders]

ASSUME ConstantsAssumption ==
    /\ OrderOf \in [Items -> Orders]
    /\ ProductOf \in [Items -> Products]
    /\ Requested \in [Items -> Nat \ {0}]
    /\ SeedStatus \in [Orders -> Statuses]
    /\ Opening \in [Products -> Nat \cup {NONE}]
    /\ ReorderPoint \in [Products -> Nat]
    /\ \A r \in Requests : \/ r \in CreateRequests
                           \/ r \in CountRequests
                           \/ r \in ReceiveRequests
                           \/ r \in EditRequests

\* No sentinel is a number, a transaction is not nobody.
ASSUME NoneAssumption == NONE \notin Int /\ NONE \notin Txns

VARIABLES
    \* The committed tables.
    quantity,   \* stocks.current_quantity of each product, NONE without a row
    ledger,     \* the stock_movements rows of each product, oldest first
    received,   \* purchase_order_items.quantity_received
    status,     \* purchase_orders.status
    outbox,     \* the LOWSTOCK_DETECTED rows of outbox_events
    \* The row locks of the database.
    rowLock,    \* the transaction that has written or locked a stock row
    orderLock,  \* the transaction that has locked an order and its items
    \* The requests.
    pc,         \* where the handler of a request stands
    req,        \* the request
    session,    \* what its transaction and its handler hold in memory
    \* History: nothing in the code keeps it.
    overtaken   \* the counts that another request made wrong as they waited

tables == <<quantity, ledger, received, status, outbox>>
locks  == <<rowLock, orderLock>>
vars   == <<quantity, ledger, received, status, outbox, rowLock, orderLock,
            pc, req, session, overtaken>>

-----------------------------------------------------------------------------
(* Rows and sessions                                                       *)

Balances == Nat \cup {NONE}

Movements == [type: {"INITIAL_STOCK", "ADJUSTMENT", "RECEIPT"},
              direction: Directions, quantity: Nat, before: Nat, after: Nat,
              by: Txns \cup {NONE}]

Events == [product: Products, quantity: Nat, by: Txns]

Sessions == [
    snapshot:  [Products -> Balances], \* what plain reads see
    hasView:   BOOLEAN,                \* has a plain read fixed the snapshot?
    written:   [Products -> Balances], \* stock rows written, NONE if not
    movements: [Products -> Seq(Movements)],
    events:    SUBSET Events,
    received:  [Items -> Nat],         \* quantity_received of the loaded items
    status:    Statuses \cup {NONE},   \* status of the loaded order
    todo:      Seq(Lines),             \* the lines still to process
    submitted: SUBSET Items,           \* the items of the lines processed
    before:    Balances]               \* quantity_before of the line at hand

EmptySession == [
    snapshot  |-> [p \in Products |-> NONE],
    hasView   |-> FALSE,
    written   |-> [p \in Products |-> NONE],
    movements |-> [p \in Products |-> <<>>],
    events    |-> {},
    received  |-> [i \in Items |-> 0],
    status    |-> NONE,
    todo      |-> <<>>,
    submitted |-> {},
    before    |-> NONE]

ItemsOf(o) == {i \in Items : OrderOf[i] = o}

\* quantity_received the seeder gives an item: all of a RECEIVED order, half
\* of an APPROVED one, nothing otherwise.
SeedReceived(i) ==
    CASE SeedStatus[OrderOf[i]] = "RECEIVED" -> Requested[i]
      [] SeedStatus[OrderOf[i]] = "APPROVED" -> Requested[i] \div 2
      [] OTHER -> 0

\* The seeder writes an opening movement with every row that is not empty.
SeedLedger(p) ==
    IF Opening[p] \in {NONE, 0} THEN <<>>
    ELSE << [type |-> "INITIAL_STOCK", direction |-> "IN",
             quantity |-> Opening[p], before |-> 0, after |-> Opening[p],
             by |-> NONE] >>

Init ==
    /\ quantity = Opening
    /\ ledger = [p \in Products |-> SeedLedger(p)]
    /\ received = [i \in Items |-> SeedReceived(i)]
    /\ status = SeedStatus
    /\ outbox = {}
    /\ rowLock = [p \in Products |-> NONE]
    /\ orderLock = [o \in Orders |-> NONE]
    /\ pc = [t \in Txns |-> "idle"]
    /\ req = [t \in Txns |-> NONE]
    /\ session = [t \in Txns |-> EmptySession]
    /\ overtaken = {}

-----------------------------------------------------------------------------
(* Transactions                                                            *)

Ended == {"committed", "rejected", "failed"}

Goto(t, label) == pc' = [pc EXCEPT ![t] = label]

\* Mutant: the transaction is left open.
ReleaseNothing(t) == UNCHANGED locks

Release(t) ==
    /\ rowLock' = [p \in Products |-> IF rowLock[p] = t THEN NONE ELSE rowLock[p]]
    /\ orderLock' = [o \in Orders |->
                        IF orderLock[o] = t THEN NONE ELSE orderLock[o]]

\* rollbackTransaction and release, and the answer to the client.
Rollback(t, answer) ==
    /\ Goto(t, answer)
    /\ Release(t)
    /\ session' = [session EXCEPT ![t] = EmptySession]
    /\ UNCHANGED <<quantity, ledger, received, status, outbox, req, overtaken>>

\* Mutant: rows are not locked.
RowFreeUnlocked(t, p) == TRUE

\* The row lock of product p is free for t.
RowFree(t, p) == rowLock[p] \in {NONE, t}

\* Mutant: the order is read without the pessimistic lock.
OrderFreeUnlocked(o) == TRUE

OrderFree(o) == orderLock[o] = NONE

LockRow(t, p) == rowLock' = [rowLock EXCEPT ![p] = t]

\* The rows plain reads of t see: those of its first plain read.
View(t) == IF session[t].hasView THEN session[t].snapshot ELSE quantity

\* The stock row of product p in a plain read of t, its own writes included.
PlainRead(t, p) ==
    IF session[t].written[p] # NONE THEN session[t].written[p] ELSE View(t)[p]

\* The insert of a stock row that another transaction has committed meanwhile
\* breaks the unique index on product and store.
DuplicateRow(p, before) == before = NONE /\ quantity[p] # NONE

Movement(t, type, direction, amount, before, after) ==
    [type |-> type, direction |-> direction, quantity |-> amount,
     before |-> before, after |-> after, by |-> t]

\* Mutant: the balance is not saved.
SavedWithoutBalance(t, p, stored, m) ==
    [session[t] EXCEPT !.movements[p] = Append(@, m)]

\* The session of t with the stock row and its movement saved.  save compares
\* the row with what a plain read of it returns, and updates only what differs.
Saved(t, p, stored, m) ==
    [session[t] EXCEPT !.written[p] = IF stored = m.after THEN @ ELSE m.after,
                       !.movements[p] = Append(@, m)]

-----------------------------------------------------------------------------
(* A request arrives.                                                      *)

FirstStep == [create |-> "create_check", count |-> "count_read",
              receive |-> "receive_lock", edit |-> "edit_load"]

Begin(t) ==
    /\ pc[t] = "idle"
    /\ \E r \in Requests :
        /\ req' = [req EXCEPT ![t] = r]
        /\ Goto(t, FirstStep[r.op])
    /\ UNCHANGED <<tables, locks, session, overtaken>>

-----------------------------------------------------------------------------
(* StocksService.create                                                    *)

\* The plain read of the stock row, and the checks of the payload.
CreateCheck(t) ==
    /\ pc[t] = "create_check"
    /\ LET r == req[t] IN
        \/ /\ quantity[r.product] # NONE \/ r.quantity <= 0
           /\ Rollback(t, "rejected")
        \/ /\ quantity[r.product] = NONE /\ r.quantity > 0
           /\ Goto(t, "create_save")
           /\ UNCHANGED <<tables, locks, req, session, overtaken>>

\* The stock row and its movement.  The movement has the direction the client
\* sent.
CreateSave(t) ==
    /\ pc[t] = "create_save"
    /\ LET r == req[t]
           p == r.product
           m == Movement(t, "ADJUSTMENT", r.direction, r.quantity, 0, r.quantity)
       IN
        /\ RowFree(t, p)
        /\ \/ /\ DuplicateRow(p, NONE)
              /\ Rollback(t, "failed")
           \/ /\ ~DuplicateRow(p, NONE)
              /\ LockRow(t, p)
              /\ session' = [session EXCEPT ![t] = Saved(t, p, NONE, m)]
              /\ Goto(t, "commit")
              /\ UNCHANGED <<tables, orderLock, req, overtaken>>

-----------------------------------------------------------------------------
(* StocksService.update: a physical count                                  *)

\* The plain read of the product fixes what the transaction sees.
CountRead(t) ==
    /\ pc[t] = "count_read"
    /\ session' = [session EXCEPT ![t].snapshot = View(t), ![t].hasView = TRUE]
    /\ Goto(t, "count_lock")
    /\ UNCHANGED <<tables, locks, req, overtaken>>

\* The locking read of the stock row: the committed one, which may be newer.
CountLock(t) ==
    /\ pc[t] = "count_lock"
    /\ LET p == req[t].product IN
        /\ RowFree(t, p)
        /\ IF quantity[p] = NONE
             THEN /\ Goto(t, "count_insert")
                  /\ UNCHANGED <<rowLock, session>>
             ELSE /\ LockRow(t, p)
                  /\ session' = [session EXCEPT ![t].before = quantity[p]]
                  /\ Goto(t, "count_save")
    /\ UNCHANGED <<tables, orderLock, req, overtaken>>

\* There was no row: one is saved with quantity 0.
CountInsert(t) ==
    /\ pc[t] = "count_insert"
    /\ LET p == req[t].product IN
        /\ RowFree(t, p)
        /\ \/ /\ DuplicateRow(p, NONE)
              /\ Rollback(t, "failed")
           \/ /\ ~DuplicateRow(p, NONE)
              /\ LockRow(t, p)
              /\ session' = [session EXCEPT ![t].written[p] = 0,
                                            ![t].before = 0]
              /\ Goto(t, "count_save")
              /\ UNCHANGED <<tables, orderLock, req, overtaken>>

\* Mutant: the operands are swapped.
DifferenceSwapped(physical, before) == before - physical

Difference(physical, before) == physical - before

Amount(difference) == IF difference < 0 THEN -difference ELSE difference

\* Mutant: reaching the level does not count.
CrossedReorderLevelStrictly(p, before, after) ==
    before > ReorderPoint[p] /\ after < ReorderPoint[p]

\* Did the balance reach or pass the reorder level, downward?
CrossedReorderLevel(p, before, after) ==
    before > ReorderPoint[p] /\ after <= ReorderPoint[p]

\* The balance, its movement and, on a crossing, the outbox row.  A count that
\* matches the balance writes nothing more.  save reads the row again as the
\* transaction sees it: it inserts a row that is not there, and does not write
\* the balance that is.
CountSave(t) ==
    /\ pc[t] = "count_save"
    /\ LET r == req[t]
           p == r.product
           before == session[t].before
           difference == Difference(r.quantity, before)
           m == Movement(t, "ADJUSTMENT",
                         IF difference > 0 THEN "IN" ELSE "OUT",
                         Amount(difference), before, r.quantity)
           event == [product |-> p, quantity |-> r.quantity, by |-> t]
       IN
        \/ /\ difference = 0
           /\ Goto(t, "commit")
           /\ UNCHANGED <<tables, locks, req, session, overtaken>>
        \/ /\ difference # 0 /\ DuplicateRow(p, PlainRead(t, p))
           /\ Rollback(t, "failed")
        \/ /\ difference # 0 /\ ~DuplicateRow(p, PlainRead(t, p))
           /\ session' = [session EXCEPT ![t] =
                [Saved(t, p, PlainRead(t, p), m) EXCEPT !.events =
                    IF CrossedReorderLevel(p, before, r.quantity)
                    THEN {event} ELSE {}]]
           /\ Goto(t, "commit")
           /\ UNCHANGED <<tables, locks, req, overtaken>>

-----------------------------------------------------------------------------
(* PurchaseOrdersService.receive                                           *)

\* The locking read of the order with its items, and the checks on them.
ReceiveLock(t) ==
    /\ pc[t] = "receive_lock"
    /\ LET o == req[t].order IN
        /\ OrderFree(o)
        /\ \/ /\ status[o] \in {"RECEIVED", "CANCELLED", "DRAFT"} \/ ItemsOf(o) = {}
              /\ Rollback(t, "rejected")
           \/ /\ status[o] \notin {"RECEIVED", "CANCELLED", "DRAFT"}
              /\ ItemsOf(o) # {}
              /\ orderLock' = [orderLock EXCEPT ![o] = t]
              /\ session' = [session EXCEPT ![t].received = received,
                                            ![t].status = status[o],
                                            ![t].todo = req[t].lines]
              /\ Goto(t, "receive_line")
              /\ UNCHANGED <<tables, rowLock, req, overtaken>>

\* Mutant: the line is compared with the request alone.
LineAcceptedAlone(t) ==
    LET line == Head(session[t].todo) IN
    /\ line.item \notin session[t].submitted
    /\ OrderOf[line.item] = req[t].order
    /\ line.quantity <= Requested[line.item]

\* May the next line be received on the order of t?
LineAccepted(t) ==
    LET line == Head(session[t].todo) IN
    /\ line.item \notin session[t].submitted
    /\ OrderOf[line.item] = req[t].order
    /\ session[t].received[line.item] + line.quantity <= Requested[line.item]

\* The checks of the next line, then the plain read of its stock row: no lock.
\* The first plain read of the transaction fixes its snapshot.
ReceiveLine(t) ==
    /\ pc[t] = "receive_line" /\ session[t].todo # <<>>
    /\ \/ /\ ~LineAccepted(t)
          /\ Rollback(t, "rejected")
       \/ /\ LineAccepted(t)
          /\ LET p == ProductOf[Head(session[t].todo).item] IN
                session' = [session EXCEPT ![t].snapshot = View(t),
                                           ![t].hasView = TRUE,
                                           ![t].before = PlainRead(t, p)]
          /\ Goto(t, "receive_save")
          /\ UNCHANGED <<tables, locks, req, overtaken>>

\* The stock row, its movement and the item of the line.  The balance written
\* is the one read plus the delivery, whatever the row holds by now.
ReceiveSave(t) ==
    /\ pc[t] = "receive_save"
    /\ LET line == Head(session[t].todo)
           p == ProductOf[line.item]
           before == session[t].before
           from == IF before = NONE THEN 0 ELSE before
           m == Movement(t, "RECEIPT", "IN", line.quantity, from, from + line.quantity)
       IN
        /\ RowFree(t, p)
        /\ \/ /\ DuplicateRow(p, before)
              /\ Rollback(t, "failed")
           \/ /\ ~DuplicateRow(p, before)
              /\ LockRow(t, p)
              /\ session' = [session EXCEPT ![t] =
                    [Saved(t, p, before, m) EXCEPT
                        !.received[line.item] = @ + line.quantity,
                        !.submitted = @ \cup {line.item},
                        !.todo = Tail(@)]]
              /\ Goto(t, "receive_line")
              /\ UNCHANGED <<tables, orderLock, req, overtaken>>

\* Mutant: the items are compared as they were before the delivery.
FullyReceivedBefore(t) ==
    \A i \in ItemsOf(req[t].order) : received[i] >= Requested[i]

FullyReceived(t) ==
    \A i \in ItemsOf(req[t].order) : session[t].received[i] >= Requested[i]

\* All lines are saved: the order is RECEIVED once every item is complete.
ReceiveFinish(t) ==
    /\ pc[t] = "receive_line" /\ session[t].todo = <<>>
    /\ session' = [session EXCEPT ![t].status =
            IF FullyReceived(t) THEN "RECEIVED" ELSE @]
    /\ Goto(t, "commit")
    /\ UNCHANGED <<tables, locks, req, overtaken>>

-----------------------------------------------------------------------------
(* PurchaseOrdersService.update: no transaction, no lock                   *)

EditLoad(t) ==
    /\ pc[t] = "edit_load"
    /\ LET o == req[t].order IN
        \/ /\ status[o] \in {"RECEIVED", "CANCELLED"}
           /\ Rollback(t, "rejected")
        \/ /\ status[o] \notin {"RECEIVED", "CANCELLED"}
           /\ session' = [session EXCEPT ![t].status = status[o]]
           /\ Goto(t, "edit_save")
           /\ UNCHANGED <<tables, locks, req, overtaken>>

\* The order loaded before is saved as a whole, its status included.
EditSave(t) ==
    /\ pc[t] = "edit_save"
    /\ LET o == req[t].order IN
        /\ OrderFree(o)
        /\ status' = [status EXCEPT ![o] = session[t].status]
    /\ Goto(t, "committed")
    /\ session' = [session EXCEPT ![t] = EmptySession]
    /\ UNCHANGED <<quantity, ledger, received, outbox, locks, req, overtaken>>

-----------------------------------------------------------------------------
(* The end of a transaction                                                *)

\* The counts that wait for a row t has written and that ask for the balance they
\* have seen before, which the row will not have any more.
Overtakes(t) ==
    {u \in Txns : /\ pc[u] = "count_lock"
                  /\ LET p == req[u].product IN
                     /\ session[u].snapshot[p] = req[u].quantity
                     /\ session[t].written[p] \notin {NONE, req[u].quantity}}

\* commitTransaction makes what the session holds visible, all at once.
Commit(t) ==
    /\ pc[t] = "commit"
    /\ LET s == session[t] IN
        /\ quantity' = [p \in Products |->
                IF s.written[p] = NONE THEN quantity[p] ELSE s.written[p]]
        /\ ledger' = [p \in Products |-> ledger[p] \o s.movements[p]]
        /\ outbox' = outbox \cup s.events
        /\ received' = [i \in Items |->
                IF i \in s.submitted THEN s.received[i] ELSE received[i]]
        /\ status' = [o \in Orders |->
                IF orderLock[o] = t THEN s.status ELSE status[o]]
    /\ Goto(t, "committed")
    /\ Release(t)
    /\ session' = [session EXCEPT ![t] = EmptySession]
    /\ overtaken' = overtaken \cup Overtakes(t)
    /\ UNCHANGED req

\* A statement fails, the connection is lost or the process dies: the database
\* rolls the transaction back.
Fail(t) ==
    /\ pc[t] \notin Ended \cup {"idle"}
    /\ Rollback(t, "failed")

\* Transaction t waits for a row that u has locked.
WaitsFor(t, u) ==
    \/ /\ pc[t] \in {"create_save", "count_lock", "count_insert"}
       /\ rowLock[req[t].product] = u
    \/ /\ pc[t] = "receive_save"
       /\ rowLock[ProductOf[Head(session[t].todo).item]] = u
    \/ /\ pc[t] \in {"receive_lock", "edit_save"}
       /\ orderLock[req[t].order] = u

\* t is on a cycle of transactions that wait for each other.
Deadlocked(t) ==
    \E S \in SUBSET Txns :
        /\ t \in S
        /\ \A u \in S : /\ \E v \in S \ {u} : WaitsFor(u, v)
                       /\ \E v \in S \ {u} : WaitsFor(v, u)

\* The database chooses a transaction on the cycle and rolls it back.
DeadlockVictim(t) ==
    /\ Deadlocked(t)
    /\ Rollback(t, "failed")

-----------------------------------------------------------------------------

\* The steps of a handler that is not hit by a failure.
Handle(t) ==
    \/ CreateCheck(t) \/ CreateSave(t)
    \/ CountRead(t) \/ CountLock(t) \/ CountInsert(t) \/ CountSave(t)
    \/ ReceiveLock(t) \/ ReceiveLine(t) \/ ReceiveSave(t) \/ ReceiveFinish(t)
    \/ EditLoad(t) \/ EditSave(t)
    \/ Commit(t)

AllEnded == \A t \in Txns : pc[t] \in Ended

\* Every request has been answered.
Quiescent == AllEnded /\ UNCHANGED vars

Next ==
    \/ \E t \in Txns : Begin(t) \/ Handle(t) \/ DeadlockVictim(t) \/ Fail(t)
    \/ Quiescent

Spec == Init /\ [][Next]_vars

\* A handler that can take its next step takes it, and the database breaks the
\* deadlocks it detects.  No client has to send a request; no failure has to
\* happen.
Fairness == \A t \in Txns : /\ WF_vars(Handle(t))
                            /\ WF_vars(DeadlockVictim(t))

FairSpec == Spec /\ Fairness

-----------------------------------------------------------------------------
(* Properties                                                              *)

Labels == {"idle", "create_check", "create_save", "count_read", "count_lock",
           "count_insert", "count_save", "receive_lock", "receive_line", "receive_save",
           "edit_load", "edit_save", "commit"} \cup Ended

\* The tables, the locks and the sessions hold values of their types.
TypeOK ==
    /\ quantity \in [Products -> Balances]
    /\ ledger \in [Products -> Seq(Movements)]
    /\ received \in [Items -> Nat]
    /\ status \in [Orders -> Statuses]
    /\ outbox \subseteq Events
    /\ rowLock \in [Products -> Txns \cup {NONE}]
    /\ orderLock \in [Orders -> Txns \cup {NONE}]
    /\ pc \in [Txns -> Labels]
    /\ req \in [Txns -> Requests \cup {NONE}]
    /\ session \in [Txns -> Sessions]
    /\ overtaken \subseteq Txns

\* The balance behind a movement: what it says, but for an overtaken count, which
\* records the change it was asked for and leaves the balance as it found it, since
\* save has nothing to update (stock.service.ts:170, 187, 231).
Left(m) == IF m.by \in overtaken THEN m.before ELSE m.after

\* Whichever requests raced for a row, its balance is the quantity_after of its
\* newest movement, or the quantity_before of an overtaken count: one whose
\* transaction had seen the balance it asks for, which another request changed
\* while it waited for the row; a row without movements is empty.  It needs the
\* balance and the movement of every request to be written under the lock of the
\* row and committed together (stock.service.ts:230-248,
\* purchase_orders.service.ts:639-657).
BalanceIsLeftByLedger ==
    \A p \in Products :
        IF ledger[p] = <<>> THEN quantity[p] \in {NONE, 0}
        ELSE quantity[p] = Left(ledger[p][Len(ledger[p])])

\* quantity_before of the k-th movement is the balance behind its predecessor.
StartsFromPredecessor(p, k) ==
    ledger[p][k].before = IF k = 1 THEN 0 ELSE Left(ledger[p][k - 1])

\* A count or an initial stock never starts from a stale balance: the locking
\* read of StocksService.update and the unique index behind
\* StocksService.create see to it, also next to deliveries, and also behind a
\* count that has left the balance as it was.
AdjustmentsStartFromBalance ==
    \A p \in Products : \A k \in 1..Len(ledger[p]) :
        ledger[p][k].type = "ADJUSTMENT" => StartsFromPredecessor(p, k)

\* Every movement starts from the balance behind the one before it: with the
\* exception of overtaken counts the whole history is one chain.
HistoryIsChain ==
    \A p \in Products : \A k \in 1..Len(ledger[p]) : StartsFromPredecessor(p, k)

\* Current stock is explainable through inventory history: every movement
\* starts where the one before it ended.
StockExplainedByHistory ==
    \A p \in Products : \A k \in 1..Len(ledger[p]) :
        ledger[p][k].before = IF k = 1 THEN 0 ELSE ledger[p][k - 1].after

\* The direction of a movement says whether its quantity was added or removed.
DirectionExplainsBalance ==
    \A p \in Products : \A k \in 1..Len(ledger[p]) :
        LET m == ledger[p][k] IN
        m.after = IF m.direction = "IN" THEN m.before + m.quantity
                                        ELSE m.before - m.quantity

\* The quantities of the receipts among movements.
ReceiptTotal(movements) ==
    SumFunctionOnSet([k \in DOMAIN movements |-> movements[k].quantity],
                     {k \in DOMAIN movements : movements[k].type = "RECEIPT"})

ItemsFor(p) == {i \in Items : ProductOf[i] = p}

\* What the purchase orders say has arrived is what the ledger received: for
\* each product, the quantities of its RECEIPT movements add up to the growth
\* of quantity_received over its items.  Two deliveries on one order must not
\* lose one another's items, and a delivery that fails half-way must leave
\* neither movements nor items.
ReceiptsExplainOrders ==
    \A p \in Products : ReceiptTotal(ledger[p]) =
        SumFunctionOnSet([i \in Items |-> received[i] - SeedReceived(i)], ItemsFor(p))

\* Nothing is received beyond what was requested, and an order is RECEIVED only
\* when all of its items are complete, however often and in whatever pieces
\* it was delivered.
ReceivedWithinOrder ==
    /\ \A i \in Items : received[i] <= Requested[i]
    /\ \A o \in Orders : status[o] = "RECEIVED" =>
            \A i \in ItemsOf(o) : received[i] >= Requested[i]

\* Without header edits an order whose items are all complete is RECEIVED.
CompleteOrderIsReceived ==
    \A o \in Orders :
        (ItemsOf(o) # {} /\ \A i \in ItemsOf(o) : received[i] >= Requested[i])
            => status[o] = "RECEIVED"

\* From above the reorder level of p to the level or below it.
Falls(p, before, after) == before > ReorderPoint[p] /\ ReorderPoint[p] >= after

\* The low-stock rows of the counts among the movements of each product that took
\* it down to its reorder level.
Announcements(movements) ==
    UNION {{[product |-> p, quantity |-> movements[p][k].after,
             by |-> movements[p][k].by] :
            k \in {j \in 1..Len(movements[p]) :
                     /\ movements[p][j].type = "ADJUSTMENT"
                     /\ Falls(p, movements[p][j].before, movements[p][j].after)}} :
           p \in Products}

\* There is a low-stock row for each count that crossed the reorder level and
\* for nothing else: event and count are one transaction.
OutboxMatchesLedger == outbox = Announcements(ledger)

\* No commit takes back what another delivery has recorded on an item.
ReceivedNeverShrinks ==
    [][\A i \in Items : received'[i] >= received[i]]_vars

\* An order that was RECEIVED stays so: no operation alters it.
ReceivedIsFinal ==
    [][\A o \in Orders : status[o] = "RECEIVED" => status'[o] = "RECEIVED"]_vars

\* The balance does not reach or pass the reorder level downward without a
\* low-stock row in the same commit.
LowStockIsAnnounced ==
    [][\A p \in Products :
        (/\ quantity[p] # NONE /\ quantity'[p] # NONE
         /\ Falls(p, quantity[p], quantity'[p]))
            => \E e \in outbox' \ outbox : e.product = p]_vars

\* Every request that has started is answered: waiting for row locks ends, also
\* when two deliveries lock the same products in opposite order.
EveryRequestIsAnswered ==
    \A t \in Txns : pc[t] # "idle" ~> pc[t] \in Ended

-----------------------------------------------------------------------------
(* The inductive invariant behind the safety properties                    *)

\* Requests that fit where their handlers stand, and what the handlers have
\* checked by then.
RequestFits ==
    \A t \in Txns :
        /\ pc[t] = "idle" => session[t] = EmptySession
        /\ pc[t] \in {"create_check", "create_save"} => req[t] \in CreateRequests
        /\ pc[t] \in {"count_read", "count_lock", "count_insert", "count_save"} =>
                req[t] \in CountRequests
        /\ pc[t] \in {"receive_lock", "receive_line", "receive_save"} =>
                req[t] \in ReceiveRequests
        /\ pc[t] \in {"edit_load", "edit_save"} => req[t] \in EditRequests
        /\ pc[t] = "commit" =>
                req[t] \in CreateRequests \cup CountRequests \cup ReceiveRequests
        /\ pc[t] = "count_save" => session[t].before \in Nat
        /\ pc[t] = "receive_save" => session[t].todo # <<>> /\ LineAccepted(t)
        /\ pc[t] \in {"edit_save", "receive_line", "receive_save"} =>
                session[t].status \in Statuses \ {"RECEIVED"}

\* The stock rows a transaction has written, has recorded a movement of or counts
\* are locked by it.
RowsHeld ==
    \A t \in Txns, p \in Products :
        \/ session[t].written[p] # NONE
        \/ session[t].movements[p] # <<>>
        \/ pc[t] = "count_save" /\ req[t].product = p
        => rowLock[p] = t

\* The balance a session has written is that of its newest movement; a row
\* written without a movement is the empty row of a count, an overtaken count
\* leaves the balance it starts from.  Creations and counts record no movement
\* before their last step.
SessionsAgree ==
    \A t \in Txns, p \in Products :
        LET s == session[t]
            newest == s.movements[p][Len(s.movements[p])]
        IN
        /\ s.movements[p] = <<>> /\ s.written[p] # NONE =>
                s.written[p] = 0 /\ quantity[p] = NONE
        /\ s.movements[p] # <<>> =>
                IF t \in overtaken
                THEN s.written[p] = NONE /\ quantity[p] = newest.before
                ELSE s.written[p] = newest.after
        /\ pc[t] \in {"create_check", "create_save", "count_read", "count_lock",
                      "count_insert", "count_save"} => s.movements[p] = <<>>

\* Movements name the request that wrote them.
MovementsSigned ==
    /\ \A p \in Products : \A k \in 1..Len(ledger[p]) :
          ledger[p][k].by # NONE => pc[ledger[p][k].by] = "committed"
    /\ \A t \in Txns, p \in Products : \A k \in 1..Len(session[t].movements[p]) :
          session[t].movements[p][k].by = t

\* What a count has seen: a row that is there stays; where it saw the balance it
\* asks for, the row still holds it or the count is overtaken.
CountSees(t) ==
    LET r == req[t]
        seen == session[t].snapshot[r.product]
        wrote == session[t].written[r.product]
        right == seen = r.quantity
    IN
    /\ session[t].hasView
    /\ seen # NONE => quantity[r.product] # NONE
    /\ t \in overtaken => right /\ wrote = NONE
    /\ pc[t] = "count_lock" =>
            /\ wrote = NONE
            /\ right => quantity[r.product] = r.quantity \/ t \in overtaken
    /\ pc[t] = "count_insert" => seen = NONE
    /\ pc[t] = "count_save" /\ wrote # NONE => seen = NONE
    /\ pc[t] = "count_save" /\ wrote = NONE =>
            /\ quantity[r.product] # NONE
            /\ right => session[t].before = r.quantity \/ t \in overtaken

\* Counts see their rows; the overtaken ones wait for theirs, or did.
CountsSee ==
    \A t \in Txns :
        /\ pc[t] = "count_read" => session[t] = EmptySession
        /\ pc[t] \in {"count_lock", "count_insert", "count_save"} => CountSees(t)
        /\ t \in overtaken =>
              /\ pc[t] \in {"count_lock", "count_save", "commit"} \cup Ended
              /\ req[t].op = "count"

\* What is on hand of p: a missing row counts as an empty one.
OnHand(p) == IF quantity[p] = NONE THEN 0 ELSE quantity[p]

\* The balance a count has read is the committed one until the count ends, and
\* an adjustment that waits for its commit starts from it.
AdjustmentsAgree ==
    \A t \in Txns, p \in Products :
        LET s == session[t] IN
        /\ pc[t] = "count_save" /\ req[t].product = p => s.before = OnHand(p)
        /\ \A k \in 1..Len(s.movements[p]) :
              s.movements[p][k].type = "ADJUSTMENT" =>
                  k = 1 /\ s.movements[p][k].before = OnHand(p)

\* Is t a delivery between the locking read of its order and its end?
Receiving(t) ==
    \/ pc[t] \in {"receive_line", "receive_save"}
    \/ pc[t] = "commit" /\ req[t].op = "receive"

\* The locked orders are those being received.
OrdersHeld ==
    \A t \in Txns, o \in Orders :
        orderLock[o] = t <=> Receiving(t) /\ req[t].order = o

\* What a delivery holds of its items: those it has processed have grown, within
\* the request; the others are as in the table, since its order is locked.
ItemsAgree ==
    \A t \in Txns :
        /\ ~Receiving(t) => session[t].submitted = {}
        /\ Receiving(t) =>
            /\ session[t].submitted \subseteq ItemsOf(req[t].order)
            /\ \A i \in ItemsOf(req[t].order) :
                /\ session[t].received[i] <= Requested[i]
                /\ session[t].received[i] >= received[i]
                /\ i \notin session[t].submitted =>
                        session[t].received[i] = received[i]
            /\ session[t].status \in Statuses
            /\ session[t].status = "RECEIVED" => FullyReceived(t)

\* The rows of the locked orders and the deliveries that hold them agree, so that
\* orders are received within their request.
ReceivingInv == TypeOK /\ RequestFits /\ OrdersHeld /\ ItemsAgree
                /\ ReceivedWithinOrder

\* The written stock rows are locked and agree with the movements recorded next to
\* them, so that balances agree with the ledger and adjustments start from them.
LedgerInv == TypeOK /\ RequestFits /\ RowsHeld /\ SessionsAgree /\ AdjustmentsAgree
                /\ MovementsSigned /\ CountsSee
                /\ BalanceIsLeftByLedger /\ AdjustmentsStartFromBalance

-----------------------------------------------------------------------------
(* What the history of stocks and orders shows                             *)

\* A transaction has announced the counts it has recorded.
SessionsAnnounce ==
    \A t \in Txns : session[t].events = Announcements(session[t].movements)

\* Low-stock rows name the request that wrote them.
EventsSigned ==
    /\ \A e \in outbox : pc[e.by] = "committed"
    /\ \A t \in Txns : \A e \in session[t].events : e.by = t

\* Among these requests an initial stock is sent as what it is, an addition.
InitialStocksAdd(requests) == \A r \in requests : r.op = "create" => r.direction = "IN"

\* Low-stock rows and counts agree before the commit as after it.
OutboxInv == SessionsAnnounce /\ OutboxMatchesLedger /\ EventsSigned

\* The receipts of a delivery are what it is going to add to its items.
DeliveriesAddUp ==
    \A t \in Txns, p \in Products : ReceiptTotal(session[t].movements[p]) =
        SumFunctionOnSet([i \in Items |-> session[t].received[i] - received[i]],
                         ItemsFor(p) \cap session[t].submitted)

\* Receipts and items agree before the commit as after it.
ReceiptsInv == ReceiptsExplainOrders /\ DeliveriesAddUp

\* Among these requests nobody edits the header of an order.
NoEdits(requests) == \A r \in requests : r.op # "edit"

\* A delivery that leaves no item of its order open finds that out.
CompletionInv ==
    /\ CompleteOrderIsReceived
    /\ \A t \in Txns : pc[t] = "commit" /\ Receiving(t) /\ FullyReceived(t)
          => session[t].status = "RECEIVED"

ProductsOn(r) == {ProductOf[r.lines[j].item] : j \in 1..Len(r.lines)}

\* Among these requests no product is delivered that is also counted, or
\* delivered on two orders.
Separated(requests) ==
    \A r, s \in requests : r.op = "receive" =>
        /\ s.op = "count" => s.product \notin ProductsOn(r)
        /\ s.op = "receive" /\ s.order # r.order =>
                ProductsOn(r) \cap ProductsOn(s) = {}

\* A request writes the products it names; an initial stock is a new row.
WritesItsProducts(t) ==
    LET r == req[t] IN
    /\ \A p \in Products : session[t].written[p] # NONE \/ session[t].movements[p] # <<>> =>
          /\ r.op = "receive" => p \in ProductsOn(r)
          /\ r.op # "receive" => p = r.product
          /\ r.op = "create" => quantity[p] = NONE
    /\ \A k \in 1..Len(session[t].todo) :
          ProductOf[session[t].todo[k].item] \in ProductsOn(r)

\* What a delivery sees of its products is up to date, or it sees no row.
SeesItsProducts(t) ==
    /\ pc[t] = "receive_lock" => ~session[t].hasView
    /\ pc[t] \in {"receive_line", "receive_save"} /\ session[t].hasView =>
          \A p \in ProductsOn(req[t]) : session[t].snapshot[p] \in {NONE, quantity[p]}
    /\ pc[t] = "receive_save" =>
          /\ session[t].hasView
          /\ session[t].before = PlainRead(t, ProductOf[Head(session[t].todo).item])

\* The movements of a delivery continue the ledger, and only add.
ContinuesLedger(t) ==
    \A p \in Products : LET ms == session[t].movements[p] IN
        \A k \in 1..Len(ms) :
            \/ ms[k].type = "ADJUSTMENT" /\ req[t].op # "receive"
            \/ /\ ms[k].type = "RECEIPT" /\ req[t].op = "receive"
               /\ ms[k].before = IF k = 1 THEN OnHand(p) ELSE ms[k - 1].after
               /\ ms[k].after >= OnHand(p)

SeparateInv ==
    /\ \A t \in Txns : WritesItsProducts(t) /\ SeesItsProducts(t) /\ ContinuesLedger(t)
    /\ HistoryIsChain

-----------------------------------------------------------------------------
(* Separate requests are carried out one at a time                         *)

Answer(t) == CASE pc[t] = "committed" -> "done"
               [] pc[t] \in {"rejected", "failed"} -> "refused"
               [] OTHER -> "none"

Book == INSTANCE StockBook WITH asked <- req, answer <- [t \in Txns |-> Answer(t)]

\* Requests that interleave, fail and are rolled back change stocks and orders as
\* if they were carried out one at a time, each in the step that commits it, or
\* not at all: where no product is delivered that is also counted or delivered on
\* another order, and no header is edited.  A count posts its entry and not its
\* balance if the balance was right when it asked and another request has changed
\* it since.
ImplementsStockBook == Book!Spec

\* A count holds its row, and is about to post what the row calls for.  Where it
\* writes no balance, the balance is what it asks for, or it is overtaken.
CountBooked(t) ==
    LET r == req[t]
        s == session[t]
    IN (pc[t] \in {"count_save", "commit"} /\ r.op = "count") =>
        /\ rowLock[r.product] = t
        /\ s.written[r.product] = NONE => quantity[r.product] # NONE
        /\ pc[t] = "commit" =>
              /\ s.movements[r.product] = Book!CountEntries(t, r)
              /\ t \notin overtaken /\ s.written[r.product] = NONE =>
                    quantity[r.product] = r.quantity
              /\ t \in overtaken => s.written[r.product] = NONE

\* An initial stock is about to post its entry.
CreateBooked(t) ==
    LET r == req[t] IN
    /\ pc[t] = "create_save" => r.quantity > 0
    /\ (pc[t] = "commit" /\ r.op = "create") =>
          /\ r.quantity > 0
          /\ session[t].movements[r.product] = << Book!InitialEntry(t, r) >>

\* The lines a delivery has processed.
Processed(t) == Len(req[t].lines) - Len(session[t].todo)

\* A session has booked the first n lines.
LinesBooked(t, lines, n, s) ==
    /\ n \in 0..Len(lines)
    /\ s.todo = SubSeq(lines, n + 1, Len(lines))
    /\ s.submitted = {lines[j].item : j \in 1..n}
    /\ \A j, k \in 1..n : lines[j].item = lines[k].item => j = k
    /\ \A j \in 1..n : s.received[lines[j].item] =
                          received[lines[j].item] + lines[j].quantity
    /\ \A p \in Products : /\ Book!ListsLines(s.movements[p], lines, n, p)
                           /\ Book!ReceiptsFrom(t, s.movements[p], OnHand(p))
                           /\ s.movements[p] = <<>> => s.written[p] = NONE

\* A delivery is about to post the lines it has processed, and the status.
DeliveryBooked(t) == Receiving(t) =>
    /\ LinesBooked(t, req[t].lines, Processed(t), session[t])
    /\ status[req[t].order] \notin {"RECEIVED", "CANCELLED", "DRAFT"}
    /\ pc[t] = "commit" => session[t].todo = <<>>
    /\ session[t].status = IF pc[t] = "commit" /\ FullyReceived(t) THEN "RECEIVED"
                           ELSE status[req[t].order]

\* What the sessions are about to do to the book.
BookInv == \A t \in Txns :
    /\ pc[t] = "idle" => req[t] = NONE
    /\ pc[t] = "receive_lock" => session[t] = EmptySession
    /\ CountBooked(t) /\ CreateBooked(t) /\ DeliveryBooked(t)

=============================================================================
