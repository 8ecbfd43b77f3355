-------------------------- MODULE Inventory_proofs --------------------------
(***************************************************************************)
(* What holds of Inventory for every set of requests, products, orders and *)
(* items: type correctness, the bounds of what a purchase order receives;  *)
(* the balance of a stock row is the one its newest movement has left, and *)
(* a count or an initial stock starts from the balance before it.          *)
(***************************************************************************)
EXTENDS Inventory, TLAPS

USE DEF tables, locks

\* A session that has written nothing is a session.
LEMMA EmptySessionTyped == EmptySession \in Sessions
  BY NoneAssumption DEF EmptySession, Sessions, Balances

\* The movement constructor yields rows of the ledger.
LEMMA MovementTyped ==
    ASSUME NEW t \in Txns, NEW type \in {"INITIAL_STOCK", "ADJUSTMENT", "RECEIPT"},
           NEW direction \in Directions, NEW amount \in Nat, NEW before \in Nat,
           NEW after \in Nat
    PROVE  /\ Movement(t, type, direction, amount, before, after) \in Movements
           /\ Movement(t, type, direction, amount, before, after).after = after
  BY DEF Movement, Movements

\* Saving a movement keeps the session a session.
LEMMA SavedTyped ==
    ASSUME NEW t \in Txns, session[t] \in Sessions, NEW p \in Products,
           NEW stored, NEW m \in Movements
    PROVE  Saved(t, p, stored, m) \in Sessions
<1>1. m.after \in Balances
  BY DEF Movements, Balances
<1>2. [session[t].movements EXCEPT ![p] = Append(@, m)] \in [Products -> Seq(Movements)]
  BY DEF Sessions
<1>3. [session[t].written EXCEPT ![p] = IF stored = m.after THEN @ ELSE m.after]
        \in [Products -> Balances]
  BY <1>1 DEF Sessions
<1>. QED  BY <1>2, <1>3 DEF Saved, Sessions

\* Saving a movement leaves the rest of the session alone.
LEMMA SavedKeeps ==
    ASSUME NEW t \in Txns, session[t] \in Sessions, NEW p, NEW stored, NEW m, NEW e
    PROVE  /\ Saved(t, p, stored, m).submitted = session[t].submitted
           /\ [Saved(t, p, stored, m) EXCEPT !.events = e].submitted = session[t].submitted
  BY DEF Saved, Sessions

-----------------------------------------------------------------------------
(* Type correctness                                                        *)

TypeInv == TypeOK /\ RequestFits

\* The seeded tables, the free locks and the idle requests are well typed.
LEMMA InitTyped == Init => TypeInv
<1> SUFFICES ASSUME Init PROVE TypeInv
  OBVIOUS
<1> USE ConstantsAssumption, NoneAssumption
<1>1. ledger \in [Products -> Seq(Movements)]
  <2> SUFFICES ASSUME NEW p \in Products PROVE SeedLedger(p) \in Seq(Movements)
    BY DEF Init
  <2>1. CASE Opening[p] \in {NONE, 0}
    BY <2>1 DEF SeedLedger
  <2>2. CASE Opening[p] \notin {NONE, 0}
    <3>1. [type |-> "INITIAL_STOCK", direction |-> "IN", quantity |-> Opening[p],
           before |-> 0, after |-> Opening[p], by |-> NONE] \in Movements
      BY <2>2 DEF Movements, Directions
    <3>. QED  BY <3>1, <2>2 DEF SeedLedger
  <2>. QED  BY <2>1, <2>2
<1>2. received \in [Items -> Nat]
  BY DEF Init, SeedReceived
<1>3. TypeOK
  BY <1>1, <1>2, EmptySessionTyped DEF Init, TypeOK, Balances, Labels
<1>4. RequestFits
  BY DEF Init, RequestFits
<1>. QED  BY <1>3, <1>4 DEF TypeInv

\* A rollback leaves tables and other sessions alone.
LEMMA RollbackTyped ==
    ASSUME TypeInv, NEW t \in Txns, NEW answer \in Ended, Rollback(t, answer)
    PROVE  TypeInv'
<1>1. TypeOK'
  BY EmptySessionTyped, NoneAssumption
     DEF TypeInv, TypeOK, Rollback, Goto, Release, Labels
<1>2. RequestFits'
  BY DEF TypeInv, TypeOK, RequestFits, Rollback, Goto, Ended, LineAccepted
<1>. QED  BY <1>1, <1>2 DEF TypeInv

\* The arrival of a request keeps the types.
LEMMA BeginTyped ==
    ASSUME TypeInv, NEW t \in Txns, Begin(t)
    PROVE  TypeInv'
<1>. PICK r \in Requests : req' = [req EXCEPT ![t] = r] /\ Goto(t, FirstStep[r.op])
  BY DEF Begin
<1>0. \/ r \in CreateRequests \/ r \in CountRequests
      \/ r \in ReceiveRequests \/ r \in EditRequests
  BY ConstantsAssumption
<1>1. \/ r \in CreateRequests /\ pc' = [pc EXCEPT ![t] = "create_check"]
      \/ r \in CountRequests /\ pc' = [pc EXCEPT ![t] = "count_read"]
      \/ r \in ReceiveRequests /\ pc' = [pc EXCEPT ![t] = "receive_lock"]
      \/ r \in EditRequests /\ pc' = [pc EXCEPT ![t] = "edit_load"]
  <2>1. /\ r \in CreateRequests => r.op = "create"
        /\ r \in CountRequests => r.op = "count"
        /\ r \in ReceiveRequests => r.op = "receive"
        /\ r \in EditRequests => r.op = "edit"
    BY DEF CreateRequests, CountRequests, ReceiveRequests, EditRequests
  <2>2. /\ FirstStep["create"] = "create_check" /\ FirstStep["count"] = "count_read"
        /\ FirstStep["receive"] = "receive_lock" /\ FirstStep["edit"] = "edit_load"
    BY DEF FirstStep
  <2>. QED  BY <1>0, <2>1, <2>2 DEF Goto
<1>2. TypeOK'
  BY <1>1 DEF TypeInv, TypeOK, Begin, Labels
<1>3. RequestFits'
  BY <1>1 DEF TypeInv, TypeOK, RequestFits, Begin, LineAccepted
<1>. QED  BY <1>2, <1>3 DEF TypeInv

\* Both steps of an initial stock keep the types.
LEMMA CreateTyped ==
    ASSUME TypeInv, NEW t \in Txns, CreateCheck(t) \/ CreateSave(t)
    PROVE  TypeInv'
<1>1. CASE CreateCheck(t)
  <2>1. CASE Rollback(t, "rejected")
    BY <2>1, RollbackTyped DEF Ended
  <2>2. CASE Goto(t, "create_save") /\ UNCHANGED <<tables, locks, req, session, overtaken>>
    BY <1>1, <2>2 DEF CreateCheck, TypeInv, TypeOK, RequestFits, Goto, Labels, LineAccepted
  <2>. QED  BY <1>1, <2>1, <2>2 DEF CreateCheck
<1>2. CASE CreateSave(t)
  <2> DEFINE p == req[t].product
             m == Movement(t, "ADJUSTMENT", req[t].direction, req[t].quantity, 0,
                           req[t].quantity)
  <2>1. CASE Rollback(t, "failed")
    BY <2>1, RollbackTyped DEF Ended
  <2>2. CASE /\ LockRow(t, p)
             /\ session' = [session EXCEPT ![t] = Saved(t, p, NONE, m)]
             /\ Goto(t, "commit")
             /\ UNCHANGED <<tables, orderLock, req, overtaken>>
    <3>1. req[t] \in CreateRequests /\ pc[t] = "create_save"
      BY <1>2 DEF CreateSave, TypeInv, RequestFits
    <3>a. p \in Products /\ session[t] \in Sessions
      BY <3>1 DEF CreateRequests, TypeInv, TypeOK
    <3>b. m \in Movements
      BY <3>1, MovementTyped DEF CreateRequests
    <3>2. p \in Products /\ m \in Movements /\ session[t] \in Sessions
      BY <3>a, <3>b
    <3> HIDE DEF m
    <3>3. Saved(t, p, NONE, m) \in Sessions
      BY <3>2, SavedTyped
    <3>4. TypeOK'
      BY <2>2, <3>2, <3>3 DEF TypeInv, TypeOK, LockRow, Goto, Labels
    <3>5. RequestFits'
      BY <2>2, <3>1 DEF TypeInv, TypeOK, RequestFits, Goto, LineAccepted
    <3>. QED  BY <3>4, <3>5 DEF TypeInv
  <2>. QED  BY <1>2, <2>1, <2>2 DEF CreateSave
<1>. QED  BY <1>1, <1>2

\* What RequestFits says of one request.
Fits(t) ==
    /\ pc[t] = "idle" => session[t] = EmptySession
    /\ pc[t] \in {"create_check", "create_save"} => req[t] \in CreateRequests
    /\ pc[t] \in {"count_read", "count_lock", "count_insert", "count_save"} =>
            req[t] \in CountRequests
    /\ pc[t] \in {"receive_lock", "receive_line", "receive_save"} =>
            req[t] \in ReceiveRequests
    /\ pc[t] \in {"edit_load", "edit_save"} => req[t] \in EditRequests
    /\ pc[t] = "commit" => req[t] \in CreateRequests \cup CountRequests \cup ReceiveRequests
    /\ pc[t] = "count_save" => session[t].before \in Nat
    /\ pc[t] = "receive_save" => session[t].todo # <<>> /\ LineAccepted(t)
    /\ pc[t] \in {"edit_save", "receive_line", "receive_save"} =>
            session[t].status \in Statuses \ {"RECEIVED"}

\* A step of one request leaves the others where they fit.
LEMMA FitsStep ==
    ASSUME RequestFits, NEW t \in Txns, req' = req, Fits(t)',
           \A u \in Txns \ {t} : pc'[u] = pc[u] /\ session'[u] = session[u]
    PROVE  RequestFits'
<1>1. \A u \in Txns : Fits(u)
  BY DEF RequestFits, Fits
<1>2. ASSUME NEW u \in Txns PROVE Fits(u)'
  <2>1. CASE u = t
    BY <2>1
  <2>2. CASE u # t
    <3>1. pc'[u] = pc[u] /\ session'[u] = session[u] /\ req'[u] = req[u] /\ Fits(u)
      BY <1>1, <2>2
    <3>. QED  BY <3>1 DEF Fits, LineAccepted
  <2>. QED  BY <2>1, <2>2
<1>. QED  BY <1>2 DEF RequestFits, Fits

\* Each step of a physical count keeps the types; the amount of its movement
\* is not negative.
LEMMA CountTyped ==
    ASSUME TypeInv, NEW t \in Txns,
           CountRead(t) \/ CountLock(t) \/ CountInsert(t) \/ CountSave(t)
    PROVE  TypeInv'
<1> DEFINE p == req[t].product
<1>1. p \in Products /\ req[t].quantity \in Nat /\ req[t] \in CountRequests
  BY DEF TypeInv, RequestFits, CountRead, CountLock, CountInsert, CountSave, CountRequests
<1>a. CASE CountRead(t)
  <2> DEFINE s == [session[t] EXCEPT !.snapshot = View(t), !.hasView = TRUE]
  <2>1. session[t] \in Sessions /\ session' = [session EXCEPT ![t] = s]
    BY <1>a DEF CountRead, TypeInv, TypeOK
  <2>2. s \in Sessions
    BY <2>1 DEF View, TypeInv, TypeOK, Sessions
  <2>3. TypeOK'
    BY <1>a, <2>1, <2>2 DEF CountRead, TypeInv, TypeOK, Goto, Labels
  <2>4. /\ pc'[t] = "count_lock" /\ req' = req
        /\ \A u \in Txns \ {t} : pc'[u] = pc[u] /\ session'[u] = session[u]
    BY <1>a, <2>1 DEF CountRead, TypeInv, TypeOK, Goto
  <2>5. Fits(t)'
    BY <1>1, <2>4 DEF Fits
  <2>. QED  BY <2>3, <2>4, <2>5, FitsStep DEF TypeInv
<1>2. CASE CountLock(t)
  <2>1. CASE quantity[p] = NONE
    <3>1. /\ UNCHANGED <<tables, locks, session, req, overtaken>> /\ pc'[t] = "count_insert"
          /\ pc' = [pc EXCEPT ![t] = "count_insert"]
          /\ \A u \in Txns \ {t} : pc'[u] = pc[u]
      BY <1>2, <2>1 DEF CountLock, TypeInv, TypeOK, Goto, locks
    <3>2. TypeOK'
      BY <3>1 DEF TypeInv, TypeOK, Labels, tables, locks
    <3>3. Fits(t)'
      BY <1>1, <3>1 DEF Fits
    <3>. QED  BY <3>1, <3>2, <3>3, FitsStep DEF TypeInv
  <2>2. CASE quantity[p] # NONE
    <3>1. quantity[p] \in Nat /\ session[t] \in Sessions
      BY <1>1, <2>2 DEF TypeInv, TypeOK, Balances
    <3>2. [session[t] EXCEPT !.before = quantity[p]] \in Sessions
      BY <3>1 DEF Sessions, Balances
    <3>3. TypeOK'
      BY <1>1, <1>2, <2>2, <3>2 DEF CountLock, TypeInv, TypeOK, LockRow, Goto, Labels
    <3>4. [session[t] EXCEPT !.before = quantity[p]].before = quantity[p]
      BY <3>1 DEF Sessions
    <3>5. RequestFits'
      <4>1. /\ pc'[t] = "count_save" /\ session'[t].before = quantity[p] /\ req' = req
            /\ \A u \in Txns \ {t} : pc'[u] = pc[u] /\ session'[u] = session[u]
        BY <1>1, <1>2, <2>2, <3>1, <3>4 DEF CountLock, TypeInv, TypeOK, Goto
      <4>2. Fits(t)'
        BY <1>1, <3>1, <4>1 DEF Fits
      <4>. QED  BY <4>1, <4>2, FitsStep DEF TypeInv
    <3>. QED  BY <3>3, <3>5 DEF TypeInv
  <2>. QED  BY <2>1, <2>2
<1>3. CASE CountInsert(t)
  <2>1. CASE Rollback(t, "failed")
    BY <2>1, RollbackTyped DEF Ended
  <2>2. CASE /\ LockRow(t, p)
             /\ session' = [session EXCEPT ![t].written[p] = 0, ![t].before = 0]
             /\ Goto(t, "count_save")
             /\ UNCHANGED <<tables, orderLock, req, overtaken>>
    <3> DEFINE s == [session[t] EXCEPT !.written[p] = 0, !.before = 0]
    <3>0. session[t] \in Sessions /\ session' = [session EXCEPT ![t] = s]
      BY <2>2 DEF TypeInv, TypeOK
    <3>1. s \in Sessions
      BY <1>1, <3>0 DEF Sessions, Balances
    <3>2. TypeOK'
      BY <1>1, <2>2, <3>0, <3>1 DEF TypeInv, TypeOK, LockRow, Goto, Labels
    <3>3. RequestFits'
      <4>1. /\ pc'[t] = "count_save" /\ session'[t] = s /\ req' = req
            /\ \A u \in Txns \ {t} : pc'[u] = pc[u] /\ session'[u] = session[u]
        BY <2>2, <3>0 DEF TypeInv, TypeOK, Goto
      <4>2. s.before = 0
        BY <3>0 DEF Sessions
      <4>3. Fits(t)'
        BY <1>1, <4>1, <4>2 DEF Fits
      <4>. QED  BY <4>1, <4>3, FitsStep DEF TypeInv
    <3>. QED  BY <3>2, <3>3 DEF TypeInv
  <2>. QED  BY <1>3, <2>1, <2>2 DEF CountInsert
<1>4. CASE CountSave(t)
  <2> DEFINE before == session[t].before
             difference == Difference(req[t].quantity, before)
             m == Movement(t, "ADJUSTMENT", IF difference > 0 THEN "IN" ELSE "OUT",
                           Amount(difference), before, req[t].quantity)
             event == [product |-> p, quantity |-> req[t].quantity, by |-> t]
             stored == PlainRead(t, p)
  <2>2. CASE Goto(t, "commit") /\ UNCHANGED <<tables, locks, req, session, overtaken>>
    BY <1>1, <2>2
       DEF TypeInv, TypeOK, RequestFits, Goto, Labels, LineAccepted
  <2>1. CASE Rollback(t, "failed")
    BY <2>1, RollbackTyped DEF Ended
  <2>3. CASE /\ session' = [session EXCEPT ![t] = [Saved(t, p, stored, m) EXCEPT !.events =
                    IF CrossedReorderLevel(p, before, req[t].quantity)
                    THEN {event} ELSE {}]]
             /\ Goto(t, "commit")
             /\ UNCHANGED <<tables, locks, req, overtaken>>
    <3>1. before \in Nat /\ session[t] \in Sessions
      BY <1>4 DEF CountSave, TypeInv, RequestFits, TypeOK
    <3>2. m \in Movements
      <4>1. Amount(difference) \in Nat
        BY <1>1, <3>1 DEF Amount, Difference
      <4>2. (IF difference > 0 THEN "IN" ELSE "OUT") \in Directions
        BY DEF Directions
      <4>. QED  BY <1>1, <3>1, <4>1, <4>2, MovementTyped
    <3>3. event \in Events
      BY <1>1 DEF Events
    <3> HIDE DEF m, event, stored
    <3>4. Saved(t, p, stored, m) \in Sessions
      BY <1>1, <3>1, <3>2, SavedTyped
    <3>5. [Saved(t, p, stored, m) EXCEPT !.events =
              IF CrossedReorderLevel(p, before, req[t].quantity)
              THEN {event} ELSE {}] \in Sessions
      BY <3>3, <3>4 DEF Sessions
    <3>6. TypeOK'
      BY <2>3, <3>5 DEF TypeInv, TypeOK, Goto, Labels
    <3>7. RequestFits'
      BY <1>1, <2>3 DEF TypeInv, TypeOK, RequestFits, Goto, LineAccepted
    <3>. QED  BY <3>6, <3>7 DEF TypeInv
  <2>. QED  BY <1>4, <2>1, <2>2, <2>3 DEF CountSave
<1>. QED  BY <1>a, <1>2, <1>3, <1>4

\* The head of a session's lines, while there is one.
LEMMA HeadTyped ==
    ASSUME TypeOK, NEW t \in Txns, session[t].todo # <<>>
    PROVE  /\ Head(session[t].todo) \in Lines
           /\ Head(session[t].todo).item \in Items
           /\ Head(session[t].todo).quantity \in Nat \ {0}
           /\ ProductOf[Head(session[t].todo).item] \in Products
           /\ Tail(session[t].todo) \in Seq(Lines)
<1>1. session[t].todo \in Seq(Lines)
  BY DEF TypeOK, Sessions
<1>2. Head(session[t].todo) \in Lines /\ Tail(session[t].todo) \in Seq(Lines)
  BY <1>1
<1>. QED  BY <1>2, ConstantsAssumption DEF Lines

\* The locking read of a delivery keeps the types.
LEMMA ReceiveLockTyped ==
    ASSUME TypeInv, NEW t \in Txns, ReceiveLock(t)
    PROVE  TypeInv'
<1> DEFINE o == req[t].order
           s == [session[t] EXCEPT !.received = received, !.status = status[o],
                                   !.todo = req[t].lines]
<1>1. CASE Rollback(t, "rejected")
  BY <1>1, RollbackTyped DEF Ended
<1>2. CASE /\ status[o] \notin {"RECEIVED", "CANCELLED", "DRAFT"}
           /\ orderLock' = [orderLock EXCEPT ![o] = t]
           /\ session' = [session EXCEPT ![t].received = received,
                                         ![t].status = status[o],
                                         ![t].todo = req[t].lines]
           /\ Goto(t, "receive_line")
           /\ UNCHANGED <<tables, rowLock, req, overtaken>>
  <2>1. /\ session[t] \in Sessions /\ o \in Orders /\ status[o] \in Statuses
        /\ req[t].lines \in Seq(Lines) /\ req[t] \in ReceiveRequests
    BY DEF TypeInv, TypeOK, RequestFits, ReceiveLock, ReceiveRequests
  <2>2. s \in Sessions /\ s.status = status[o] /\ session' = [session EXCEPT ![t] = s]
    BY <1>2, <2>1 DEF TypeInv, TypeOK, Sessions
  <2>3. TypeOK'
    BY <1>2, <2>1, <2>2 DEF TypeInv, TypeOK, Goto, Labels
  <2>4. RequestFits'
    <3>1. /\ pc'[t] = "receive_line" /\ req' = req
          /\ \A u \in Txns \ {t} : pc'[u] = pc[u] /\ session'[u] = session[u]
      BY <1>2, <2>2 DEF TypeInv, TypeOK, Goto
    <3>2. session'[t].status = status[o] /\ status[o] # "RECEIVED"
      BY <1>2, <2>1, <2>2 DEF TypeInv, TypeOK
    <3>3. Fits(t)'
      BY <2>1, <3>1, <3>2 DEF Fits
    <3>. QED  BY <3>1, <3>3, FitsStep DEF TypeInv
  <2>. QED  BY <2>3, <2>4 DEF TypeInv
<1>. QED  BY <1>1, <1>2 DEF ReceiveLock

\* The checks of a line and the read of its stock row keep the types.
LEMMA ReceiveLineTyped ==
    ASSUME TypeInv, NEW t \in Txns, ReceiveLine(t)
    PROVE  TypeInv'
<1> DEFINE p == ProductOf[Head(session[t].todo).item]
           s == [session[t] EXCEPT !.snapshot = View(t), !.hasView = TRUE,
                                   !.before = PlainRead(t, p)]
<1>1. CASE Rollback(t, "rejected")
  BY <1>1, RollbackTyped DEF Ended
<1>2. CASE /\ LineAccepted(t)
           /\ session' = [session EXCEPT ![t].snapshot = View(t),
                                         ![t].hasView = TRUE,
                                         ![t].before = PlainRead(t, p)]
           /\ Goto(t, "receive_save")
           /\ UNCHANGED <<tables, locks, req, overtaken>>
  <2>1. /\ session[t] \in Sessions /\ p \in Products /\ session[t].todo # <<>>
        /\ pc[t] = "receive_line"
    BY HeadTyped DEF TypeInv, TypeOK, ReceiveLine
  <2>2. View(t) \in [Products -> Balances] /\ PlainRead(t, p) \in Balances
    BY <2>1 DEF View, PlainRead, TypeInv, TypeOK, Sessions
  <2>3. /\ s \in Sessions /\ s.status = session[t].status /\ s.todo = session[t].todo
        /\ s.submitted = session[t].submitted /\ s.received = session[t].received
        /\ session' = [session EXCEPT ![t] = s]
    BY <1>2, <2>1, <2>2 DEF TypeInv, TypeOK, Sessions
  <2>4. TypeOK'
    BY <1>2, <2>1, <2>3 DEF TypeInv, TypeOK, Goto, Labels
  <2>5. RequestFits'
    <3>1. /\ pc'[t] = "receive_save" /\ session'[t] = s /\ req' = req
          /\ \A u \in Txns \ {t} : pc'[u] = pc[u] /\ session'[u] = session[u]
      BY <1>2, <2>1, <2>3 DEF TypeInv, TypeOK, Goto
    <3>2. req[t] \in ReceiveRequests /\ session[t].status \in Statuses \ {"RECEIVED"}
      BY <2>1 DEF TypeInv, RequestFits
    <3> HIDE DEF s
    <3>3. LineAccepted(t)' /\ session'[t].todo # <<>>
      BY <1>2, <2>1, <2>3, <3>1 DEF LineAccepted
    <3>4. Fits(t)'
      BY <2>3, <3>1, <3>2, <3>3 DEF Fits
    <3>. QED  BY <3>1, <3>4, FitsStep DEF TypeInv
  <2>. QED  BY <2>4, <2>5 DEF TypeInv
<1>. QED  BY <1>1, <1>2 DEF ReceiveLine

\* The delivery at hand: its line, its product, its movement and what the session
\* becomes when they are saved.
Delivered(t, line, p, m) ==
    [Saved(t, p, session[t].before, m) EXCEPT
        !.received[line.item] = @ + line.quantity,
        !.submitted = @ \cup {line.item},
        !.todo = Tail(@)]

\* A delivery that is saved writes one receipt, from the balance it has read, for
\* the product of its line.
LEMMA ReceiptTyped ==
    ASSUME TypeInv, NEW t \in Txns, ReceiveSave(t),
           ~Rollback(t, "failed")
    PROVE  \E p \in Products, m \in Movements :
              /\ p = ProductOf[Head(session[t].todo).item]
              /\ m.type = "RECEIPT" /\ m.by = t /\ m.after # session[t].before
              /\ RowFree(t, p) /\ LockRow(t, p)
              /\ Goto(t, "receive_line")
              /\ session' = [session EXCEPT ![t] =
                                Delivered(t, Head(session[t].todo), p, m)]
              /\ UNCHANGED <<tables, orderLock, req, overtaken>>
<1> DEFINE line == Head(session[t].todo)
           p == ProductOf[line.item]
           before == session[t].before
           from == IF before = NONE THEN 0 ELSE before
           m == Movement(t, "RECEIPT", "IN", line.quantity, from, from + line.quantity)
<1>1. session[t].todo # <<>> /\ session[t] \in Sessions
  BY DEF TypeInv, TypeOK, RequestFits, ReceiveSave
<1>2. line.quantity \in Nat \ {0} /\ p \in Products /\ from \in Nat
  BY <1>1, HeadTyped DEF TypeInv, Sessions, Balances
<1>3. m \in Movements /\ m.type = "RECEIPT" /\ m.by = t /\ m.after # before
  <2>0. from + line.quantity # before
    BY <1>2, NoneAssumption
  <2> HIDE DEF from, line
  <2>1. from + line.quantity \in Nat /\ "IN" \in Directions
    BY <1>2 DEF Directions
  <2>. QED  BY <1>2, <2>0, <2>1, MovementTyped DEF Movement
<1>4. /\ RowFree(t, p) /\ LockRow(t, p) /\ Goto(t, "receive_line")
      /\ session' = [session EXCEPT ![t] = Delivered(t, line, p, m)]
      /\ UNCHANGED <<tables, orderLock, req, overtaken>>
  BY DEF ReceiveSave, Delivered
<1> HIDE DEF m, p
<1>. QED  BY <1>2, <1>3, <1>4 DEF p

\* Saving a delivery keeps the session a session, and adds the line to it.
LEMMA DeliveredTyped ==
    ASSUME TypeOK, NEW t \in Txns, session[t].todo # <<>>,
           NEW p \in Products, NEW m \in Movements
    PROVE  LET line == Head(session[t].todo)
               s == Delivered(t, line, p, m)
           IN /\ s \in Sessions
              /\ s.status = session[t].status
              /\ s.written = Saved(t, p, session[t].before, m).written
              /\ s.movements = Saved(t, p, session[t].before, m).movements
              /\ s.submitted = session[t].submitted \cup {line.item}
              /\ s.received = [session[t].received EXCEPT ![line.item] =
                                    @ + line.quantity]
<1> DEFINE line == Head(session[t].todo)
           saved == Saved(t, p, session[t].before, m)
           got == [saved.received EXCEPT ![line.item] = @ + line.quantity]
           done == saved.submitted \cup {line.item}
           rest == Tail(saved.todo)
<1>1. /\ session[t] \in Sessions /\ saved \in Sessions
      /\ line.item \in Items /\ line.quantity \in Nat
      /\ Tail(session[t].todo) \in Seq(Lines)
  BY HeadTyped, SavedTyped DEF TypeOK
<1>2. /\ saved.todo = session[t].todo /\ saved.status = session[t].status
      /\ saved.submitted = session[t].submitted
      /\ saved.received = session[t].received
  BY <1>1 DEF Saved, Sessions
<1>3. Delivered(t, line, p, m) =
          [saved EXCEPT !.received = got, !.submitted = done, !.todo = rest]
  BY <1>1 DEF Delivered, Sessions
<1> HIDE DEF saved, line
<1>4. got \in [Items -> Nat] /\ done \in SUBSET Items /\ rest \in Seq(Lines)
  BY <1>1, <1>2 DEF Sessions
<1> HIDE DEF got, done, rest
<1>5. Delivered(t, line, p, m) \in Sessions
  BY <1>1, <1>2, <1>3, <1>4 DEF Sessions
<1>6. /\ Delivered(t, line, p, m).status = saved.status
      /\ Delivered(t, line, p, m).written = saved.written
      /\ Delivered(t, line, p, m).movements = saved.movements
      /\ Delivered(t, line, p, m).submitted = done
      /\ Delivered(t, line, p, m).received = got
  BY <1>1, <1>3 DEF Sessions
<1>. QED  BY <1>2, <1>5, <1>6 DEF saved, line, got, done

\* Saving a line of a delivery keeps the types.
LEMMA ReceiveSaveTyped ==
    ASSUME TypeInv, NEW t \in Txns, ReceiveSave(t)
    PROVE  TypeInv'
<1>1. CASE Rollback(t, "failed")
  BY <1>1, RollbackTyped DEF Ended
<1>2. CASE ~Rollback(t, "failed")
  <2> DEFINE line == Head(session[t].todo)
  <2>1. PICK p \in Products, m \in Movements :
          /\ LockRow(t, p) /\ Goto(t, "receive_line")
          /\ session' = [session EXCEPT ![t] = Delivered(t, line, p, m)]
          /\ UNCHANGED <<tables, orderLock, req, overtaken>>
    BY <1>2, ReceiptTyped
  <2> DEFINE s == Delivered(t, line, p, m)
  <2>2. session[t].todo # <<>> /\ pc[t] = "receive_save"
    BY DEF TypeInv, RequestFits, ReceiveSave
  <2>3. s \in Sessions /\ s.status = session[t].status
    BY <2>2, DeliveredTyped DEF TypeInv
  <2> HIDE DEF s, line
  <2>4. session' = [session EXCEPT ![t] = s]
    BY <2>1 DEF s
  <2>5. TypeOK'
    BY <2>1, <2>3, <2>4 DEF TypeInv, TypeOK, LockRow, Goto, Labels
  <2>6. RequestFits'
    BY <2>1, <2>2, <2>3, <2>4 DEF TypeInv, TypeOK, RequestFits, Goto, LineAccepted
  <2>. QED  BY <2>5, <2>6 DEF TypeInv
<1>. QED  BY <1>1, <1>2

\* The last step of a delivery before its commit keeps the types.
LEMMA ReceiveFinishTyped ==
    ASSUME TypeInv, NEW t \in Txns, ReceiveFinish(t)
    PROVE  TypeInv'
<1> DEFINE s == [session[t] EXCEPT !.status = IF FullyReceived(t) THEN "RECEIVED" ELSE @]
<1>1. session[t] \in Sessions /\ session' = [session EXCEPT ![t] = s]
  BY DEF ReceiveFinish, TypeInv, TypeOK
<1>2. s \in Sessions
  BY <1>1 DEF Sessions, Statuses
<1>3. TypeOK'
  BY <1>1, <1>2 DEF ReceiveFinish, TypeInv, TypeOK, Goto, Labels
<1>4. RequestFits'
  BY <1>1 DEF ReceiveFinish, TypeInv, TypeOK, RequestFits, Goto, LineAccepted
<1>. QED  BY <1>3, <1>4 DEF TypeInv

\* Both steps of a header edit keep the types.
LEMMA EditTyped ==
    ASSUME TypeInv, NEW t \in Txns, EditLoad(t) \/ EditSave(t)
    PROVE  TypeInv'
<1> DEFINE o == req[t].order
           s == [session[t] EXCEPT !.status = status[o]]
<1>1. o \in Orders /\ session[t] \in Sessions /\ status[o] \in Statuses
      /\ req[t] \in EditRequests
  BY DEF TypeInv, TypeOK, RequestFits, EditLoad, EditSave, EditRequests
<1>2. CASE EditLoad(t)
  <2>1. CASE Rollback(t, "rejected")
    BY <2>1, RollbackTyped DEF Ended
  <2>2. CASE /\ status[o] \notin {"RECEIVED", "CANCELLED"}
             /\ session' = [session EXCEPT ![t].status = status[o]]
             /\ Goto(t, "edit_save")
             /\ UNCHANGED <<tables, locks, req, overtaken>>
    <3>1. s \in Sessions /\ s.status = status[o] /\ session' = [session EXCEPT ![t] = s]
      BY <1>1, <2>2 DEF Sessions
    <3>2. TypeOK'
      BY <2>2, <3>1 DEF TypeInv, TypeOK, Goto, Labels
    <3>3. RequestFits'
      BY <1>1, <2>2, <3>1 DEF TypeInv, TypeOK, RequestFits, Goto, LineAccepted
    <3>. QED  BY <3>2, <3>3 DEF TypeInv
  <2>. QED  BY <1>2, <2>1, <2>2 DEF EditLoad
<1>3. CASE EditSave(t)
  <2>1. session[t].status \in Statuses
    BY <1>3 DEF EditSave, TypeInv, RequestFits
  <2>2. TypeOK'
    BY <1>3, <2>1, EmptySessionTyped
       DEF EditSave, TypeInv, TypeOK, Goto, Labels, Ended
  <2>3. RequestFits'
    BY <1>3 DEF EditSave, TypeInv, TypeOK, RequestFits, Goto, LineAccepted
  <2>. QED  BY <2>2, <2>3 DEF TypeInv
<1>. QED  BY <1>2, <1>3

\* A transaction that commits while it holds an order has loaded its status.
CommitFits == \A t \in Txns, o \in Orders :
    pc[t] = "commit" /\ orderLock[o] = t => session[t].status \in Statuses

\* A commit keeps the types of the tables, if what the session holds fits
\* them.
LEMMA CommitTyped ==
    ASSUME TypeInv, CommitFits, NEW t \in Txns, Commit(t)
    PROVE  TypeInv'
<1>1. session[t] \in Sessions
  BY DEF TypeInv, TypeOK
<1>2. quantity' \in [Products -> Balances] /\ ledger' \in [Products -> Seq(Movements)]
  BY <1>1 DEF Commit, TypeInv, TypeOK, Sessions
<1>3. received' \in [Items -> Nat] /\ outbox' \subseteq Events
  BY <1>1 DEF Commit, TypeInv, TypeOK, Sessions
<1>4. status' \in [Orders -> Statuses]
  BY DEF Commit, TypeInv, TypeOK, CommitFits
<1>5. TypeOK'
  BY <1>2, <1>3, <1>4, EmptySessionTyped
     DEF Commit, Release, Overtakes, TypeInv, TypeOK, Goto, Labels, Ended
<1>6. RequestFits'
  BY DEF Commit, TypeInv, TypeOK, RequestFits, Goto, LineAccepted
<1>. QED  BY <1>5, <1>6 DEF TypeInv

\* Every step keeps the types, if what the committing sessions hold fits.
LEMMA StepTyped == TypeInv /\ CommitFits /\ [Next]_vars => TypeInv'
<1> SUFFICES ASSUME TypeInv, CommitFits, [Next]_vars PROVE TypeInv'
  OBVIOUS
<1>1. ASSUME NEW t \in Txns, Begin(t) \/ Handle(t) \/ DeadlockVictim(t) \/ Fail(t)
      PROVE  TypeInv'
  <2>1. CASE DeadlockVictim(t) \/ Fail(t)
    BY <2>1, RollbackTyped DEF DeadlockVictim, Fail, Ended
  <2>. QED
    BY <1>1, <2>1, BeginTyped, CreateTyped, CountTyped, ReceiveLockTyped,
       ReceiveLineTyped, ReceiveSaveTyped, ReceiveFinishTyped, EditTyped, CommitTyped
       DEF Handle
<1>2. CASE UNCHANGED vars
  BY <1>2 DEF vars, TypeInv, TypeOK, RequestFits, LineAccepted
<1>. QED  BY <1>1, <1>2 DEF Next, Quiescent

-----------------------------------------------------------------------------
(* Receiving purchase orders                                               *)

ReceivingPart == OrdersHeld /\ ItemsAgree /\ ReceivedWithinOrder

\* The invariant of deliveries contains what typing needs.
LEMMA ReceivingGivesFit == ReceivingInv => TypeInv /\ CommitFits
  BY DEF ReceivingInv, TypeInv, OrdersHeld, ItemsAgree, CommitFits

\* Seeded orders are within their request and nobody holds one.
LEMMA InitReceiving == Init => ReceivingPart
<1> SUFFICES ASSUME Init PROVE ReceivingPart
  OBVIOUS
<1>1. OrdersHeld /\ ItemsAgree
  BY NoneAssumption DEF Init, OrdersHeld, ItemsAgree, Receiving, EmptySession
<1>2. \A i \in Items : SeedReceived(i) <= Requested[i]
  BY ConstantsAssumption DEF SeedReceived
<1>3. ASSUME NEW o \in Orders, SeedStatus[o] = "RECEIVED", NEW i \in ItemsOf(o)
      PROVE  SeedReceived(i) >= Requested[i]
  BY <1>3, ConstantsAssumption DEF SeedReceived, ItemsOf
<1>4. ReceivedWithinOrder
  BY <1>2, <1>3 DEF Init, ReceivedWithinOrder, ItemsOf
<1>. QED  BY <1>1, <1>4 DEF ReceivingPart

\* Steps of a request that is not receiving and does not start to.
LEMMA NotReceivingStep ==
    ASSUME ReceivingInv, NEW t \in Txns, UNCHANGED <<received, status, orderLock>>,
           \A u \in Txns \ {t} : /\ pc'[u] = pc[u] /\ req'[u] = req[u]
                                 /\ session'[u] = session[u],
           ~Receiving(t), ~Receiving(t)', session'[t].submitted = session[t].submitted
    PROVE  ReceivingPart'
<1>1. OrdersHeld'
  BY DEF ReceivingInv, OrdersHeld, Receiving
<1>2. ItemsAgree'
  BY DEF ReceivingInv, ItemsAgree, Receiving, FullyReceived
<1>3. ReceivedWithinOrder'
  BY DEF ReceivingInv, ReceivedWithinOrder
<1>. QED  BY <1>1, <1>2, <1>3 DEF ReceivingPart

\* A rollback gives the order back and leaves its items as they were.
LEMMA RollbackReceiving ==
    ASSUME ReceivingInv, NEW t \in Txns, NEW answer \in Ended, Rollback(t, answer)
    PROVE  ReceivingPart'
<1>1. /\ \A u \in Txns \ {t} : /\ pc'[u] = pc[u] /\ req'[u] = req[u]
                               /\ session'[u] = session[u]
      /\ pc'[t] = answer /\ session'[t] = EmptySession
  BY DEF ReceivingInv, TypeOK, Rollback, Goto
<1>2. ~Receiving(t)'
  BY <1>1 DEF Receiving, Ended
<1>3. OrdersHeld'
  BY <1>1, <1>2, NoneAssumption
     DEF ReceivingInv, TypeOK, OrdersHeld, Rollback, Release, Receiving
<1>4. ItemsAgree'
  BY <1>1, <1>2 DEF ReceivingInv, ItemsAgree, Rollback, Receiving, FullyReceived, EmptySession
<1>5. ReceivedWithinOrder'
  BY DEF ReceivingInv, ReceivedWithinOrder, Rollback
<1>. QED  BY <1>3, <1>4, <1>5 DEF ReceivingPart

\* A request that arrives holds no order.
LEMMA BeginReceiving ==
    ASSUME ReceivingInv, NEW t \in Txns, Begin(t)
    PROVE  ReceivingPart'
<1>1. PICK r \in Requests : req' = [req EXCEPT ![t] = r] /\ Goto(t, FirstStep[r.op])
  BY DEF Begin
<1>2. FirstStep[r.op] \in {"create_check", "count_read", "receive_lock", "edit_load"}
  BY ConstantsAssumption
     DEF FirstStep, CreateRequests, CountRequests, ReceiveRequests, EditRequests
<1>3. ~Receiving(t) /\ ~Receiving(t)'
  BY <1>1, <1>2 DEF ReceivingInv, TypeOK, Begin, Receiving, Goto
<1>. QED
  BY <1>1, <1>3, NotReceivingStep DEF ReceivingInv, TypeOK, Begin, Goto

\* Initial stocks and counts do not touch orders.
LEMMA StockStepReceiving ==
    ASSUME ReceivingInv, NEW t \in Txns,
           \/ CreateCheck(t) \/ CreateSave(t)
           \/ CountRead(t) \/ CountLock(t) \/ CountInsert(t) \/ CountSave(t)
    PROVE  ReceivingPart'
<1>1. CASE \E answer \in Ended : Rollback(t, answer)
  BY <1>1, RollbackReceiving
<1>2. CASE ~ \E answer \in Ended : Rollback(t, answer)
  <2>1. \/ pc[t] \in {"create_check", "create_save"} /\ req[t].op = "create"
        \/ /\ pc[t] \in {"count_read", "count_lock", "count_insert", "count_save"}
           /\ req[t].op = "count"
    BY DEF ReceivingInv, RequestFits, CreateCheck, CreateSave, CountRead, CountLock,
           CountInsert, CountSave, CreateRequests, CountRequests
  <2>2. /\ UNCHANGED <<received, status, orderLock, req>>
        /\ \E label \in {"create_save", "count_lock", "count_insert", "count_save",
                          "commit"} :
                Goto(t, label)
        /\ \A u \in Txns \ {t} : session'[u] = session[u]
        /\ session'[t].submitted = session[t].submitted
    <3>0. session \in [Txns -> Sessions] /\ session[t] \in Sessions
      BY DEF ReceivingInv, TypeOK
    <3>1. CASE CreateCheck(t)
      BY <1>2, <3>1 DEF CreateCheck, Ended
    <3>2. CASE CreateSave(t)
      <4>1. PICK m : session' = [session EXCEPT ![t] = Saved(t, req[t].product, NONE, m)]
        BY <1>2, <3>2 DEF CreateSave, Ended
      <4>2. UNCHANGED <<received, status, orderLock, req>> /\ Goto(t, "commit")
        BY <1>2, <3>2 DEF CreateSave, Ended
      <4>. QED  BY <3>0, <4>1, <4>2, SavedKeeps
    <3>a. CASE CountRead(t)
      BY <3>0, <3>a DEF CountRead, Sessions
    <3>3. CASE CountLock(t)
      BY <3>0, <3>3 DEF CountLock, Sessions
    <3>4. CASE CountInsert(t)
      BY <1>2, <3>0, <3>4 DEF CountInsert, Ended, Sessions
    <3>5. CASE CountSave(t)
      <4>1. CASE session' = session
        BY <1>2, <3>5, <4>1 DEF CountSave, Ended
      <4>2. CASE session' # session
        <5>1. PICK stored, m, e : session' = [session EXCEPT ![t] =
                                [Saved(t, req[t].product, stored, m) EXCEPT !.events = e]]
          BY <1>2, <3>5, <4>2 DEF CountSave, Ended
        <5>2. UNCHANGED <<received, status, orderLock, req>> /\ Goto(t, "commit")
          BY <1>2, <3>5, <4>2 DEF CountSave, Ended
        <5>. QED  BY <3>0, <5>1, <5>2, SavedKeeps
      <4>. QED  BY <4>1, <4>2
    <3>. QED  BY <3>1, <3>2, <3>a, <3>3, <3>4, <3>5
  <2>3. ~Receiving(t) /\ ~Receiving(t)'
    BY <2>1, <2>2 DEF ReceivingInv, TypeOK, Receiving, Goto
  <2>. QED
    BY <2>2, <2>3, NotReceivingStep DEF ReceivingInv, TypeOK, Goto
<1>. QED  BY <1>1, <1>2

\* A header edit waits for the lock of the order and saves a status that is
\* not RECEIVED.
LEMMA EditReceiving ==
    ASSUME ReceivingInv, NEW t \in Txns, EditLoad(t) \/ EditSave(t)
    PROVE  ReceivingPart'
<1>0. session[t] \in Sessions /\ req[t].order \in Orders /\ req[t].op = "edit"
  BY DEF ReceivingInv, TypeOK, RequestFits, EditLoad, EditSave, EditRequests
<1>1. CASE Rollback(t, "rejected")
  BY <1>1, RollbackReceiving DEF Ended
<1>2. CASE EditLoad(t) /\ ~Rollback(t, "rejected")
  <2>1. /\ UNCHANGED <<received, status, orderLock, req>>
        /\ \A u \in Txns \ {t} : session'[u] = session[u] /\ pc'[u] = pc[u]
        /\ session'[t].submitted = session[t].submitted
        /\ pc'[t] = "edit_save"
    BY <1>0, <1>2 DEF EditLoad, ReceivingInv, TypeOK, Sessions, Goto
  <2>2. ~Receiving(t) /\ ~Receiving(t)'
    BY <1>2, <2>1 DEF EditLoad, Receiving
  <2>. QED  BY <2>1, <2>2, NotReceivingStep
<1>3. CASE EditSave(t)
  <2> DEFINE o == req[t].order
  <2>1. /\ \A u \in Txns \ {t} : session'[u] = session[u] /\ pc'[u] = pc[u]
        /\ session'[t] = EmptySession /\ pc'[t] = "committed"
        /\ UNCHANGED <<received, orderLock, req>>
        /\ \A x \in Orders : status'[x] = IF x = o THEN session[t].status ELSE status[x]
        /\ session[t].status # "RECEIVED"
    BY <1>3 DEF EditSave, ReceivingInv, TypeOK, RequestFits, Goto
  <2>2. ~Receiving(t) /\ ~Receiving(t)'
    BY <1>3, <2>1 DEF EditSave, Receiving
  <2>3. OrdersHeld'
    BY <2>1, <2>2 DEF ReceivingInv, OrdersHeld, Receiving
  <2>4. ItemsAgree'
    BY <2>1, <2>2 DEF ReceivingInv, ItemsAgree, Receiving, FullyReceived, EmptySession
  <2>5. ReceivedWithinOrder'
    BY <2>1 DEF ReceivingInv, ReceivedWithinOrder
  <2>. QED  BY <2>3, <2>4, <2>5 DEF ReceivingPart
<1>. QED  BY <1>1, <1>2, <1>3

\* The locking read loads the items of the order as they are in the table.
LEMMA ReceiveLockReceiving ==
    ASSUME ReceivingInv, NEW t \in Txns, ReceiveLock(t)
    PROVE  ReceivingPart'
<1> DEFINE o == req[t].order
<1>1. CASE Rollback(t, "rejected")
  BY <1>1, RollbackReceiving DEF Ended
<1>2. CASE ~Rollback(t, "rejected")
  <2>0. session[t] \in Sessions /\ o \in Orders /\ req[t].op = "receive" /\ ~Receiving(t)
    BY DEF ReceivingInv, TypeOK, RequestFits, ReceiveLock, ReceiveRequests, Receiving
  <2>1. /\ UNCHANGED <<received, status, req>>
        /\ orderLock[o] = NONE
        /\ \A x \in Orders : orderLock'[x] = IF x = o THEN t ELSE orderLock[x]
        /\ \A u \in Txns \ {t} : session'[u] = session[u] /\ pc'[u] = pc[u]
        /\ session'[t].submitted = session[t].submitted
        /\ session'[t].received = received
        /\ session'[t].status = status[o]
        /\ status[o] \in Statuses \ {"RECEIVED"}
        /\ pc'[t] = "receive_line"
    BY <1>2, <2>0 DEF ReceiveLock, OrderFree, ReceivingInv, TypeOK, Sessions, Goto
  <2>2. Receiving(t)' /\ \A u \in Txns \ {t} : Receiving(u)' <=> Receiving(u)
    BY <2>1 DEF Receiving
  <2>3. OrdersHeld'
    BY <2>0, <2>1, <2>2, NoneAssumption DEF ReceivingInv, OrdersHeld
  <2>4. session[t].submitted = {}
    BY <2>0 DEF ReceivingInv, ItemsAgree
  <2>5. \A i \in ItemsOf(o) : received[i] <= Requested[i] /\ received[i] \in Nat
    BY DEF ItemsOf, ReceivingInv, ReceivedWithinOrder, TypeOK
  <2>6. ItemsAgree'
    BY <2>1, <2>2, <2>4, <2>5 DEF ReceivingInv, ItemsAgree, FullyReceived
  <2>7. ReceivedWithinOrder'
    BY <2>1 DEF ReceivingInv, ReceivedWithinOrder
  <2>. QED  BY <2>3, <2>6, <2>7 DEF ReceivingPart
<1>. QED  BY <1>1, <1>2

\* Steps of a delivery that change its session alone.
LEMMA ReceivingStep ==
    ASSUME ReceivingInv, NEW t \in Txns, UNCHANGED <<received, status, orderLock, req>>,
           \A u \in Txns \ {t} : pc'[u] = pc[u] /\ session'[u] = session[u],
           Receiving(t), Receiving(t)',
           /\ session'[t].submitted \subseteq ItemsOf(req[t].order)
           /\ \A i \in ItemsOf(req[t].order) :
                /\ session'[t].received[i] <= Requested[i]
                /\ session'[t].received[i] >= received[i]
                /\ i \notin session'[t].submitted =>
                        session'[t].received[i] = received[i]
           /\ session'[t].status \in Statuses
           /\ session'[t].status = "RECEIVED" => FullyReceived(t)'
    PROVE  ReceivingPart'
<1>0. \A u \in Txns : Receiving(u)' <=> Receiving(u)
  BY DEF Receiving
<1>1. OrdersHeld'
  BY <1>0 DEF ReceivingInv, OrdersHeld
<1>2. ItemsAgree'
  BY <1>0 DEF ReceivingInv, ItemsAgree, FullyReceived
<1>3. ReceivedWithinOrder'
  BY DEF ReceivingInv, ReceivedWithinOrder
<1>. QED  BY <1>1, <1>2, <1>3 DEF ReceivingPart

\* The checks of a line change no quantity.
LEMMA ReceiveLineReceiving ==
    ASSUME ReceivingInv, NEW t \in Txns, ReceiveLine(t)
    PROVE  ReceivingPart'
<1>1. CASE Rollback(t, "rejected")
  BY <1>1, RollbackReceiving DEF Ended
<1>2. CASE ~Rollback(t, "rejected")
  <2>0. session[t] \in Sessions /\ Receiving(t)
    BY DEF ReceivingInv, TypeOK, ReceiveLine, Receiving
  <2>1. /\ UNCHANGED <<received, status, orderLock, req>>
        /\ \A u \in Txns \ {t} : session'[u] = session[u] /\ pc'[u] = pc[u]
        /\ session'[t].submitted = session[t].submitted
        /\ session'[t].received = session[t].received
        /\ session'[t].status = session[t].status
        /\ pc'[t] = "receive_save"
    BY <1>2, <2>0 DEF ReceiveLine, ReceivingInv, TypeOK, Sessions, Goto
  <2>2. Receiving(t)'
    BY <2>1 DEF Receiving
  <2>. QED
    BY <2>0, <2>1, <2>2, ReceivingStep DEF ReceivingInv, ItemsAgree, FullyReceived
<1>. QED  BY <1>1, <1>2

\* A saved line raises its item, once, and within the request.
LEMMA ReceiveSaveReceiving ==
    ASSUME ReceivingInv, NEW t \in Txns, ReceiveSave(t)
    PROVE  ReceivingPart'
<1> DEFINE line == Head(session[t].todo)
           i == line.item
<1>1. CASE Rollback(t, "failed")
  BY <1>1, RollbackReceiving DEF Ended
<1>2. CASE ~Rollback(t, "failed")
  <2>0. /\ session[t] \in Sessions /\ Receiving(t) /\ LineAccepted(t)
        /\ session[t].todo # <<>>
        /\ i \in Items /\ line.quantity \in Nat \ {0}
        /\ session[t].status # "RECEIVED"
    BY HeadTyped DEF ReceivingInv, TypeOK, RequestFits, ReceiveSave, Receiving
  <2>1. PICK p \in Products, m \in Movements :
          /\ Goto(t, "receive_line")
          /\ session' = [session EXCEPT ![t] = Delivered(t, line, p, m)]
          /\ UNCHANGED <<tables, orderLock, req, overtaken>>
    BY <1>2, ReceiptTyped, ReceivingGivesFit
  <2>a. TypeOK
    BY DEF ReceivingInv
  <2>b. /\ Delivered(t, line, p, m).submitted = session[t].submitted \cup {i}
        /\ Delivered(t, line, p, m).received =
                [session[t].received EXCEPT ![i] = @ + line.quantity]
        /\ Delivered(t, line, p, m).status = session[t].status
    BY <2>0, <2>a, DeliveredTyped
  <2> HIDE DEF i, line
  <2>2. /\ UNCHANGED <<received, status, orderLock, req>>
        /\ \A u \in Txns \ {t} : session'[u] = session[u] /\ pc'[u] = pc[u]
        /\ pc'[t] = "receive_line"
        /\ session'[t] = Delivered(t, line, p, m)
    BY <2>1 DEF ReceivingInv, TypeOK, Goto
  <2>3. /\ session'[t].submitted = session[t].submitted \cup {i}
        /\ session'[t].received =
                [session[t].received EXCEPT ![i] = @ + line.quantity]
        /\ session'[t].status = session[t].status
    BY <2>2, <2>b
  <2>4. /\ i \in ItemsOf(req[t].order)
        /\ session[t].received[i] + line.quantity <= Requested[i]
    BY <2>0 DEF LineAccepted, ItemsOf, i, line
  <2>5. /\ session[t].received \in [Items -> Nat] /\ received \in [Items -> Nat]
        /\ Requested \in [Items -> Nat]
        /\ ItemsOf(req[t].order) \subseteq Items
    BY <2>0, ConstantsAssumption DEF Sessions, ReceivingInv, TypeOK, ItemsOf
  <2>6. ASSUME NEW j \in ItemsOf(req[t].order)
        PROVE  /\ session'[t].received[j] <= Requested[j]
               /\ session'[t].received[j] >= received[j]
               /\ j \notin session'[t].submitted => session'[t].received[j] = received[j]
    <3>1. /\ session[t].received[j] <= Requested[j]
          /\ session[t].received[j] >= received[j]
          /\ j \notin session[t].submitted => session[t].received[j] = received[j]
      BY <2>0 DEF ReceivingInv, ItemsAgree
    <3>2. CASE j = i
      BY <2>0, <2>3, <2>4, <2>5, <3>1, <3>2
    <3>3. CASE j # i
      BY <2>3, <2>5, <3>1, <3>3
    <3>. QED  BY <3>2, <3>3
  <2>7. session'[t].status \in Statuses /\ session'[t].status # "RECEIVED"
    BY <2>0, <2>3 DEF ReceivingInv, ItemsAgree
  <2>8. session'[t].submitted \subseteq ItemsOf(req[t].order)
    BY <2>0, <2>3, <2>4 DEF ReceivingInv, ItemsAgree
  <2>9. Receiving(t)'
    BY <2>2 DEF Receiving
  <2>. QED
    BY <2>0, <2>2, <2>6, <2>7, <2>8, <2>9, ReceivingStep
<1>. QED  BY <1>1, <1>2

\* The order becomes RECEIVED only when every item is complete.
LEMMA ReceiveFinishReceiving ==
    ASSUME ReceivingInv, NEW t \in Txns, ReceiveFinish(t)
    PROVE  ReceivingPart'
<1>0. session[t] \in Sessions /\ Receiving(t) /\ req[t].op = "receive"
  BY DEF ReceivingInv, TypeOK, RequestFits, ReceiveFinish, Receiving, ReceiveRequests
<1>1. /\ UNCHANGED <<received, status, orderLock, req>>
      /\ \A u \in Txns \ {t} : session'[u] = session[u] /\ pc'[u] = pc[u]
      /\ session'[t].submitted = session[t].submitted
      /\ session'[t].received = session[t].received
      /\ session'[t].status =
            IF FullyReceived(t) THEN "RECEIVED" ELSE session[t].status
      /\ pc'[t] = "commit"
  BY <1>0 DEF ReceiveFinish, ReceivingInv, TypeOK, Sessions, Goto
<1>2. Receiving(t)'
  BY <1>0, <1>1 DEF Receiving
<1>3. FullyReceived(t)' <=> FullyReceived(t)
  BY <1>1 DEF FullyReceived
<1>4. /\ session'[t].status \in Statuses
      /\ session'[t].status = "RECEIVED" => FullyReceived(t)'
  BY <1>0, <1>1, <1>3 DEF ReceivingInv, ItemsAgree, Statuses
<1>. QED
  BY <1>0, <1>1, <1>2, <1>4, ReceivingStep DEF ReceivingInv, ItemsAgree

\* A commit writes the items of the locked order and no others.
LEMMA CommitReceiving ==
    ASSUME ReceivingInv, NEW t \in Txns, Commit(t)
    PROVE  ReceivingPart'
<1>0. /\ session[t] \in Sessions /\ received \in [Items -> Nat]
      /\ Requested \in [Items -> Nat] /\ status \in [Orders -> Statuses]
      /\ OrderOf \in [Items -> Orders]
  BY ConstantsAssumption DEF ReceivingInv, TypeOK
<1>1. /\ \A u \in Txns \ {t} : session'[u] = session[u] /\ pc'[u] = pc[u]
      /\ session'[t] = EmptySession /\ pc'[t] = "committed"
      /\ req' = req
      /\ \A o \in Orders : /\ status'[o] = IF orderLock[o] = t THEN session[t].status
                                           ELSE status[o]
                           /\ orderLock'[o] = IF orderLock[o] = t THEN NONE
                                              ELSE orderLock[o]
      /\ \A i \in Items : received'[i] = IF i \in session[t].submitted
                                         THEN session[t].received[i] ELSE received[i]
  BY DEF Commit, Release, ReceivingInv, TypeOK, Goto
<1>2. ~Receiving(t)' /\ \A u \in Txns \ {t} : Receiving(u)' <=> Receiving(u)
  BY <1>1 DEF Receiving
<1>3. OrdersHeld'
  BY <1>1, <1>2, NoneAssumption DEF ReceivingInv, OrdersHeld
<1>4. ASSUME NEW i \in Items
      PROVE  /\ received'[i] >= received[i] /\ received'[i] <= Requested[i]
             /\ orderLock[OrderOf[i]] # t => received'[i] = received[i]
             /\ orderLock[OrderOf[i]] = t => received'[i] = session[t].received[i]
  <2>1. orderLock[OrderOf[i]] = t <=> Receiving(t) /\ req[t].order = OrderOf[i]
    BY <1>0 DEF ReceivingInv, OrdersHeld
  <2>2. received[i] <= Requested[i]
    BY DEF ReceivingInv, ReceivedWithinOrder
  <2>3. CASE orderLock[OrderOf[i]] = t
    <3>1. i \in ItemsOf(req[t].order) /\ Receiving(t)
      BY <2>1, <2>3 DEF ItemsOf
    <3>2. /\ session[t].received[i] <= Requested[i]
          /\ session[t].received[i] >= received[i]
          /\ i \notin session[t].submitted => session[t].received[i] = received[i]
      BY <3>1 DEF ReceivingInv, ItemsAgree
    <3>. QED  BY <1>0, <1>1, <2>2, <2>3, <3>2
  <2>4. CASE orderLock[OrderOf[i]] # t
    <3>1. i \notin session[t].submitted
      BY <2>1, <2>4 DEF ReceivingInv, ItemsAgree, ItemsOf
    <3>. QED  BY <1>0, <1>1, <2>2, <2>4, <3>1
  <2>. QED  BY <2>3, <2>4
<1>5. ItemsAgree'
  <2> SUFFICES ASSUME NEW u \in Txns
               PROVE  /\ ~Receiving(u)' => session'[u].submitted = {}
                      /\ Receiving(u)' =>
                          /\ session'[u].submitted \subseteq ItemsOf(req[u].order)
                          /\ \A i \in ItemsOf(req[u].order) :
                              /\ session'[u].received[i] <= Requested[i]
                              /\ session'[u].received[i] >= received'[i]
                              /\ i \notin session'[u].submitted =>
                                      session'[u].received[i] = received'[i]
                          /\ session'[u].status \in Statuses
                          /\ session'[u].status = "RECEIVED" => FullyReceived(u)'
    BY <1>1 DEF ItemsAgree
  <2>1. CASE u = t
    BY <1>1, <1>2, <2>1 DEF EmptySession
  <2>2. CASE u # t /\ ~Receiving(u)
    BY <1>1, <1>2, <2>2 DEF ReceivingInv, ItemsAgree
  <2>3. CASE u # t /\ Receiving(u)
    <3>1. \A i \in ItemsOf(req[u].order) : received'[i] = received[i]
      <4> TAKE i \in ItemsOf(req[u].order)
      <4>1. i \in Items /\ OrderOf[i] = req[u].order /\ OrderOf[i] \in Orders
        BY <1>0 DEF ItemsOf
      <4>2. orderLock[OrderOf[i]] = u
        BY <2>3, <4>1 DEF ReceivingInv, OrdersHeld
      <4>. QED  BY <1>4, <2>3, <4>1, <4>2
    <3>2. FullyReceived(u)' <=> FullyReceived(u)
      BY <1>1, <2>3 DEF FullyReceived
    <3>. QED  BY <1>1, <1>2, <2>3, <3>1, <3>2 DEF ReceivingInv, ItemsAgree
  <2>. QED  BY <2>1, <2>2, <2>3
<1>6. ASSUME NEW o \in Orders, status'[o] = "RECEIVED", NEW i \in ItemsOf(o)
      PROVE  received'[i] >= Requested[i]
  <2>0. i \in Items /\ OrderOf[i] = o
    BY DEF ItemsOf
  <2>1. CASE orderLock[o] = t
    <3>1. Receiving(t) /\ req[t].order = o /\ session[t].status = "RECEIVED"
      BY <1>1, <1>6, <2>1 DEF ReceivingInv, OrdersHeld
    <3>2. session[t].received[i] >= Requested[i]
      BY <3>1 DEF ReceivingInv, ItemsAgree, FullyReceived
    <3>. QED  BY <1>4, <2>0, <2>1, <3>2
  <2>2. CASE orderLock[o] # t
    <3>1. received[i] >= Requested[i]
      BY <1>1, <1>6, <2>2 DEF ReceivingInv, ReceivedWithinOrder
    <3>. QED  BY <1>4, <2>0, <2>2, <3>1
  <2>. QED  BY <2>1, <2>2
<1>7. ReceivedWithinOrder'
  BY <1>4, <1>6 DEF ReceivedWithinOrder, ItemsOf
<1>. QED  BY <1>3, <1>5, <1>7 DEF ReceivingPart

\* Every step keeps the invariant of deliveries.
LEMMA StepReceiving == ReceivingInv /\ [Next]_vars => ReceivingInv'
<1> SUFFICES ASSUME ReceivingInv, [Next]_vars PROVE ReceivingInv'
  OBVIOUS
<1>1. TypeInv'
  BY ReceivingGivesFit, StepTyped
<1>2. ASSUME NEW t \in Txns, Begin(t) \/ Handle(t) \/ DeadlockVictim(t) \/ Fail(t)
      PROVE  ReceivingPart'
  <2>1. CASE DeadlockVictim(t) \/ Fail(t)
    BY <2>1, RollbackReceiving DEF DeadlockVictim, Fail, Ended
  <2>. QED
    BY <1>2, <2>1, BeginReceiving, StockStepReceiving, EditReceiving,
       ReceiveLockReceiving, ReceiveLineReceiving, ReceiveSaveReceiving,
       ReceiveFinishReceiving, CommitReceiving DEF Handle
<1>3. ASSUME UNCHANGED vars PROVE ReceivingPart'
  BY <1>3 DEF vars, ReceivingInv, ReceivingPart, OrdersHeld, ItemsAgree,
     ReceivedWithinOrder, Receiving, FullyReceived
<1>4. ReceivingPart'
  BY <1>2, <1>3 DEF Next, Quiescent
<1>. QED  BY <1>1, <1>4 DEF ReceivingInv, ReceivingPart, TypeInv

\* In every reachable state an order is received within its request and what a
\* delivery holds in memory agrees with the rows it has locked
\* (purchase_orders.service.ts:502-687).
THEOREM ReceivingInvariant == Spec => []ReceivingInv
<1>1. Init => ReceivingInv
  BY InitTyped, InitReceiving DEF TypeInv, ReceivingPart, ReceivingInv
<1>. QED  BY <1>1, StepReceiving, PTL DEF Spec

\* Tables, locks and sessions keep their types.
THEOREM TypeCorrect == Spec => []TypeOK
<1>1. ReceivingInv => TypeOK
  BY DEF ReceivingInv
<1>. QED  BY <1>1, ReceivingInvariant, PTL

\* Nothing is received beyond what was requested and a RECEIVED order is
\* complete, for every number of deliveries, edits and counts in any order
\* (purchase_orders.service.ts:557-592, 663-671).
THEOREM ReceiptsStayWithinOrder == Spec => []ReceivedWithinOrder
<1>1. ReceivingInv => ReceivedWithinOrder
  BY DEF ReceivingInv
<1>. QED  BY <1>1, ReceivingInvariant, PTL

\* No step takes back a quantity that has been received: a delivery writes items
\* it has loaded under the lock of their order (purchase_orders.service.ts:511).
THEOREM ReceivedGrows == Spec => ReceivedNeverShrinks
<1>1. ReceivingInv /\ [Next]_vars => [\A i \in Items : received'[i] >= received[i]]_vars
  <2> SUFFICES ASSUME ReceivingInv, Next, NEW i \in Items
               PROVE  received'[i] >= received[i]
    BY DEF ReceivedNeverShrinks
  <2>0. received[i] \in Nat
    BY DEF ReceivingInv, TypeOK
  <2>1. CASE received' = received
    BY <2>0, <2>1
  <2>2. CASE received' # received
    <3>1. PICK t \in Txns : Commit(t)
      BY <2>2, ZenonT(30) DEF Next, Begin, Handle, DeadlockVictim, Fail, Quiescent, vars, Rollback,
         CreateCheck, CreateSave, CountRead, CountLock, CountInsert, CountSave, ReceiveLock,
         ReceiveLine, ReceiveSave, ReceiveFinish, EditLoad, EditSave
    <3>2. received'[i] = IF i \in session[t].submitted THEN session[t].received[i]
                                                       ELSE received[i]
      BY <3>1 DEF Commit
    <3>3. i \in session[t].submitted => session[t].received[i] >= received[i]
      BY DEF ReceivingInv, ItemsAgree
    <3>. QED  BY <2>0, <3>2, <3>3
  <2>. QED  BY <2>1, <2>2
<1>. QED  BY <1>1, ReceivingInvariant, PTL DEF Spec, ReceivedNeverShrinks

-----------------------------------------------------------------------------
(* Balances and the ledger                                                 *)

LedgerPart == RowsHeld /\ SessionsAgree /\ AdjustmentsAgree
                /\ BalanceIsLeftByLedger /\ AdjustmentsStartFromBalance

SeenPart == MovementsSigned /\ CountsSee

\* Both parts, of the types that ReceivingInv has established.
TypedLedger == TypeInv /\ LedgerPart /\ SeenPart

\* Two sequences of a table and of a session, one after the other.
LEMMA ConcatElements ==
    ASSUME NEW S, NEW a \in Seq(S), NEW b \in Seq(S)
    PROVE  /\ a \o b \in Seq(S)
           /\ Len(a \o b) = Len(a) + Len(b)
           /\ \A k \in 1..Len(a) : (a \o b)[k] = a[k]
           /\ \A k \in Len(a) + 1 .. Len(a) + Len(b) : (a \o b)[k] = b[k - Len(a)]
  OBVIOUS

\* The last movement of a session after one more is appended.
LEMMA AppendElements ==
    ASSUME NEW S, NEW a \in Seq(S), NEW e \in S
    PROVE  /\ Append(a, e) # <<>>
           /\ Len(Append(a, e)) = Len(a) + 1
           /\ Append(a, e)[Len(a) + 1] = e
           /\ \A k \in 1..Len(a) : Append(a, e)[k] = a[k]
  OBVIOUS

\* Seeded balances are those of their opening movements.
LEMMA InitLedger == Init => LedgerPart
<1> SUFFICES ASSUME Init PROVE LedgerPart
  OBVIOUS
<1>1. RowsHeld /\ SessionsAgree /\ AdjustmentsAgree
  BY DEF Init, EmptySession, RowsHeld, SessionsAgree, AdjustmentsAgree
<1>2. \A p \in Products : ledger[p] = SeedLedger(p) /\ quantity[p] = Opening[p]
  BY DEF Init
<1>a. ASSUME NEW p \in Products
      PROVE  \/ SeedLedger(p) = <<>> /\ Opening[p] \in {NONE, 0}
             \/ /\ SeedLedger(p) # <<>> /\ Len(SeedLedger(p)) = 1
                /\ SeedLedger(p)[1].type = "INITIAL_STOCK"
                /\ SeedLedger(p)[1].after = Opening[p]
  <2>1. CASE Opening[p] \in {NONE, 0}
    BY <2>1 DEF SeedLedger
  <2>2. CASE Opening[p] \notin {NONE, 0}
    <3> DEFINE e == [type |-> "INITIAL_STOCK", direction |-> "IN",
                     quantity |-> Opening[p], before |-> 0, after |-> Opening[p],
                     by |-> NONE]
    <3>1. SeedLedger(p) = <<e>> /\ e.type = "INITIAL_STOCK" /\ e.after = Opening[p]
      BY <2>2 DEF SeedLedger
    <3> HIDE DEF e
    <3>. QED  BY <3>1
  <2>. QED  BY <2>1, <2>2
<1>3. BalanceIsLeftByLedger
  BY <1>2, <1>a DEF Init, BalanceIsLeftByLedger, Left
<1>4. AdjustmentsStartFromBalance
  BY <1>2, <1>a DEF AdjustmentsStartFromBalance
<1>. QED  BY <1>1, <1>3, <1>4 DEF LedgerPart

\* Steps that change no table and write no row: the session of t keeps its writes
\* or is emptied, and only locks of t are given back.
LEMMA QuietStep ==
    ASSUME TypedLedger, NEW t \in Txns, UNCHANGED <<quantity, ledger, overtaken>>,
           \A u \in Txns \ {t} : /\ pc'[u] = pc[u] /\ req'[u] = req[u]
                                 /\ session'[u] = session[u],
           \A p \in Products : rowLock[p] # t => rowLock'[p] = rowLock[p],
           pc'[t] # "count_save",
           \/ /\ session'[t].written = session[t].written
              /\ session'[t].movements = session[t].movements
              /\ rowLock' = rowLock
              /\ pc'[t] \in {"create_check", "create_save", "count_read", "count_lock",
                              "count_insert"} =>
                    \A p \in Products : session[t].movements[p] = <<>>
           \/ session'[t] = EmptySession
    PROVE  LedgerPart'
<1>1. RowsHeld'
  BY DEF TypedLedger, LedgerPart, RowsHeld, EmptySession
<1>2. SessionsAgree'
  <2>1. CASE session'[t] = EmptySession
    BY <2>1 DEF TypedLedger, LedgerPart, SessionsAgree, EmptySession
  <2>2. CASE session'[t] # EmptySession
    BY <2>2 DEF TypedLedger, LedgerPart, SessionsAgree
  <2>. QED  BY <2>1, <2>2
<1>3. AdjustmentsAgree'
  BY DEF TypedLedger, LedgerPart, AdjustmentsAgree, EmptySession, OnHand
<1>4. BalanceIsLeftByLedger' /\ AdjustmentsStartFromBalance'
  BY DEF TypedLedger, LedgerPart, BalanceIsLeftByLedger, AdjustmentsStartFromBalance,
         StartsFromPredecessor, Left
<1>. QED  BY <1>1, <1>2, <1>3, <1>4 DEF LedgerPart

\* A rollback forgets what the session has written and frees its rows.
LEMMA RollbackLedger ==
    ASSUME TypedLedger, NEW t \in Txns, NEW answer \in Ended, Rollback(t, answer)
    PROVE  LedgerPart'
<1>1. /\ \A u \in Txns \ {t} : pc'[u] = pc[u] /\ session'[u] = session[u]
      /\ pc'[t] = answer /\ session'[t] = EmptySession
      /\ UNCHANGED <<quantity, ledger, req, overtaken>>
      /\ \A p \in Products : rowLock[p] # t => rowLock'[p] = rowLock[p]
  BY DEF TypedLedger, TypeInv, TypeOK, Rollback, Goto, Release
<1>2. pc'[t] # "count_save"
  BY <1>1 DEF Ended
<1>. QED  BY <1>1, <1>2, QuietStep

\* A request that arrives has written nothing.
LEMMA BeginLedger ==
    ASSUME TypedLedger, NEW t \in Txns, Begin(t)
    PROVE  LedgerPart'
<1>1. PICK r \in Requests : req' = [req EXCEPT ![t] = r] /\ Goto(t, FirstStep[r.op])
  BY DEF Begin
<1>2. FirstStep[r.op] \in {"create_check", "count_read", "receive_lock", "edit_load"}
  BY ConstantsAssumption
     DEF FirstStep, CreateRequests, CountRequests, ReceiveRequests, EditRequests
<1>3. \A p \in Products : session[t].movements[p] = <<>>
  BY DEF TypedLedger, TypeInv, RequestFits, Begin, EmptySession
<1>4. /\ \A u \in Txns \ {t} : /\ pc'[u] = pc[u] /\ req'[u] = req[u]
                               /\ session'[u] = session[u]
      /\ pc'[t] = FirstStep[r.op]
      /\ UNCHANGED <<quantity, ledger, rowLock, session, overtaken>>
  BY <1>1 DEF TypedLedger, TypeInv, TypeOK, Begin, Goto
<1>5. pc'[t] # "count_save"
  BY <1>2, <1>4
<1>. QED  BY <1>3, <1>4, <1>5, QuietStep

\* The step that saves a stock row with its movement.
LEMMA SaveStep ==
    ASSUME TypedLedger, NEW t \in Txns, NEW p \in Products, NEW m \in Movements,
           UNCHANGED <<quantity, ledger, req, overtaken>>,
           \A u \in Txns \ {t} : pc'[u] = pc[u] /\ session'[u] = session[u],
           pc'[t] \in {"commit", "receive_line"},
           rowLock[p] \in {NONE, t},
           rowLock' = [rowLock EXCEPT ![p] = t],
           session'[t].written =
                [session[t].written EXCEPT ![p] =
                    IF t \in overtaken THEN NONE ELSE m.after],
           session'[t].movements = [session[t].movements EXCEPT ![p] = Append(@, m)],
           t \in overtaken => quantity[p] = m.before,
           m.type = "ADJUSTMENT" =>
                session[t].movements[p] = <<>> /\ m.before = OnHand(p)
    PROVE  LedgerPart'
<1>0. /\ session[t].written \in [Products -> Balances]
      /\ session[t].movements \in [Products -> Seq(Movements)]
      /\ rowLock \in [Products -> Txns \cup {NONE}]
  BY DEF TypedLedger, TypeInv, TypeOK, Sessions
<1> DEFINE a == session[t].movements[p]
<1>1. /\ session'[t].movements[p] = Append(a, m)
      /\ session'[t].written[p] = IF t \in overtaken THEN NONE ELSE m.after
      /\ \A q \in Products \ {p} : /\ session'[t].movements[q] = session[t].movements[q]
                                   /\ session'[t].written[q] = session[t].written[q]
                                   /\ rowLock'[q] = rowLock[q]
      /\ rowLock'[p] = t
  BY <1>0
<1>2. /\ Append(a, m) # <<>> /\ Len(Append(a, m)) = Len(a) + 1
      /\ Append(a, m)[Len(a) + 1] = m
      /\ \A k \in 1..Len(a) : Append(a, m)[k] = a[k]
      /\ Len(a) \in Nat
  <2>1. a \in Seq(Movements)
    BY <1>0
  <2> HIDE DEF a
  <2>. QED  BY <2>1, AppendElements
<1>3. RowsHeld'
  <2> SUFFICES ASSUME NEW u \in Txns, NEW q \in Products,
                      \/ session'[u].written[q] # NONE
                      \/ session'[u].movements[q] # <<>>
                      \/ pc'[u] = "count_save" /\ req[u].product = q
               PROVE  rowLock'[q] = u
    BY DEF RowsHeld
  <2>1. CASE u = t /\ q = p
    BY <1>1, <2>1
  <2>2. CASE u = t /\ q # p
    BY <1>1, <2>2 DEF TypedLedger, LedgerPart, RowsHeld
  <2>3. CASE u # t
    <3>1. rowLock[q] = u
      BY <2>3 DEF TypedLedger, LedgerPart, RowsHeld
    <3>2. q # p
      BY <2>3, <3>1, NoneAssumption
    <3>. QED  BY <1>1, <3>1, <3>2
  <2>. QED  BY <2>1, <2>2, <2>3
<1>4. SessionsAgree'
  <2> SUFFICES ASSUME NEW u \in Txns, NEW q \in Products
               PROVE  /\ /\ session'[u].movements[q] = <<>>
                         /\ session'[u].written[q] # NONE
                         => session'[u].written[q] = 0 /\ quantity'[q] = NONE
                      /\ session'[u].movements[q] # <<>> =>
                            LET newest == session'[u].movements[q]
                                             [Len(session'[u].movements[q])] IN
                            IF u \in overtaken'
                            THEN /\ session'[u].written[q] = NONE
                                 /\ quantity'[q] = newest.before
                            ELSE session'[u].written[q] = newest.after
                      /\ pc'[u] \in {"create_check", "create_save", "count_read", "count_lock",
                                     "count_insert", "count_save"} =>
                             session'[u].movements[q] = <<>>
    BY DEF SessionsAgree
  <2>1. CASE u = t /\ q = p
    <3>1. /\ session'[u].movements[q] = Append(a, m)
          /\ session'[u].written[q] = IF t \in overtaken THEN NONE ELSE m.after
      BY <1>1, <2>1
    <3>2. pc'[u] \notin {"create_check", "create_save", "count_read", "count_lock",
                         "count_insert", "count_save"}
      BY <2>1
    <3> HIDE DEF a
    <3>. QED  BY <1>2, <2>1, <3>1, <3>2
  <2>2. CASE u = t /\ q # p
    <3>1. /\ session'[u].movements[q] = session[u].movements[q]
          /\ session'[u].written[q] = session[u].written[q]
      BY <1>1, <2>2
    <3>2. pc'[u] \notin {"create_check", "create_save", "count_read", "count_lock",
                         "count_insert", "count_save"}
      BY <2>2
    <3>. QED  BY <3>1, <3>2 DEF TypedLedger, LedgerPart, SessionsAgree
  <2>3. CASE u # t
    BY <2>3 DEF TypedLedger, LedgerPart, SessionsAgree
  <2>. QED  BY <2>1, <2>2, <2>3
<1>5. AdjustmentsAgree'
  <2> SUFFICES ASSUME NEW u \in Txns, NEW q \in Products
               PROVE  /\ pc'[u] = "count_save" /\ req'[u].product = q =>
                              session'[u].before = OnHand(q)
                      /\ \A k \in 1..Len(session'[u].movements[q]) :
                            session'[u].movements[q][k].type = "ADJUSTMENT" =>
                              k = 1 /\ session'[u].movements[q][k].before = OnHand(q)
    BY DEF AdjustmentsAgree, OnHand
  <2>1. CASE u = t /\ q = p
    <3>1. \A k \in 1..Len(a) : a[k].type = "ADJUSTMENT" => k = 1 /\ a[k].before = OnHand(p)
      BY DEF TypedLedger, LedgerPart, AdjustmentsAgree
    <3>2. m.type = "ADJUSTMENT" => Len(a) = 0 /\ m.before = OnHand(p)
      BY <1>2
    <3> HIDE DEF a
    <3>3. ASSUME NEW k \in 1..Len(Append(a, m)), Append(a, m)[k].type = "ADJUSTMENT"
          PROVE  k = 1 /\ Append(a, m)[k].before = OnHand(p)
      <4>1. CASE k = Len(a) + 1
        BY <1>2, <3>2, <3>3, <4>1
      <4>2. CASE k # Len(a) + 1
        BY <1>2, <3>1, <3>3, <4>2
      <4>. QED  BY <4>1, <4>2
    <3>4. session'[u].movements[q] = Append(a, m)
      BY <1>1, <2>1 DEF a
    <3>5. pc'[u] # "count_save"
      BY <2>1
    <3>6. \A k \in 1..Len(Append(a, m)) :
              Append(a, m)[k].type = "ADJUSTMENT" =>
                  k = 1 /\ Append(a, m)[k].before = OnHand(q)
      BY <2>1, <3>3
    <3>. QED  BY <3>4, <3>5, <3>6
  <2>2. CASE u = t /\ q # p
    <3>1. session'[u].movements[q] = session[u].movements[q]
      BY <1>1, <2>2
    <3>2. pc'[u] # "count_save"
      BY <2>2
    <3>. QED  BY <3>1, <3>2 DEF TypedLedger, LedgerPart, AdjustmentsAgree
  <2>3. CASE u # t
    BY <2>3 DEF TypedLedger, LedgerPart, AdjustmentsAgree
  <2>. QED  BY <2>1, <2>2, <2>3
<1>6. BalanceIsLeftByLedger' /\ AdjustmentsStartFromBalance'
  BY DEF TypedLedger, LedgerPart, BalanceIsLeftByLedger, AdjustmentsStartFromBalance,
         StartsFromPredecessor, Left
<1>. QED  BY <1>3, <1>4, <1>5, <1>6 DEF LedgerPart

\* SaveStep for a session that becomes Saved.
LEMMA SavedStep ==
    ASSUME TypedLedger, NEW t \in Txns, NEW p \in Products, NEW m \in Movements,
           UNCHANGED <<quantity, ledger, req, overtaken>>,
           RowFree(t, p), LockRow(t, p), Goto(t, "commit"), t \notin overtaken,
           session' = [session EXCEPT ![t] = Saved(t, p, NONE, m)],
           m.type = "ADJUSTMENT" =>
                session[t].movements[p] = <<>> /\ m.before = OnHand(p)
    PROVE  LedgerPart'
<1>1. session[t] \in Sessions /\ session \in [Txns -> Sessions] /\ pc \in [Txns -> Labels]
  BY DEF TypedLedger, TypeInv, TypeOK
<1>2. /\ session'[t] = Saved(t, p, NONE, m) /\ pc'[t] = "commit"
      /\ \A u \in Txns \ {t} : pc'[u] = pc[u] /\ session'[u] = session[u]
  BY <1>1 DEF Goto
<1>3. /\ session'[t].written = [session[t].written EXCEPT ![p] = m.after]
      /\ session'[t].movements = [session[t].movements EXCEPT ![p] = Append(@, m)]
  <2>1. m.after # NONE
    BY NoneAssumption DEF Movements
  <2>. QED  BY <1>1, <1>2, <2>1 DEF Saved, Sessions
<1>. QED  BY <1>2, <1>3, SaveStep DEF RowFree, LockRow

\* A count has locked its stock row, or written the empty row it lacked.
LEMMA CountReadStep ==
    ASSUME TypedLedger, NEW t \in Txns, NEW p \in Products, NEW s,
           p = req[t].product, UNCHANGED <<quantity, ledger, req, overtaken>>,
           RowFree(t, p), LockRow(t, p), Goto(t, "count_save"),
           session' = [session EXCEPT ![t] = s],
           \/ s.written = session[t].written
           \/ s.written = [session[t].written EXCEPT ![p] = 0] /\ quantity[p] = NONE,
           s.movements = session[t].movements,
           \A q \in Products : session[t].movements[q] = <<>>,
           s.before = OnHand(p)
    PROVE  LedgerPart'
<1>1. /\ session[t] \in Sessions /\ session \in [Txns -> Sessions]
      /\ pc \in [Txns -> Labels] /\ rowLock \in [Products -> Txns \cup {NONE}]
      /\ session[t].written \in [Products -> Balances]
  BY DEF TypedLedger, TypeInv, TypeOK, Sessions
<1>2. /\ session'[t] = s /\ pc'[t] = "count_save"
      /\ \A u \in Txns \ {t} : pc'[u] = pc[u] /\ session'[u] = session[u]
      /\ rowLock[p] \in {NONE, t} /\ rowLock'[p] = t
      /\ \A q \in Products \ {p} : rowLock'[q] = rowLock[q]
  BY <1>1 DEF Goto, RowFree, LockRow
<1>3. \A q \in Products \ {p} : s.written[q] = session[t].written[q]
  BY <1>1
<1>4. RowsHeld'
  <2> SUFFICES ASSUME NEW u \in Txns, NEW q \in Products,
                      \/ session'[u].written[q] # NONE
                      \/ session'[u].movements[q] # <<>>
                      \/ pc'[u] = "count_save" /\ req[u].product = q
               PROVE  rowLock'[q] = u
    BY DEF RowsHeld
  <2>1. CASE u = t /\ q = p
    BY <1>2, <2>1
  <2>2. CASE u = t /\ q # p
    BY <1>2, <1>3, <2>2 DEF TypedLedger, LedgerPart, RowsHeld
  <2>3. CASE u # t
    <3>1. rowLock[q] = u
      BY <1>2, <2>3 DEF TypedLedger, LedgerPart, RowsHeld
    <3>2. q # p
      BY <1>2, <2>3, <3>1, NoneAssumption
    <3>. QED  BY <1>2, <3>1, <3>2
  <2>. QED  BY <2>1, <2>2, <2>3
<1>5. SessionsAgree'
  <2>1. \A q \in Products : s.written[q] # NONE => s.written[q] = 0 /\ quantity[q] = NONE
    BY <1>1, <1>3 DEF TypedLedger, LedgerPart, SessionsAgree
  <2>. QED  BY <1>2, <2>1 DEF TypedLedger, LedgerPart, SessionsAgree
<1>6. AdjustmentsAgree'
  <2>1. \A q \in Products : Len(s.movements[q]) = 0
    OBVIOUS
  <2>. QED  BY <1>2, <2>1 DEF TypedLedger, LedgerPart, AdjustmentsAgree, OnHand
<1>7. BalanceIsLeftByLedger' /\ AdjustmentsStartFromBalance'
  BY DEF TypedLedger, LedgerPart, BalanceIsLeftByLedger, AdjustmentsStartFromBalance,
         StartsFromPredecessor, Left
<1>. QED  BY <1>4, <1>5, <1>6, <1>7 DEF LedgerPart

\* An initial stock writes row and movement from an empty balance.
LEMMA CreateLedger ==
    ASSUME TypedLedger, NEW t \in Txns, CreateCheck(t) \/ CreateSave(t)
    PROVE  LedgerPart'
<1>0. req[t] \in CreateRequests /\ \A p \in Products : session[t].movements[p] = <<>>
  BY DEF TypedLedger, TypeInv, RequestFits, CreateCheck, CreateSave, LedgerPart,
         SessionsAgree
<1>1. CASE \E answer \in Ended : Rollback(t, answer)
  BY <1>1, RollbackLedger
<1>2. CASE CreateCheck(t) /\ ~ \E answer \in Ended : Rollback(t, answer)
  <2>1. /\ UNCHANGED <<quantity, ledger, rowLock, req, session, overtaken>>
        /\ \A u \in Txns \ {t} : pc'[u] = pc[u]
        /\ pc'[t] = "create_save"
    BY <1>2 DEF CreateCheck, Ended, TypedLedger, TypeInv, TypeOK, Goto
  <2>. QED  BY <1>0, <2>1, QuietStep
<1>3. CASE CreateSave(t) /\ ~ \E answer \in Ended : Rollback(t, answer)
  <2> DEFINE p == req[t].product
             m == Movement(t, "ADJUSTMENT", req[t].direction, req[t].quantity, 0,
                           req[t].quantity)
  <2>1. p \in Products /\ m \in Movements /\ session[t] \in Sessions
    BY <1>0, MovementTyped DEF CreateRequests, TypedLedger, TypeInv, TypeOK
  <2>2. m.before = 0
    BY DEF Movement
  <2> HIDE DEF m
  <2>3. /\ RowFree(t, p) /\ LockRow(t, p) /\ ~DuplicateRow(p, NONE)
        /\ session' = [session EXCEPT ![t] = Saved(t, p, NONE, m)]
        /\ Goto(t, "commit")
        /\ UNCHANGED <<tables, orderLock, req, overtaken>>
    BY <1>3 DEF CreateSave, Ended, m
  <2>4. m.before = OnHand(p)
    BY <2>2, <2>3 DEF DuplicateRow, OnHand
  <2>5. t \notin overtaken
    BY <1>3 DEF CreateSave, TypedLedger, SeenPart, CountsSee, Ended
  <2>. QED  BY <1>0, <2>1, <2>3, <2>4, <2>5, SavedStep
<1>. QED  BY <1>1, <1>2, <1>3

\* What save compares the balance of a count with: where the count changes the
\* balance it is the one asked for just if the count is overtaken.
LEMMA CountStores ==
    ASSUME TypedLedger, NEW t \in Txns, pc[t] = "count_save",
           session[t].before # req[t].quantity
    PROVE  LET p == req[t].product IN
           IF t \in overtaken
           THEN /\ PlainRead(t, p) = req[t].quantity
                /\ session[t].written[p] = NONE /\ quantity[p] = session[t].before
           ELSE PlainRead(t, p) # req[t].quantity
<1> DEFINE p == req[t].product
           s == session[t]
<1>1. /\ p \in Products /\ req[t].quantity \in Nat /\ CountSees(t)
      /\ s.before = OnHand(p) /\ s.movements[p] = <<>>
  BY DEF TypedLedger, TypeInv, RequestFits, CountRequests, SeenPart, CountsSee, LedgerPart,
         AdjustmentsAgree, SessionsAgree
<1>2. CASE s.written[p] = NONE
  <2>1. PlainRead(t, p) = s.snapshot[p] /\ quantity[p] = s.before
    BY <1>1, <1>2 DEF CountSees, PlainRead, View, OnHand
  <2>. QED  BY <1>1, <1>2, <2>1 DEF CountSees
<1>3. CASE s.written[p] # NONE
  <2>1. s.written[p] = 0 /\ quantity[p] = NONE
    BY <1>1, <1>3 DEF TypedLedger, LedgerPart, SessionsAgree
  <2>2. PlainRead(t, p) = 0 /\ s.before = 0 /\ t \notin overtaken
    BY <1>1, <1>3, <2>1 DEF CountSees, PlainRead, OnHand
  <2>. QED  BY <2>2
<1>. QED  BY <1>2, <1>3

\* A count starts from the committed balance of the row it has locked.
LEMMA CountLedger ==
    ASSUME TypedLedger, NEW t \in Txns,
           CountRead(t) \/ CountLock(t) \/ CountInsert(t) \/ CountSave(t)
    PROVE  LedgerPart'
<1> DEFINE p == req[t].product
<1>0. /\ p \in Products /\ req[t].quantity \in Nat
      /\ session[t] \in Sessions /\ quantity \in [Products -> Balances]
      /\ session \in [Txns -> Sessions] /\ pc \in [Txns -> Labels]
      /\ rowLock \in [Products -> Txns \cup {NONE}]
      /\ \A q \in Products : session[t].movements[q] = <<>>
  BY DEF TypedLedger, TypeInv, TypeOK, RequestFits, CountRead, CountLock, CountInsert,
         CountSave, LedgerPart, SessionsAgree, CountRequests
<1>1. CASE \E answer \in Ended : Rollback(t, answer)
  BY <1>1, RollbackLedger
<1>a. CASE CountRead(t)
  <2>1. /\ UNCHANGED <<quantity, ledger, rowLock, req, overtaken>>
        /\ \A u \in Txns \ {t} : pc'[u] = pc[u] /\ session'[u] = session[u]
        /\ pc'[t] = "count_lock"
        /\ session'[t].written = session[t].written
        /\ session'[t].movements = session[t].movements
    BY <1>0, <1>a DEF CountRead, Goto, Sessions
  <2>. QED  BY <1>0, <2>1, QuietStep
<1>2. CASE CountLock(t)
  <2>1. CASE quantity[p] = NONE
    <3>1. /\ UNCHANGED <<quantity, ledger, rowLock, req, session, overtaken>>
          /\ \A u \in Txns \ {t} : pc'[u] = pc[u]
          /\ pc'[t] = "count_insert"
      BY <1>0, <1>2, <2>1 DEF CountLock, Goto
    <3>. QED  BY <1>0, <3>1, QuietStep
  <2>2. CASE quantity[p] # NONE
    <3>1. session[t].written[p] = NONE \/ rowLock[p] = t
      BY <1>0 DEF TypedLedger, LedgerPart, RowsHeld
    <3>2. /\ session' = [session EXCEPT ![t] = [session[t] EXCEPT !.before = quantity[p]]]
          /\ LockRow(t, p) /\ Goto(t, "count_save") /\ RowFree(t, p)
          /\ UNCHANGED <<quantity, ledger, req, overtaken>>
      BY <1>0, <1>2, <2>2 DEF CountLock
    <3>3. /\ [session[t] EXCEPT !.before = quantity[p]].before = OnHand(p)
          /\ [session[t] EXCEPT !.before = quantity[p]].written = session[t].written
          /\ [session[t] EXCEPT !.before = quantity[p]].movements = session[t].movements
      BY <1>0, <2>2 DEF Sessions, OnHand
    <3>. QED  BY <1>0, <3>2, <3>3, CountReadStep
  <2>. QED  BY <2>1, <2>2
<1>3. CASE CountInsert(t) /\ ~ \E answer \in Ended : Rollback(t, answer)
  <2> DEFINE s == [session[t] EXCEPT !.written[p] = 0, !.before = 0]
  <2>1. /\ session' = [session EXCEPT ![t] = s]
        /\ LockRow(t, p) /\ Goto(t, "count_save") /\ RowFree(t, p)
        /\ UNCHANGED <<quantity, ledger, req, overtaken>> /\ quantity[p] = NONE
    BY <1>0, <1>3 DEF CountInsert, Ended, DuplicateRow
  <2>2. /\ s.written = [session[t].written EXCEPT ![p] = 0]
        /\ s.movements = session[t].movements
        /\ s.before = OnHand(p)
    BY <1>0, <2>1 DEF Sessions, OnHand
  <2> HIDE DEF s
  <2>. QED  BY <1>0, <2>1, <2>2, CountReadStep
<1>4. CASE CountSave(t) /\ ~ \E answer \in Ended : Rollback(t, answer)
  <2> DEFINE before == session[t].before
             difference == Difference(req[t].quantity, before)
             m == Movement(t, "ADJUSTMENT", IF difference > 0 THEN "IN" ELSE "OUT",
                           Amount(difference), before, req[t].quantity)
  <2>1. CASE session' = session
    <3>1. /\ UNCHANGED <<quantity, ledger, rowLock, req, session, overtaken>>
          /\ \A u \in Txns \ {t} : pc'[u] = pc[u]
          /\ pc'[t] = "commit"
      BY <1>0, <1>4, <2>1 DEF CountSave, Ended, Goto
    <3>. QED  BY <1>0, <3>1, QuietStep
  <2>2. CASE session' # session
    <3>0. before \in Nat /\ before = OnHand(p) /\ rowLock[p] = t /\ pc[t] = "count_save"
      BY <1>0, <1>4 DEF CountSave, TypedLedger, TypeInv, RequestFits, LedgerPart,
                        AdjustmentsAgree, RowsHeld
    <3>1. /\ m \in Movements
          /\ m.before = before /\ m.after = req[t].quantity /\ m.type = "ADJUSTMENT"
      <4>1. Amount(difference) \in Nat
        BY <1>0, <3>0 DEF Amount, Difference
      <4>2. (IF difference > 0 THEN "IN" ELSE "OUT") \in Directions
        BY DEF Directions
      <4>3. m.before = before /\ m.after = req[t].quantity /\ m.type = "ADJUSTMENT"
        BY DEF Movement
      <4>4. m \in Movements
        BY <1>0, <3>0, <4>1, <4>2, MovementTyped
      <4>. QED  BY <4>3, <4>4
    <3> DEFINE stored == PlainRead(t, p)
    <3> HIDE DEF m
    <3>2. PICK e : session' = [session EXCEPT ![t] =
                                  [Saved(t, p, stored, m) EXCEPT !.events = e]]
      BY <1>4, <2>2 DEF CountSave, Ended, m
    <3>a. before # req[t].quantity
      BY <1>0, <1>4, <2>2, <3>0 DEF CountSave, Difference, Ended
    <3>b. IF t \in overtaken
          THEN stored = m.after /\ session[t].written[p] = NONE /\ quantity[p] = before
          ELSE stored # m.after
      BY <1>0, <3>0, <3>1, <3>a, CountStores
    <3> HIDE DEF stored
    <3>3. UNCHANGED <<quantity, ledger, rowLock, req, overtaken>> /\ Goto(t, "commit")
      BY <1>4, <2>2 DEF CountSave, Ended
    <3>4. LockRow(t, p)
      BY <1>0, <3>0, <3>3 DEF LockRow
    <3>5. /\ session'[t] = [Saved(t, p, stored, m) EXCEPT !.events = e]
          /\ \A u \in Txns \ {t} : session'[u] = session[u] /\ pc'[u] = pc[u]
          /\ pc'[t] = "commit"
      BY <1>0, <3>2, <3>3 DEF Goto
    <3>6. /\ session'[t].written = [session[t].written EXCEPT ![p] =
                                        IF t \in overtaken THEN NONE ELSE m.after]
          /\ session'[t].movements = [session[t].movements EXCEPT ![p] = Append(@, m)]
      <4>1. /\ session'[t].written = Saved(t, p, stored, m).written
            /\ session'[t].movements = Saved(t, p, stored, m).movements
        BY <1>0, <3>1, <3>5, SavedTyped DEF Sessions
      <4>2. /\ Saved(t, p, stored, m).written = [session[t].written EXCEPT ![p] =
                    IF stored = m.after THEN session[t].written[p] ELSE m.after]
            /\ Saved(t, p, stored, m).movements =
                    [session[t].movements EXCEPT ![p] = Append(@, m)]
        BY <1>0 DEF Saved, Sessions
      <4>. QED  BY <3>b, <4>1, <4>2
    <3>7. /\ rowLock' = [rowLock EXCEPT ![p] = t] /\ rowLock[p] \in {NONE, t}
          /\ session[t].movements[p] = <<>> /\ m.before = OnHand(p)
          /\ t \in overtaken => quantity[p] = m.before
          /\ pc'[t] \in {"commit", "receive_line"}
          /\ UNCHANGED <<quantity, ledger, req, overtaken>>
      BY <1>0, <3>0, <3>1, <3>3, <3>4, <3>5, <3>b DEF LockRow
    <3> HIDE DEF p
    <3>. QED
      BY <1>0, <3>1, <3>5, <3>6, <3>7, SaveStep, ZenonT(30)
  <2>. QED  BY <2>1, <2>2
<1>. QED  BY <1>1, <1>a, <1>2, <1>3, <1>4

\* A delivery reads and checks without writing; saving a line is SaveStep.
LEMMA DeliveryLedger ==
    ASSUME TypedLedger, NEW t \in Txns,
           ReceiveLock(t) \/ ReceiveLine(t) \/ ReceiveSave(t) \/ ReceiveFinish(t)
    PROVE  LedgerPart'
<1>0. /\ session[t] \in Sessions /\ session \in [Txns -> Sessions]
      /\ pc \in [Txns -> Labels]
  BY DEF TypedLedger, TypeInv, TypeOK
<1>1. CASE \E answer \in Ended : Rollback(t, answer)
  BY <1>1, RollbackLedger
<1>2. CASE ReceiveSave(t) /\ ~ \E answer \in Ended : Rollback(t, answer)
  <2> DEFINE line == Head(session[t].todo)
  <2>1. PICK p \in Products, m \in Movements :
          /\ m.type = "RECEIPT" /\ m.after # session[t].before
          /\ RowFree(t, p) /\ LockRow(t, p) /\ Goto(t, "receive_line")
          /\ session' = [session EXCEPT ![t] = Delivered(t, line, p, m)]
          /\ UNCHANGED <<tables, orderLock, req, overtaken>>
    BY <1>2, ReceiptTyped DEF TypedLedger, Ended
  <2> DEFINE saved == Saved(t, p, session[t].before, m)
  <2>2. session[t].todo # <<>> /\ TypeOK /\ t \notin overtaken
    BY <1>2 DEF TypedLedger, TypeInv, RequestFits, ReceiveSave, SeenPart, CountsSee, Ended
  <2>3. /\ Delivered(t, line, p, m).written = saved.written
        /\ Delivered(t, line, p, m).movements = saved.movements
    BY <2>2, DeliveredTyped
  <2> HIDE DEF line
  <2>4. /\ saved.written = [session[t].written EXCEPT ![p] = m.after]
        /\ saved.movements = [session[t].movements EXCEPT ![p] = Append(@, m)]
    BY <1>0, <2>1 DEF Saved, Sessions
  <2> HIDE DEF saved
  <2>5. /\ session'[t] = Delivered(t, line, p, m) /\ pc'[t] = "receive_line"
        /\ \A u \in Txns \ {t} : pc'[u] = pc[u] /\ session'[u] = session[u]
        /\ rowLock' = [rowLock EXCEPT ![p] = t] /\ rowLock[p] \in {NONE, t}
    BY <1>0, <2>1 DEF Goto, RowFree, LockRow
  <2>6. /\ session'[t].written = [session[t].written EXCEPT ![p] = m.after]
        /\ session'[t].movements = [session[t].movements EXCEPT ![p] = Append(@, m)]
    BY <2>3, <2>4, <2>5
  <2>7. m.type # "ADJUSTMENT" /\ UNCHANGED <<quantity, ledger, req, overtaken>>
    BY <2>1
  <2>. QED  BY <2>2, <2>5, <2>6, <2>7, SaveStep
<1>3. CASE /\ ReceiveLock(t) \/ ReceiveLine(t) \/ ReceiveFinish(t)
           /\ ~ \E answer \in Ended : Rollback(t, answer)
  <2>1. /\ UNCHANGED <<quantity, ledger, rowLock, req, overtaken>>
        /\ \A u \in Txns \ {t} : pc'[u] = pc[u] /\ session'[u] = session[u]
        /\ pc'[t] \in {"receive_line", "receive_save", "commit"}
        /\ session'[t].written = session[t].written
        /\ session'[t].movements = session[t].movements
    <3>1. CASE ReceiveLock(t)
      BY <1>0, <1>3, <3>1 DEF ReceiveLock, Ended, Goto, Sessions
    <3>2. CASE ReceiveLine(t)
      BY <1>0, <1>3, <3>2 DEF ReceiveLine, Ended, Goto, Sessions
    <3>3. CASE ReceiveFinish(t)
      BY <1>0, <3>3 DEF ReceiveFinish, Goto, Sessions
    <3>. QED  BY <1>3, <3>1, <3>2, <3>3
  <2>. QED  BY <2>1, QuietStep
<1>. QED  BY <1>1, <1>2, <1>3

\* A header edit touches no stock.
LEMMA EditLedger ==
    ASSUME TypedLedger, NEW t \in Txns, EditLoad(t) \/ EditSave(t)
    PROVE  LedgerPart'
<1>0. /\ session[t] \in Sessions /\ session \in [Txns -> Sessions]
      /\ pc \in [Txns -> Labels]
  BY DEF TypedLedger, TypeInv, TypeOK
<1>1. CASE Rollback(t, "rejected")
  BY <1>1, RollbackLedger DEF Ended
<1>2. CASE ~Rollback(t, "rejected")
  <2>1. /\ UNCHANGED <<quantity, ledger, rowLock, req, overtaken>>
        /\ \A u \in Txns \ {t} : pc'[u] = pc[u] /\ session'[u] = session[u]
        /\ pc'[t] \in {"edit_save", "committed"}
        /\ \/ /\ session'[t].written = session[t].written
              /\ session'[t].movements = session[t].movements
           \/ session'[t] = EmptySession
    <3>1. CASE EditLoad(t)
      BY <1>0, <1>2, <3>1 DEF EditLoad, Goto, Sessions
    <3>2. CASE EditSave(t)
      BY <1>0, <3>2 DEF EditSave, Goto
    <3>. QED  BY <3>1, <3>2
  <2>. QED  BY <2>1, QuietStep
<1>. QED  BY <1>1, <1>2

\* What a commit does to one stock row: nothing, or the empty row a count lacked,
\* or the movements of the session with the balance behind the newest one.
LEMMA CommitRow ==
    ASSUME TypedLedger, NEW t \in Txns, Commit(t), NEW p \in Products
    PROVE  LET s == session[t].movements[p] IN
           /\ ledger'[p] = ledger[p] \o s
           /\ \/ s = <<>> /\ quantity'[p] = quantity[p]
              \/ s = <<>> /\ quantity'[p] = 0 /\ quantity[p] = NONE /\ rowLock[p] = t
              \/ s # <<>> /\ quantity'[p] = Left(s[Len(s)]) /\ rowLock[p] = t
<1> DEFINE s == session[t].movements[p]
<1>1. /\ ledger'[p] = ledger[p] \o s
      /\ quantity'[p] = IF session[t].written[p] = NONE THEN quantity[p]
                        ELSE session[t].written[p]
  BY DEF Commit
<1>2. /\ s = <<>> /\ session[t].written[p] # NONE =>
              session[t].written[p] = 0 /\ quantity[p] = NONE
      /\ s # <<>> => IF t \in overtaken
                     THEN session[t].written[p] = NONE /\ quantity[p] = s[Len(s)].before
                     ELSE session[t].written[p] = s[Len(s)].after
  BY DEF TypedLedger, LedgerPart, SessionsAgree
<1>3. session[t].written[p] # NONE \/ s # <<>> => rowLock[p] = t
  BY DEF TypedLedger, LedgerPart, RowsHeld
<1>4. s # <<>> => s[Len(s)].after # NONE /\ s[Len(s)].by = t
  <2>1. s \in Seq(Movements)
    BY DEF TypedLedger, TypeInv, TypeOK, Sessions
  <2>2. \A k \in 1..Len(s) : s[k].by = t
    BY DEF TypedLedger, SeenPart, MovementsSigned
  <2> HIDE DEF s
  <2>3. s # <<>> => s[Len(s)] \in Movements /\ Len(s) \in 1..Len(s)
    BY <2>1
  <2>4. s # <<>> => s[Len(s)].after \in Nat
    BY <2>3 DEF Movements
  <2>. QED  BY <2>2, <2>3, <2>4, NoneAssumption
<1> HIDE DEF s
<1>5. \/ s = <<>> /\ quantity'[p] = quantity[p]
      \/ s = <<>> /\ quantity'[p] = 0 /\ quantity[p] = NONE /\ rowLock[p] = t
      \/ s # <<>> /\ quantity'[p] = Left(s[Len(s)]) /\ rowLock[p] = t
  BY <1>1, <1>2, <1>3, <1>4 DEF Left
<1>. QED  BY <1>1, <1>5 DEF s

\* The counts that a commit overtakes have recorded nothing yet.
LEMMA LeftStays ==
    ASSUME TypedLedger, NEW t \in Txns, Commit(t), NEW p \in Products,
           NEW k \in 1..Len(ledger'[p])
    PROVE  Left(ledger[p][k])' = Left(ledger'[p][k])
<1> DEFINE a == ledger[p]
           s == session[t].movements[p]
           m == ledger'[p][k]
<1>1. a \in Seq(Movements) /\ s \in Seq(Movements) /\ ledger'[p] = a \o s
  BY CommitRow DEF TypedLedger, TypeInv, TypeOK, Sessions
<1>2. \/ k \in 1..Len(a) /\ m = a[k]
      \/ k - Len(a) \in 1..Len(s) /\ m = s[k - Len(a)]
  <2> HIDE DEF a, s
  <2>. QED  BY <1>1, ConcatElements
<1>3. m.by # NONE => pc[m.by] \in {"committed", "commit"}
  BY <1>2 DEF TypedLedger, SeenPart, MovementsSigned, Commit
<1>4. m.by \in overtaken' <=> m.by \in overtaken
  <2>1. NONE \notin overtaken'
    BY NoneAssumption DEF Commit, Overtakes, TypedLedger, TypeInv, TypeOK
  <2>. QED  BY <1>3, <2>1 DEF Commit, Overtakes
<1>. QED  BY <1>4 DEF Left

\* A commit appends the movements of the session together with the balances
\* they have left.
LEMMA CommitLedger ==
    ASSUME TypedLedger, NEW t \in Txns, Commit(t)
    PROVE  LedgerPart'
<1>0. /\ session \in [Txns -> Sessions] /\ pc \in [Txns -> Labels]
      /\ rowLock \in [Products -> Txns \cup {NONE}]
      /\ \A p \in Products : /\ ledger[p] \in Seq(Movements)
                             /\ session[t].movements[p] \in Seq(Movements)
  BY DEF TypedLedger, TypeInv, TypeOK, Sessions
<1>1. /\ \A u \in Txns \ {t} : pc'[u] = pc[u] /\ session'[u] = session[u]
      /\ pc'[t] = "committed" /\ session'[t] = EmptySession /\ req' = req
      /\ \A p \in Products : rowLock[p] # t => rowLock'[p] = rowLock[p]
  BY <1>0 DEF Commit, Goto, Release
<1>2. \A p \in Products : rowLock[p] # t => quantity'[p] = quantity[p]
  BY CommitRow
<1>3. RowsHeld'
  BY <1>1 DEF TypedLedger, LedgerPart, RowsHeld, EmptySession
<1>4. ASSUME NEW u \in Txns \ {t}, NEW p \in Products,
             \/ session[u].movements[p] # <<>>
             \/ session[u].written[p] # NONE
             \/ pc[u] = "count_save" /\ req[u].product = p
      PROVE  quantity'[p] = quantity[p]
  <2>1. rowLock[p] = u
    BY <1>4 DEF TypedLedger, LedgerPart, RowsHeld
  <2>. QED  BY <1>2, <2>1
<1>5. SessionsAgree'
  <2> SUFFICES ASSUME NEW u \in Txns, NEW p \in Products
               PROVE  LET s == session'[u] IN
                      /\ s.movements[p] = <<>> /\ s.written[p] # NONE =>
                              s.written[p] = 0 /\ quantity'[p] = NONE
                      /\ s.movements[p] # <<>> =>
                            LET newest == s.movements[p][Len(s.movements[p])] IN
                            IF u \in overtaken'
                            THEN s.written[p] = NONE /\ quantity'[p] = newest.before
                            ELSE s.written[p] = newest.after
                      /\ pc'[u] \in {"create_check", "create_save", "count_read", "count_lock",
                                     "count_insert", "count_save"} =>
                             s.movements[p] = <<>>
    BY DEF SessionsAgree
  <2>1. CASE u = t
    BY <1>1, <2>1 DEF EmptySession
  <2>2. CASE u # t
    <3>1. session[u].movements[p] # <<>> => (u \in overtaken' <=> u \in overtaken)
      BY DEF Commit, Overtakes, TypedLedger, LedgerPart, SessionsAgree
    <3>. QED  BY <1>1, <1>4, <2>2, <3>1 DEF TypedLedger, LedgerPart, SessionsAgree
  <2>. QED  BY <2>1, <2>2
<1>6. AdjustmentsAgree'
  <2> SUFFICES ASSUME NEW u \in Txns, NEW p \in Products
               PROVE  /\ pc'[u] = "count_save" /\ req'[u].product = p =>
                              session'[u].before = OnHand(p)'
                      /\ \A k \in 1..Len(session'[u].movements[p]) :
                            session'[u].movements[p][k].type = "ADJUSTMENT" =>
                              k = 1 /\ session'[u].movements[p][k].before = OnHand(p)'
    BY DEF AdjustmentsAgree
  <2>1. CASE u = t
    BY <1>1, <2>1 DEF EmptySession
  <2>2. CASE u # t
    <3>1. CASE \/ session[u].movements[p] # <<>>
               \/ pc[u] = "count_save" /\ req[u].product = p
      <4>1. OnHand(p)' = OnHand(p)
        BY <1>4, <2>2, <3>1 DEF OnHand
      <4>. QED  BY <1>1, <2>2, <4>1 DEF TypedLedger, LedgerPart, AdjustmentsAgree
    <3>2. CASE /\ session[u].movements[p] = <<>>
               /\ ~(pc[u] = "count_save" /\ req[u].product = p)
      BY <1>1, <2>2, <3>2
    <3>. QED  BY <3>1, <3>2
  <2>. QED  BY <2>1, <2>2
<1>7. ASSUME NEW p \in Products
      PROVE  /\ IF ledger'[p] = <<>> THEN quantity'[p] \in {NONE, 0}
                ELSE quantity'[p] = Left(ledger'[p][Len(ledger'[p])])
             /\ \A k \in 1..Len(ledger'[p]) : ledger'[p][k].type = "ADJUSTMENT" =>
                    ledger'[p][k].before = IF k = 1 THEN 0 ELSE Left(ledger'[p][k - 1])
  <2> DEFINE a == ledger[p]
             s == session[t].movements[p]
  <2>1. a \in Seq(Movements) /\ s \in Seq(Movements) /\ Len(a) \in Nat /\ Len(s) \in Nat
    BY <1>0
  <2>2. /\ ledger'[p] = a \o s
        /\ \/ s = <<>> /\ quantity'[p] = quantity[p]
           \/ s = <<>> /\ quantity'[p] = 0 /\ quantity[p] = NONE
           \/ s # <<>> /\ quantity'[p] = Left(s[Len(s)])
    BY CommitRow
  <2>3. /\ IF a = <<>> THEN quantity[p] \in {NONE, 0}
           ELSE quantity[p] = Left(a[Len(a)])
        /\ \A k \in 1..Len(a) : a[k].type = "ADJUSTMENT" =>
              a[k].before = IF k = 1 THEN 0 ELSE Left(a[k - 1])
    BY DEF TypedLedger, LedgerPart, BalanceIsLeftByLedger, AdjustmentsStartFromBalance,
           StartsFromPredecessor
  <2>4. \A k \in 1..Len(s) : s[k].type = "ADJUSTMENT" => k = 1 /\ s[k].before = OnHand(p)
    BY DEF TypedLedger, LedgerPart, AdjustmentsAgree
  <2> HIDE DEF a, s
  <2>5. /\ Len(a \o s) = Len(a) + Len(s)
        /\ \A k \in 1..Len(a) : (a \o s)[k] = a[k]
        /\ \A k \in Len(a) + 1 .. Len(a) + Len(s) : (a \o s)[k] = s[k - Len(a)]
    BY <2>1, ConcatElements
  <2>6. /\ a # <<>> => Len(a) >= 1 /\ Left(a[Len(a)]) \in Nat
        /\ s = <<>> => a \o s = a
        /\ s # <<>> => Len(s) >= 1 /\ a \o s # <<>>
    <3>1. a # <<>> => a[Len(a)] \in Movements /\ Len(a) >= 1
      BY <2>1
    <3>2. (s = <<>> => a \o s = a) /\ (s # <<>> => Len(s) >= 1)
      BY <2>1
    <3>3. s # <<>> => a \o s # <<>>
      BY <2>1, <2>5, <3>2
    <3>. QED  BY <3>1, <3>2, <3>3 DEF Movements, Left
  <2>7. IF ledger'[p] = <<>> THEN quantity'[p] \in {NONE, 0}
        ELSE quantity'[p] = Left(ledger'[p][Len(ledger'[p])])
    <3>1. CASE s # <<>>
      <4>1. (a \o s)[Len(a) + Len(s)] = s[Len(s)]
        BY <2>1, <2>5, <2>6, <3>1
      <4>. QED  BY <2>2, <2>5, <2>6, <3>1, <4>1
    <3>2. CASE s = <<>>
      BY <2>2, <2>3, <2>6, <3>2, NoneAssumption
    <3>. QED  BY <3>1, <3>2
  <2>8. ASSUME NEW k \in 1..Len(a \o s), (a \o s)[k].type = "ADJUSTMENT"
        PROVE  (a \o s)[k].before = IF k = 1 THEN 0 ELSE Left((a \o s)[k - 1])
    <3>1. CASE k <= Len(a)
      <4>1. (a \o s)[k] = a[k] /\ (k # 1 => (a \o s)[k - 1] = a[k - 1])
        BY <2>1, <2>5, <3>1
      <4>2. k \in 1..Len(a)
        BY <2>1, <3>1
      <4>. QED  BY <2>3, <2>8, <4>1, <4>2
    <3>2. CASE k > Len(a)
      <4>1. k - Len(a) \in 1..Len(s) /\ (a \o s)[k] = s[k - Len(a)]
        BY <2>1, <2>5, <3>2
      <4>2. k - Len(a) = 1 /\ (a \o s)[k].before = OnHand(p)
        BY <2>4, <2>8, <4>1
      <4>3. CASE a = <<>>
        <5>1. Len(a) = 0 /\ OnHand(p) = 0
          BY <2>3, <4>3 DEF OnHand
        <5>. QED  BY <4>2, <5>1
      <4>4. CASE a # <<>>
        <5>1. Len(a) >= 1 /\ OnHand(p) = Left(a[Len(a)])
          BY <2>3, <2>6, <4>4, NoneAssumption DEF OnHand
        <5>2. k = Len(a) + 1 /\ k # 1 /\ (a \o s)[k - 1] = a[Len(a)]
          BY <2>1, <2>5, <4>2, <5>1
        <5>. QED  BY <4>2, <5>1, <5>2
      <4>. QED  BY <4>3, <4>4
    <3>. QED  BY <2>1, <2>5, <3>1, <3>2
  <2>. QED  BY <2>2, <2>7, <2>8
<1>8. ASSUME NEW p \in Products, NEW k \in 1..Len(ledger'[p])
      PROVE  Left(ledger[p][k])' = Left(ledger'[p][k])
  BY LeftStays
<1>9. BalanceIsLeftByLedger'
  <2> SUFFICES ASSUME NEW p \in Products
               PROVE  IF ledger'[p] = <<>> THEN quantity'[p] \in {NONE, 0}
                      ELSE quantity'[p] = Left(ledger[p][Len(ledger[p])])'
    BY DEF BalanceIsLeftByLedger, Left
  <2>1. ledger'[p] # <<>> => Len(ledger'[p]) \in 1..Len(ledger'[p])
    <3>1. ledger'[p] = ledger[p] \o session[t].movements[p]
      BY CommitRow
    <3>2. ledger'[p] \in Seq(Movements)
      BY <1>0, <3>1
    <3>. QED  BY <3>2
  <2>. QED  BY <1>7, <1>8, <2>1
<1>10. AdjustmentsStartFromBalance'
  <2> SUFFICES ASSUME NEW p \in Products, NEW k \in 1..Len(ledger'[p]),
                      ledger'[p][k].type = "ADJUSTMENT"
               PROVE  ledger'[p][k].before =
                          IF k = 1 THEN 0 ELSE Left(ledger[p][k - 1])'
    BY DEF AdjustmentsStartFromBalance, StartsFromPredecessor
  <2>1. k # 1 => k - 1 \in 1..Len(ledger'[p])
    <3>1. Len(ledger'[p]) \in Nat
      BY <1>0, CommitRow
    <3>. QED  BY <3>1
  <2>. QED  BY <1>7, <1>8, <2>1
<1>. QED  BY <1>3, <1>5, <1>6, <1>9, <1>10 DEF LedgerPart

\* What CountsSee says of one request.
Seen(t) ==
    /\ pc[t] = "count_read" => session[t] = EmptySession
    /\ pc[t] \in {"count_lock", "count_insert", "count_save"} => CountSees(t)
    /\ t \in overtaken =>
          /\ pc[t] \in {"count_lock", "count_save", "commit"} \cup Ended
          /\ req[t].op = "count"

\* Nobody has counted or recorded anything at the start.
LEMMA InitSeen == Init => SeenPart
<1> SUFFICES ASSUME Init PROVE SeenPart
  OBVIOUS
<1>1. ASSUME NEW p \in Products, NEW k \in 1..Len(ledger[p]) PROVE ledger[p][k].by = NONE
  BY DEF Init, SeedLedger
<1>. QED  BY <1>1 DEF Init, SeenPart, MovementsSigned, CountsSee, EmptySession

\* Steps that change neither balances nor the ledger, and leave what t sees and
\* records in order.
LEMMA SeenStep ==
    ASSUME TypedLedger, NEW t \in Txns, UNCHANGED <<quantity, ledger, overtaken>>,
           \A u \in Txns \ {t} : /\ pc'[u] = pc[u] /\ req'[u] = req[u]
                                 /\ session'[u] = session[u],
           pc[t] # "committed", Seen(t)',
           \A p \in Products : \A k \in 1..Len(session'[t].movements[p]) :
                session'[t].movements[p][k].by = t
    PROVE  SeenPart'
<1>1. MovementsSigned'
  <2>1. ASSUME NEW p \in Products, NEW k \in 1..Len(ledger[p]), ledger[p][k].by # NONE
        PROVE  pc'[ledger[p][k].by] = "committed"
    <3>1. ledger[p] \in Seq(Movements)
      BY DEF TypedLedger, TypeInv, TypeOK
    <3>2. ledger[p][k].by \in Txns
      <4>1. ledger[p][k] \in Movements
        BY <2>1, <3>1
      <4>. QED  BY <2>1, <4>1 DEF Movements
    <3>3. pc[ledger[p][k].by] = "committed"
      BY <2>1 DEF TypedLedger, SeenPart, MovementsSigned
    <3>. QED  BY <3>2, <3>3
  <2>. QED  BY <2>1 DEF TypedLedger, SeenPart, MovementsSigned
<1>2. CountsSee'
  <2> SUFFICES ASSUME NEW u \in Txns \ {t} PROVE Seen(u)'
    BY DEF CountsSee, Seen
  <2>. QED  BY DEF TypedLedger, SeenPart, CountsSee, Seen, CountSees
<1>. QED  BY <1>1, <1>2 DEF SeenPart

\* A rollback forgets what a count has seen.
LEMMA RollbackSeen ==
    ASSUME TypedLedger, NEW t \in Txns, NEW answer \in Ended, Rollback(t, answer),
           pc[t] # "committed"
    PROVE  SeenPart'
<1>1. /\ \A u \in Txns \ {t} : pc'[u] = pc[u] /\ session'[u] = session[u]
      /\ pc'[t] = answer /\ session'[t] = EmptySession
      /\ UNCHANGED <<quantity, ledger, req, overtaken>>
  BY DEF TypedLedger, TypeInv, TypeOK, Rollback, Goto
<1>2. Seen(t)'
  BY <1>1 DEF Seen, Ended, TypedLedger, SeenPart, CountsSee
<1>3. \A p \in Products : Len(session'[t].movements[p]) = 0
  BY <1>1 DEF EmptySession
<1>. QED  BY <1>1, <1>2, <1>3, SeenStep

\* A request that arrives has seen nothing.
LEMMA BeginSeen ==
    ASSUME TypedLedger, NEW t \in Txns, Begin(t)
    PROVE  SeenPart'
<1>1. PICK r \in Requests : req' = [req EXCEPT ![t] = r] /\ Goto(t, FirstStep[r.op])
  BY DEF Begin
<1>2. FirstStep[r.op] \in {"create_check", "count_read", "receive_lock", "edit_load"}
  BY ConstantsAssumption
     DEF FirstStep, CreateRequests, CountRequests, ReceiveRequests, EditRequests
<1>3. /\ \A u \in Txns \ {t} : /\ pc'[u] = pc[u] /\ req'[u] = req[u]
                               /\ session'[u] = session[u]
      /\ pc'[t] = FirstStep[r.op] /\ pc[t] = "idle" /\ session'[t] = EmptySession
      /\ UNCHANGED <<quantity, ledger, overtaken>>
  BY <1>1 DEF TypedLedger, TypeInv, TypeOK, RequestFits, Begin, Goto
<1>4. Seen(t)'
  BY <1>2, <1>3 DEF Seen, Ended, TypedLedger, SeenPart, CountsSee
<1>5. \A p \in Products : Len(session'[t].movements[p]) = 0
  BY <1>3 DEF EmptySession
<1>. QED  BY <1>3, <1>4, <1>5, SeenStep

\* One more movement of t among movements of t.
LEMMA AppendSigned ==
    ASSUME NEW t, NEW ms \in [Products -> Seq(Movements)], NEW q \in Products,
           NEW m \in Movements, m.by = t, NEW p \in Products,
           \A k \in 1..Len(ms[p]) : ms[p][k].by = t
    PROVE  LET after == [ms EXCEPT ![q] = Append(@, m)][p] IN
           \A k \in 1..Len(after) : after[k].by = t
<1>1. CASE p = q
  <2> DEFINE a == ms[p]
  <2>1. a \in Seq(Movements) /\ \A k \in 1..Len(a) : a[k].by = t
    OBVIOUS
  <2>2. [ms EXCEPT ![q] = Append(@, m)][p] = Append(a, m)
    BY <1>1
  <2> HIDE DEF a
  <2>. QED  BY <2>1, <2>2, AppendElements
<1>2. CASE p # q
  BY <1>2
<1>. QED  BY <1>1, <1>2

\* Steps of requests that are not counts.
LEMMA OthersSeen ==
    ASSUME TypedLedger, NEW t \in Txns,
           UNCHANGED <<quantity, ledger, req, overtaken>>,
           \A u \in Txns \ {t} : pc'[u] = pc[u] /\ session'[u] = session[u],
           pc[t] \in {"create_check", "create_save", "receive_lock", "receive_line",
                      "receive_save", "edit_load", "edit_save"},
           pc'[t] \in {"create_save", "receive_line", "receive_save", "edit_save",
                       "commit", "committed"},
           \/ session'[t] = EmptySession
           \/ session'[t].movements = session[t].movements
           \/ \E p \in Products, m \in Movements :
                /\ session'[t].movements = [session[t].movements EXCEPT ![p] = Append(@, m)]
                /\ m.by = t
    PROVE  SeenPart'
<1>1. Seen(t)'
  BY DEF Seen, Ended, TypedLedger, SeenPart, CountsSee
<1>2. ASSUME NEW p \in Products, NEW k \in 1..Len(session'[t].movements[p])
      PROVE  session'[t].movements[p][k].by = t
  <2>0. /\ session[t].movements \in [Products -> Seq(Movements)]
        /\ \A j \in 1..Len(session[t].movements[p]) : session[t].movements[p][j].by = t
    BY DEF TypedLedger, TypeInv, TypeOK, Sessions, SeenPart, MovementsSigned
  <2>1. CASE session'[t] = EmptySession
    BY <1>2, <2>1 DEF EmptySession
  <2>2. CASE session'[t].movements = session[t].movements
    BY <2>0, <2>2
  <2>3. ASSUME NEW q \in Products, NEW m \in Movements, m.by = t,
               session'[t].movements = [session[t].movements EXCEPT ![q] = Append(@, m)]
        PROVE  session'[t].movements[p][k].by = t
    BY <2>0, <2>3, AppendSigned
  <2>. QED  BY <2>1, <2>2, <2>3
<1>. QED  BY <1>1, <1>2, SeenStep

\* Initial stocks, deliveries and header edits.
LEMMA OthersStep ==
    ASSUME TypedLedger, NEW t \in Txns,
           \/ CreateCheck(t) \/ CreateSave(t)
           \/ ReceiveLock(t) \/ ReceiveLine(t) \/ ReceiveSave(t) \/ ReceiveFinish(t)
           \/ EditLoad(t) \/ EditSave(t)
    PROVE  SeenPart'
<1>0. /\ session[t] \in Sessions /\ session \in [Txns -> Sessions]
      /\ pc \in [Txns -> Labels]
      /\ session[t].movements \in [Products -> Seq(Movements)]
  BY DEF TypedLedger, TypeInv, TypeOK, Sessions
<1>1. /\ pc[t] \in {"create_check", "create_save", "receive_lock", "receive_line",
                    "receive_save", "edit_load", "edit_save"}
      /\ pc[t] # "committed"
  BY DEF CreateCheck, CreateSave, ReceiveLock, ReceiveLine, ReceiveSave, ReceiveFinish,
         EditLoad, EditSave
<1>2. CASE \E answer \in Ended : Rollback(t, answer)
  BY <1>1, <1>2, RollbackSeen
<1>3. CASE ReceiveSave(t) /\ ~ \E answer \in Ended : Rollback(t, answer)
  <2> DEFINE line == Head(session[t].todo)
  <2>1. PICK p \in Products, m \in Movements :
          /\ m.by = t /\ Goto(t, "receive_line")
          /\ session' = [session EXCEPT ![t] = Delivered(t, line, p, m)]
          /\ UNCHANGED <<tables, orderLock, req, overtaken>>
    BY <1>3, ReceiptTyped DEF TypedLedger, Ended
  <2> DEFINE saved == Saved(t, p, session[t].before, m)
  <2>2. session[t].todo # <<>> /\ TypeOK
    BY <1>3 DEF TypedLedger, TypeInv, RequestFits, ReceiveSave
  <2>3. Delivered(t, line, p, m).movements = saved.movements
    BY <2>2, DeliveredTyped
  <2> HIDE DEF line
  <2>4. saved.movements = [session[t].movements EXCEPT ![p] = Append(@, m)]
    BY <1>0 DEF Saved, Sessions
  <2> HIDE DEF saved
  <2>5. /\ session'[t].movements = [session[t].movements EXCEPT ![p] = Append(@, m)]
        /\ pc'[t] = "receive_line"
        /\ \A u \in Txns \ {t} : pc'[u] = pc[u] /\ session'[u] = session[u]
        /\ UNCHANGED <<quantity, ledger, req, overtaken>>
    BY <1>0, <2>1, <2>3, <2>4 DEF Goto
  <2>. QED  BY <1>1, <2>1, <2>5, OthersSeen
<1>4. CASE CreateSave(t) /\ ~ \E answer \in Ended : Rollback(t, answer)
  <2> DEFINE p == req[t].product
             m == Movement(t, "ADJUSTMENT", req[t].direction, req[t].quantity, 0,
                           req[t].quantity)
  <2>1. p \in Products /\ req[t].direction \in Directions /\ req[t].quantity \in Nat
    BY <1>4 DEF CreateSave, CreateRequests, TypedLedger, TypeInv, RequestFits
  <2>a. m \in Movements
    BY <2>1, MovementTyped
  <2>2. m \in Movements /\ m.by = t
    BY <2>a DEF Movement
  <2> HIDE DEF m
  <2>3. /\ session' = [session EXCEPT ![t] = Saved(t, p, NONE, m)]
        /\ Goto(t, "commit")
        /\ UNCHANGED <<tables, orderLock, req, overtaken>>
    BY <1>4 DEF CreateSave, Ended, m
  <2>4. Saved(t, p, NONE, m).movements = [session[t].movements EXCEPT ![p] = Append(@, m)]
    BY <1>0 DEF Saved, Sessions
  <2>5. /\ session'[t].movements = [session[t].movements EXCEPT ![p] = Append(@, m)]
        /\ pc'[t] = "commit"
        /\ \A u \in Txns \ {t} : pc'[u] = pc[u] /\ session'[u] = session[u]
        /\ UNCHANGED <<quantity, ledger, req, overtaken>>
    BY <1>0, <2>3, <2>4 DEF Goto
  <2> HIDE DEF p
  <2>. QED  BY <1>1, <2>1, <2>2, <2>5, OthersSeen DEF p
<1>5. CASE /\ \/ CreateCheck(t) \/ ReceiveLock(t) \/ ReceiveLine(t) \/ ReceiveFinish(t)
              \/ EditLoad(t) \/ EditSave(t)
           /\ ~ \E answer \in Ended : Rollback(t, answer)
  <2>1. /\ UNCHANGED <<quantity, ledger, req, overtaken>>
        /\ \A u \in Txns \ {t} : pc'[u] = pc[u] /\ session'[u] = session[u]
        /\ pc'[t] \in {"create_save", "receive_line", "receive_save", "edit_save",
                       "commit", "committed"}
        /\ \/ session'[t] = EmptySession
           \/ session'[t].movements = session[t].movements
    <3>1. CASE CreateCheck(t)
      BY <1>0, <1>5, <3>1 DEF CreateCheck, Ended, Goto
    <3>2. CASE ReceiveLock(t)
      BY <1>0, <1>5, <3>2 DEF ReceiveLock, Ended, Goto, Sessions
    <3>3. CASE ReceiveLine(t)
      BY <1>0, <1>5, <3>3 DEF ReceiveLine, Ended, Goto, Sessions
    <3>4. CASE ReceiveFinish(t)
      BY <1>0, <3>4 DEF ReceiveFinish, Goto, Sessions
    <3>5. CASE EditLoad(t)
      BY <1>0, <1>5, <3>5 DEF EditLoad, Ended, Goto, Sessions
    <3>6. CASE EditSave(t)
      BY <1>0, <3>6 DEF EditSave, Goto
    <3>. QED  BY <1>5, <3>1, <3>2, <3>3, <3>4, <3>5, <3>6
  <2>. QED  BY <1>1, <2>1, OthersSeen
<1>. QED  BY <1>2, <1>3, <1>4, <1>5

\* A count sees its row at its first read, and may meet another balance behind it.
LEMMA CountSeen ==
    ASSUME TypedLedger, NEW t \in Txns,
           CountRead(t) \/ CountLock(t) \/ CountInsert(t) \/ CountSave(t)
    PROVE  SeenPart'
<1> DEFINE p == req[t].product
           r == req[t]
<1>0. /\ p \in Products /\ r.quantity \in Nat /\ r.quantity # NONE /\ Seen(t)
      /\ session[t] \in Sessions /\ quantity \in [Products -> Balances]
      /\ session \in [Txns -> Sessions] /\ pc \in [Txns -> Labels]
      /\ \A q \in Products : session[t].movements[q] = <<>>
      /\ pc[t] # "committed"
  BY NoneAssumption
     DEF TypedLedger, TypeInv, TypeOK, RequestFits, CountRead, CountLock, CountInsert,
         CountSave, LedgerPart, SessionsAgree, CountRequests, SeenPart, CountsSee, Seen
<1>1. CASE \E answer \in Ended : Rollback(t, answer)
  BY <1>0, <1>1, RollbackSeen
<1>2. CASE CountRead(t)
  <2> DEFINE s == [session[t] EXCEPT !.snapshot = quantity, !.hasView = TRUE]
  <2>1. session[t] = EmptySession /\ View(t) = quantity /\ t \notin overtaken
    BY <1>0, <1>2 DEF CountRead, Seen, View, EmptySession, Ended
  <2>2. s.snapshot = quantity /\ s.hasView /\ s.written[p] = NONE
        /\ s.movements = session[t].movements
    BY <1>0, <2>1 DEF EmptySession
  <2> HIDE DEF s
  <2>3. /\ UNCHANGED <<quantity, ledger, req, overtaken>>
        /\ \A u \in Txns \ {t} : pc'[u] = pc[u] /\ session'[u] = session[u]
        /\ pc'[t] = "count_lock" /\ session'[t] = s
    BY <1>0, <1>2, <2>1 DEF CountRead, Goto, s
  <2>4. Seen(t)'
    BY <2>1, <2>2, <2>3 DEF Seen, CountSees
  <2>5. \A q \in Products : Len(session'[t].movements[q]) = 0
    BY <1>0, <2>2, <2>3
  <2>. QED  BY <1>0, <2>3, <2>4, <2>5, SeenStep
<1>3. CASE CountLock(t)
  <2> DEFINE s == [session[t] EXCEPT !.before = quantity[p]]
  <2>0. CountSees(t) /\ pc[t] = "count_lock"
    BY <1>0, <1>3 DEF CountLock, Seen
  <2>1. /\ s.snapshot = session[t].snapshot /\ s.hasView = session[t].hasView
        /\ s.written = session[t].written /\ s.movements = session[t].movements
        /\ s.before = quantity[p]
    BY <1>0 DEF Sessions
  <2> HIDE DEF s
  <2>2. /\ UNCHANGED <<quantity, ledger, req, overtaken>>
        /\ \A u \in Txns \ {t} : pc'[u] = pc[u] /\ session'[u] = session[u]
        /\ \/ quantity[p] = NONE /\ pc'[t] = "count_insert" /\ session'[t] = session[t]
           \/ quantity[p] # NONE /\ pc'[t] = "count_save" /\ session'[t] = s
    BY <1>0, <1>3 DEF CountLock, Goto, s
  <2>3. Seen(t)'
    BY <1>0, <2>0, <2>1, <2>2 DEF Seen, CountSees
  <2>4. \A q \in Products : Len(session'[t].movements[q]) = 0
    BY <1>0, <2>1, <2>2
  <2>. QED  BY <1>0, <2>2, <2>3, <2>4, SeenStep
<1>4. CASE CountInsert(t) /\ ~ \E answer \in Ended : Rollback(t, answer)
  <2> DEFINE s == [session[t] EXCEPT !.written[p] = 0, !.before = 0]
  <2>0. CountSees(t) /\ pc[t] = "count_insert"
    BY <1>0, <1>4 DEF CountInsert, Seen
  <2>1. /\ s.snapshot = session[t].snapshot /\ s.hasView = session[t].hasView
        /\ s.written[p] = 0 /\ s.movements = session[t].movements
    BY <1>0 DEF Sessions
  <2> HIDE DEF s
  <2>2. /\ UNCHANGED <<quantity, ledger, req, overtaken>>
        /\ \A u \in Txns \ {t} : pc'[u] = pc[u] /\ session'[u] = session[u]
        /\ pc'[t] = "count_save" /\ session'[t] = s
    BY <1>0, <1>4 DEF CountInsert, Goto, Ended, s
  <2>3. Seen(t)'
    <3>1. session[t].snapshot[p] = NONE /\ t \notin overtaken
      BY <1>0, <2>0 DEF CountSees
    <3>2. 0 # NONE
      BY NoneAssumption
    <3>. QED  BY <1>0, <2>0, <2>1, <2>2, <3>1, <3>2 DEF Seen, CountSees
  <2>4. \A q \in Products : Len(session'[t].movements[q]) = 0
    BY <1>0, <2>1, <2>2
  <2>. QED  BY <1>0, <2>2, <2>3, <2>4, SeenStep
<1>5. CASE CountSave(t) /\ ~ \E answer \in Ended : Rollback(t, answer)
  <2>1. /\ UNCHANGED <<quantity, ledger, req, overtaken>>
        /\ pc' = [pc EXCEPT ![t] = "commit"] /\ pc[t] = "count_save"
    BY <1>5 DEF CountSave, Goto, Ended
  <2>2. Seen(t)'
    BY <1>0, <2>1 DEF Seen
  <2>3. CASE session' = session
    <3>1. \A q \in Products : Len(session'[t].movements[q]) = 0
      BY <1>0, <2>3
    <3>. QED  BY <1>0, <2>1, <2>2, <2>3, <3>1, SeenStep
  <2>4. CASE session' # session
    <3> DEFINE before == session[t].before
               difference == Difference(r.quantity, before)
               m == Movement(t, "ADJUSTMENT", IF difference > 0 THEN "IN" ELSE "OUT",
                             Amount(difference), before, r.quantity)
               stored == PlainRead(t, p)
    <3>1. before \in Nat
      BY <2>1 DEF TypedLedger, TypeInv, RequestFits
    <3>2. m \in Movements /\ m.by = t
      <4>1. Amount(difference) \in Nat
        BY <1>0, <3>1 DEF Amount, Difference
      <4>2. (IF difference > 0 THEN "IN" ELSE "OUT") \in Directions
        BY DEF Directions
      <4>3. m.by = t
        BY DEF Movement
      <4>4. m \in Movements
        BY <1>0, <3>1, <4>1, <4>2, MovementTyped
      <4>. QED  BY <4>3, <4>4
    <3> HIDE DEF m, stored
    <3>3. PICK e : session' = [session EXCEPT ![t] =
                                  [Saved(t, p, stored, m) EXCEPT !.events = e]]
      BY <1>5, <2>4 DEF CountSave, Ended, m, stored
    <3>4. session'[t].movements = [session[t].movements EXCEPT ![p] = Append(@, m)]
      BY <1>0, <3>2, <3>3, SavedTyped DEF Saved, Sessions
    <3>5. \A q \in Products : \A k \in 1..Len(session'[t].movements[q]) :
              session'[t].movements[q][k].by = t
      <4>1. /\ session[t].movements \in [Products -> Seq(Movements)]
            /\ \A q \in Products : Len(session[t].movements[q]) = 0
        BY <1>0 DEF Sessions
      <4>. QED  BY <1>0, <3>2, <3>4, <4>1, AppendSigned
    <3>6. \A u \in Txns \ {t} : pc'[u] = pc[u] /\ session'[u] = session[u]
      BY <1>0, <2>1, <3>3
    <3> HIDE DEF p
    <3>. QED  BY <1>0, <2>1, <2>2, <3>5, <3>6, SeenStep
  <2>. QED  BY <2>3, <2>4
<1>. QED  BY <1>1, <1>2, <1>3, <1>4, <1>5

\* A commit overtakes the waiting counts whose balance it takes from them.
LEMMA CommitSeen ==
    ASSUME TypedLedger, NEW t \in Txns, Commit(t)
    PROVE  SeenPart'
<1>0. /\ session \in [Txns -> Sessions] /\ pc \in [Txns -> Labels]
      /\ \A p \in Products : /\ ledger[p] \in Seq(Movements)
                             /\ session[t].movements[p] \in Seq(Movements)
  BY DEF TypedLedger, TypeInv, TypeOK, Sessions
<1>1. /\ \A u \in Txns \ {t} : pc'[u] = pc[u] /\ session'[u] = session[u]
      /\ pc'[t] = "committed" /\ session'[t] = EmptySession /\ req' = req
      /\ pc[t] = "commit" /\ overtaken' = overtaken \cup Overtakes(t)
      /\ \A p \in Products : quantity'[p] = IF session[t].written[p] = NONE
                                            THEN quantity[p] ELSE session[t].written[p]
  BY <1>0 DEF Commit, Goto
<1>2. ASSUME NEW p \in Products, NEW k \in 1..Len(ledger'[p]), ledger'[p][k].by # NONE
      PROVE  pc'[ledger'[p][k].by] = "committed"
  <2> DEFINE a == ledger[p]
             s == session[t].movements[p]
             m == ledger'[p][k]
  <2>1. a \in Seq(Movements) /\ s \in Seq(Movements) /\ ledger'[p] = a \o s
    BY <1>0, CommitRow
  <2>2. \/ k \in 1..Len(a) /\ m = a[k]
        \/ k - Len(a) \in 1..Len(s) /\ m = s[k - Len(a)]
    <3> HIDE DEF a, s
    <3>. QED  BY <2>1, ConcatElements
  <2>3. pc[m.by] = "committed" \/ m.by = t
    BY <1>2, <2>2 DEF TypedLedger, SeenPart, MovementsSigned
  <2>4. m.by \in Txns
    <3>1. m \in Movements
      BY <2>1, <2>2
    <3>. QED  BY <1>2, <3>1 DEF Movements
  <2>. QED  BY <1>1, <2>3, <2>4
<1>3. MovementsSigned'
  <2>1. \A p \in Products : Len(EmptySession.movements[p]) = 0
    BY DEF EmptySession
  <2>. QED  BY <1>1, <1>2, <2>1 DEF TypedLedger, SeenPart, MovementsSigned
<1>4. ASSUME NEW u \in Txns PROVE Seen(u)'
  <2>1. CASE u = t
    BY <1>1, <2>1 DEF Seen, Ended, Overtakes, TypedLedger, SeenPart, CountsSee
  <2>2. CASE u # t
    <3>1. Seen(u) /\ pc'[u] = pc[u] /\ session'[u] = session[u] /\ req'[u] = req[u]
      BY <1>1, <2>2 DEF TypedLedger, SeenPart, CountsSee, Seen
    <3>2. ASSUME pc[u] \in {"count_lock", "count_insert", "count_save"}, CountSees(u)
          PROVE  CountSees(u)'
      <4> DEFINE p == req[u].product
                 q == req[u].quantity
      <4>1. p \in Products /\ q \in Nat /\ q # NONE
        BY <3>2, NoneAssumption DEF TypedLedger, TypeInv, RequestFits, CountRequests
      <4>2. quantity[p] # NONE => quantity'[p] # NONE
        BY <1>1, <4>1
      <4>3. u \in overtaken' =>
                \/ u \in overtaken
                \/ pc[u] = "count_lock" /\ session[u].snapshot[p] = q
        BY <1>1 DEF Overtakes
      <4>4. u \in overtaken => u \in overtaken'
        BY <1>1
      <4>5. pc[u] = "count_lock" /\ session[u].snapshot[p] = q =>
                quantity'[p] = q \/ u \in overtaken'
        BY <1>1, <3>2, <4>1 DEF Overtakes, CountSees
      <4>. QED  BY <3>1, <3>2, <4>1, <4>2, <4>3, <4>4, <4>5 DEF CountSees
    <3>3. pc[u] = "count_lock" => req[u].op = "count"
      BY DEF TypedLedger, TypeInv, RequestFits, CountRequests
    <3>4. u \in overtaken' =>
            /\ pc[u] \in {"count_lock", "count_save", "commit"} \cup Ended
            /\ req[u].op = "count"
      BY <1>1, <3>1, <3>3 DEF Overtakes, Seen
    <3>. QED  BY <3>1, <3>2, <3>4 DEF Seen
  <2>. QED  BY <2>1, <2>2
<1>5. CountsSee'
  BY <1>4 DEF CountsSee, Seen
<1>. QED  BY <1>3, <1>5 DEF SeenPart

\* Every step keeps the invariant of balances.
LEMMA StepLedger == TypedLedger /\ [Next]_vars => LedgerPart' /\ SeenPart'
<1> SUFFICES ASSUME TypedLedger, [Next]_vars PROVE LedgerPart' /\ SeenPart'
  OBVIOUS
<1>1. ASSUME NEW t \in Txns, Begin(t) \/ Handle(t) \/ DeadlockVictim(t) \/ Fail(t)
      PROVE  LedgerPart' /\ SeenPart'
  <2>1. CASE DeadlockVictim(t) \/ Fail(t)
    <3>1. Rollback(t, "failed") /\ pc[t] # "committed"
      BY <2>1 DEF DeadlockVictim, Fail, Ended, Deadlocked, WaitsFor
    <3>. QED  BY <3>1, RollbackLedger, RollbackSeen DEF Ended
  <2>2. CASE Begin(t)
    BY <2>2, BeginLedger, BeginSeen
  <2>3. CASE CreateCheck(t) \/ CreateSave(t)
    BY <2>3, CreateLedger, OthersStep
  <2>4. CASE CountRead(t) \/ CountLock(t) \/ CountInsert(t) \/ CountSave(t)
    BY <2>4, CountLedger, CountSeen
  <2>5. CASE ReceiveLock(t) \/ ReceiveLine(t) \/ ReceiveSave(t) \/ ReceiveFinish(t)
    BY <2>5, DeliveryLedger, OthersStep
  <2>6. CASE EditLoad(t) \/ EditSave(t)
    BY <2>6, EditLedger, OthersStep
  <2>7. CASE Commit(t)
    BY <2>7, CommitLedger, CommitSeen
  <2>. QED
    BY <1>1, <2>1, <2>2, <2>3, <2>4, <2>5, <2>6, <2>7 DEF Handle
<1>2. ASSUME UNCHANGED vars PROVE LedgerPart' /\ SeenPart'
  <2>1. LedgerPart'
    BY <1>2 DEF vars, TypedLedger, LedgerPart, RowsHeld, SessionsAgree, AdjustmentsAgree,
       OnHand, BalanceIsLeftByLedger, AdjustmentsStartFromBalance, StartsFromPredecessor,
       Left
  <2>2. SeenPart'
    BY <1>2 DEF vars, TypedLedger, SeenPart, MovementsSigned, CountsSee, CountSees
  <2>. QED  BY <2>1, <2>2
<1>. QED  BY <1>1, <1>2 DEF Next, Quiescent

\* In every reachable state the stock rows a transaction has written are locked by
\* it and agree with the movements it has recorded; a count that another request
\* has overtaken leaves the balance it starts from (stock.service.ts:170-248,
\* purchase_orders.service.ts:611-657).
THEOREM LedgerInvariant == Spec => []LedgerInv
<1>1. Init => LedgerInv
  BY InitTyped, InitLedger, InitSeen DEF TypeInv, LedgerPart, SeenPart, LedgerInv
<1>2. LedgerInv /\ ReceivingInv /\ ReceivingInv' /\ [Next]_vars => LedgerInv'
  BY StepLedger DEF LedgerInv, ReceivingInv, TypedLedger, LedgerPart, SeenPart, TypeInv
<1>. QED  BY <1>1, <1>2, ReceivingInvariant, PTL DEF Spec

\* The balance of a stock row is the quantity_after of its newest movement, or the
\* quantity_before of an overtaken count, for every number of deliveries, counts and
\* initial stocks in any order.
THEOREM BalanceIsLedger == Spec => []BalanceIsLeftByLedger
<1>1. LedgerInv => BalanceIsLeftByLedger
  BY DEF LedgerInv
<1>. QED  BY <1>1, LedgerInvariant, PTL

\* A count or an initial stock never starts from a stale balance, whatever
\* deliveries run next to it, also behind a count that was overtaken: only a delivery
\* can start elsewhere.
THEOREM AdjustmentsAreNeverStale == Spec => []AdjustmentsStartFromBalance
<1>1. LedgerInv => AdjustmentsStartFromBalance
  BY DEF LedgerInv
<1>. QED  BY <1>1, LedgerInvariant, PTL

=============================================================================
