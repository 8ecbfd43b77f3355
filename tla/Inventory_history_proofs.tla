---------------------- MODULE Inventory_history_proofs ----------------------
(***************************************************************************)
(* What the history of stocks and orders shows, for every set of requests, *)
(* products, orders and items: low-stock rows and counts agree, movements  *)
(* say how balances changed, complete orders are RECEIVED, receipts add up *)
(* to what orders say has arrived, deliveries that nothing overlaps        *)
(* continue the ledger, and separate requests are carried out one at a     *)
(* time.                                                                   *)
(***************************************************************************)
EXTENDS Inventory_proofs, Sums

USE DEF tables, locks

\* The low-stock row that a movement of p calls for, if any.
Row(p, m) == [product |-> p, quantity |-> m.after, by |-> m.by]
Calls(p, m) == m.type = "ADJUSTMENT" /\ Falls(p, m.before, m.after)

\* Announcements by their elements.
LEMMA AnnouncementElements ==
    ASSUME NEW movements, NEW e
    PROVE  e \in Announcements(movements) <=>
             \E p \in Products : \E k \in 1..Len(movements[p]) :
                Calls(p, movements[p][k]) /\ e = Row(p, movements[p][k])
  BY DEF Announcements, Calls, Row

\* Without movements there is nothing to announce.
LEMMA NothingAnnounced ==
    ASSUME NEW movements, \A p \in Products : movements[p] = <<>>
    PROVE  Announcements(movements) = {}
<1>1. \A p \in Products : Len(movements[p]) = 0
  OBVIOUS
<1>. QED  BY <1>1, AnnouncementElements

\* One more movement announces itself.
LEMMA AppendAnnounces ==
    ASSUME NEW a \in [Products -> Seq(Movements)], NEW p \in Products,
           NEW m \in Movements
    PROVE  Announcements([a EXCEPT ![p] = Append(@, m)])
             = Announcements(a) \cup (IF Calls(p, m) THEN {Row(p, m)} ELSE {})
<1> DEFINE b == [a EXCEPT ![p] = Append(@, m)]
<1>1. /\ Len(b[p]) = Len(a[p]) + 1 /\ b[p][Len(a[p]) + 1] = m
      /\ \A k \in 1..Len(a[p]) : b[p][k] = a[p][k]
      /\ \A q \in Products \ {p} : b[q] = a[q]
      /\ Len(a[p]) \in Nat
  <2>1. b[p] = Append(a[p], m) /\ a[p] \in Seq(Movements)
    OBVIOUS
  <2>. QED  BY <2>1, AppendElements
<1> HIDE DEF b
<1>2. ASSUME NEW e \in Announcements(b)
      PROVE  e \in Announcements(a) \/ (Calls(p, m) /\ e = Row(p, m))
  <2>0. PICK q \in Products : \E k \in 1..Len(b[q]) :
             Calls(q, b[q][k]) /\ e = Row(q, b[q][k])
    BY <1>2, AnnouncementElements
  <2>1. PICK k \in 1..Len(b[q]) : Calls(q, b[q][k]) /\ e = Row(q, b[q][k])
    BY <2>0
  <2>2. CASE q # p \/ k <= Len(a[p])
    <3>1. k \in 1..Len(a[q]) /\ b[q][k] = a[q][k]
      BY <1>1, <2>2
    <3>. QED  BY <2>1, <3>1, AnnouncementElements
  <2>3. CASE q = p /\ k > Len(a[p])
    <3>1. b[q][k] = m
      BY <1>1, <2>3
    <3>. QED  BY <2>1, <2>3, <3>1
  <2>. QED  BY <1>1, <2>2, <2>3
<1>3. ASSUME NEW e \in Announcements(a) PROVE e \in Announcements(b)
  <2>0. PICK q \in Products : \E k \in 1..Len(a[q]) :
             Calls(q, a[q][k]) /\ e = Row(q, a[q][k])
    BY <1>3, AnnouncementElements
  <2>1. PICK k \in 1..Len(a[q]) : Calls(q, a[q][k]) /\ e = Row(q, a[q][k])
    BY <2>0
  <2>2. k \in 1..Len(b[q]) /\ b[q][k] = a[q][k]
    BY <1>1
  <2>. QED  BY <2>1, <2>2, AnnouncementElements
<1>4. Calls(p, m) => Row(p, m) \in Announcements(b)
  <2>1. Len(a[p]) + 1 \in 1..Len(b[p])
    BY <1>1
  <2>. QED  BY <1>1, <2>1, AnnouncementElements
<1>. QED  BY <1>2, <1>3, <1>4 DEF b

\* The movements of a session join those of the ledger with what they announce.
LEMMA ConcatAnnounces ==
    ASSUME NEW a \in [Products -> Seq(Movements)], NEW b \in [Products -> Seq(Movements)]
    PROVE  Announcements([p \in Products |-> a[p] \o b[p]])
             = Announcements(a) \cup Announcements(b)
<1> DEFINE c == [p \in Products |-> a[p] \o b[p]]
<1>1. ASSUME NEW p \in Products
      PROVE  /\ Len(c[p]) = Len(a[p]) + Len(b[p])
             /\ Len(a[p]) \in Nat /\ Len(b[p]) \in Nat
             /\ \A k \in 1..Len(a[p]) : c[p][k] = a[p][k]
             /\ \A k \in 1..Len(b[p]) : c[p][Len(a[p]) + k] = b[p][k]
  <2>1. a[p] \in Seq(Movements) /\ b[p] \in Seq(Movements) /\ c[p] = a[p] \o b[p]
    OBVIOUS
  <2> HIDE DEF c
  <2>. QED  BY <2>1, ConcatElements
<1> HIDE DEF c
<1>2. ASSUME NEW e \in Announcements(c)
      PROVE  e \in Announcements(a) \cup Announcements(b)
  <2>0. PICK p \in Products : \E k \in 1..Len(c[p]) :
             Calls(p, c[p][k]) /\ e = Row(p, c[p][k])
    BY <1>2, AnnouncementElements
  <2>1. PICK k \in 1..Len(c[p]) : Calls(p, c[p][k]) /\ e = Row(p, c[p][k])
    BY <2>0
  <2>2. CASE k <= Len(a[p])
    <3>1. k \in 1..Len(a[p]) /\ c[p][k] = a[p][k]
      BY <1>1, <2>2
    <3>. QED  BY <2>1, <3>1, AnnouncementElements
  <2>3. CASE k > Len(a[p])
    <3>1. k - Len(a[p]) \in 1..Len(b[p]) /\ c[p][k] = b[p][k - Len(a[p])]
      BY <1>1, <2>3
    <3>. QED  BY <2>1, <3>1, AnnouncementElements
  <2>. QED  BY <1>1, <2>2, <2>3
<1>3. ASSUME NEW e \in Announcements(a) PROVE e \in Announcements(c)
  <2>0. PICK p \in Products : \E k \in 1..Len(a[p]) :
             Calls(p, a[p][k]) /\ e = Row(p, a[p][k])
    BY <1>3, AnnouncementElements
  <2>1. PICK k \in 1..Len(a[p]) : Calls(p, a[p][k]) /\ e = Row(p, a[p][k])
    BY <2>0
  <2>2. k \in 1..Len(c[p]) /\ c[p][k] = a[p][k]
    BY <1>1
  <2>. QED  BY <2>1, <2>2, AnnouncementElements
<1>4. ASSUME NEW e \in Announcements(b) PROVE e \in Announcements(c)
  <2>0. PICK p \in Products : \E k \in 1..Len(b[p]) :
             Calls(p, b[p][k]) /\ e = Row(p, b[p][k])
    BY <1>4, AnnouncementElements
  <2>1. PICK k \in 1..Len(b[p]) : Calls(p, b[p][k]) /\ e = Row(p, b[p][k])
    BY <2>0
  <2>2. Len(a[p]) + k \in 1..Len(c[p]) /\ c[p][Len(a[p]) + k] = b[p][k]
    BY <1>1
  <2>. QED  BY <2>1, <2>2, AnnouncementElements
<1>. QED  BY <1>2, <1>3, <1>4 DEF c

-----------------------------------------------------------------------------
(* The shapes of a step                                                    *)

\* All but the session of t, which runs, and the rows it may lock.
OnlySession(t) ==
    /\ pc[t] \notin Ended
    /\ \A u \in Txns \ {t} : /\ pc'[u] = pc[u] /\ req'[u] = req[u]
                             /\ session'[u] = session[u]
    /\ UNCHANGED <<quantity, ledger, outbox, received, overtaken>>

\* t records nothing, or forgets what it has recorded.
Quiet(t) ==
    /\ OnlySession(t)
    /\ \/ /\ session'[t].movements = session[t].movements
          /\ session'[t].events = session[t].events
          /\ session'[t].submitted = session[t].submitted
          /\ session'[t].received = session[t].received \/ pc[t] = "receive_lock"
       \/ session'[t] = EmptySession

\* The quantity of a movement is what it adds to the balance, or takes from it.
Signs(m) ==
    m.after = IF m.direction = "IN" THEN m.before + m.quantity
                                    ELSE m.before - m.quantity

\* The item that a movement of p receives, if it is a receipt.
ReceivesItem(t, p, m) ==
    \E i \in Items : /\ ProductOf[i] = p /\ i \notin session[t].submitted
                     /\ OrderOf[i] = req[t].order
                     /\ session'[t].submitted = session[t].submitted \cup {i}
                     /\ session'[t].received =
                            [session[t].received EXCEPT ![i] = @ + m.quantity]
SameItems(t) == /\ session'[t].submitted = session[t].submitted
                /\ session'[t].received = session[t].received

\* t records a movement of p with the low-stock row it calls for.
Records(t, p, m) ==
    /\ OnlySession(t) /\ pc[t] # "idle"
    /\ session'[t].movements = [session[t].movements EXCEPT ![p] = Append(@, m)]
    /\ session'[t].events = session[t].events \cup (IF Calls(p, m) THEN {Row(p, m)} ELSE {})
    /\ m.by = t
    /\ IF m.type = "RECEIPT" THEN ReceivesItem(t, p, m) /\ Receiving(t) ELSE SameItems(t)
    /\ \/ Signs(m)
       \/ /\ req[t] \in CreateRequests /\ m.direction = req[t].direction
          /\ m.after = m.before + m.quantity

\* A rollback is quiet.
LEMMA RollbackShape ==
    ASSUME TypedLedger, NEW t \in Txns, NEW answer, Rollback(t, answer),
           pc[t] \notin Ended
    PROVE  Quiet(t)
  BY DEF TypedLedger, TypeInv, TypeOK, Rollback, Goto, Quiet, OnlySession

\* The arrival of a request is quiet.
LEMMA BeginShape ==
    ASSUME TypedLedger, NEW t \in Txns, Begin(t)
    PROVE  Quiet(t)
  BY DEF TypedLedger, TypeInv, TypeOK, Begin, Goto, Quiet, OnlySession, Ended

\* The step of an initial stock: no empty balance is above a reorder level.
LEMMA CreateShape ==
    ASSUME TypedLedger, NEW t \in Txns, CreateCheck(t) \/ CreateSave(t)
    PROVE  Quiet(t) \/ \E p \in Products, m \in Movements : Records(t, p, m)
<1>0. /\ req[t] \in CreateRequests /\ pc[t] \notin Ended \cup {"idle"}
      /\ session[t] \in Sessions /\ session \in [Txns -> Sessions]
      /\ pc \in [Txns -> Labels] /\ req[t].quantity \in Nat
      /\ req[t].direction \in Directions /\ req[t].product \in Products
  BY DEF TypedLedger, TypeInv, TypeOK, RequestFits, CreateCheck, CreateSave, Ended,
         CreateRequests
<1>1. CASE \E answer \in Ended : Rollback(t, answer)
  BY <1>0, <1>1, RollbackShape
<1>2. CASE CreateCheck(t) /\ ~ \E answer \in Ended : Rollback(t, answer)
  BY <1>0, <1>2 DEF CreateCheck, Ended, Goto, Quiet, OnlySession
<1>3. CASE CreateSave(t) /\ ~ \E answer \in Ended : Rollback(t, answer)
  <2> DEFINE p == req[t].product
             m == Movement(t, "ADJUSTMENT", req[t].direction, req[t].quantity, 0,
                           req[t].quantity)
  <2>1. /\ session' = [session EXCEPT ![t] = Saved(t, p, NONE, m)] /\ Goto(t, "commit")
        /\ UNCHANGED <<quantity, ledger, outbox, received, req, overtaken>>
    BY <1>3 DEF CreateSave, Ended
  <2>2. /\ m \in Movements /\ m.by = t /\ m.before = 0 /\ m.direction = req[t].direction
        /\ m.type = "ADJUSTMENT" /\ m.after = m.before + m.quantity
    <3>1. m.before = 0 /\ m.after = req[t].quantity /\ m.quantity = req[t].quantity
      BY DEF Movement
    <3>2. m.after = m.before + m.quantity
      BY <1>0, <3>1
    <3>. QED  BY <1>0, <3>1, <3>2, MovementTyped DEF Movement
  <2> HIDE DEF m
  <2>3. ~ Calls(p, m)
    BY <1>0, <2>2, ConstantsAssumption DEF Calls, Falls
  <2>4. OnlySession(t) /\ session'[t] = Saved(t, p, NONE, m)
    BY <1>0, <2>1 DEF OnlySession, Goto
  <2>5. Records(t, p, m)
    <3>1. /\ session'[t].movements = [session[t].movements EXCEPT ![p] = Append(@, m)]
          /\ session'[t].events = session[t].events /\ SameItems(t)
      BY <1>0, <2>4 DEF Saved, Sessions, SameItems
    <3>. QED  BY <1>0, <2>2, <2>3, <2>4, <3>1 DEF Records
  <2>. QED  BY <1>0, <2>2, <2>5
<1>. QED  BY <1>1, <1>2, <1>3

\* The steps of a count: it announces its movement if it took the balance down.
LEMMA CountShape ==
    ASSUME TypedLedger, SessionsAnnounce, NEW t \in Txns,
           CountRead(t) \/ CountLock(t) \/ CountInsert(t) \/ CountSave(t)
    PROVE  Quiet(t) \/ \E p \in Products, m \in Movements : Records(t, p, m)
<1> DEFINE p == req[t].product
<1>0. /\ p \in Products /\ req[t].quantity \in Nat /\ pc[t] \notin Ended \cup {"idle"}
      /\ session[t] \in Sessions /\ session \in [Txns -> Sessions]
      /\ pc \in [Txns -> Labels]
      /\ \A q \in Products : session[t].movements[q] = <<>>
  BY DEF TypedLedger, TypeInv, TypeOK, RequestFits, CountRead, CountLock, CountInsert,
         CountSave,
         LedgerPart, SessionsAgree, CountRequests, Ended
<1>1. CASE \E answer \in Ended : Rollback(t, answer)
  BY <1>0, <1>1, RollbackShape
<1>2. CASE CountRead(t) \/ CountLock(t)
  BY <1>0, <1>2 DEF CountRead, CountLock, Goto, Quiet, OnlySession, Sessions
<1>3. CASE CountInsert(t) /\ ~ \E answer \in Ended : Rollback(t, answer)
  BY <1>0, <1>3, SMTT(30) DEF CountInsert, Ended, Goto, Quiet, OnlySession, Sessions
<1>4. CASE CountSave(t) /\ ~ \E answer \in Ended : Rollback(t, answer)
  <2> DEFINE before == session[t].before
             difference == Difference(req[t].quantity, before)
             m == Movement(t, "ADJUSTMENT", IF difference > 0 THEN "IN" ELSE "OUT",
                           Amount(difference), before, req[t].quantity)
             event == [product |-> p, quantity |-> req[t].quantity, by |-> t]
             events == IF CrossedReorderLevel(p, before, req[t].quantity)
                       THEN {event} ELSE {}
             stored == PlainRead(t, p)
  <2>1. CASE session' = session
    BY <1>0, <1>4, <2>1 DEF CountSave, Ended, Goto, Quiet, OnlySession
  <2>2. CASE session' # session
    <3>1. /\ session' = [session EXCEPT ![t] =
                          [Saved(t, p, stored, m) EXCEPT !.events = events]]
          /\ Goto(t, "commit") /\ difference # 0
          /\ UNCHANGED <<quantity, ledger, outbox, received, req, overtaken>>
      BY <1>4, <2>2 DEF CountSave, Ended
    <3>2. before \in Nat
      BY <1>4 DEF CountSave, TypedLedger, TypeInv, RequestFits
    <3>3. /\ m \in Movements /\ m.by = t /\ Signs(m)
          /\ m.type = "ADJUSTMENT" /\ m.before = before /\ m.after = req[t].quantity
      <4>1. Amount(difference) \in Nat
        BY <1>0, <3>2 DEF Amount, Difference
      <4>2. (IF difference > 0 THEN "IN" ELSE "OUT") \in Directions
        BY DEF Directions
      <4>3. Signs(m)
        BY <1>0, <3>2 DEF Signs, Movement, Amount, Difference
      <4>. QED  BY <1>0, <3>2, <4>1, <4>2, <4>3, MovementTyped DEF Movement
    <3> HIDE DEF m
    <3>4. events = IF Calls(p, m) THEN {Row(p, m)} ELSE {}
      BY <1>0, <3>2, <3>3, ConstantsAssumption
         DEF Calls, Row, Falls, CrossedReorderLevel
    <3>5. session[t].events = {}
      BY <1>0, NothingAnnounced DEF SessionsAnnounce
    <3> HIDE DEF events, p, stored
    <3>6. OnlySession(t) /\ session'[t] = [Saved(t, p, stored, m) EXCEPT !.events = events]
      BY <1>0, <3>1 DEF OnlySession, Goto
    <3>7. /\ session'[t].movements = [session[t].movements EXCEPT ![p] = Append(@, m)]
          /\ session'[t].events = events /\ SameItems(t)
      BY <1>0, <3>6 DEF Saved, Sessions, SameItems
    <3>8. Records(t, p, m)
      BY <1>0, <3>3, <3>4, <3>5, <3>6, <3>7 DEF Records
    <3>. QED  BY <1>0, <3>3, <3>8 DEF p
  <2>. QED  BY <2>1, <2>2
<1>. QED  BY <1>1, <1>2, <1>3, <1>4

\* A receipt of t and its line, from the balance the delivery has read.
LEMMA ReceiptShape ==
    ASSUME TypedLedger, NEW t \in Txns, ReceiveSave(t), ~Rollback(t, "failed")
    PROVE  LET line == Head(session[t].todo)
               p == ProductOf[line.item]
               from == IF session[t].before = NONE THEN 0 ELSE session[t].before
               m == Movement(t, "RECEIPT", "IN", line.quantity, from, from + line.quantity)
           IN /\ p \in Products /\ m \in Movements
              /\ RowFree(t, p) /\ ~DuplicateRow(p, session[t].before)
              /\ session'[t].written = [session[t].written EXCEPT ![p] = m.after]
              /\ session'[t].todo = Tail(session[t].todo)
              /\ session'[t].snapshot = session[t].snapshot
              /\ session'[t].hasView = session[t].hasView
              /\ pc'[t] = "receive_line"
              /\ rowLock' = [rowLock EXCEPT ![p] = t]
              /\ Records(t, p, m)
<1> DEFINE line == Head(session[t].todo)
           p == ProductOf[line.item]
           from == IF session[t].before = NONE THEN 0 ELSE session[t].before
           m == Movement(t, "RECEIPT", "IN", line.quantity, from, from + line.quantity)
           s == [Saved(t, p, session[t].before, m) EXCEPT
                    !.received[line.item] = @ + line.quantity,
                    !.submitted = @ \cup {line.item},
                    !.todo = Tail(@)]
<1>1. /\ session[t].todo # <<>> /\ session[t] \in Sessions /\ TypeOK
      /\ session \in [Txns -> Sessions] /\ pc \in [Txns -> Labels]
      /\ pc[t] \notin Ended \cup {"idle"}
  BY DEF TypedLedger, TypeInv, TypeOK, RequestFits, ReceiveSave, Ended
<1>2. /\ line.quantity \in Nat /\ p \in Products /\ from \in Nat
      /\ from + line.quantity # session[t].before
  BY <1>1, HeadTyped, NoneAssumption DEF Sessions, Balances
<1>3. /\ m \in Movements /\ m.type = "RECEIPT" /\ m.by = t
      /\ m.direction = "IN" /\ m.quantity = line.quantity
      /\ m.before = from /\ m.after = from + line.quantity
      /\ m.after # session[t].before
  <2> HIDE DEF from, line
  <2>1. from + line.quantity \in Nat /\ "IN" \in Directions
    BY <1>2 DEF Directions
  <2>. QED  BY <1>2, <2>1, MovementTyped DEF Movement
<1>4. /\ RowFree(t, p) /\ LockRow(t, p) /\ Goto(t, "receive_line")
      /\ ~DuplicateRow(p, session[t].before)
      /\ session' = [session EXCEPT ![t] = s]
      /\ UNCHANGED <<tables, orderLock, req, overtaken>>
  BY DEF ReceiveSave
<1> HIDE DEF m, p
<1>5. /\ s.movements = [session[t].movements EXCEPT ![p] = Append(@, m)]
      /\ s.written = [session[t].written EXCEPT ![p] = m.after]
      /\ s.events = session[t].events
      /\ s.todo = Tail(session[t].todo)
      /\ s.snapshot = session[t].snapshot /\ s.hasView = session[t].hasView
  BY <1>1, <1>3 DEF Saved, Sessions
<1> HIDE DEF s
<1>6. session'[t] = s /\ OnlySession(t)
  BY <1>1, <1>4 DEF OnlySession, Goto
<1>7. ~Calls(p, m) /\ Signs(m)
  BY <1>2, <1>3 DEF Calls, Signs
<1>9. ReceivesItem(t, p, m) /\ Receiving(t)
  <2>1. line.item \in Items /\ LineAccepted(t) /\ Receiving(t)
    BY <1>1, HeadTyped DEF TypedLedger, TypeInv, RequestFits, ReceiveSave, Receiving
  <2>2. line.item \notin session[t].submitted /\ OrderOf[line.item] = req[t].order
    BY <2>1 DEF LineAccepted
  <2>3. /\ s.submitted = session[t].submitted \cup {line.item}
        /\ s.received = [session[t].received EXCEPT ![line.item] = @ + m.quantity]
    BY <1>1, <1>3 DEF s, Saved, Sessions
  <2> HIDE DEF line
  <2>. QED  BY <1>6, <2>1, <2>2, <2>3 DEF ReceivesItem, p
<1>8. Records(t, p, m)
  BY <1>1, <1>3, <1>5, <1>6, <1>7, <1>9 DEF Records
<1>. QED  BY <1>1, <1>2, <1>3, <1>4, <1>5, <1>6, <1>8 DEF m, p, Goto, LockRow

\* The steps of a delivery.
LEMMA DeliveryShape ==
    ASSUME TypedLedger, NEW t \in Txns,
           ReceiveLock(t) \/ ReceiveLine(t) \/ ReceiveSave(t) \/ ReceiveFinish(t)
    PROVE  Quiet(t) \/ \E p \in Products, m \in Movements : Records(t, p, m)
<1>0. /\ session[t] \in Sessions /\ session \in [Txns -> Sessions]
      /\ pc \in [Txns -> Labels] /\ pc[t] \notin Ended
  BY DEF TypedLedger, TypeInv, TypeOK, ReceiveLock, ReceiveLine, ReceiveSave,
         ReceiveFinish, Ended
<1>1. CASE \E answer \in Ended : Rollback(t, answer)
  BY <1>0, <1>1, RollbackShape
<1>2. CASE ~ \E answer \in Ended : Rollback(t, answer)
  <2>1. CASE ReceiveLock(t)
    BY <1>0, <1>2, <2>1 DEF ReceiveLock, Ended, Goto, Sessions, Quiet, OnlySession
  <2>2. CASE ReceiveLine(t)
    BY <1>0, <1>2, <2>2 DEF ReceiveLine, Ended, Goto, Sessions, Quiet, OnlySession
  <2>3. CASE ReceiveFinish(t)
    BY <1>0, <2>3 DEF ReceiveFinish, Goto, Sessions, Quiet, OnlySession
  <2>4. CASE ReceiveSave(t)
    BY <1>2, <2>4, ReceiptShape DEF Ended
  <2>. QED  BY <2>1, <2>2, <2>3, <2>4
<1>. QED  BY <1>1, <1>2

\* An edit of the header is quiet.
LEMMA EditShape ==
    ASSUME TypedLedger, NEW t \in Txns, EditLoad(t) \/ EditSave(t)
    PROVE  Quiet(t)
<1>0. /\ session[t] \in Sessions /\ session \in [Txns -> Sessions]
      /\ pc \in [Txns -> Labels] /\ pc[t] \notin Ended
  BY DEF TypedLedger, TypeInv, TypeOK, EditLoad, EditSave, Ended
<1>1. CASE Rollback(t, "rejected")
  BY <1>0, <1>1, RollbackShape
<1>2. CASE EditLoad(t) /\ ~Rollback(t, "rejected")
  BY <1>0, <1>2 DEF EditLoad, Goto, Sessions, Quiet, OnlySession
<1>3. CASE EditSave(t)
  BY <1>0, <1>3 DEF EditSave, Goto, Quiet, OnlySession
<1>. QED  BY <1>1, <1>2, <1>3

\* Every step but a commit is quiet or records one movement.
LEMMA StepShape ==
    ASSUME TypedLedger, SessionsAnnounce, [Next]_vars
    PROVE  \/ UNCHANGED vars
           \/ \E t \in Txns : Commit(t) \/ Quiet(t)
           \/ \E t \in Txns, p \in Products, m \in Movements : Records(t, p, m)
<1>1. ASSUME NEW t \in Txns, Begin(t) \/ Handle(t) \/ DeadlockVictim(t) \/ Fail(t)
      PROVE  \/ Commit(t) \/ Quiet(t)
             \/ \E p \in Products, m \in Movements : Records(t, p, m)
  <2>1. CASE Begin(t)
    BY <2>1, BeginShape
  <2>2. CASE Handle(t)
    BY <2>2, CreateShape, CountShape, DeliveryShape, EditShape DEF Handle
  <2>3. CASE DeadlockVictim(t)
    <3>1. pc[t] \notin Ended
      BY <2>3 DEF DeadlockVictim, Deadlocked, WaitsFor, Ended
    <3>. QED  BY <2>3, <3>1, RollbackShape DEF DeadlockVictim
  <2>4. CASE Fail(t)
    BY <2>4, RollbackShape DEF Fail
  <2>. QED  BY <1>1, <2>1, <2>2, <2>3, <2>4
<1>. QED  BY <1>1 DEF Next, Quiescent

-----------------------------------------------------------------------------
(* Low-stock rows                                                          *)

\* Before the first step nothing is announced.
LEMMA InitOutbox == Init => OutboxInv
<1> SUFFICES ASSUME Init PROVE OutboxInv
  OBVIOUS
<1>1. ASSUME NEW p \in Products, NEW k \in 1..Len(ledger[p])
      PROVE  ~Calls(p, ledger[p][k])
  <2>1. ledger[p] = SeedLedger(p)
    BY DEF Init
  <2>2. CASE Opening[p] \in {NONE, 0}
    BY <1>1, <2>1, <2>2 DEF SeedLedger
  <2>3. CASE Opening[p] \notin {NONE, 0}
    <3> DEFINE e == [type |-> "INITIAL_STOCK", direction |-> "IN",
                     quantity |-> Opening[p], before |-> 0, after |-> Opening[p],
                     by |-> NONE]
    <3>1. ledger[p] = <<e>> /\ e.type = "INITIAL_STOCK"
      BY <2>1, <2>3 DEF SeedLedger
    <3> HIDE DEF e
    <3>2. ledger[p][k] = e
      BY <3>1
    <3>. QED  BY <3>1, <3>2 DEF Calls
  <2>. QED  BY <2>2, <2>3
<1>2. OutboxMatchesLedger
  BY <1>1, AnnouncementElements DEF OutboxMatchesLedger, Init
<1>3. SessionsAnnounce /\ EventsSigned
  BY NothingAnnounced DEF SessionsAnnounce, EventsSigned, Init, EmptySession
<1>. QED  BY <1>2, <1>3 DEF OutboxInv

\* A quiet step leaves them as they are.
LEMMA QuietOutbox ==
    ASSUME TypedLedger, OutboxInv, NEW t \in Txns, Quiet(t)
    PROVE  OutboxInv'
<1>1. Announcements(EmptySession.movements) = {} /\ EmptySession.events = {}
  BY NothingAnnounced DEF EmptySession
<1>2. SessionsAnnounce'
  <2> SUFFICES ASSUME NEW u \in Txns
               PROVE  session'[u].events = Announcements(session'[u].movements)
    BY DEF SessionsAnnounce, Announcements, Falls
  <2>1. session[u].events = Announcements(session[u].movements)
    BY DEF OutboxInv, SessionsAnnounce
  <2>. QED  BY <1>1, <2>1 DEF Quiet, OnlySession
<1>3. OutboxMatchesLedger'
  BY DEF OutboxInv, OutboxMatchesLedger, Quiet, OnlySession, Announcements, Falls
<1>4. EventsSigned'
  <2>1. \A e \in outbox : e.by \in Txns
    BY DEF TypedLedger, TypeInv, TypeOK, Events
  <2>. QED
    BY <1>1, <2>1 DEF OutboxInv, EventsSigned, Quiet, OnlySession, Ended
<1>. QED  BY <1>2, <1>3, <1>4 DEF OutboxInv

\* A movement comes with its low-stock row.
LEMMA RecordOutbox ==
    ASSUME TypedLedger, OutboxInv, NEW t \in Txns, NEW p \in Products,
           NEW m \in Movements, Records(t, p, m)
    PROVE  OutboxInv'
<1>1. SessionsAnnounce'
  <2> SUFFICES ASSUME NEW u \in Txns
               PROVE  session'[u].events = Announcements(session'[u].movements)
    BY DEF SessionsAnnounce, Announcements, Falls
  <2>1. session[u].events = Announcements(session[u].movements)
    BY DEF OutboxInv, SessionsAnnounce
  <2>2. CASE u # t
    BY <2>1, <2>2 DEF Records, OnlySession
  <2>3. CASE u = t
    <3> DEFINE a == session[t].movements
    <3>1. a \in [Products -> Seq(Movements)]
      BY DEF TypedLedger, TypeInv, TypeOK, Sessions
    <3>2. session'[t].movements = [a EXCEPT ![p] = Append(@, m)]
      BY DEF Records
    <3> HIDE DEF a
    <3>3. Announcements([a EXCEPT ![p] = Append(@, m)])
            = Announcements(a) \cup (IF Calls(p, m) THEN {Row(p, m)} ELSE {})
      BY <3>1, AppendAnnounces
    <3>4. session'[t].events
            = Announcements(a) \cup (IF Calls(p, m) THEN {Row(p, m)} ELSE {})
      BY <2>1, <2>3 DEF Records, a
    <3>. QED  BY <2>3, <3>2, <3>3, <3>4
  <2>. QED  BY <2>2, <2>3
<1>2. OutboxMatchesLedger'
  BY DEF OutboxInv, OutboxMatchesLedger, Records, OnlySession, Announcements, Falls
<1>3. EventsSigned'
  <2>1. \A e \in outbox : e.by \in Txns
    BY DEF TypedLedger, TypeInv, TypeOK, Events
  <2>2. Row(p, m).by = t
    BY DEF Records, Row
  <2>. QED
    BY <2>1, <2>2 DEF OutboxInv, EventsSigned, Records, OnlySession, Ended
<1>. QED  BY <1>1, <1>2, <1>3 DEF OutboxInv

\* A commit adds the movements of the session, and its rows.
LEMMA CommitOutbox ==
    ASSUME TypedLedger, OutboxInv, NEW t \in Txns, Commit(t)
    PROVE  OutboxInv'
<1> DEFINE b == session[t].movements
<1>1. /\ \A u \in Txns \ {t} : pc'[u] = pc[u] /\ session'[u] = session[u]
      /\ pc'[t] = "committed" /\ session'[t] = EmptySession
      /\ ledger' = [p \in Products |-> ledger[p] \o b[p]]
      /\ outbox' = outbox \cup session[t].events
      /\ ledger \in [Products -> Seq(Movements)] /\ b \in [Products -> Seq(Movements)]
  BY DEF TypedLedger, TypeInv, TypeOK, Sessions, Commit, Goto
<1>2. Announcements(EmptySession.movements) = {} /\ EmptySession.events = {}
  BY NothingAnnounced DEF EmptySession
<1>3. SessionsAnnounce'
  <2> SUFFICES ASSUME NEW u \in Txns
               PROVE  session'[u].events = Announcements(session'[u].movements)
    BY DEF SessionsAnnounce, Announcements, Falls
  <2>1. session[u].events = Announcements(session[u].movements)
    BY DEF OutboxInv, SessionsAnnounce
  <2>. QED  BY <1>1, <1>2, <2>1
<1>4. OutboxMatchesLedger'
  <2>1. outbox = Announcements(ledger) /\ session[t].events = Announcements(b)
    BY DEF OutboxInv, OutboxMatchesLedger, SessionsAnnounce
  <2> HIDE DEF b
  <2>2. Announcements(ledger') = Announcements(ledger) \cup Announcements(b)
    BY <1>1, ConcatAnnounces
  <2>3. outbox' = Announcements(ledger')
    BY <1>1, <2>1, <2>2
  <2>. QED  BY <2>3 DEF OutboxMatchesLedger, Announcements, Falls
<1>5. EventsSigned'
  <2>1. \A e \in outbox : e.by \in Txns
    BY DEF TypedLedger, TypeInv, TypeOK, Events
  <2>. QED  BY <1>1, <1>2, <2>1 DEF OutboxInv, EventsSigned
<1>. QED  BY <1>3, <1>4, <1>5 DEF OutboxInv

\* Every step keeps the agreement of low-stock rows and counts.
LEMMA StepOutbox == TypedLedger /\ OutboxInv /\ [Next]_vars => OutboxInv'
<1> SUFFICES ASSUME TypedLedger, OutboxInv, [Next]_vars PROVE OutboxInv'
  OBVIOUS
<1>1. CASE UNCHANGED vars
  BY <1>1, SMTT(30) DEF vars, OutboxInv, SessionsAnnounce, OutboxMatchesLedger, EventsSigned,
     Announcements, Falls
<1>. QED
  BY <1>1, StepShape, QuietOutbox, RecordOutbox, CommitOutbox DEF OutboxInv

\* Low-stock rows and counts agree in every reachable state, those of the open
\* transactions as those of the tables (stock.service.ts:230-262).
THEOREM OutboxInvariant == Spec => []OutboxInv
<1>1. Init => OutboxInv
  BY InitOutbox
<1>2. LedgerInv => TypedLedger
  BY DEF LedgerInv, TypedLedger, TypeInv, LedgerPart, SeenPart
<1>3. LedgerInv /\ OutboxInv /\ [Next]_vars => OutboxInv'
  BY <1>2, StepOutbox
<1>. QED  BY <1>1, <1>3, LedgerInvariant, PTL DEF Spec

\* There is a low-stock row for each count that took a balance down to its reorder
\* level and for nothing else, whatever requests interleave, fail or are chosen
\* as deadlock victims: row and count are one transaction.
THEOREM LowStockRowsAreCounts == Spec => []OutboxMatchesLedger
<1>1. OutboxInv => OutboxMatchesLedger
  BY DEF OutboxInv
<1>. QED  BY <1>1, OutboxInvariant, PTL

-----------------------------------------------------------------------------
(* Directions                                                              *)

\* A handler that runs has been sent a request.
Sent == \A t \in Txns : pc[t] # "idle" => req[t] \in Requests

\* Only the arrival of a request sets it.
LEMMA SentStep ==
    ASSUME TypeInv, Sent, [Next]_vars
    PROVE  Sent'
<1>0. pc \in [Txns -> Labels] /\ req \in [Txns -> Requests \cup {NONE}]
  BY DEF TypeInv, TypeOK
<1>1. ASSUME NEW t \in Txns, Begin(t)
      PROVE  Sent'
  <2>1. PICK r \in Requests : req' = [req EXCEPT ![t] = r] /\ Goto(t, FirstStep[r.op])
    BY <1>1 DEF Begin
  <2>. QED  BY <1>0, <2>1 DEF Sent, Goto
<1>2. ASSUME NEW t \in Txns, NEW label, Goto(t, label), pc[t] # "idle", UNCHANGED req
      PROVE  Sent'
  BY <1>0, <1>2 DEF Sent, Goto
<1>3. ASSUME NEW t \in Txns, Handle(t) \/ DeadlockVictim(t) \/ Fail(t)
      PROVE  Sent'
  <2>1. pc[t] # "idle"
    BY <1>3 DEF Handle, CreateCheck, CreateSave, CountRead, CountLock, CountInsert,
       CountSave,
       ReceiveLock, ReceiveLine, ReceiveSave, ReceiveFinish, EditLoad, EditSave, Commit,
       DeadlockVictim, Deadlocked, WaitsFor, Fail
  <2>2. ASSUME NEW answer, Rollback(t, answer) PROVE Sent'
    BY <1>2, <2>1, <2>2 DEF Rollback
  <2>3. CASE CreateCheck(t) \/ CreateSave(t)
    BY <1>2, <2>1, <2>2, <2>3 DEF CreateCheck, CreateSave
  <2>4. CASE CountRead(t) \/ CountLock(t) \/ CountInsert(t) \/ CountSave(t)
    BY <1>2, <2>1, <2>2, <2>4 DEF CountRead, CountLock, CountInsert, CountSave
  <2>5. CASE ReceiveLock(t) \/ ReceiveLine(t) \/ ReceiveSave(t) \/ ReceiveFinish(t)
    BY <1>2, <2>1, <2>2, <2>5 DEF ReceiveLock, ReceiveLine, ReceiveSave, ReceiveFinish
  <2>6. CASE EditLoad(t) \/ EditSave(t) \/ Commit(t)
    BY <1>2, <2>1, <2>2, <2>6 DEF EditLoad, EditSave, Commit
  <2>7. CASE DeadlockVictim(t) \/ Fail(t)
    BY <2>2, <2>7 DEF DeadlockVictim, Fail
  <2>. QED  BY <1>3, <2>3, <2>4, <2>5, <2>6, <2>7 DEF Handle
<1>4. CASE UNCHANGED vars
  BY <1>4 DEF vars, Sent
<1>. QED  BY <1>1, <1>3, <1>4 DEF Next, Quiescent

\* Every handler that runs has been sent a request.
LEMMA AlwaysSent == Spec => []Sent
<1>1. Init => Sent
  BY DEF Init, Sent
<1>2. TypeInv /\ Sent /\ [Next]_vars => Sent'
  BY SentStep
<1>3. ReceivingInv => TypeInv
  BY ReceivingGivesFit
<1>. QED  BY <1>1, <1>2, <1>3, ReceivingInvariant, PTL DEF Spec

\* Directions explain the movements of the ledger and of the sessions.
DirectionInv ==
    \A p \in Products :
        /\ \A k \in 1..Len(ledger[p]) : Signs(ledger[p][k])
        /\ \A t \in Txns : \A k \in 1..Len(session[t].movements[p]) :
              Signs(session[t].movements[p][k])

\* The opening movements add.
LEMMA InitDirection == Init => DirectionInv
<1> SUFFICES ASSUME Init PROVE DirectionInv
  OBVIOUS
<1>1. ASSUME NEW p \in Products, NEW k \in 1..Len(ledger[p])
      PROVE  Signs(ledger[p][k])
  <2>1. ledger[p] = SeedLedger(p)
    BY DEF Init
  <2>2. CASE Opening[p] \in {NONE, 0}
    BY <1>1, <2>1, <2>2 DEF SeedLedger
  <2>3. CASE Opening[p] \notin {NONE, 0}
    <3> DEFINE e == [type |-> "INITIAL_STOCK", direction |-> "IN",
                     quantity |-> Opening[p], before |-> 0, after |-> Opening[p],
                     by |-> NONE]
    <3>1. Opening[p] \in Nat
      BY <2>3, ConstantsAssumption
    <3>2. ledger[p] = <<e>> /\ Signs(e)
      BY <2>1, <2>3, <3>1 DEF SeedLedger, Signs
    <3> HIDE DEF e
    <3>3. ledger[p][k] = e
      BY <3>2
    <3>. QED  BY <3>2, <3>3
  <2>. QED  BY <2>2, <2>3
<1>2. \A t \in Txns, p \in Products : Len(session[t].movements[p]) = 0
  BY DEF Init, EmptySession
<1>. QED  BY <1>1, <1>2 DEF DirectionInv

\* A step keeps the directions, where initial stocks add.
LEMMA StepDirection ==
    ASSUME InitialStocksAdd(Requests), TypedLedger, Sent, SessionsAnnounce, DirectionInv,
           [Next]_vars
    PROVE  DirectionInv'
<1>0. \A t \in Txns : session[t].movements \in [Products -> Seq(Movements)]
  BY DEF TypedLedger, TypeInv, TypeOK, Sessions
<1>1. CASE UNCHANGED vars
  BY <1>1 DEF vars, DirectionInv, Signs
<1>2. ASSUME NEW t \in Txns, Quiet(t)
      PROVE  DirectionInv'
  <2>1. \A p \in Products : Len(EmptySession.movements[p]) = 0
    BY DEF EmptySession
  <2>. QED  BY <1>2, <2>1 DEF Quiet, OnlySession, DirectionInv
<1>3. ASSUME NEW t \in Txns, NEW p \in Products, NEW m \in Movements, Records(t, p, m)
      PROVE  DirectionInv'
  <2> DEFINE a == session[t].movements
  <2>1. Signs(m)
    <3>1. req[t] \in CreateRequests => req[t].op = "create"
      BY DEF CreateRequests
    <3>2. CASE ~Signs(m)
      <4>1. pc[t] # "idle"
        BY <1>3 DEF Records
      <4>. QED  BY <1>3, <3>1, <3>2, <4>1 DEF Records, Signs, InitialStocksAdd, Sent
    <3>. QED  BY <3>2
  <2>2. /\ session'[t].movements = [a EXCEPT ![p] = Append(@, m)]
        /\ a \in [Products -> Seq(Movements)] /\ a[p] \in Seq(Movements)
    BY <1>0, <1>3 DEF Records
  <2>3. ASSUME NEW q \in Products, NEW k \in 1..Len(session'[t].movements[q])
        PROVE  Signs(session'[t].movements[q][k])
    <3>1. \A j \in 1..Len(a[q]) : Signs(a[q][j])
      BY DEF DirectionInv
    <3> HIDE DEF a
    <3>2. CASE q # p
      BY <2>2, <2>3, <3>1, <3>2
    <3>3. CASE q = p
      <4>1. session'[t].movements[q] = Append(a[p], m)
        BY <2>2, <3>3
      <4>2. /\ Len(Append(a[p], m)) = Len(a[p]) + 1 /\ Len(a[p]) \in Nat
            /\ Append(a[p], m)[Len(a[p]) + 1] = m
            /\ \A j \in 1..Len(a[p]) : Append(a[p], m)[j] = a[p][j]
        BY <2>2, AppendElements
      <4>3. CASE k = Len(a[p]) + 1
        BY <2>1, <4>1, <4>2, <4>3
      <4>4. CASE k # Len(a[p]) + 1
        <5>1. k \in 1..Len(a[p])
          BY <2>3, <4>1, <4>2, <4>4
        <5>. QED  BY <3>1, <3>3, <4>1, <4>2, <5>1
      <4>. QED  BY <4>3, <4>4
    <3>. QED  BY <3>2, <3>3
  <2>. QED  BY <1>3, <2>3 DEF Records, OnlySession, DirectionInv
<1>4. ASSUME NEW t \in Txns, Commit(t)
      PROVE  DirectionInv'
  <2>1. /\ \A u \in Txns \ {t} : session'[u] = session[u]
        /\ session'[t] = EmptySession
        /\ \A p \in Products : /\ ledger'[p] = ledger[p] \o session[t].movements[p]
                               /\ ledger[p] \in Seq(Movements)
    BY <1>4 DEF TypedLedger, TypeInv, TypeOK, Commit
  <2>2. \A p \in Products : Len(EmptySession.movements[p]) = 0
    BY DEF EmptySession
  <2>3. ASSUME NEW p \in Products, NEW k \in 1..Len(ledger'[p])
        PROVE  Signs(ledger'[p][k])
    <3> DEFINE a == ledger[p]
               b == session[t].movements[p]
    <3>1. /\ \A j \in 1..Len(a) : Signs(a[j])
          /\ \A j \in 1..Len(b) : Signs(b[j])
          /\ ledger'[p] = a \o b /\ a \in Seq(Movements) /\ b \in Seq(Movements)
      BY <1>0, <2>1 DEF DirectionInv
    <3> HIDE DEF a, b
    <3>2. /\ Len(a \o b) = Len(a) + Len(b) /\ Len(a) \in Nat /\ Len(b) \in Nat
          /\ \A j \in 1..Len(a) : (a \o b)[j] = a[j]
          /\ \A j \in Len(a) + 1 .. Len(a) + Len(b) : (a \o b)[j] = b[j - Len(a)]
      BY <3>1, ConcatElements
    <3>3. CASE k <= Len(a)
      BY <2>3, <3>1, <3>2, <3>3
    <3>4. CASE k > Len(a)
      <4>1. k - Len(a) \in 1..Len(b) /\ ledger'[p][k] = b[k - Len(a)]
        BY <2>3, <3>1, <3>2, <3>4
      <4>. QED  BY <3>1, <4>1
    <3>. QED  BY <2>3, <3>1, <3>2, <3>3, <3>4
  <2>. QED  BY <2>1, <2>2, <2>3, SMTT(30) DEF DirectionInv, Signs
<1>. QED  BY <1>1, <1>2, <1>3, <1>4, StepShape

\* The direction of every movement says whether its quantity was added or removed,
\* also of movements that overwrite a stale balance, as long as initial stocks are
\* sent with the direction IN, which the service takes from the client
\* (stock.service.ts:108).
THEOREM DirectionsExplain ==
    ASSUME InitialStocksAdd(Requests)
    PROVE  Spec => []DirectionExplainsBalance
<1>1. Init => DirectionInv
  BY InitDirection
<1>2. LedgerInv => TypedLedger
  BY DEF LedgerInv, TypedLedger, TypeInv, LedgerPart, SeenPart
<1>3. LedgerInv /\ Sent /\ OutboxInv /\ DirectionInv /\ [Next]_vars => DirectionInv'
  BY <1>2, StepDirection DEF OutboxInv
<1>4. DirectionInv => DirectionExplainsBalance
  BY DEF DirectionInv, DirectionExplainsBalance, Signs
<1>. QED
  BY <1>1, <1>3, <1>4, LedgerInvariant, OutboxInvariant, AlwaysSent, PTL DEF Spec

-----------------------------------------------------------------------------
(* Complete orders                                                         *)

\* No seeded order is complete unless it is RECEIVED.
LEMMA InitCompletion == Init => CompletionInv
<1> SUFFICES ASSUME Init PROVE CompletionInv
  OBVIOUS
<1>1. ASSUME NEW o \in Orders, NEW i \in ItemsOf(o), received[i] >= Requested[i]
      PROVE  status[o] = "RECEIVED"
  <2>1. /\ i \in Items /\ OrderOf[i] = o /\ status[o] = SeedStatus[o]
        /\ received[i] = SeedReceived(i)
        /\ Requested[i] \in Nat /\ Requested[i] > 0
    BY <1>1, ConstantsAssumption DEF Init, ItemsOf
  <2>2. /\ SeedReceived(i) \in Nat
        /\ SeedStatus[o] # "RECEIVED" => SeedReceived(i) < Requested[i]
    BY <2>1 DEF SeedReceived
  <2>. QED  BY <1>1, <2>1, <2>2
<1>2. CompleteOrderIsReceived
  BY <1>1 DEF CompleteOrderIsReceived
<1>. QED  BY <1>2 DEF CompletionInv, Init

\* A step that changes no order and brings no delivery to its commit.
LEMMA CompletionStep ==
    ASSUME CompletionInv, NEW t \in Txns, UNCHANGED <<received, status>>,
           \A u \in Txns \ {t} : /\ pc'[u] = pc[u] /\ req'[u] = req[u]
                                 /\ session'[u] = session[u],
           ~(pc'[t] = "commit" /\ req'[t].op = "receive")
    PROVE  CompletionInv'
<1>1. CompleteOrderIsReceived'
  BY DEF CompletionInv, CompleteOrderIsReceived
<1>2. ASSUME NEW u \in Txns, pc'[u] = "commit", Receiving(u)', FullyReceived(u)'
      PROVE  session'[u].status = "RECEIVED"
  <2>1. u # t
    BY <1>2 DEF Receiving
  <2>. QED  BY <1>2, <2>1 DEF CompletionInv, Receiving, FullyReceived
<1>. QED  BY <1>1, <1>2 DEF CompletionInv

\* Steps before the last one of a handler.
LEMMA QuietCompletion ==
    ASSUME TypeInv, CompletionInv, NEW t \in Txns,
           \/ \E answer \in Ended : Rollback(t, answer)
           \/ Begin(t) \/ CreateCheck(t) \/ CreateSave(t) \/ CountRead(t) \/ CountLock(t)
           \/ CountInsert(t) \/ CountSave(t) \/ ReceiveLock(t) \/ ReceiveLine(t)
           \/ ReceiveSave(t) \/ EditLoad(t)
    PROVE  CompletionInv'
<1>0. /\ session \in [Txns -> Sessions] /\ pc \in [Txns -> Labels]
      /\ req \in [Txns -> Requests \cup {NONE}]
  BY DEF TypeInv, TypeOK
<1>1. ASSUME NEW answer \in Ended, Rollback(t, answer)
      PROVE  CompletionInv'
  <2>1. pc'[t] # "commit"
    BY <1>0, <1>1 DEF Rollback, Goto, Ended
  <2>. QED  BY <1>0, <1>1, <2>1, CompletionStep DEF Rollback, Goto
<1>2. CASE Begin(t)
  <2>1. PICK r \in Requests : req' = [req EXCEPT ![t] = r] /\ Goto(t, FirstStep[r.op])
    BY <1>2 DEF Begin
  <2>2. FirstStep[r.op] \in {"create_check", "count_read", "receive_lock", "edit_load"}
    BY ConstantsAssumption
       DEF FirstStep, CreateRequests, CountRequests, ReceiveRequests, EditRequests
  <2>3. pc'[t] # "commit"
    BY <1>0, <2>1, <2>2 DEF Goto
  <2>. QED  BY <1>0, <1>2, <2>1, <2>3, CompletionStep DEF Begin, Goto
<1>3. CASE \/ CreateCheck(t) \/ CreateSave(t)
           \/ CountRead(t) \/ CountLock(t) \/ CountInsert(t) \/ CountSave(t)
  <2>1. req[t].op # "receive"
    BY <1>3 DEF TypeInv, RequestFits, CreateCheck, CreateSave, CountRead, CountLock,
       CountInsert, CountSave, CreateRequests, CountRequests
  <2>2. /\ UNCHANGED <<received, status>>
        /\ req'[t] = req[t]
        /\ \A u \in Txns \ {t} : /\ pc'[u] = pc[u] /\ req'[u] = req[u]
                                 /\ session'[u] = session[u]
    BY <1>0, <1>3 DEF CreateCheck, CreateSave, CountRead, CountLock, CountInsert,
       CountSave, Rollback, Goto
  <2>. QED  BY <2>1, <2>2, CompletionStep
<1>4. CASE ReceiveLock(t) \/ ReceiveLine(t) \/ ReceiveSave(t) \/ EditLoad(t)
  <2>1. /\ UNCHANGED <<received, status>>
        /\ \A u \in Txns \ {t} : /\ pc'[u] = pc[u] /\ req'[u] = req[u]
                                 /\ session'[u] = session[u]
        /\ pc'[t] # "commit"
    BY <1>0, <1>4 DEF ReceiveLock, ReceiveLine, ReceiveSave, EditLoad, Rollback, Goto
  <2>. QED  BY <2>1, CompletionStep
<1>. QED  BY <1>1, <1>2, <1>3, <1>4

\* The last step of a delivery sees that its order is complete.
LEMMA FinishCompletion ==
    ASSUME TypeInv, CompletionInv, NEW t \in Txns, ReceiveFinish(t)
    PROVE  CompletionInv'
<1>0. /\ session \in [Txns -> Sessions] /\ pc \in [Txns -> Labels]
  BY DEF TypeInv, TypeOK
<1>1. CompleteOrderIsReceived'
  BY DEF CompletionInv, CompleteOrderIsReceived, ReceiveFinish
<1>2. ASSUME NEW u \in Txns, pc'[u] = "commit", Receiving(u)', FullyReceived(u)'
      PROVE  session'[u].status = "RECEIVED"
  <2>1. CASE u = t
    <3>1. session'[t].received = session[t].received /\ req' = req
      BY <1>0 DEF ReceiveFinish, Sessions
    <3>2. FullyReceived(t)
      BY <1>2, <2>1, <3>1 DEF FullyReceived
    <3>3. session' = [session EXCEPT ![t].status = "RECEIVED"]
      BY <3>2 DEF ReceiveFinish
    <3>. QED  BY <1>0, <2>1, <3>3 DEF Sessions
  <2>2. CASE u # t
    <3>1. pc'[u] = pc[u] /\ session'[u] = session[u] /\ req' = req
      BY <1>0, <2>2 DEF ReceiveFinish, Goto
    <3>. QED  BY <1>2, <3>1 DEF CompletionInv, Receiving, FullyReceived
  <2>. QED  BY <2>1, <2>2
<1>. QED  BY <1>1, <1>2 DEF CompletionInv

\* A commit completes an order together with its status.
LEMMA CommitCompletion ==
    ASSUME ReceivingInv, CompletionInv, NEW t \in Txns, Commit(t)
    PROVE  CompletionInv'
<1>0. /\ \A u \in Txns \ {t} : /\ pc'[u] = pc[u] /\ req'[u] = req[u]
                               /\ session'[u] = session[u]
      /\ pc'[t] = "committed" /\ pc[t] = "commit"
  BY DEF ReceivingInv, TypeOK, Commit, Goto
<1>1. ASSUME NEW o \in Orders, ItemsOf(o) # {},
             \A i \in ItemsOf(o) : received'[i] >= Requested[i]
      PROVE  status'[o] = "RECEIVED"
  <2>1. status'[o] = IF orderLock[o] = t THEN session[t].status ELSE status[o]
    BY DEF Commit
  <2>2. \A i \in ItemsOf(o) : received'[i] =
           IF i \in session[t].submitted THEN session[t].received[i] ELSE received[i]
    BY DEF Commit, ItemsOf
  <2>3. orderLock[o] = t <=> Receiving(t) /\ req[t].order = o
    BY DEF ReceivingInv, OrdersHeld
  <2>4. CASE orderLock[o] = t
    <3>1. \A i \in ItemsOf(o) : received'[i] = session[t].received[i]
      BY <2>2, <2>3, <2>4 DEF ReceivingInv, ItemsAgree
    <3>2. FullyReceived(t)
      BY <1>1, <2>3, <2>4, <3>1 DEF FullyReceived
    <3>. QED  BY <1>0, <2>1, <2>3, <2>4, <3>2 DEF CompletionInv
  <2>5. CASE orderLock[o] # t
    <3>1. \A i \in ItemsOf(o) : i \notin session[t].submitted
      BY <2>3, <2>5 DEF ReceivingInv, ItemsAgree, ItemsOf
    <3>2. \A i \in ItemsOf(o) : received[i] >= Requested[i]
      BY <1>1, <2>2, <3>1
    <3>. QED  BY <1>1, <2>1, <2>5, <3>2 DEF CompletionInv, CompleteOrderIsReceived
  <2>. QED  BY <2>4, <2>5
<1>2. CompleteOrderIsReceived'
  BY <1>1 DEF CompleteOrderIsReceived, ItemsOf
<1>3. ASSUME NEW u \in Txns, pc'[u] = "commit", Receiving(u)', FullyReceived(u)'
      PROVE  session'[u].status = "RECEIVED"
  <2>1. u # t
    BY <1>0, <1>3
  <2>2. pc[u] = "commit" /\ Receiving(u) /\ FullyReceived(u)
    <3>1. pc'[u] = pc[u] /\ req'[u] = req[u] /\ session'[u] = session[u]
      BY <1>0, <2>1
    <3>. QED  BY <1>3, <3>1 DEF Receiving, FullyReceived
  <2>. QED  BY <1>0, <2>1, <2>2 DEF CompletionInv
<1>. QED  BY <1>2, <1>3 DEF CompletionInv

\* Without header edits, an order whose items have all arrived is RECEIVED, in
\* whatever pieces they were delivered: the delivery that completes it sees, under
\* the lock of the order, what all earlier ones have recorded
\* (purchase_orders.service.ts:660-680).
THEOREM CompleteOrdersAreReceived ==
    ASSUME NoEdits(Requests)
    PROVE  Spec => []CompleteOrderIsReceived
<1>1. Init => CompletionInv
  BY InitCompletion
<1>2. ReceivingInv /\ Sent /\ CompletionInv /\ [Next]_vars => CompletionInv'
  <2> SUFFICES ASSUME ReceivingInv, Sent, CompletionInv, [Next]_vars
               PROVE  CompletionInv'
    OBVIOUS
  <2>0. TypeInv
    BY ReceivingGivesFit
  <2>1. ASSUME NEW t \in Txns, Begin(t) \/ Handle(t) \/ DeadlockVictim(t) \/ Fail(t)
        PROVE  CompletionInv'
    <3>1. ~EditSave(t)
      <4>1. req[t] \in EditRequests => req[t].op = "edit"
        BY DEF EditRequests
      <4>. QED
        BY <2>0, <4>1 DEF EditSave, TypeInv, RequestFits, Sent, NoEdits
    <3>2. CASE DeadlockVictim(t) \/ Fail(t)
      BY <2>0, <3>2, QuietCompletion DEF DeadlockVictim, Fail, Ended
    <3>. QED
      BY <2>0, <2>1, <3>1, <3>2, QuietCompletion, FinishCompletion, CommitCompletion
         DEF Handle
  <2>2. CASE UNCHANGED vars
    BY <2>2 DEF vars, CompletionInv, CompleteOrderIsReceived, Receiving, FullyReceived
  <2>. QED  BY <2>1, <2>2 DEF Next, Quiescent
<1>3. CompletionInv => CompleteOrderIsReceived
  BY DEF CompletionInv
<1>. QED  BY <1>1, <1>2, <1>3, ReceivingInvariant, AlwaysSent, PTL DEF Spec

-----------------------------------------------------------------------------
(* Deliveries that nothing overlaps                                        *)

\* What has to be shown of the request that runs.
Separately(t) == WritesItsProducts(t) /\ SeesItsProducts(t) /\ ContinuesLedger(t)

\* No seeded row has a history but its opening movement.
LEMMA InitSeparate == Init => SeparateInv
<1> SUFFICES ASSUME Init PROVE SeparateInv
  OBVIOUS
<1>1. \A t \in Txns : Separately(t)
  BY DEF Separately, Init, EmptySession, WritesItsProducts, SeesItsProducts,
     ContinuesLedger
<1>2. ASSUME NEW p \in Products, NEW k \in 1..Len(ledger[p])
      PROVE  StartsFromPredecessor(p, k)
  <2>1. ledger[p] = SeedLedger(p)
    BY DEF Init
  <2>2. CASE Opening[p] \in {NONE, 0}
    BY <1>2, <2>1, <2>2 DEF SeedLedger
  <2>3. CASE Opening[p] \notin {NONE, 0}
    <3> DEFINE e == [type |-> "INITIAL_STOCK", direction |-> "IN",
                     quantity |-> Opening[p], before |-> 0, after |-> Opening[p],
                     by |-> NONE]
    <3>1. ledger[p] = <<e>> /\ e.before = 0
      BY <2>1, <2>3 DEF SeedLedger
    <3> HIDE DEF e
    <3>2. k = 1 /\ ledger[p][k] = e
      BY <3>1
    <3>. QED  BY <3>1, <3>2 DEF StartsFromPredecessor
  <2>. QED  BY <2>2, <2>3
<1>. QED  BY <1>1, <1>2 DEF SeparateInv, Separately, HistoryIsChain

\* A step that is not a commit concerns the request that runs.
LEMMA OthersSeparate ==
    ASSUME SeparateInv, NEW t \in Txns, OnlySession(t), Separately(t)'
    PROVE  SeparateInv'
<1>1. ASSUME NEW u \in Txns \ {t} PROVE Separately(u)'
  <2>1. /\ pc'[u] = pc[u] /\ req'[u] = req[u] /\ session'[u] = session[u]
        /\ quantity' = quantity
    BY DEF OnlySession
  <2>2. Separately(u)
    BY DEF SeparateInv, Separately
  <2>3. WritesItsProducts(u)'
    BY <2>1, <2>2 DEF Separately, WritesItsProducts
  <2>4. SeesItsProducts(u)'
    BY <2>1, <2>2 DEF Separately, SeesItsProducts, PlainRead, View
  <2>5. ContinuesLedger(u)'
    BY <2>1, <2>2 DEF Separately, ContinuesLedger, OnHand
  <2>. QED  BY <2>3, <2>4, <2>5 DEF Separately
<1>2. HistoryIsChain'
  BY DEF SeparateInv, HistoryIsChain, StartsFromPredecessor, OnlySession, Left
<1>. QED  BY <1>1, <1>2 DEF SeparateInv, Separately

\* A session that is empty.
LEMMA EmptySeparate ==
    ASSUME SeparateInv, NEW t \in Txns, OnlySession(t), session'[t] = EmptySession,
           pc'[t] \notin {"receive_line", "receive_save"}
    PROVE  SeparateInv'
<1>1. Separately(t)'
  BY DEF Separately, EmptySession, WritesItsProducts, SeesItsProducts, ContinuesLedger
<1>. QED  BY <1>1, OthersSeparate

\* A step that writes nothing and sees nothing.
LEMMA SameSeparate ==
    ASSUME SeparateInv, NEW t \in Txns, OnlySession(t), req'[t] = req[t],
           session'[t].written = session[t].written,
           session'[t].movements = session[t].movements,
           session'[t].todo = session[t].todo,
           pc'[t] \notin {"receive_lock", "receive_line", "receive_save"}
    PROVE  SeparateInv'
<1>1. Separately(t)
  BY DEF SeparateInv, Separately
<1>2. Separately(t)'
  BY <1>1 DEF Separately, WritesItsProducts, SeesItsProducts, ContinuesLedger, OnHand,
     OnlySession
<1>. QED  BY <1>2, OthersSeparate

\* One more movement of t: an adjustment, or a receipt that continues the ledger.
LEMMA AppendContinues ==
    ASSUME TypedLedger, SeparateInv, NEW t \in Txns, NEW p \in Products,
           NEW m \in Movements, OnlySession(t), req'[t] = req[t],
           session'[t].movements = [session[t].movements EXCEPT ![p] = Append(@, m)],
           LET ms == session[t].movements[p] IN
           \/ m.type = "ADJUSTMENT" /\ req[t].op # "receive"
           \/ /\ m.type = "RECEIPT" /\ req[t].op = "receive"
              /\ m.before = IF ms = <<>> THEN OnHand(p) ELSE ms[Len(ms)].after
              /\ m.after >= OnHand(p)
    PROVE  ContinuesLedger(t)'
<1> DEFINE ms == session[t].movements[p]
<1>1. session[t].movements \in [Products -> Seq(Movements)]
  BY DEF TypedLedger, TypeInv, TypeOK, Sessions
<1>2. ms \in Seq(Movements) /\ session'[t].movements[p] = Append(ms, m)
  BY <1>1
<1>3. \A q \in Products \ {p} : session'[t].movements[q] = session[t].movements[q]
  BY <1>1
<1>4. \A q \in Products : OnHand(q)' = OnHand(q)
  BY DEF OnHand, OnlySession
<1>5. \A q \in Products : \A k \in 1..Len(session[t].movements[q]) :
         \/ session[t].movements[q][k].type = "ADJUSTMENT" /\ req[t].op # "receive"
         \/ /\ session[t].movements[q][k].type = "RECEIPT" /\ req[t].op = "receive"
            /\ session[t].movements[q][k].before =
                 IF k = 1 THEN OnHand(q) ELSE session[t].movements[q][k - 1].after
            /\ session[t].movements[q][k].after >= OnHand(q)
  BY DEF SeparateInv, ContinuesLedger
<1>6. ASSUME NEW k \in 1..Len(Append(ms, m))
      PROVE  \/ Append(ms, m)[k].type = "ADJUSTMENT" /\ req[t].op # "receive"
             \/ /\ Append(ms, m)[k].type = "RECEIPT" /\ req[t].op = "receive"
                /\ Append(ms, m)[k].before =
                     IF k = 1 THEN OnHand(p) ELSE Append(ms, m)[k - 1].after
                /\ Append(ms, m)[k].after >= OnHand(p)
  <2>1. /\ Len(Append(ms, m)) = Len(ms) + 1 /\ Len(ms) \in Nat
        /\ Append(ms, m)[Len(ms) + 1] = m
        /\ \A j \in 1..Len(ms) : Append(ms, m)[j] = ms[j]
        /\ ms = <<>> <=> Len(ms) = 0
    BY <1>2, AppendElements
  <2>2. CASE k = Len(ms) + 1
    <3>1. CASE ms = <<>>
      BY <2>1, <2>2, <3>1
    <3>2. CASE ms # <<>>
      <4>1. k # 1 /\ k - 1 = Len(ms) /\ Len(ms) \in 1..Len(ms)
        BY <2>1, <2>2, <3>2
      <4>2. Append(ms, m)[k] = m /\ Append(ms, m)[k - 1] = ms[Len(ms)]
        BY <2>1, <2>2, <4>1
      <4>. QED  BY <3>2, <4>1, <4>2
    <3>. QED  BY <3>1, <3>2
  <2>3. CASE k # Len(ms) + 1
    <3>1. k \in 1..Len(ms) /\ (k # 1 => k - 1 \in 1..Len(ms))
      BY <2>1, <2>3
    <3>2. Append(ms, m)[k] = ms[k] /\ (k # 1 => Append(ms, m)[k - 1] = ms[k - 1])
      BY <2>1, <3>1
    <3>. QED  BY <1>5, <3>1, <3>2
  <2>. QED  BY <2>2, <2>3
<1> HIDE DEF ms
<1>7. ASSUME NEW q \in Products, NEW k \in 1..Len(session'[t].movements[q])
      PROVE  LET now == session'[t].movements[q] IN
             \/ now[k].type = "ADJUSTMENT" /\ req[t].op # "receive"
             \/ /\ now[k].type = "RECEIPT" /\ req[t].op = "receive"
                /\ now[k].before = IF k = 1 THEN OnHand(q) ELSE now[k - 1].after
                /\ now[k].after >= OnHand(q)
  <2>1. CASE q = p
    BY <1>2, <1>6, <1>7, <2>1
  <2>2. CASE q # p
    BY <1>3, <1>5, <1>7, <2>2
  <2>. QED  BY <2>1, <2>2
<1>. QED  BY <1>4, <1>7 DEF ContinuesLedger

\* The steps of an initial stock.
LEMMA CreateSeparate ==
    ASSUME TypedLedger, SeparateInv, NEW t \in Txns, CreateCheck(t) \/ CreateSave(t)
    PROVE  SeparateInv'
<1>0. /\ req[t] \in CreateRequests /\ pc[t] \notin Ended
      /\ session[t] \in Sessions /\ session \in [Txns -> Sessions]
      /\ pc \in [Txns -> Labels] /\ req[t].product \in Products
      /\ req[t].op = "create" /\ Separately(t)
      /\ \A q \in Products : session[t].movements[q] = <<>>
  BY DEF TypedLedger, TypeInv, TypeOK, RequestFits, CreateCheck, CreateSave, Ended,
         CreateRequests, LedgerPart, SessionsAgree, SeparateInv, Separately
<1>1. ASSUME NEW answer \in Ended, Rollback(t, answer) PROVE SeparateInv'
  BY <1>0, <1>1, EmptySeparate DEF Rollback, Goto, OnlySession, Ended
<1>2. CASE CreateCheck(t) /\ ~ \E answer \in Ended : Rollback(t, answer)
  BY <1>0, <1>2, SameSeparate DEF CreateCheck, Ended, Goto, OnlySession
<1>3. CASE CreateSave(t) /\ ~ \E answer \in Ended : Rollback(t, answer)
  <2> DEFINE p == req[t].product
             m == Movement(t, "ADJUSTMENT", req[t].direction, req[t].quantity, 0,
                           req[t].quantity)
  <2>1. /\ session' = [session EXCEPT ![t] = Saved(t, p, NONE, m)] /\ Goto(t, "commit")
        /\ UNCHANGED <<quantity, ledger, outbox, received, req, overtaken>>
        /\ quantity[p] = NONE
    BY <1>3 DEF CreateSave, Ended, DuplicateRow
  <2>2. m \in Movements /\ m.type = "ADJUSTMENT"
    BY <1>0, MovementTyped DEF Movement, CreateRequests
  <2> HIDE DEF m
  <2>3. /\ session'[t].movements = [session[t].movements EXCEPT ![p] = Append(@, m)]
        /\ \A q \in Products \ {p} :
              /\ session'[t].written[q] = session[t].written[q]
              /\ session'[t].movements[q] = session[t].movements[q]
        /\ session'[t].todo = session[t].todo /\ pc'[t] = "commit"
    BY <1>0, <2>1 DEF Saved, Sessions, Goto
  <2>4. session[t].written \in [Products -> Balances] /\ OnlySession(t)
    BY <1>0, <2>1 DEF Sessions, OnlySession, Goto
  <2>5. ContinuesLedger(t)'
    BY <1>0, <2>1, <2>2, <2>3, <2>4, AppendContinues
  <2>6. WritesItsProducts(t)'
    BY <1>0, <2>1, <2>3, <2>4 DEF Separately, WritesItsProducts
  <2>7. SeesItsProducts(t)'
    BY <2>3 DEF SeesItsProducts
  <2>. QED  BY <2>4, <2>5, <2>6, <2>7, OthersSeparate DEF Separately
<1>. QED  BY <1>1, <1>2, <1>3

\* The steps of a count.
LEMMA CountSeparate ==
    ASSUME TypedLedger, SeparateInv, NEW t \in Txns,
           CountRead(t) \/ CountLock(t) \/ CountInsert(t) \/ CountSave(t)
    PROVE  SeparateInv'
<1> DEFINE p == req[t].product
<1>0. /\ p \in Products /\ req[t].op = "count" /\ req[t].quantity \in Nat
      /\ pc[t] \notin Ended /\ session[t] \in Sessions
      /\ session \in [Txns -> Sessions] /\ pc \in [Txns -> Labels]
      /\ session[t].written \in [Products -> Balances] /\ Separately(t)
      /\ \A q \in Products : session[t].movements[q] = <<>>
  BY DEF TypedLedger, TypeInv, TypeOK, RequestFits, CountRead, CountLock, CountInsert,
         CountSave,
         Ended, CountRequests, LedgerPart, SessionsAgree, SeparateInv, Separately, Sessions
<1>1. CASE \E answer \in Ended : Rollback(t, answer)
  BY <1>0, <1>1, EmptySeparate DEF Rollback, Goto, OnlySession, Ended
<1>2. CASE CountRead(t) \/ CountLock(t)
  <2>1. /\ session'[t].written = session[t].written
        /\ session'[t].movements = session[t].movements
        /\ session'[t].todo = session[t].todo
    BY <1>0, <1>2 DEF CountRead, CountLock, Sessions
  <2>2. /\ pc'[t] \in {"count_lock", "count_insert", "count_save"} /\ req'[t] = req[t]
        /\ OnlySession(t)
    BY <1>0, <1>2 DEF CountRead, CountLock, Goto, OnlySession
  <2>. QED  BY <2>1, <2>2, SameSeparate
<1>3. CASE CountInsert(t) /\ ~ \E answer \in Ended : Rollback(t, answer)
  <2>1. /\ session' = [session EXCEPT ![t].written[p] = 0, ![t].before = 0]
        /\ Goto(t, "count_save")
        /\ UNCHANGED <<quantity, ledger, outbox, received, req, overtaken>>
    BY <1>3 DEF CountInsert, Ended
  <2>2. /\ session'[t].written = [session[t].written EXCEPT ![p] = 0]
        /\ session'[t].movements = session[t].movements
        /\ session'[t].todo = session[t].todo /\ pc'[t] = "count_save"
        /\ OnlySession(t) /\ req'[t] = req[t]
    BY <1>0, <2>1 DEF Sessions, Goto, OnlySession
  <2>3. ContinuesLedger(t)'
    BY <1>0, <2>2 DEF ContinuesLedger, Separately, OnHand, OnlySession
  <2>4. WritesItsProducts(t)'
    BY <1>0, <2>2 DEF WritesItsProducts, Separately, OnlySession
  <2>5. SeesItsProducts(t)'
    BY <2>2 DEF SeesItsProducts
  <2>. QED  BY <2>2, <2>3, <2>4, <2>5, OthersSeparate DEF Separately
<1>4. CASE CountSave(t) /\ ~ \E answer \in Ended : Rollback(t, answer)
  <2> DEFINE before == session[t].before
             difference == Difference(req[t].quantity, before)
             m == Movement(t, "ADJUSTMENT", IF difference > 0 THEN "IN" ELSE "OUT",
                           Amount(difference), before, req[t].quantity)
             event == [product |-> p, quantity |-> req[t].quantity, by |-> t]
             events == IF CrossedReorderLevel(p, before, req[t].quantity)
                       THEN {event} ELSE {}
             stored == PlainRead(t, p)
  <2>1. CASE session' = session
    BY <1>0, <1>4, <2>1, SameSeparate DEF CountSave, Ended, Goto, OnlySession
  <2>2. CASE session' # session
    <3>1. /\ session' = [session EXCEPT ![t] =
                          [Saved(t, p, stored, m) EXCEPT !.events = events]]
          /\ Goto(t, "commit")
          /\ UNCHANGED <<quantity, ledger, outbox, received, req, overtaken>>
      BY <1>4, <2>2 DEF CountSave, Ended
    <3>2. before \in Nat
      BY <1>4 DEF CountSave, TypedLedger, TypeInv, RequestFits
    <3>3. m \in Movements /\ m.type = "ADJUSTMENT"
      <4>1. Amount(difference) \in Nat
        BY <1>0, <3>2 DEF Amount, Difference
      <4>2. (IF difference > 0 THEN "IN" ELSE "OUT") \in Directions
        BY DEF Directions
      <4>. QED  BY <1>0, <3>2, <4>1, <4>2, MovementTyped DEF Movement
    <3> HIDE DEF m, events, p, stored
    <3>4. /\ session'[t] = [Saved(t, p, stored, m) EXCEPT !.events = events]
          /\ OnlySession(t) /\ pc'[t] = "commit" /\ req'[t] = req[t]
      BY <1>0, <3>1 DEF OnlySession, Goto
    <3>5. /\ session'[t].movements = [session[t].movements EXCEPT ![p] = Append(@, m)]
          /\ \A q \in Products \ {p} :
                /\ session'[t].written[q] = session[t].written[q]
                /\ session'[t].movements[q] = session[t].movements[q]
          /\ session'[t].todo = session[t].todo
      BY <1>0, <3>4 DEF Saved, Sessions
    <3>6. ContinuesLedger(t)'
      BY <1>0, <3>3, <3>4, <3>5, AppendContinues
    <3>7. WritesItsProducts(t)'
      BY <1>0, <3>4, <3>5 DEF WritesItsProducts, Separately, OnlySession, p
    <3>8. SeesItsProducts(t)'
      BY <3>4 DEF SeesItsProducts
    <3>. QED  BY <3>4, <3>6, <3>7, <3>8, OthersSeparate DEF Separately
  <2>. QED  BY <2>1, <2>2
<1>. QED  BY <1>1, <1>2, <1>3, <1>4

\* A delivery locks its order before it has read any row.
LEMMA ReceiveLockSeparate ==
    ASSUME TypedLedger, SeparateInv, NEW t \in Txns, ReceiveLock(t)
    PROVE  SeparateInv'
<1>0. /\ req[t] \in ReceiveRequests /\ pc[t] = "receive_lock" /\ pc[t] \notin Ended
      /\ session[t] \in Sessions /\ session \in [Txns -> Sessions]
      /\ pc \in [Txns -> Labels] /\ Separately(t)
  BY DEF TypedLedger, TypeInv, TypeOK, RequestFits, ReceiveLock, Ended, SeparateInv,
         Separately
<1>1. CASE \E answer \in Ended : Rollback(t, answer)
  BY <1>0, <1>1, EmptySeparate DEF Rollback, Goto, OnlySession, Ended
<1>2. CASE ~ \E answer \in Ended : Rollback(t, answer)
  <2>1. /\ session'[t].written = session[t].written
        /\ session'[t].movements = session[t].movements
        /\ session'[t].todo = req[t].lines
        /\ session'[t].hasView = session[t].hasView
    BY <1>0, <1>2 DEF ReceiveLock, Ended, Sessions
  <2>2. pc'[t] = "receive_line" /\ req'[t] = req[t] /\ OnlySession(t)
    BY <1>0, <1>2 DEF ReceiveLock, Ended, Goto, OnlySession
  <2>3. WritesItsProducts(t)'
    BY <1>0, <2>1, <2>2 DEF Separately, WritesItsProducts, OnlySession, ProductsOn
  <2>4. SeesItsProducts(t)'
    BY <1>0, <2>1, <2>2 DEF Separately, SeesItsProducts
  <2>5. ContinuesLedger(t)'
    BY <1>0, <2>1, <2>2 DEF Separately, ContinuesLedger, OnHand, OnlySession
  <2>. QED  BY <2>2, <2>3, <2>4, <2>5, OthersSeparate DEF Separately
<1>. QED  BY <1>1, <1>2

\* The read of a line shows the committed row, or none.
LEMMA ReceiveLineSeparate ==
    ASSUME TypedLedger, SeparateInv, NEW t \in Txns, ReceiveLine(t)
    PROVE  SeparateInv'
<1>0. /\ req[t] \in ReceiveRequests /\ pc[t] = "receive_line" /\ pc[t] \notin Ended
      /\ session[t] \in Sessions /\ session \in [Txns -> Sessions]
      /\ pc \in [Txns -> Labels] /\ Separately(t)
  BY DEF TypedLedger, TypeInv, TypeOK, RequestFits, ReceiveLine, Ended, SeparateInv,
         Separately
<1>1. CASE \E answer \in Ended : Rollback(t, answer)
  BY <1>0, <1>1, EmptySeparate DEF Rollback, Goto, OnlySession, Ended
<1>2. CASE ~ \E answer \in Ended : Rollback(t, answer)
  <2> DEFINE p == ProductOf[Head(session[t].todo).item]
  <2>0. /\ session' = [session EXCEPT ![t].snapshot = View(t), ![t].hasView = TRUE,
                                      ![t].before = PlainRead(t, p)]
        /\ Goto(t, "receive_save")
        /\ UNCHANGED <<quantity, ledger, outbox, received, req, overtaken>>
    BY <1>2 DEF ReceiveLine, Ended
  <2> HIDE DEF p
  <2>1. /\ session'[t].written = session[t].written
        /\ session'[t].movements = session[t].movements
        /\ session'[t].todo = session[t].todo
        /\ session'[t].hasView = TRUE
        /\ session'[t].snapshot = View(t)
        /\ session'[t].before = PlainRead(t, p)
    BY <1>0, <2>0 DEF Sessions
  <2>2. pc'[t] = "receive_save" /\ req'[t] = req[t] /\ OnlySession(t)
    BY <1>0, <2>0 DEF Goto, OnlySession
  <2>3. WritesItsProducts(t)'
    BY <1>0, <2>1, <2>2 DEF Separately, WritesItsProducts, OnlySession
  <2>4. SeesItsProducts(t)'
    <3>1. \A q \in ProductsOn(req[t]) : View(t)[q] \in {NONE, quantity[q]}
      BY <1>0 DEF Separately, SeesItsProducts, View
    <3>3. p' = p
      BY <2>1 DEF p
    <3>2. session'[t].before = PlainRead(t, p)'
      BY <2>1, <3>3 DEF PlainRead, View
    <3>4. \A q \in ProductsOn(req'[t]) : session'[t].snapshot[q] \in {NONE, quantity'[q]}
      BY <2>1, <2>2, <3>1 DEF OnlySession
    <3>. QED  BY <2>1, <2>2, <3>2, <3>3, <3>4 DEF SeesItsProducts, p
  <2>5. ContinuesLedger(t)'
    BY <1>0, <2>1, <2>2 DEF Separately, ContinuesLedger, OnHand, OnlySession
  <2>. QED  BY <2>2, <2>3, <2>4, <2>5, OthersSeparate DEF Separately
<1>. QED  BY <1>1, <1>2

\* What a delivery adds to: the balance on hand, or the one it has left itself.
LEMMA ReceiptContinues ==
    ASSUME TypedLedger, SeparateInv, NEW t \in Txns, pc[t] = "receive_save",
           ~DuplicateRow(ProductOf[Head(session[t].todo).item], session[t].before)
    PROVE  LET p    == ProductOf[Head(session[t].todo).item]
               ms   == session[t].movements[p]
               from == IF session[t].before = NONE THEN 0 ELSE session[t].before
           IN /\ p \in ProductsOn(req[t])
              /\ from = IF ms = <<>> THEN OnHand(p) ELSE ms[Len(ms)].after
              /\ from >= OnHand(p)
<1> DEFINE p    == ProductOf[Head(session[t].todo).item]
           ms   == session[t].movements[p]
           from == IF session[t].before = NONE THEN 0 ELSE session[t].before
<1>1. /\ req[t] \in ReceiveRequests /\ session[t].todo # <<>>
      /\ session[t].todo \in Seq(Lines) /\ session[t] \in Sessions /\ TypeOK
      /\ Separately(t) /\ ms \in Seq(Movements)
      /\ quantity \in [Products -> Balances]
      /\ session[t].before = PlainRead(t, p)
      /\ session[t].hasView
  <2>1. req[t] \in ReceiveRequests /\ session[t].todo # <<>> /\ session[t] \in Sessions
        /\ TypeOK /\ Separately(t)
    BY DEF TypedLedger, TypeInv, TypeOK, RequestFits, SeparateInv, Separately
  <2>2. p \in Products
    BY <2>1, HeadTyped
  <2> HIDE DEF p
  <2>3. ms \in Seq(Movements) /\ session[t].todo \in Seq(Lines)
        /\ quantity \in [Products -> Balances]
    BY <2>1, <2>2 DEF Sessions, TypeOK
  <2>. QED  BY <2>1, <2>3 DEF Separately, SeesItsProducts, p
<1>2. p \in Products
  BY <1>1, HeadTyped
<1>3. p \in ProductsOn(req[t])
  <2>1. 1 \in 1..Len(session[t].todo) /\ Head(session[t].todo) = session[t].todo[1]
    BY <1>1
  <2>. QED  BY <1>1, <2>1 DEF Separately, WritesItsProducts
<1> HIDE DEF p
<1>4. req[t].op = "receive"
  BY <1>1 DEF ReceiveRequests
<1>5. ASSUME ms = <<>> PROVE from = OnHand(p) /\ from >= OnHand(p)
  <2>1. session[t].written[p] # NONE => session[t].written[p] = 0 /\ quantity[p] = NONE
    BY <1>2, <1>5 DEF TypedLedger, LedgerPart, SessionsAgree
  <2>2. CASE session[t].written[p] # NONE
    <3>1. from = 0 /\ OnHand(p) = 0
      BY <1>1, <2>1, <2>2 DEF PlainRead, OnHand
    <3>. QED  BY <3>1
  <2>3. CASE session[t].written[p] = NONE
    <3>1. session[t].before \in {NONE, quantity[p]}
      BY <1>1, <1>3, <2>3 DEF PlainRead, View, Separately, SeesItsProducts
    <3>2. session[t].before = NONE => quantity[p] = NONE
      BY DEF DuplicateRow, p
    <3>3. from = OnHand(p)
      BY <3>1, <3>2 DEF OnHand
    <3>4. OnHand(p) \in Nat
      BY <1>1, <1>2 DEF OnHand, Balances
    <3>. QED  BY <3>3, <3>4
  <2>. QED  BY <2>2, <2>3
<1>6. ASSUME ms # <<>> PROVE from = ms[Len(ms)].after /\ from >= OnHand(p)
  <2>1. Len(ms) \in 1..Len(ms) /\ ms[Len(ms)].after \in Nat
    <3>1. Len(ms) \in 1..Len(ms) /\ ms[Len(ms)] \in Movements
      BY <1>1, <1>6
    <3>. QED  BY <3>1 DEF Movements
  <2>2. session[t].written[p] = ms[Len(ms)].after
    <3>1. t \notin overtaken
      BY <1>4 DEF TypedLedger, SeenPart, CountsSee
    <3>. QED  BY <1>2, <1>6, <3>1 DEF TypedLedger, LedgerPart, SessionsAgree
  <2>3. from = ms[Len(ms)].after
    BY <1>1, <2>1, <2>2, NoneAssumption DEF PlainRead
  <2>4. ms[Len(ms)].after >= OnHand(p)
    BY <1>1, <1>2, <1>4, <2>1 DEF Separately, ContinuesLedger
  <2>. QED  BY <2>3, <2>4
<1>. QED  BY <1>3, <1>5, <1>6 DEF p

\* The receipt of a line continues the ledger.
LEMMA ReceiveSaveSeparate ==
    ASSUME TypedLedger, SeparateInv, NEW t \in Txns, ReceiveSave(t)
    PROVE  SeparateInv'
<1>0. /\ req[t] \in ReceiveRequests /\ pc[t] = "receive_save" /\ pc[t] \notin Ended
      /\ session[t] \in Sessions /\ session \in [Txns -> Sessions]
      /\ pc \in [Txns -> Labels] /\ Separately(t) /\ session[t].todo # <<>>
      /\ TypeOK /\ session[t].todo \in Seq(Lines)
  BY DEF TypedLedger, TypeInv, TypeOK, RequestFits, ReceiveSave, Ended, SeparateInv,
         Separately, Sessions
<1>1. CASE Rollback(t, "failed")
  BY <1>0, <1>1, EmptySeparate DEF Rollback, Goto, OnlySession, Ended
<1>2. CASE ~Rollback(t, "failed")
  <2> DEFINE line == Head(session[t].todo)
             p    == ProductOf[line.item]
             ms   == session[t].movements[p]
             from == IF session[t].before = NONE THEN 0 ELSE session[t].before
             m    == Movement(t, "RECEIPT", "IN", line.quantity, from,
                              from + line.quantity)
  <2>1. /\ p \in Products /\ m \in Movements
        /\ ~DuplicateRow(p, session[t].before)
        /\ session'[t].written = [session[t].written EXCEPT ![p] = m.after]
        /\ session'[t].todo = Tail(session[t].todo)
        /\ session'[t].snapshot = session[t].snapshot
        /\ session'[t].hasView = session[t].hasView
        /\ pc'[t] = "receive_line"
        /\ Records(t, p, m)
    BY <1>2, ReceiptShape
  <2>2. /\ p \in ProductsOn(req[t])
        /\ from = IF ms = <<>> THEN OnHand(p) ELSE ms[Len(ms)].after
        /\ from >= OnHand(p)
    BY <1>0, <2>1, ReceiptContinues
  <2>3. m.type = "RECEIPT" /\ m.before = from /\ m.after = from + line.quantity
    BY DEF Movement
  <2>4. m.after >= OnHand(p)
    <3>1. line.quantity \in Nat /\ from \in Nat
      BY <1>0, HeadTyped DEF Sessions, Balances
    <3>2. OnHand(p) \in Nat
      BY <1>0, <2>1 DEF TypeOK, OnHand, Balances
    <3> HIDE DEF m, from, line, p
    <3>. QED  BY <2>2, <2>3, <3>1, <3>2
  <2>5. req'[t] = req[t]
    BY <1>2 DEF ReceiveSave
  <2>6. req[t].op = "receive"
    BY <1>0 DEF ReceiveRequests
  <2> HIDE DEF m, p, from
  <2>7. OnlySession(t)
        /\ session'[t].movements = [session[t].movements EXCEPT ![p] = Append(@, m)]
    BY <2>1 DEF Records
  <2>8. ContinuesLedger(t)'
    BY <2>1, <2>2, <2>3, <2>4, <2>5, <2>6, <2>7, AppendContinues
  <2>9. WritesItsProducts(t)'
    <3>1. \A q \in Products : session'[t].written[q] # NONE \/ session'[t].movements[q] # <<>>
                                 => q \in ProductsOn(req[t])
      BY <1>0, <2>1, <2>2, <2>6, <2>7 DEF Sessions, Separately, WritesItsProducts
    <3>2. \A k \in 1..Len(Tail(session[t].todo)) :
              k + 1 \in 1..Len(session[t].todo)
              /\ Tail(session[t].todo)[k] = session[t].todo[k + 1]
      BY <1>0
    <3>3. \A k \in 1..Len(Tail(session[t].todo)) :
              ProductOf[Tail(session[t].todo)[k].item] \in ProductsOn(req[t])
      BY <1>0, <3>2 DEF Separately, WritesItsProducts
    <3>. QED  BY <2>1, <2>5, <2>6, <3>1, <3>3 DEF WritesItsProducts
  <2>10. SeesItsProducts(t)'
    BY <1>0, <2>1, <2>5, <2>7 DEF Separately, SeesItsProducts, OnlySession
  <2>. QED  BY <2>7, <2>8, <2>9, <2>10, OthersSeparate DEF Separately
<1>. QED  BY <1>1, <1>2

\* A header edit, a request that arrives, and the end of a delivery.
LEMMA OtherSeparate ==
    ASSUME TypedLedger, SeparateInv, NEW t \in Txns,
           Begin(t) \/ ReceiveFinish(t) \/ EditLoad(t) \/ EditSave(t)
    PROVE  SeparateInv'
<1>0. /\ session[t] \in Sessions /\ session \in [Txns -> Sessions]
      /\ pc \in [Txns -> Labels] /\ req \in [Txns -> Requests \cup {NONE}]
      /\ pc[t] \notin Ended
      /\ pc[t] = "idle" => session[t] = EmptySession
  BY DEF TypedLedger, TypeInv, TypeOK, RequestFits, Begin, ReceiveFinish, EditLoad,
         EditSave, Ended
<1>1. CASE Begin(t)
  <2>1. PICK r \in Requests : req' = [req EXCEPT ![t] = r] /\ Goto(t, FirstStep[r.op])
    BY <1>1 DEF Begin
  <2>2. FirstStep[r.op] \in {"create_check", "count_read", "receive_lock", "edit_load"}
    BY ConstantsAssumption
       DEF FirstStep, CreateRequests, CountRequests, ReceiveRequests, EditRequests
  <2>3. pc'[t] = FirstStep[r.op] /\ session'[t] = EmptySession /\ OnlySession(t)
    BY <1>0, <1>1, <2>1 DEF Begin, Goto, OnlySession
  <2>4. pc'[t] \notin {"receive_line", "receive_save"}
    BY <2>2, <2>3
  <2>. QED  BY <2>3, <2>4, EmptySeparate
<1>2. CASE ReceiveFinish(t)
  <2>1. /\ session'[t].written = session[t].written
        /\ session'[t].movements = session[t].movements
        /\ session'[t].todo = session[t].todo
    BY <1>0, <1>2 DEF ReceiveFinish, Sessions
  <2>2. pc'[t] = "commit" /\ req'[t] = req[t] /\ OnlySession(t)
    BY <1>0, <1>2 DEF ReceiveFinish, Goto, OnlySession
  <2>. QED  BY <2>1, <2>2, SameSeparate
<1>3. CASE EditLoad(t) /\ ~Rollback(t, "rejected")
  <2>1. /\ session'[t].written = session[t].written
        /\ session'[t].movements = session[t].movements
        /\ session'[t].todo = session[t].todo
    BY <1>0, <1>3 DEF EditLoad, Sessions
  <2>2. pc'[t] = "edit_save" /\ req'[t] = req[t] /\ OnlySession(t)
    BY <1>0, <1>3 DEF EditLoad, Goto, OnlySession
  <2>. QED  BY <2>1, <2>2, SameSeparate
<1>4. CASE Rollback(t, "rejected") \/ EditSave(t)
  BY <1>0, <1>4, EmptySeparate DEF Rollback, EditSave, Goto, OnlySession, Ended
<1>. QED  BY <1>1, <1>2, <1>3, <1>4

\* A stock row that a transaction has written is locked by it.
LEMMA HeldRow ==
    ASSUME TypedLedger, NEW u \in Txns, NEW p \in Products,
           session[u].movements[p] # <<>> \/ session[u].written[p] # NONE
    PROVE  rowLock[p] = u
  BY DEF TypedLedger, LedgerPart, RowsHeld

\* A commit changes no row that another delivery has read.
LEMMA CommitSees ==
    ASSUME TypedLedger, OrdersHeld, Sent, Separated(Requests), SeparateInv,
           NEW t \in Txns, Commit(t), NEW u \in Txns \ {t},
           pc[u] \in {"receive_line", "receive_save"}, session[u].hasView,
           NEW p \in ProductsOn(req[u])
    PROVE  session[u].snapshot[p] \in {NONE, quantity'[p]}
<1>1. /\ pc[t] = "commit" /\ req[t] \in Requests /\ req[u] \in Requests
      /\ req[t] \in CreateRequests \cup CountRequests \cup ReceiveRequests
      /\ req[u] \in ReceiveRequests
  BY DEF Commit, Sent, TypedLedger, TypeInv, RequestFits, Ended
<1>2. req[u].op = "receive" /\ req[t].op \in {"create", "count", "receive"}
  BY <1>1 DEF CreateRequests, CountRequests, ReceiveRequests
<1>3. p \in Products
  <2>1. /\ ProductsOn(req[u]) \subseteq {ProductOf[l.item] : l \in Lines}
    BY <1>1 DEF ProductsOn, ReceiveRequests
  <2>. QED  BY <2>1, ConstantsAssumption DEF Lines
<1>4. session[u].snapshot[p] \in {NONE, quantity[p]}
  BY DEF SeparateInv, SeesItsProducts
<1>5. CASE session[t].written[p] = NONE
  BY <1>3, <1>4, <1>5 DEF Commit
<1>6. CASE session[t].written[p] # NONE
  <2>1. /\ req[t].op = "receive" => p \in ProductsOn(req[t])
        /\ req[t].op # "receive" => p = req[t].product
        /\ req[t].op = "create" => quantity[p] = NONE
    BY <1>3, <1>6 DEF SeparateInv, WritesItsProducts
  <2>2. CASE req[t].op = "create"
    BY <1>4, <2>1, <2>2
  <2>3. req[t].op # "count"
    BY <1>1, <1>2, <2>1 DEF Separated
  <2>4. req[t].op # "receive"
    <3> SUFFICES ASSUME req[t].op = "receive" PROVE FALSE
      OBVIOUS
    <3>1. req[t].order = req[u].order
      BY <1>1, <1>2, <2>1 DEF Separated
    <3>2. Receiving(t) /\ Receiving(u) /\ req[t].order \in Orders
      BY <1>1 DEF Receiving, CreateRequests, CountRequests, ReceiveRequests
    <3>. QED  BY <3>1, <3>2 DEF OrdersHeld
  <2>. QED  BY <1>2, <2>2, <2>3, <2>4
<1>. QED  BY <1>5, <1>6

\* The history of one product after a commit: the movements of the session start
\* from the balance on hand and from one another.
LEMMA CommitHistory ==
    ASSUME TypedLedger, SeparateInv, NEW t \in Txns, Commit(t), NEW p \in Products,
           NEW k \in 1..Len(ledger'[p])
    PROVE  ledger'[p][k].before = IF k = 1 THEN 0 ELSE Left(ledger'[p][k - 1])
<1> DEFINE a == ledger[p]
           s == session[t].movements[p]
<1>1. a \in Seq(Movements) /\ s \in Seq(Movements) /\ Len(a) \in Nat /\ Len(s) \in Nat
  BY DEF TypedLedger, TypeInv, TypeOK, Sessions
<1>2. ledger'[p] = a \o s
  BY CommitRow
<1>3. /\ IF a = <<>> THEN quantity[p] \in {NONE, 0} ELSE quantity[p] = Left(a[Len(a)])
      /\ \A j \in 1..Len(a) : a[j].before = IF j = 1 THEN 0 ELSE Left(a[j - 1])
  BY DEF TypedLedger, LedgerPart, BalanceIsLeftByLedger, SeparateInv,
         HistoryIsChain, StartsFromPredecessor
<1>4. \A j \in 1..Len(s) : s[j].before = IF j = 1 THEN OnHand(p) ELSE Left(s[j - 1])
  <2>1. \A j \in 1..Len(s) : s[j].type = "ADJUSTMENT" => j = 1 /\ s[j].before = OnHand(p)
    BY DEF TypedLedger, LedgerPart, AdjustmentsAgree
  <2>2. \A j \in 1..Len(s) :
            \/ s[j].type = "ADJUSTMENT"
            \/ /\ s[j].before = IF j = 1 THEN OnHand(p) ELSE s[j - 1].after
               /\ req[t].op = "receive"
    BY DEF SeparateInv, ContinuesLedger
  <2>3. req[t].op = "receive" => t \notin overtaken
    BY DEF TypedLedger, SeenPart, CountsSee
  <2>4. \A j \in 1..Len(s) : s[j].by = t
    BY DEF TypedLedger, SeenPart, MovementsSigned
  <2>5. ASSUME NEW j \in 1..Len(s), j # 1, req[t].op = "receive"
        PROVE  Left(s[j - 1]) = s[j - 1].after
    <3>1. j - 1 \in 1..Len(s)
      BY <1>1, <2>5
    <3>. QED  BY <2>3, <2>4, <2>5, <3>1 DEF Left
  <2> HIDE DEF s
  <2>. QED  BY <2>1, <2>2, <2>5
<1>5. /\ a = <<>> => OnHand(p) = 0
      /\ a # <<>> => Len(a) >= 1 /\ OnHand(p) = Left(a[Len(a)])
  <2>1. ASSUME a # <<>> PROVE Len(a) >= 1 /\ Left(a[Len(a)]) \in Nat
    <3>1. Len(a) >= 1 /\ a[Len(a)] \in Movements
      BY <1>1, <2>1
    <3>. QED  BY <3>1 DEF Movements, Left
  <2> HIDE DEF a
  <2>. QED  BY <1>3, <2>1, NoneAssumption DEF OnHand
<1> HIDE DEF a, s
<1>6. /\ Len(a \o s) = Len(a) + Len(s)
      /\ \A j \in 1..Len(a) : (a \o s)[j] = a[j]
      /\ \A j \in Len(a) + 1 .. Len(a) + Len(s) : (a \o s)[j] = s[j - Len(a)]
  BY <1>1, ConcatElements
<1>7. CASE k <= Len(a)
  <2>1. k \in 1..Len(a) /\ (k # 1 => k - 1 \in 1..Len(a))
    BY <1>1, <1>7
  <2>. QED  BY <1>2, <1>3, <1>6, <2>1
<1>8. CASE k > Len(a) + 1
  <2>1. k - Len(a) \in 1..Len(s) /\ (a \o s)[k] = s[k - Len(a)]
    BY <1>1, <1>2, <1>6, <1>8
  <2>2. k # 1 /\ k - Len(a) # 1 /\ (a \o s)[k - 1] = s[k - Len(a) - 1]
    BY <1>1, <1>2, <1>6, <1>8
  <2>. QED  BY <1>2, <1>4, <2>1, <2>2
<1>9. CASE k = Len(a) + 1
  <2>1. 1 \in 1..Len(s) /\ (a \o s)[k] = s[1]
    BY <1>1, <1>2, <1>6, <1>9
  <2>2. (a \o s)[k].before = OnHand(p)
    BY <1>4, <2>1
  <2>3. CASE a = <<>>
    BY <1>1, <1>2, <1>5, <1>9, <2>2, <2>3
  <2>4. CASE a # <<>>
    <3>1. k # 1 /\ (a \o s)[k - 1] = a[Len(a)]
      BY <1>1, <1>5, <1>6, <1>9, <2>4
    <3>. QED  BY <1>2, <1>5, <2>2, <2>4, <3>1
  <2>. QED  BY <2>3, <2>4
<1>. QED  BY <1>1, <1>7, <1>8, <1>9

\* A commit leaves the deliveries of other products and orders undisturbed.
LEMMA CommitSeparate ==
    ASSUME TypedLedger, OrdersHeld, Sent, Separated(Requests), SeparateInv,
           NEW t \in Txns, Commit(t)
    PROVE  SeparateInv'
<1>1. /\ \A u \in Txns \ {t} : pc'[u] = pc[u] /\ session'[u] = session[u]
      /\ pc'[t] = "committed" /\ session'[t] = EmptySession /\ req' = req
  BY DEF Commit, Goto, TypedLedger, TypeInv, TypeOK
<1>2. Separately(t)'
  BY <1>1 DEF Separately, EmptySession, WritesItsProducts, SeesItsProducts,
     ContinuesLedger
<1>3. ASSUME NEW u \in Txns \ {t} PROVE Separately(u)'
  <2>1. Separately(u)
    BY DEF SeparateInv, Separately
  <2>2. ASSUME NEW p \in Products,
               session[u].movements[p] # <<>> \/ session[u].written[p] # NONE
        PROVE  quantity'[p] = quantity[p]
    <3>1. rowLock[p] = u
      BY <2>2, HeldRow
    <3>. QED  BY <3>1, CommitRow
  <2>3. WritesItsProducts(u)'
    BY <1>1, <2>1, <2>2 DEF Separately, WritesItsProducts
  <2>4. SeesItsProducts(u)'
    <3>1. pc[u] \in {"receive_line", "receive_save"} /\ session[u].hasView =>
            \A p \in ProductsOn(req[u]) : session[u].snapshot[p] \in {NONE, quantity'[p]}
      BY CommitSees
    <3>2. session[u].hasView => \A p : PlainRead(u, p)' = PlainRead(u, p)
      BY <1>1 DEF PlainRead, View
    <3>. QED  BY <1>1, <2>1, <3>1, <3>2 DEF Separately, SeesItsProducts
  <2>5. ContinuesLedger(u)'
    <3>1. ASSUME NEW p \in Products, NEW k \in 1..Len(session[u].movements[p])
          PROVE  OnHand(p)' = OnHand(p)
      <4>1. session[u].movements[p] # <<>>
        OBVIOUS
      <4>. QED  BY <2>2, <4>1 DEF OnHand
    <3>. QED  BY <1>1, <2>1, <3>1, SMTT(30) DEF Separately, ContinuesLedger
  <2>. QED  BY <2>3, <2>4, <2>5 DEF Separately
<1>4. HistoryIsChain'
  <2>1. ASSUME NEW p \in Products, NEW k \in 1..Len(ledger'[p])
        PROVE  StartsFromPredecessor(p, k)'
    <3>1. ledger'[p][k].before = IF k = 1 THEN 0 ELSE Left(ledger'[p][k - 1])
      BY CommitHistory
    <3>2. k # 1 => k - 1 \in 1..Len(ledger'[p])
      <4>1. /\ ledger[p] \in Seq(Movements) /\ session[t].movements[p] \in Seq(Movements)
            /\ ledger'[p] = ledger[p] \o session[t].movements[p]
        BY CommitRow DEF TypedLedger, TypeInv, TypeOK, Sessions
      <4>2. ledger'[p] \in Seq(Movements)
        BY <4>1
      <4>. QED  BY <4>2
    <3>3. k # 1 => Left(ledger[p][k - 1])' = Left(ledger'[p][k - 1])
      BY <3>2, LeftStays
    <3>. QED  BY <3>1, <3>3 DEF StartsFromPredecessor
  <2>. QED  BY <2>1 DEF HistoryIsChain
<1>. QED  BY <1>2, <1>3, <1>4 DEF SeparateInv, Separately

\* Every step keeps the invariant of deliveries that nothing overlaps.
LEMMA StepSeparate ==
    ASSUME TypedLedger, OrdersHeld, Sent, Separated(Requests), SeparateInv, [Next]_vars
    PROVE  SeparateInv'
<1>1. ASSUME NEW t \in Txns, Begin(t) \/ Handle(t) \/ DeadlockVictim(t) \/ Fail(t)
      PROVE  SeparateInv'
  <2>1. CASE DeadlockVictim(t) \/ Fail(t)
    <3>1. pc[t] \notin Ended
      BY <2>1 DEF DeadlockVictim, Deadlocked, WaitsFor, Fail, Ended
    <3>2. /\ OnlySession(t) /\ session'[t] = EmptySession /\ pc'[t] = "failed"
      BY <2>1, <3>1 DEF DeadlockVictim, Fail, Rollback, Goto, OnlySession, TypedLedger,
         TypeInv, TypeOK
    <3>. QED  BY <3>2, EmptySeparate
  <2>. QED
    BY <1>1, <2>1, OtherSeparate, CreateSeparate, CountSeparate, ReceiveLockSeparate,
       ReceiveLineSeparate, ReceiveSaveSeparate, CommitSeparate DEF Handle
<1>2. CASE UNCHANGED vars
  <2>1. ASSUME NEW t \in Txns PROVE Separately(t)'
    <3>1. WritesItsProducts(t)'
      BY <1>2 DEF vars, SeparateInv, WritesItsProducts
    <3>2. SeesItsProducts(t)'
      BY <1>2 DEF vars, SeparateInv, SeesItsProducts, PlainRead, View
    <3>3. ContinuesLedger(t)'
      BY <1>2 DEF vars, SeparateInv, ContinuesLedger, OnHand
    <3>. QED  BY <3>1, <3>2, <3>3 DEF Separately
  <2>2. HistoryIsChain'
    BY <1>2 DEF vars, SeparateInv, HistoryIsChain, StartsFromPredecessor, Left
  <2>. QED  BY <2>1, <2>2 DEF SeparateInv, Separately
<1>. QED  BY <1>1, <1>2 DEF Next, Quiescent

\* What SeparateInv and the invariants it rests on give together.
LEMMA AlwaysSeparate ==
    ASSUME Separated(Requests)
    PROVE  Spec => []SeparateInv
<1>1. Init => SeparateInv
  BY InitSeparate
<1>2. LedgerInv /\ ReceivingInv /\ Sent /\ SeparateInv /\ [Next]_vars => SeparateInv'
  BY StepSeparate DEF LedgerInv, ReceivingInv, TypedLedger, LedgerPart, SeenPart,
       TypeInv
<1>. QED  BY <1>1, <1>2, LedgerInvariant, ReceivingInvariant, AlwaysSent, PTL DEF Spec

\* Current stock is explainable through inventory history as long as no product is
\* delivered that is also counted or delivered on another order: every movement
\* starts from the balance that the one before it has left, which is where that one
\* ended or, behind an overtaken count, where it began, whatever else interleaves
\* (stock.service.ts:170-231, purchase_orders.service.ts:611-657).
THEOREM SeparateDeliveriesAreExplained ==
    ASSUME Separated(Requests)
    PROVE  Spec => []HistoryIsChain
<1>1. SeparateInv => HistoryIsChain
  BY DEF SeparateInv
<1>. QED  BY <1>1, AlwaysSeparate, PTL

\* A commit that takes a balance down to its reorder level adds a low-stock row.
LEMMA CommitAnnounces ==
    ASSUME TypedLedger, OutboxInv, SeparateInv, NEW t \in Txns, Commit(t),
           NEW p \in Products, quantity[p] # NONE, quantity'[p] # NONE,
           Falls(p, quantity[p], quantity'[p])
    PROVE  \E e \in outbox' \ outbox : e.product = p
<1> DEFINE s == session[t].movements[p]
           e == Row(p, s[Len(s)])
<1>1. s \in Seq(Movements) /\ quantity[p] \in Nat /\ ReorderPoint[p] \in Nat
  BY ConstantsAssumption DEF TypedLedger, TypeInv, TypeOK, Sessions, Balances
<1>2. s # <<>> /\ quantity'[p] = s[Len(s)].after
  <2>1. quantity'[p] # quantity[p]
    BY <1>1 DEF Falls
  <2>2. session[t].written[p] # NONE /\ quantity'[p] = session[t].written[p]
    BY <2>1 DEF Commit
  <2>. QED  BY <2>2 DEF TypedLedger, LedgerPart, SessionsAgree
<1>3. Len(s) \in 1..Len(s) /\ s[Len(s)] \in Movements
  <2> HIDE DEF s
  <2>. QED  BY <1>1, <1>2
<1>4. s[Len(s)].after \in Nat
  BY <1>3 DEF Movements
<1>5. s[Len(s)].type = "ADJUSTMENT"
  <2>1. \/ s[Len(s)].type = "ADJUSTMENT"
        \/ s[Len(s)].after >= OnHand(p)
    BY <1>3 DEF SeparateInv, ContinuesLedger
  <2> HIDE DEF s
  <2>. QED  BY <1>1, <1>2, <1>4, <2>1 DEF OnHand, Falls
<1>6. s[Len(s)].before = quantity[p]
  BY <1>3, <1>5 DEF TypedLedger, LedgerPart, AdjustmentsAgree, OnHand
<1>7. Calls(p, s[Len(s)])
  BY <1>2, <1>5, <1>6 DEF Calls
<1>8. e \in session[t].events
  <2>1. e \in Announcements(session[t].movements)
    BY <1>3, <1>7, AnnouncementElements
  <2>. QED  BY <2>1 DEF OutboxInv, SessionsAnnounce
<1>9. e.by = t /\ e \notin outbox
  <2>1. e.by = t
    BY <1>8 DEF OutboxInv, EventsSigned
  <2>2. pc[t] = "commit"
    BY DEF Commit
  <2> HIDE DEF e
  <2>. QED  BY <2>1, <2>2 DEF OutboxInv, EventsSigned
<1>10. e \in outbox' /\ e.product = p
  BY <1>8 DEF Commit, Row
<1>. QED  BY <1>9, <1>10

\* The balance does not reach or pass the reorder level without a low-stock row in
\* the same commit, as long as no product is delivered that is also counted or
\* delivered on another order (stock.service.ts:257-282): a delivery that has read
\* a stale balance may take it down unannounced.
THEOREM LowStockNeverPassesUnannounced ==
    ASSUME Separated(Requests)
    PROVE  Spec => LowStockIsAnnounced
<1> DEFINE Announced == \A p \in Products :
             (/\ quantity[p] # NONE /\ quantity'[p] # NONE
              /\ Falls(p, quantity[p], quantity'[p]))
                 => \E e \in outbox' \ outbox : e.product = p
<1>1. LedgerInv /\ ReceivingInv /\ OutboxInv /\ SeparateInv /\ [Next]_vars
        => [Announced]_vars
  <2> SUFFICES ASSUME LedgerInv, ReceivingInv, OutboxInv, SeparateInv, [Next]_vars
               PROVE  Announced \/ UNCHANGED vars
    OBVIOUS
  <2>0. TypedLedger
    BY DEF LedgerInv, ReceivingInv, TypedLedger, LedgerPart, SeenPart,
       TypeInv
  <2>1. ASSUME UNCHANGED quantity PROVE Announced
    <3> SUFFICES ASSUME NEW p \in Products, quantity[p] # NONE,
                        Falls(p, quantity[p], quantity'[p])
                 PROVE  FALSE
      BY <2>1
    <3>1. quantity[p] \in Nat /\ ReorderPoint[p] \in Nat
      BY <2>0, ConstantsAssumption DEF TypedLedger, TypeInv, TypeOK, Balances
    <3>. QED  BY <2>1, <3>1 DEF Falls
  <2>2. ASSUME NEW t \in Txns, Commit(t) PROVE Announced
    BY <2>0, <2>2, CommitAnnounces
  <2>3. CASE \/ UNCHANGED vars
             \/ \E t \in Txns : Commit(t) \/ Quiet(t)
             \/ \E t \in Txns, p \in Products, m \in Movements : Records(t, p, m)
    BY <2>1, <2>2, <2>3 DEF Quiet, Records, OnlySession
  <2>. QED  BY <2>0, <2>3, StepShape DEF OutboxInv
<1>. QED
  BY <1>1, LedgerInvariant, ReceivingInvariant, OutboxInvariant, AlwaysSeparate, PTL
     DEF Spec, LowStockIsAnnounced

-----------------------------------------------------------------------------
(* Receipts                                                                *)

ReceiptsAmong(a) == {k \in DOMAIN a : a[k].type = "RECEIPT"}
Amounts(a) == [k \in DOMAIN a |-> a[k].quantity]

\* The receipts of a sequence are finitely many and have quantities.
LEMMA ReceiptsTyped ==
    ASSUME NEW a \in Seq(Movements)
    PROVE  /\ IsFiniteSet(ReceiptsAmong(a)) /\ ReceiptsAmong(a) \subseteq 1..Len(a)
           /\ \A k \in 1..Len(a) : Amounts(a)[k] = a[k].quantity /\ a[k].quantity \in Int
           /\ ReceiptTotal(a) = SumFunctionOnSet(Amounts(a), ReceiptsAmong(a))
           /\ ReceiptTotal(a) \in Int
<1>1. DOMAIN a = 1..Len(a) /\ Len(a) \in Nat /\ \A k \in 1..Len(a) : a[k] \in Movements
  OBVIOUS
<1>2. IsFiniteSet(1..Len(a)) /\ ReceiptsAmong(a) \in SUBSET (1..Len(a))
  BY <1>1, FS_Interval DEF ReceiptsAmong
<1>3. IsFiniteSet(ReceiptsAmong(a))
  BY <1>2, FS_Subset
<1>4. \A k \in 1..Len(a) : Amounts(a)[k] = a[k].quantity /\ a[k].quantity \in Int
  BY <1>1 DEF Amounts, Movements
<1>5. ReceiptTotal(a) = SumFunctionOnSet(Amounts(a), ReceiptsAmong(a))
  BY DEF ReceiptTotal, Amounts, ReceiptsAmong
<1>6. \A k \in ReceiptsAmong(a) : Amounts(a)[k] \in Int
  BY <1>2, <1>4
<1>. QED  BY <1>2, <1>3, <1>4, <1>5, <1>6, SumIsInt

\* Without movements nothing was received.
LEMMA NothingReceived == ReceiptTotal(<<>>) = 0
<1>1. {k \in DOMAIN <<>> : <<>>[k].type = "RECEIPT"} = {}
  OBVIOUS
<1>. QED  BY <1>1, SumOfNothing DEF ReceiptTotal

\* What two sequences have received.
LEMMA ReceivedByBoth ==
    ASSUME NEW a \in Seq(Movements), NEW b \in Seq(Movements)
    PROVE  ReceiptTotal(a \o b) = ReceiptTotal(a) + ReceiptTotal(b)
<1> DEFINE c == a \o b
           n == Len(a)
           later == {n + k : k \in ReceiptsAmong(b)}
<1>1. /\ c \in Seq(Movements) /\ n \in Nat /\ Len(b) \in Nat /\ Len(c) = n + Len(b)
      /\ \A k \in 1..n : c[k] = a[k]
      /\ \A k \in 1..Len(b) : c[n + k] = b[k]
  <2>1. \A k \in 1..Len(b) : n + k \in n + 1 .. n + Len(b) /\ (n + k) - n = k
    OBVIOUS
  <2>. QED  BY <2>1, ConcatElements
<1>2. DOMAIN a = 1..n /\ DOMAIN b = 1..Len(b) /\ DOMAIN c = 1..(n + Len(b))
  BY <1>1
<1> HIDE DEF c, n
<1>3. ReceiptsAmong(c) = ReceiptsAmong(a) \cup later /\ ReceiptsAmong(a) \cap later = {}
  <2>1. ASSUME NEW k \in ReceiptsAmong(c) PROVE k \in ReceiptsAmong(a) \cup later
    <3>1. k \in 1..(n + Len(b)) /\ c[k].type = "RECEIPT"
      BY <1>2 DEF ReceiptsAmong
    <3>2. CASE k <= n
      BY <1>1, <1>2, <3>1, <3>2 DEF ReceiptsAmong
    <3>3. CASE k > n
      <4>1. k - n \in 1..Len(b) /\ k = n + (k - n)
        BY <1>1, <3>1, <3>3
      <4>2. k - n \in ReceiptsAmong(b)
        BY <1>1, <1>2, <3>1, <4>1 DEF ReceiptsAmong
      <4>. QED  BY <4>1, <4>2
    <3>. QED  BY <1>1, <3>1, <3>2, <3>3
  <2>2. ASSUME NEW k \in ReceiptsAmong(a) PROVE k \in ReceiptsAmong(c) /\ k \notin later
    <3>1. k \in 1..n /\ a[k].type = "RECEIPT"
      BY <1>2 DEF ReceiptsAmong
    <3>2. \A j \in ReceiptsAmong(b) : n + j # k
      BY <1>1, <1>2, <3>1 DEF ReceiptsAmong
    <3>. QED  BY <1>1, <1>2, <3>1, <3>2 DEF ReceiptsAmong
  <2>3. ASSUME NEW j \in ReceiptsAmong(b) PROVE n + j \in ReceiptsAmong(c)
    <3>1. j \in 1..Len(b) /\ b[j].type = "RECEIPT"
      BY <1>2 DEF ReceiptsAmong
    <3>2. n + j \in 1..(n + Len(b)) /\ c[n + j] = b[j]
      BY <1>1, <3>1
    <3>. QED  BY <1>2, <3>1, <3>2 DEF ReceiptsAmong
  <2>. QED  BY <2>1, <2>2, <2>3
<1>4. \A k \in ReceiptsAmong(b) : /\ Amounts(b)[k] \in Int
                                  /\ Amounts(c)[n + k] = Amounts(b)[k]
  <2> TAKE k \in ReceiptsAmong(b)
  <2>1. k \in 1..Len(b) /\ Amounts(b)[k] = b[k].quantity /\ b[k].quantity \in Int
    BY ReceiptsTyped
  <2>2. n + k \in 1..(n + Len(b)) /\ c[n + k] = b[k]
    BY <1>1, <2>1
  <2>. QED  BY <1>2, <2>1, <2>2 DEF Amounts
<1>5. ReceiptsAmong(b) \in SUBSET Nat /\ IsFiniteSet(ReceiptsAmong(b))
  <2>1. ReceiptsAmong(b) \subseteq 1..Len(b) /\ IsFiniteSet(ReceiptsAmong(b))
    BY ReceiptsTyped
  <2>2. 1..Len(b) \subseteq Nat
    BY <1>1
  <2>. QED  BY <2>1, <2>2
<1>6. IsFiniteSet(later) /\ SumFunctionOnSet(Amounts(c), later) = ReceiptTotal(b)
  <2>1. ShiftsTerms(Amounts(c), Amounts(b), ReceiptsAmong(b), n)
    BY <1>4 DEF ShiftsTerms
  <2>2. IsShift(later, ReceiptsAmong(b), n)
    BY DEF IsShift
  <2>3. IsFiniteSet(later)
        /\ SumFunctionOnSet(Amounts(c), later) = SumFunctionOnSet(Amounts(b), ReceiptsAmong(b))
    <3> HIDE DEF later
    <3>. QED  BY <1>1, <1>5, <2>1, <2>2, ShiftedSum
  <2>. QED  BY <2>3, ReceiptsTyped
<1>7. SumFunctionOnSet(Amounts(c), ReceiptsAmong(a)) = ReceiptTotal(a)
  <2>1. ASSUME NEW k \in ReceiptsAmong(a)
        PROVE  Amounts(a)[k] \in Int /\ Amounts(c)[k] = Amounts(a)[k]
    <3>1. k \in 1..n /\ Amounts(a)[k] = a[k].quantity /\ a[k].quantity \in Int
      BY ReceiptsTyped DEF n
    <3>. QED  BY <1>1, <1>2, <3>1 DEF Amounts
  <2>. QED  BY <2>1, SameSum, ReceiptsTyped
<1>8. \A k \in ReceiptsAmong(a) \cup later : Amounts(c)[k] \in Int
  BY <1>1, <1>3, ReceiptsTyped
<1>9. SumFunctionOnSet(Amounts(c), ReceiptsAmong(a) \cup later)
        = ReceiptTotal(a) + ReceiptTotal(b)
  BY <1>3, <1>6, <1>7, <1>8, SumOfBoth, ReceiptsTyped, SMTT(30)
<1>10. ReceiptTotal(c) = SumFunctionOnSet(Amounts(c), ReceiptsAmong(c))
  BY <1>1, ReceiptsTyped
<1>. QED  BY <1>3, <1>9, <1>10 DEF c

\* What one more movement receives.
LEMMA ReceivedByOneMore ==
    ASSUME NEW a \in Seq(Movements), NEW m \in Movements
    PROVE  ReceiptTotal(Append(a, m))
             = ReceiptTotal(a) + (IF m.type = "RECEIPT" THEN m.quantity ELSE 0)
<1>1. <<m>> \in Seq(Movements) /\ Append(a, m) = a \o <<m>>
  OBVIOUS
<1>2. ReceiptTotal(Append(a, m)) = ReceiptTotal(a) + ReceiptTotal(<<m>>)
  BY <1>1, ReceivedByBoth
<1>3. DOMAIN <<m>> = {1} /\ <<m>>[1] = m /\ m.quantity \in Int
  BY DEF Movements
<1>4. Amounts(<<m>>)[1] = m.quantity
  BY <1>3 DEF Amounts
<1>5. ReceiptTotal(<<m>>) = SumFunctionOnSet(Amounts(<<m>>), ReceiptsAmong(<<m>>))
  BY <1>1, ReceiptsTyped
<1>6. CASE m.type = "RECEIPT"
  <2>1. ReceiptsAmong(<<m>>) = {1}
    BY <1>3, <1>6 DEF ReceiptsAmong
  <2>2. IsFiniteSet({1}) /\ {1} \ {1} = {}
    BY FS_Singleton
  <2>3. SumFunctionOnSet(Amounts(<<m>>), {1})
          = Amounts(<<m>>)[1] + SumFunctionOnSet(Amounts(<<m>>), {1} \ {1})
    <3>1. \A x \in {1} : Amounts(<<m>>)[x] \in Int
      BY <1>3, <1>4
    <3>. QED  BY <2>2, <3>1, SumByElement
  <2>4. SumFunctionOnSet(Amounts(<<m>>), {1} \ {1}) = 0
    BY <2>2, SumOfNothing
  <2>5. SumFunctionOnSet(Amounts(<<m>>), {1}) = m.quantity
    BY <1>3, <1>4, <2>3, <2>4
  <2>. QED  BY <1>2, <1>5, <1>6, <2>1, <2>5
<1>7. CASE m.type # "RECEIPT"
  <2>1. ReceiptsAmong(<<m>>) = {}
    BY <1>3, <1>7 DEF ReceiptsAmong
  <2>2. ReceiptTotal(<<m>>) = 0
    BY <1>5, <2>1, SumOfNothing
  <2>. QED  BY <1>2, <1>7, <2>2
<1>. QED  BY <1>6, <1>7

\* What the items have received since the seeding, and what t adds to them.
Grown == [i \in Items |-> received[i] - SeedReceived(i)]
Pending(t) == [i \in Items |-> session[t].received[i] - received[i]]
ItemsIn(t, p) == ItemsFor(p) \cap session[t].submitted

\* ReceiptsInv for one product and one delivery.
Explained(p) == ReceiptTotal(ledger[p]) = SumFunctionOnSet(Grown, ItemsFor(p))
AddsUp(t, p) ==
    ReceiptTotal(session[t].movements[p]) = SumFunctionOnSet(Pending(t), ItemsIn(t, p))

\* The invariant is what holds for each.
LEMMA ReceiptsByProduct ==
    /\ ReceiptsInv <=> /\ \A p \in Products : Explained(p)
                       /\ \A t \in Txns, p \in Products : AddsUp(t, p)
    /\ ReceiptsInv' <=> /\ \A p \in Products : Explained(p)'
                        /\ \A t \in Txns, p \in Products : AddsUp(t, p)'
  BY DEF ReceiptsInv, ReceiptsExplainOrders, DeliveriesAddUp, Explained, AddsUp, Grown,
     Pending, ItemsIn

\* The items of a product are finitely many, what they receive is an integer.
LEMMA ItemsTyped ==
    ASSUME TypeOK, IsFiniteSet(Items), NEW p \in Products, NEW t \in Txns
    PROVE  /\ ItemsFor(p) \subseteq Items /\ IsFiniteSet(ItemsFor(p))
           /\ ItemsIn(t, p) \subseteq ItemsFor(p) /\ IsFiniteSet(ItemsIn(t, p))
           /\ \A i \in Items :
                /\ received[i] \in Int /\ SeedReceived(i) \in Int
                /\ session[t].received[i] \in Int
                /\ Grown[i] = received[i] - SeedReceived(i) /\ Grown[i] \in Int
                /\ Pending(t)[i] = session[t].received[i] - received[i]
                /\ Pending(t)[i] \in Int
<1>1. ItemsFor(p) \in SUBSET Items /\ ItemsIn(t, p) \in SUBSET ItemsFor(p)
  BY DEF ItemsFor, ItemsIn
<1>2. IsFiniteSet(ItemsFor(p)) /\ IsFiniteSet(ItemsIn(t, p))
  BY <1>1, FS_Subset
<1>3. ASSUME NEW i \in Items PROVE SeedReceived(i) \in Int
  <2>1. Requested[i] \in Nat
    BY ConstantsAssumption
  <2>. QED  BY <2>1 DEF SeedReceived
<1>4. session[t] \in Sessions
  BY DEF TypeOK
<1>5. ASSUME NEW i \in Items PROVE received[i] \in Int /\ session[t].received[i] \in Int
  BY <1>4 DEF TypeOK, Sessions
<1>. QED  BY <1>1, <1>2, <1>3, <1>5 DEF Grown, Pending

\* The seeded ledger has no receipts, and nothing has grown yet.
LEMMA InitReceipts ==
    ASSUME Init, IsFiniteSet(Items)
    PROVE  ReceiptsInv
<1>0. TypeOK
  BY InitTyped DEF TypeInv
<1>1. ASSUME NEW p \in Products PROVE Explained(p)
  <2>1. {k \in DOMAIN ledger[p] : ledger[p][k].type = "RECEIPT"} = {}
    BY DEF Init, SeedLedger
  <2>2. ReceiptTotal(ledger[p]) = 0
    BY <2>1, SumOfNothing DEF ReceiptTotal
  <2>3. \A i \in Items : received[i] = SeedReceived(i)
    BY DEF Init
  <2>4. ItemsFor(p) \subseteq Items /\ IsFiniteSet(ItemsFor(p))
    BY FS_Subset DEF ItemsFor
  <2>5. ASSUME NEW i \in ItemsFor(p) PROVE Grown[i] = 0
    <3>1. received[i] \in Int
      BY <1>0, <2>4 DEF TypeOK
    <3>. QED  BY <2>3, <2>4, <3>1 DEF Grown
  <2>6. SumFunctionOnSet(Grown, ItemsFor(p)) = 0
    BY <2>4, <2>5, SumOfZeros
  <2>. QED  BY <2>2, <2>6 DEF Explained
<1>2. ASSUME NEW t \in Txns, NEW p \in Products PROVE AddsUp(t, p)
  <2>1. session[t].movements[p] = <<>> /\ ItemsIn(t, p) = {}
    BY DEF Init, EmptySession, ItemsIn
  <2>. QED  BY <2>1, NothingReceived, SumOfNothing DEF AddsUp
<1>. QED  BY <1>1, <1>2, ReceiptsByProduct

\* The other sessions stay as they are in a step that commits nothing.
LEMMA OthersAddUp ==
    ASSUME NEW u \in Txns, NEW p \in Products, AddsUp(u, p), received' = received,
           session'[u] = session[u]
    PROVE  AddsUp(u, p)'
  BY DEF AddsUp, Pending, ItemsIn

\* A session that is thrown away adds nothing.
LEMMA EmptyAddsUp ==
    ASSUME NEW t \in Txns, NEW p \in Products, session'[t] = EmptySession
    PROVE  AddsUp(t, p)'
<1>1. session'[t].movements[p] = <<>> /\ ItemsIn(t, p)' = {}
  BY DEF EmptySession, ItemsIn
<1>. QED  BY <1>1, NothingReceived, SumOfNothing DEF AddsUp

\* A step that records nothing keeps both sums.
LEMMA QuietReceipts ==
    ASSUME TypedLedger, ItemsAgree, ReceiptsInv, NEW t \in Txns, Quiet(t)
    PROVE  ReceiptsInv'
<1>1. /\ ledger' = ledger /\ received' = received
      /\ \A u \in Txns \ {t} : session'[u] = session[u]
  BY DEF Quiet, OnlySession
<1>2. ASSUME NEW p \in Products PROVE Explained(p)'
  BY <1>1, ReceiptsByProduct DEF Explained, Grown
<1>3. ASSUME NEW p \in Products PROVE AddsUp(t, p)'
  <2>1. AddsUp(t, p)
    BY ReceiptsByProduct
  <2>2. CASE session'[t] = EmptySession
    BY <2>2, EmptyAddsUp
  <2>3. CASE session'[t].received = session[t].received /\ session'[t] # EmptySession
    <3>1. /\ session'[t].movements = session[t].movements
          /\ session'[t].submitted = session[t].submitted
      BY <2>3 DEF Quiet
    <3>2. Pending(t)' = Pending(t) /\ ItemsIn(t, p)' = ItemsIn(t, p)
      BY <1>1, <2>3, <3>1 DEF Pending, ItemsIn
    <3>. QED  BY <2>1, <3>1, <3>2 DEF AddsUp
  <2>4. CASE pc[t] = "receive_lock" /\ session'[t] # EmptySession
    <3>1. /\ session'[t].movements = session[t].movements
          /\ session'[t].submitted = session[t].submitted
      BY <2>4 DEF Quiet
    <3>2. session[t].submitted = {}
      BY <2>4 DEF ItemsAgree, Receiving
    <3>3. ItemsIn(t, p) = {} /\ ItemsIn(t, p)' = {}
      BY <3>1, <3>2 DEF ItemsIn
    <3>. QED  BY <2>1, <3>1, <3>3, SumOfNothing DEF AddsUp
  <2>. QED  BY <2>2, <2>3, <2>4 DEF Quiet
<1>4. ASSUME NEW u \in Txns \ {t}, NEW p \in Products PROVE AddsUp(u, p)'
  BY <1>1, ReceiptsByProduct, OthersAddUp
<1>. QED  BY <1>2, <1>3, <1>4, ReceiptsByProduct

\* A receipt adds its quantity to its item and to the movements.
LEMMA RecordReceipts ==
    ASSUME TypedLedger, ItemsAgree, ReceiptsInv, IsFiniteSet(Items), NEW t \in Txns,
           NEW p \in Products, NEW m \in Movements, Records(t, p, m)
    PROVE  ReceiptsInv'
<1>1. /\ ledger' = ledger /\ received' = received
      /\ \A u \in Txns \ {t} : session'[u] = session[u]
  BY DEF Records, OnlySession
<1>2. ASSUME NEW q \in Products PROVE Explained(q)'
  BY <1>1, ReceiptsByProduct DEF Explained, Grown
<1>3. ASSUME NEW u \in Txns \ {t}, NEW q \in Products PROVE AddsUp(u, q)'
  BY <1>1, ReceiptsByProduct, OthersAddUp
<1>4. ASSUME NEW q \in Products PROVE AddsUp(t, q)'
  <2> DEFINE growth == IF q = p /\ m.type = "RECEIPT" THEN m.quantity ELSE 0
  <2>0. /\ session[t] \in Sessions /\ TypeOK /\ m.quantity \in Int
        /\ session[t].movements \in [Products -> Seq(Movements)]
    <3>1. session[t] \in Sessions /\ TypeOK
      BY DEF TypedLedger, TypeInv, TypeOK
    <3>2. session[t].movements \in [Products -> Seq(Movements)]
      BY <3>1 DEF Sessions
    <3>3. m.quantity \in Int
      BY DEF Movements
    <3>. QED  BY <3>1, <3>2, <3>3
  <2>1. ReceiptTotal(session'[t].movements[q]) = ReceiptTotal(session[t].movements[q]) + growth
    <3>1. session'[t].movements = [session[t].movements EXCEPT ![p] = Append(@, m)]
      BY DEF Records
    <3>2. CASE q = p
      <4>1. session'[t].movements[q] = Append(session[t].movements[q], m)
        BY <2>0, <3>1, <3>2
      <4>. QED  BY <2>0, <3>2, <4>1, ReceivedByOneMore
    <3>3. CASE q # p
      <4>1. session'[t].movements[q] = session[t].movements[q]
        BY <2>0, <3>1, <3>3
      <4>. QED  BY <2>0, <3>3, <4>1, ReceiptsTyped
    <3>. QED  BY <3>2, <3>3
  <2>2. SumFunctionOnSet(Pending(t), ItemsIn(t, q))' =
          SumFunctionOnSet(Pending(t), ItemsIn(t, q)) + growth
    <3>0. /\ IsFiniteSet(ItemsIn(t, q)) /\ ItemsIn(t, q) \subseteq Items
          /\ \A i \in Items : /\ received[i] \in Int /\ session[t].received[i] \in Int
                              /\ Pending(t)[i] \in Int
      BY <2>0, ItemsTyped
    <3>1. SumFunctionOnSet(Pending(t), ItemsIn(t, q)) \in Int
      BY <3>0, SumIsInt
    <3>2. CASE m.type # "RECEIPT"
      <4>1. Pending(t)' = Pending(t) /\ ItemsIn(t, q)' = ItemsIn(t, q)
        BY <1>1, <3>2 DEF Records, SameItems, Pending, ItemsIn
      <4>. QED  BY <3>1, <3>2, <4>1
    <3>3. CASE m.type = "RECEIPT"
      <4>1. PICK i \in Items :
              /\ ProductOf[i] = p /\ i \notin session[t].submitted
              /\ OrderOf[i] = req[t].order
              /\ session'[t].submitted = session[t].submitted \cup {i}
              /\ session'[t].received = [session[t].received EXCEPT ![i] = @ + m.quantity]
        BY <3>3 DEF Records, ReceivesItem
      <4>2. session[t].received[i] = received[i]
        BY <3>3, <4>1 DEF Records, ItemsAgree, ItemsOf
      <4>3. \A x \in Items : Pending(t)'[x] =
                 IF x = i THEN m.quantity ELSE Pending(t)[x]
        BY <1>1, <2>0, <3>0, <4>1, <4>2 DEF Pending, Sessions
      <4> DEFINE f == Pending(t)
                 g == Pending(t)'
                 S == ItemsIn(t, q)
                 T == ItemsIn(t, q)'
      <4>4. /\ \A x \in S : f[x] \in Int /\ g[x] = f[x]
            /\ i \notin S /\ IsFiniteSet(S)
        BY <3>0, <4>1, <4>3 DEF ItemsIn
      <4>5. SumFunctionOnSet(g, S) = SumFunctionOnSet(f, S)
        <5> HIDE DEF f, g, S
        <5>. QED  BY <4>4, SameSum
      <4>6. CASE q = p
        <5>1. i \in T /\ T \ {i} = S /\ T = S \cup {i}
          BY <4>1, <4>6 DEF ItemsIn, ItemsFor
        <5>2. IsFiniteSet(T)
          BY <4>4, <5>1, FS_AddElement
        <5>3. \A x \in T : g[x] \in Int
          BY <2>0, <3>0, <4>3, <5>1
        <5>4. SumFunctionOnSet(g, T) = g[i] + SumFunctionOnSet(g, T \ {i})
          <6> HIDE DEF f, g, S, T
          <6>. QED  BY <5>1, <5>2, <5>3, SumByElement
        <5>5. g[i] = m.quantity
          BY <4>3
        <5>6. SumFunctionOnSet(g, T) = m.quantity + SumFunctionOnSet(f, S)
          <6> HIDE DEF f, g, S, T
          <6>. QED  BY <4>5, <5>1, <5>4, <5>5
        <5>. QED  BY <2>0, <3>1, <3>3, <4>6, <5>6
      <4>7. CASE q # p
        <5>1. T = S
          BY <4>1, <4>7 DEF ItemsIn, ItemsFor
        <5>. QED  BY <3>1, <4>5, <4>7, <5>1
      <4>. QED  BY <4>6, <4>7
    <3>. QED  BY <3>2, <3>3
  <2>3. AddsUp(t, q)
    BY ReceiptsByProduct
  <2>. QED  BY <2>1, <2>2, <2>3 DEF AddsUp
<1>. QED  BY <1>2, <1>3, <1>4, ReceiptsByProduct

\* A commit adds to its items what its receipts add to the ledger.
LEMMA CommitReceipts ==
    ASSUME TypedLedger, OrdersHeld, ItemsAgree, ReceiptsInv, IsFiniteSet(Items),
           NEW t \in Txns, Commit(t)
    PROVE  ReceiptsInv'
<1>0. TypeOK /\ session[t].movements \in [Products -> Seq(Movements)]
  BY DEF TypedLedger, TypeInv, TypeOK, Sessions
<1>1. /\ \A u \in Txns \ {t} : session'[u] = session[u]
      /\ session'[t] = EmptySession
      /\ \A p \in Products : ledger'[p] = ledger[p] \o session[t].movements[p]
      /\ \A i \in Items : received'[i] = IF i \in session[t].submitted
                                         THEN session[t].received[i] ELSE received[i]
  BY <1>0 DEF Commit, TypeOK
<1>2. ASSUME NEW p \in Products PROVE Explained(p)'
  <2> DEFINE f == Grown
             g == Grown'
             h == Pending(t)
             S == ItemsFor(p)
             R == session[t].submitted
  <2>1. ReceiptTotal(ledger'[p]) = ReceiptTotal(ledger[p])
                                     + ReceiptTotal(session[t].movements[p])
    <3>1. ledger[p] \in Seq(Movements) /\ session[t].movements[p] \in Seq(Movements)
      BY <1>0 DEF TypeOK
    <3>. QED  BY <1>1, <3>1, ReceivedByBoth
  <2>2. AddsTerms(f, g, h, S, R)
    <3> SUFFICES ASSUME NEW x \in S
                 PROVE  /\ f[x] \in Int /\ g[x] \in Int
                        /\ x \in R => h[x] \in Int /\ g[x] = f[x] + h[x]
                        /\ x \notin R => g[x] = f[x]
      BY DEF AddsTerms
    <3>1. /\ x \in Items /\ received[x] \in Int /\ SeedReceived(x) \in Int
          /\ session[t].received[x] \in Int
          /\ f[x] = received[x] - SeedReceived(x)
          /\ h[x] = session[t].received[x] - received[x]
      BY <1>0, ItemsTyped
    <3>2. g[x] = received'[x] - SeedReceived(x)
      BY <3>1 DEF Grown
    <3>3. received'[x] = IF x \in R THEN session[t].received[x] ELSE received[x]
      BY <1>1, <3>1
    <3> HIDE DEF f, g, h, R
    <3>. QED  BY <3>1, <3>2, <3>3
  <2>3. IsFiniteSet(S)
    BY <1>0, ItemsTyped
  <2>4. SumFunctionOnSet(g, S) = SumFunctionOnSet(f, S) + SumFunctionOnSet(h, S \cap R)
    <3> HIDE DEF f, g, h, S, R
    <3>. QED  BY <2>2, <2>3, SumOfTerms
  <2>5. S \cap R = ItemsIn(t, p)
    BY DEF ItemsIn
  <2>6. Explained(p) /\ AddsUp(t, p)
    BY ReceiptsByProduct
  <2>. QED  BY <2>1, <2>4, <2>5, <2>6 DEF Explained, AddsUp
<1>3. ASSUME NEW u \in Txns \ {t}, NEW p \in Products PROVE AddsUp(u, p)'
  <2>1. ItemsIn(u, p)' = ItemsIn(u, p) /\ session'[u].movements = session[u].movements
    BY <1>1 DEF ItemsIn
  <2>2. ASSUME NEW x \in ItemsIn(u, p) PROVE x \in Items /\ x \notin session[t].submitted
    <3>1. x \in ItemsFor(p) /\ x \in session[u].submitted
      BY DEF ItemsIn
    <3>2. Receiving(u) /\ OrderOf[x] = req[u].order /\ x \in Items
      BY <3>1 DEF ItemsAgree, ItemsOf
    <3>3. OrderOf[x] \in Orders
      BY <3>2, ConstantsAssumption
    <3>4. orderLock[OrderOf[x]] = u
      BY <3>2, <3>3 DEF OrdersHeld
    <3>5. ASSUME x \in session[t].submitted PROVE FALSE
      <4>1. Receiving(t) /\ OrderOf[x] = req[t].order
        BY <3>5 DEF ItemsAgree, ItemsOf
      <4>2. orderLock[OrderOf[x]] = t
        BY <3>3, <4>1 DEF OrdersHeld
      <4>. QED  BY <3>4, <4>2
    <3>. QED  BY <3>2, <3>5
  <2> DEFINE f == Pending(u)
             g == Pending(u)'
             S == ItemsIn(u, p)
  <2>3. \A x \in S : f[x] \in Int /\ g[x] = f[x]
    <3> TAKE x \in S
    <3>1. x \in Items /\ received'[x] = received[x]
      BY <1>1, <2>2
    <3>2. f[x] \in Int
      BY <1>0, <3>1, ItemsTyped
    <3>3. g[x] = f[x]
      BY <1>1, <3>1 DEF Pending
    <3>. QED  BY <3>2, <3>3
  <2>4. IsFiniteSet(S)
    BY <1>0, ItemsTyped
  <2>5. SumFunctionOnSet(g, S) = SumFunctionOnSet(f, S)
    <3> HIDE DEF f, g, S
    <3>. QED  BY <2>3, <2>4, SameSum
  <2>6. AddsUp(u, p)
    BY ReceiptsByProduct
  <2>. QED  BY <2>1, <2>5, <2>6 DEF AddsUp
<1>4. ASSUME NEW p \in Products PROVE AddsUp(t, p)'
  BY <1>1, EmptyAddsUp
<1>. QED  BY <1>2, <1>3, <1>4, ReceiptsByProduct

\* What the purchase orders say has arrived is what the ledger received, for
\* finitely many items: two deliveries on one order lose none of one another's
\* items, and a delivery that fails half-way leaves neither movements nor items
\* (purchase_orders.service.ts:570-680).
THEOREM ReceiptsAddUp ==
    ASSUME IsFiniteSet(Items)
    PROVE  Spec => []ReceiptsExplainOrders
<1>1. Init => ReceiptsInv
  BY InitReceipts
<1>2. LedgerInv /\ ReceivingInv /\ OutboxInv /\ ReceiptsInv /\ [Next]_vars => ReceiptsInv'
  <2> SUFFICES ASSUME LedgerInv, ReceivingInv, OutboxInv, ReceiptsInv, [Next]_vars
               PROVE  ReceiptsInv'
    OBVIOUS
  <2>1. TypedLedger /\ SessionsAnnounce /\ OrdersHeld /\ ItemsAgree
    BY DEF LedgerInv, ReceivingInv, TypedLedger, LedgerPart, SeenPart, TypeInv,
       OutboxInv
  <2>2. CASE UNCHANGED vars
    BY <2>2, ReceiptsByProduct DEF vars, Explained, AddsUp, Grown, Pending, ItemsIn
  <2>. QED
    BY <2>1, <2>2, StepShape, QuietReceipts, RecordReceipts, CommitReceipts
<1>3. ReceiptsInv => ReceiptsExplainOrders
  BY DEF ReceiptsInv
<1>. QED
  BY <1>1, <1>2, <1>3, LedgerInvariant, ReceivingInvariant, OutboxInvariant, PTL DEF Spec

-----------------------------------------------------------------------------
(* Separate requests are carried out one at a time                         *)

\* Sequences of one length with the same elements are equal.
LEMMA SameSequence ==
    ASSUME NEW S, NEW a \in Seq(S), NEW b \in Seq(S),
           Len(a) = Len(b), \A k \in 1..Len(a) : a[k] = b[k]
    PROVE  a = b
OBVIOUS

\* The end of a sequence that was put behind another one.
LEMMA SuffixOfConcat ==
    ASSUME NEW a \in Seq(Movements), NEW b \in Seq(Movements)
    PROVE  SubSeq(a \o b, Len(a) + 1, Len(a \o b)) = b
<1> DEFINE c == a \o b
           d == SubSeq(c, Len(a) + 1, Len(c))
<1>1. /\ c \in Seq(Movements) /\ Len(c) = Len(a) + Len(b) /\ Len(a) \in Nat /\ Len(b) \in Nat
      /\ \A k \in Len(a) + 1 .. Len(a) + Len(b) : c[k] = b[k - Len(a)]
  BY ConcatElements
<1> HIDE DEF c
<1>2. /\ d \in Seq(Movements) /\ Len(d) = Len(b)
      /\ \A k \in 1..Len(b) : d[k] = c[Len(a) + k]
  BY <1>1
<1>3. \A k \in 1..Len(b) : Len(a) + k \in Len(a) + 1 .. Len(a) + Len(b)
                           /\ (Len(a) + k) - Len(a) = k
  BY <1>1
<1>4. \A k \in 1..Len(b) : d[k] = b[k]
  BY <1>1, <1>2, <1>3
<1> HIDE DEF d
<1>5. d = b
  <2>1. \A k \in 1..Len(d) : d[k] = b[k]
    BY <1>2, <1>4
  <2>. QED  BY <1>2, <2>1, SameSequence, Zenon
<1>. QED  BY <1>5 DEF c, d

\* BookInv for one request, and the steps of one.
Booked(t) ==
    /\ pc[t] = "idle" => req[t] = NONE
    /\ pc[t] = "receive_lock" => session[t] = EmptySession
    /\ CountBooked(t) /\ CreateBooked(t) /\ DeliveryBooked(t)

Step(t) == Begin(t) \/ Handle(t) \/ DeadlockVictim(t) \/ Fail(t)

\* Most places in a handler promise nothing.
LEMMA PlainBooked ==
    ASSUME NEW t \in Txns,
           pc'[t] \notin {"idle", "receive_lock", "count_save", "create_save", "commit",
                          "receive_line", "receive_save"}
    PROVE  Booked(t)'
  BY DEF Booked, CountBooked, CreateBooked, DeliveryBooked, Receiving

\* A row that u has locked stays locked by u in the steps of others.
LEMMA LocksKept ==
    ASSUME TypedLedger, NEW t \in Txns, NEW u \in Txns \ {t}, NEW p \in Products,
           rowLock[p] = u, Step(t)
    PROVE  rowLock'[p] = u
<1>0. rowLock \in [Products -> Txns \cup {NONE}] /\ u # NONE
  BY NoneAssumption DEF TypedLedger, TypeInv, TypeOK
<1>1. ASSUME UNCHANGED rowLock \/ Release(t) PROVE rowLock'[p] = u
  BY <1>0, <1>1 DEF Release
<1>2. ASSUME NEW q \in Products, RowFree(t, q), LockRow(t, q) PROVE rowLock'[p] = u
  BY <1>0, <1>2 DEF RowFree, LockRow
<1>3. CASE Begin(t) \/ DeadlockVictim(t) \/ Fail(t) \/ CreateCheck(t) \/ CountRead(t)
           \/ CountSave(t)
  BY <1>1, <1>3 DEF Begin, DeadlockVictim, Fail, CreateCheck, CountRead, CountSave,
     Rollback
<1>4. CASE ReceiveLock(t) \/ ReceiveLine(t) \/ ReceiveFinish(t) \/ EditLoad(t)
           \/ EditSave(t) \/ Commit(t)
  BY <1>1, <1>4 DEF ReceiveLock, ReceiveLine, ReceiveFinish, EditLoad, EditSave, Commit,
     Rollback
<1>5. CASE CreateSave(t)
  <2>1. req[t].product \in Products
    BY <1>5 DEF CreateSave, TypedLedger, TypeInv, RequestFits, CreateRequests
  <2>. QED  BY <1>1, <1>2, <1>5, <2>1 DEF CreateSave, Rollback
<1>6. CASE CountLock(t) \/ CountInsert(t)
  <2>1. req[t].product \in Products
    BY <1>6 DEF CountLock, CountInsert, TypedLedger, TypeInv, RequestFits, CountRequests
  <2>. QED  BY <1>1, <1>2, <1>6, <2>1 DEF CountLock, CountInsert, Rollback
<1>7. CASE ReceiveSave(t)
  <2>1. ProductOf[Head(session[t].todo).item] \in Products
    BY <1>7, HeadTyped DEF ReceiveSave, TypedLedger, TypeInv, RequestFits
  <2>. QED  BY <1>1, <1>2, <1>7, <2>1 DEF ReceiveSave, Rollback
<1>. QED  BY <1>3, <1>4, <1>5, <1>6, <1>7 DEF Step, Handle

\* What a request has booked stands as long as its rows do.
LEMMA StaysBooked ==
    ASSUME NEW u \in Txns, Booked(u), pc'[u] = pc[u], req'[u] = req[u],
           session'[u] = session[u],
           (pc[u] \in {"count_save", "commit"} /\ req[u].op = "count") =>
                /\ rowLock'[req[u].product] = u
                /\ quantity'[req[u].product] = quantity[req[u].product]
                /\ u \in overtaken' <=> u \in overtaken,
           Receiving(u) =>
                /\ status'[req[u].order] = status[req[u].order]
                /\ \A i \in session[u].submitted : received'[i] = received[i]
                /\ \A p \in Products : session[u].movements[p] # <<>> =>
                        quantity'[p] = quantity[p]
    PROVE  Booked(u)'
<1>1. CountBooked(u)'
  <2>1. SUFFICES ASSUME pc[u] \in {"count_save", "commit"}, req[u].op = "count"
                 PROVE  CountBooked(u)'
    BY DEF CountBooked
  <2>2. PICK r : r = req[u]
    OBVIOUS
  <2>3. Book!CountEntries(u, r)' = Book!CountEntries(u, r)
    BY <2>1, <2>2 DEF Book!CountEntries, Book!OnHand, Book!Entry
  <2>. QED  BY <2>1, <2>2, <2>3 DEF CountBooked, Booked
<1>2. CreateBooked(u)'
  <2>1. PICK r : r = req[u]
    OBVIOUS
  <2>2. Book!InitialEntry(u, r)' = Book!InitialEntry(u, r)
    BY DEF Book!InitialEntry, Book!Entry
  <2>. QED  BY <2>1, <2>2 DEF CreateBooked, Booked
<1>3. DeliveryBooked(u)'
  <2>0. SUFFICES ASSUME Receiving(u) PROVE DeliveryBooked(u)'
    BY DEF DeliveryBooked, Receiving
  <2>1. PICK lines, n, s : lines = req[u].lines /\ n = Processed(u) /\ s = session[u]
    OBVIOUS
  <2>2. req'[u].lines = lines /\ Processed(u)' = n /\ session'[u] = s
    BY <2>1 DEF Processed
  <2>3. DeliveryBooked(u) /\ LinesBooked(u, lines, n, s)
    BY <2>0, <2>1 DEF Booked, DeliveryBooked
  <2>4. ASSUME NEW p \in Products
        PROVE  /\ Book!ListsLines(s.movements[p], lines, n, p)'
               /\ Book!ReceiptsFrom(u, s.movements[p], OnHand(p))'
    <3>0. /\ Book!ListsLines(s.movements[p], lines, n, p)
          /\ Book!ReceiptsFrom(u, s.movements[p], OnHand(p))
      BY <2>3 DEF LinesBooked
    <3>1. Book!ListsLines(s.movements[p], lines, n, p)'
      BY <3>0 DEF Book!ListsLines
    <3>2. CASE s.movements[p] = <<>>
      <4>1. \A k \in 1..Len(s.movements[p]) : FALSE
        BY <3>2
      <4>. QED  BY <3>1, <4>1 DEF Book!ReceiptsFrom
    <3>3. CASE s.movements[p] # <<>>
      <4>1. OnHand(p)' = OnHand(p)
        BY <2>0, <2>1, <3>3 DEF OnHand
      <4>. QED  BY <3>0, <3>1, <4>1 DEF Book!ReceiptsFrom, Book!Entry
    <3>. QED  BY <3>2, <3>3
  <2>5. LinesBooked(u, lines, n, s)'
    <3>1. \A j \in 1..n : lines[j].item \in s.submitted
      BY <2>3 DEF LinesBooked
    <3>2. \A i \in s.submitted : received'[i] = received[i]
      BY <2>0, <2>1
    <3>. QED  BY <2>3, <2>4, <3>1, <3>2 DEF LinesBooked
  <2>6. FullyReceived(u)' <=> FullyReceived(u)
    BY DEF FullyReceived
  <2>. QED
    BY <2>0, <2>1, <2>2, <2>3, <2>5, <2>6 DEF DeliveryBooked
<1>. QED  BY <1>1, <1>2, <1>3 DEF Booked

\* An initial stock books its entry.
LEMMA CreateBooks ==
    ASSUME TypedLedger, NEW t \in Txns, Booked(t), CreateCheck(t) \/ CreateSave(t)
    PROVE  Booked(t)'
<1>0. /\ req[t] \in CreateRequests /\ session[t] \in Sessions
      /\ session \in [Txns -> Sessions] /\ pc \in [Txns -> Labels]
      /\ \A q \in Products : session[t].movements[q] = <<>>
  BY DEF TypedLedger, TypeInv, TypeOK, RequestFits, CreateCheck, CreateSave, LedgerPart,
         SessionsAgree
<1>1. PICK r : r = req[t]
  OBVIOUS
<1>2. r.op = "create" /\ r.product \in Products
  BY <1>0, <1>1 DEF CreateRequests
<1>3. CASE \E answer \in Ended : Rollback(t, answer)
  <2>1. pc'[t] \in Ended
    BY <1>0, <1>3 DEF Rollback, Goto
  <2>. QED  BY <2>1, PlainBooked DEF Ended
<1>4. CASE CreateCheck(t) /\ ~ \E answer \in Ended : Rollback(t, answer)
  <2>1. pc'[t] = "create_save" /\ req' = req /\ r.quantity > 0
    BY <1>0, <1>1, <1>4 DEF CreateCheck, Goto, Ended
  <2>. QED  BY <1>1, <2>1 DEF Booked, CountBooked, CreateBooked, DeliveryBooked, Receiving
<1>5. CASE CreateSave(t) /\ ~ \E answer \in Ended : Rollback(t, answer)
  <2> DEFINE m == Movement(t, "ADJUSTMENT", r.direction, r.quantity, 0, r.quantity)
  <2>1. /\ session' = [session EXCEPT ![t] = Saved(t, r.product, NONE, m)]
        /\ pc'[t] = "commit" /\ req' = req
    BY <1>0, <1>1, <1>5 DEF CreateSave, Goto, Ended
  <2>2. m = Book!InitialEntry(t, r) /\ Book!InitialEntry(t, r)' = Book!InitialEntry(t, r)
    BY DEF Movement, Book!InitialEntry, Book!Entry
  <2> HIDE DEF m
  <2>3. session'[t].movements = [session[t].movements EXCEPT ![r.product] = Append(@, m)]
    BY <1>0, <2>1 DEF Saved, Sessions
  <2>4. session'[t].movements[r.product] = <<m>>
    <3>1. session'[t].movements[r.product] = Append(<<>>, m)
      BY <1>0, <1>2, <2>3 DEF Sessions
    <3>. QED  BY <3>1
  <2>5. r.quantity > 0
    BY <1>1, <1>5 DEF Booked, CreateBooked, CreateSave
  <2>6. CreateBooked(t)'
    BY <1>1, <2>1, <2>2, <2>4, <2>5 DEF CreateBooked
  <2>. QED
    BY <1>1, <1>2, <2>1, <2>6 DEF Booked, CountBooked, DeliveryBooked, Receiving
<1>. QED  BY <1>3, <1>4, <1>5

\* A count books the difference to the row it has locked.
LEMMA CountBooks ==
    ASSUME TypedLedger, NEW t \in Txns, Booked(t),
           CountRead(t) \/ CountLock(t) \/ CountInsert(t) \/ CountSave(t)
    PROVE  Booked(t)'
<1>0. /\ req[t] \in CountRequests /\ session[t] \in Sessions
      /\ session \in [Txns -> Sessions] /\ pc \in [Txns -> Labels]
      /\ rowLock \in [Products -> Txns \cup {NONE}] /\ quantity \in [Products -> Balances]
      /\ \A q \in Products : session[t].movements[q] = <<>>
  BY DEF TypedLedger, TypeInv, TypeOK, RequestFits, CountRead, CountLock, CountInsert,
         CountSave, LedgerPart, SessionsAgree
<1>1. PICK r, p : r = req[t] /\ p = r.product
  OBVIOUS
<1>2. r.op = "count" /\ p \in Products /\ r.quantity \in Nat
  BY <1>0, <1>1 DEF CountRequests
<1>3. ASSUME CountBooked(t)', pc'[t] \in {"count_save", "commit"}, req' = req
      PROVE  Booked(t)'
  BY <1>1, <1>2, <1>3 DEF Booked, CreateBooked, DeliveryBooked, Receiving
<1>4. CASE \E answer \in Ended : Rollback(t, answer)
  <2>1. pc'[t] \in Ended
    BY <1>0, <1>4 DEF Rollback, Goto
  <2>. QED  BY <2>1, PlainBooked DEF Ended
<1>8. CASE CountRead(t)
  <2>1. pc'[t] = "count_lock"
    BY <1>0, <1>8 DEF CountRead, Goto
  <2>. QED  BY <2>1, PlainBooked
<1>5. CASE CountLock(t) /\ ~ \E answer \in Ended : Rollback(t, answer)
  <2>1. CASE quantity[p] = NONE
    <3>1. pc'[t] = "count_insert"
      BY <1>0, <1>1, <1>5, <2>1 DEF CountLock, Goto
    <3>. QED  BY <3>1, PlainBooked
  <2>2. CASE quantity[p] # NONE
    <3>1. /\ pc'[t] = "count_save" /\ req' = req /\ quantity' = quantity /\ rowLock'[p] = t
      BY <1>0, <1>1, <1>2, <1>5, <2>2 DEF CountLock, LockRow, Goto
    <3>2. CountBooked(t)'
      BY <1>1, <2>2, <3>1 DEF CountBooked
    <3>. QED  BY <1>3, <3>1, <3>2
  <2>. QED  BY <2>1, <2>2
<1>6. CASE CountInsert(t) /\ ~ \E answer \in Ended : Rollback(t, answer)
  <2>1. /\ pc'[t] = "count_save" /\ req' = req /\ rowLock'[p] = t
        /\ session' = [session EXCEPT ![t].written[p] = 0, ![t].before = 0]
    BY <1>0, <1>1, <1>2, <1>6 DEF CountInsert, LockRow, Goto, Ended
  <2>2. session'[t].written[p] = 0
    BY <1>0, <1>2, <2>1 DEF Sessions
  <2>3. CountBooked(t)'
    BY <1>1, <2>1, <2>2, NoneAssumption DEF CountBooked
  <2>. QED  BY <1>3, <2>1, <2>3
<1>7. CASE CountSave(t) /\ ~ \E answer \in Ended : Rollback(t, answer)
  <2> DEFINE before == session[t].before
             difference == Difference(r.quantity, before)
             m == Movement(t, "ADJUSTMENT", IF difference > 0 THEN "IN" ELSE "OUT",
                           Amount(difference), before, r.quantity)
             events == IF CrossedReorderLevel(p, before, r.quantity)
                       THEN {[product |-> p, quantity |-> r.quantity, by |-> t]} ELSE {}
  <2>1. /\ pc[t] = "count_save" /\ pc'[t] = "commit" /\ req' = req /\ rowLock' = rowLock
        /\ quantity' = quantity /\ overtaken' = overtaken
    BY <1>0, <1>1, <1>7 DEF CountSave, Goto, Ended
  <2>2. /\ rowLock[p] = t /\ (session[t].written[p] = NONE => quantity[p] # NONE)
        /\ before \in Nat /\ before = OnHand(p)
    BY <1>1, <1>2, <2>1 DEF Booked, CountBooked, TypedLedger, TypeInv, RequestFits,
       LedgerPart, AdjustmentsAgree
  <2>3. Book!CountEntries(t, r)' = IF difference = 0 THEN <<>> ELSE <<m>>
    <3>1. OnHand(p) = Book!OnHand(p) /\ Book!OnHand(p)' = Book!OnHand(p)
      BY <2>1 DEF OnHand, Book!OnHand
    <3>2. Book!CountEntries(t, r)' = Book!CountEntries(t, r)
      BY <1>1, <3>1 DEF Book!CountEntries, Book!Entry
    <3>3. Book!OnHand(r.product) = before
      BY <1>1, <2>2, <3>1
    <3>4. CASE r.quantity > before
      <4>1. difference > 0 /\ Amount(difference) = r.quantity - before
        BY <1>2, <2>2, <3>4 DEF Difference, Amount
      <4>. QED
        BY <1>2, <2>2, <3>2, <3>3, <3>4, <4>1 DEF Book!CountEntries, Book!Entry, Movement
    <3>5. CASE r.quantity < before
      <4>1. ~(difference > 0) /\ difference # 0 /\ Amount(difference) = before - r.quantity
        BY <1>2, <2>2, <3>5 DEF Difference, Amount
      <4>. QED
        BY <1>2, <2>2, <3>2, <3>3, <3>5, <4>1 DEF Book!CountEntries, Book!Entry, Movement
    <3>6. CASE r.quantity = before
      <4>1. difference = 0 /\ ~(r.quantity > before) /\ ~(r.quantity < before)
        BY <1>2, <2>2, <3>6 DEF Difference
      <4>2. Book!CountEntries(t, r) = <<>>
        BY <3>3, <4>1 DEF Book!CountEntries
      <4>. QED  BY <3>2, <4>1, <4>2
    <3>. QED  BY <1>2, <2>2, <3>4, <3>5, <3>6
  <2>6. overtaken' = overtaken /\ (t \in overtaken => session[t].written[p] = NONE)
    BY <1>1, <2>1 DEF TypedLedger, SeenPart, CountsSee, CountSees
  <2>4. CASE difference = 0
    <3>1. session' = session
      BY <1>1, <1>7, <2>4 DEF CountSave, Ended
    <3>2. r.quantity = before
      BY <1>2, <2>2, <2>4 DEF Difference
    <3>3. session[t].written[p] = NONE => quantity[p] = r.quantity
      BY <2>2, <3>2 DEF OnHand
    <3>4. CountBooked(t)'
      BY <1>0, <1>1, <1>2, <2>1, <2>2, <2>3, <2>4, <2>6, <3>1, <3>3 DEF CountBooked
    <3>. QED  BY <1>3, <2>1, <3>4
  <2>5. CASE difference # 0
    <3> DEFINE stored == PlainRead(t, p)
    <3>1. session' = [session EXCEPT ![t] =
                          [Saved(t, p, stored, m) EXCEPT !.events = events]]
      BY <1>1, <1>7, <2>5 DEF CountSave, Ended
    <3>2. m.after = r.quantity
      BY DEF Movement
    <3>6. before # r.quantity
      BY <1>2, <2>2, <2>5 DEF Difference
    <3>7. IF t \in overtaken THEN stored = r.quantity ELSE stored # r.quantity
      BY <1>1, <2>1, <3>6, CountStores
    <3> HIDE DEF m, events, stored
    <3>3. /\ session'[t].movements = [session[t].movements EXCEPT ![p] = Append(@, m)]
          /\ session'[t].written = IF stored = m.after THEN session[t].written
                                   ELSE [session[t].written EXCEPT ![p] = m.after]
      BY <1>0, <3>1 DEF Saved, Sessions
    <3>4. /\ session'[t].movements[p] = <<m>>
          /\ session'[t].written[p] = IF t \in overtaken THEN NONE ELSE r.quantity
      <4>1. session'[t].movements[p] = Append(<<>>, m)
        BY <1>0, <1>2, <3>3 DEF Sessions
      <4>2. session'[t].written[p] = IF t \in overtaken THEN NONE ELSE r.quantity
        BY <1>0, <1>2, <2>6, <3>2, <3>3, <3>7 DEF Sessions
      <4>. QED  BY <4>1, <4>2
    <3>5. CountBooked(t)'
      BY <1>1, <1>2, <2>1, <2>2, <2>3, <2>5, <2>6, <3>4, NoneAssumption DEF CountBooked
    <3>. QED  BY <1>3, <2>1, <3>5
  <2>. QED  BY <2>4, <2>5
<1>. QED  BY <1>4, <1>5, <1>6, <1>7, <1>8

\* A request arrives, is refused, or edits a header: nothing is booked.
LEMMA OtherBooks ==
    ASSUME TypedLedger, NEW t \in Txns, Booked(t),
           \/ Begin(t) \/ EditLoad(t) \/ EditSave(t) \/ Commit(t)
           \/ \E answer \in Ended : Rollback(t, answer)
    PROVE  Booked(t)'
<1>0. /\ session \in [Txns -> Sessions] /\ pc \in [Txns -> Labels]
  BY DEF TypedLedger, TypeInv, TypeOK
<1>1. CASE Begin(t)
  <2>1. PICK r \in Requests : req' = [req EXCEPT ![t] = r] /\ Goto(t, FirstStep[r.op])
    BY <1>1 DEF Begin
  <2>2. FirstStep[r.op] \in {"create_check", "count_read", "receive_lock", "edit_load"}
    BY ConstantsAssumption
       DEF FirstStep, CreateRequests, CountRequests, ReceiveRequests, EditRequests
  <2>3. /\ pc'[t] \in {"create_check", "count_read", "receive_lock", "edit_load"}
        /\ session'[t] = EmptySession
    BY <1>0, <1>1, <2>1, <2>2 DEF Begin, Goto, TypedLedger, TypeInv, RequestFits
  <2>. QED
    BY <2>3 DEF Booked, CountBooked, CreateBooked, DeliveryBooked, Receiving
<1>2. CASE \E answer \in Ended : Rollback(t, answer)
  <2>1. pc'[t] \in Ended
    BY <1>0, <1>2 DEF Rollback, Goto
  <2>. QED  BY <2>1, PlainBooked DEF Ended
<1>3. CASE ~Begin(t) /\ ~ \E answer \in Ended : Rollback(t, answer)
  <2>1. pc'[t] \in {"edit_save", "committed"}
    BY <1>0, <1>3 DEF EditLoad, EditSave, Commit, Goto, Ended
  <2>. QED  BY <2>1, PlainBooked
<1>. QED  BY <1>1, <1>2, <1>3

\* A session whose lines and movements stay has booked what it had booked.
LEMMA KeepsLines ==
    ASSUME NEW t, NEW lines, NEW n, NEW s, NEW s2, LinesBooked(t, lines, n, s),
           UNCHANGED <<quantity, received>>, s2.todo = s.todo,
           s2.submitted = s.submitted, s2.received = s.received,
           s2.movements = s.movements, s2.written = s.written
    PROVE  LinesBooked(t, lines, n, s2)'
<1>1. ASSUME NEW p \in Products
      PROVE  /\ Book!ListsLines(s2.movements[p], lines, n, p)'
             /\ Book!ReceiptsFrom(t, s2.movements[p], OnHand(p))'
  <2>1. /\ Book!ListsLines(s.movements[p], lines, n, p)
        /\ Book!ReceiptsFrom(t, s.movements[p], OnHand(p)) /\ OnHand(p)' = OnHand(p)
    BY DEF LinesBooked, OnHand
  <2>2. ASSUME NEW entries, Book!ListsLines(entries, lines, n, p)
        PROVE  Book!ListsLines(entries, lines, n, p)'
    BY <2>2 DEF Book!ListsLines
  <2>3. s2.movements[p] = s.movements[p]
    OBVIOUS
  <2>4. Book!ListsLines(s2.movements[p], lines, n, p)'
    BY <2>1, <2>2, <2>3
  <2>5. Book!ReceiptsFrom(t, s2.movements[p], OnHand(p))'
    BY <2>1 DEF Book!ReceiptsFrom, Book!Entry
  <2>. QED  BY <2>4, <2>5
<1>. QED  BY <1>1 DEF LinesBooked

\* Nothing has been booked of the first no lines.
LEMMA NothingBooked ==
    ASSUME NEW t, NEW lines, NEW p, NEW start
    PROVE  Book!ListsLines(<<>>, lines, 0, p) /\ Book!ReceiptsFrom(t, <<>>, start)
<1>1. 1..Len(<<>>) = {} /\ 1..0 = {}
  OBVIOUS
<1>2. [k \in {} |-> k] \in [{} -> {j \in 1..0 : ProductOf[lines[j].item] = p}]
  OBVIOUS
<1>. QED  BY <1>1, <1>2 DEF Book!ListsLines, Book!ReceiptsFrom

\* A delivery that has locked its order has booked nothing yet.
LEMMA ReceiveLockBooks ==
    ASSUME TypedLedger, NEW t \in Txns, Booked(t), ReceiveLock(t)
    PROVE  Booked(t)'
<1>0. /\ session \in [Txns -> Sessions] /\ pc \in [Txns -> Labels]
      /\ req[t] \in ReceiveRequests /\ session[t] = EmptySession
      /\ pc[t] = "receive_lock"
  BY DEF TypedLedger, TypeInv, TypeOK, RequestFits, ReceiveLock, Booked
<1>1. CASE \E answer \in Ended : Rollback(t, answer)
  BY <1>1, OtherBooks
<1>2. CASE ~ \E answer \in Ended : Rollback(t, answer)
  <2>1. /\ pc'[t] = "receive_line" /\ req' = req
        /\ UNCHANGED <<quantity, received, status>>
        /\ status[req[t].order] \notin {"RECEIVED", "CANCELLED", "DRAFT"}
        /\ session' = [session EXCEPT ![t].received = received,
                                      ![t].status = status[req[t].order],
                                      ![t].todo = req[t].lines]
    BY <1>0, <1>2 DEF ReceiveLock, Goto, Ended
  <2>2. PICK lines, s : lines = req[t].lines /\ s = session'[t]
    OBVIOUS
  <2>3. /\ s.received = received /\ s.status = status[req[t].order] /\ s.todo = lines
        /\ s.submitted = {} /\ s.movements = [p \in Products |-> <<>>]
        /\ s.written = [p \in Products |-> NONE]
    BY <1>0, <2>1, <2>2 DEF EmptySession, Sessions
  <2>4. lines \in Seq(Lines)
    BY <1>0, <2>2 DEF ReceiveRequests
  <2>5. SubSeq(lines, 0 + 1, Len(lines)) = lines /\ 0 \in 0..Len(lines) /\ 1..0 = {}
        /\ Len(lines) - Len(lines) = 0
    BY <2>4
  <2>6. LinesBooked(t, lines, 0, s)'
    <3>1. ASSUME NEW p \in Products
          PROVE  /\ Book!ListsLines(s.movements[p], lines, 0, p)'
                 /\ Book!ReceiptsFrom(t, s.movements[p], OnHand(p))'
      <4>1. s.movements[p] = <<>> /\ 1..Len(<<>>) = {}
        BY <2>3
      <4>2. Book!ListsLines(<<>>, lines, 0, p)
        BY NothingBooked
      <4>3. Book!ListsLines(s.movements[p], lines, 0, p)'
        BY <4>1, <4>2 DEF Book!ListsLines
      <4>. QED  BY <4>1, <4>3 DEF Book!ReceiptsFrom
    <3>2. {lines[j].item : j \in 1..0} = {}
      BY <2>5
    <3>. QED  BY <2>3, <2>5, <3>1, <3>2 DEF LinesBooked
  <2>7. Processed(t)' = 0
    BY <2>1, <2>2, <2>3, <2>5 DEF Processed
  <2>8. DeliveryBooked(t)'
    BY <2>1, <2>2, <2>3, <2>6, <2>7 DEF DeliveryBooked
  <2>. QED  BY <2>1, <2>8 DEF Booked, CountBooked, CreateBooked
<1>. QED  BY <1>1, <1>2

\* Reading the stock row of a line books nothing, nor does the end of the lines.
LEMMA ReceiveReadBooks ==
    ASSUME TypedLedger, NEW t \in Txns, Booked(t), ReceiveLine(t) \/ ReceiveFinish(t)
    PROVE  Booked(t)'
<1>0. /\ session \in [Txns -> Sessions] /\ pc \in [Txns -> Labels]
      /\ req[t] \in ReceiveRequests /\ Receiving(t) /\ pc[t] = "receive_line"
  BY DEF TypedLedger, TypeInv, TypeOK, RequestFits, ReceiveLine, ReceiveFinish, Receiving
<1>1. CASE \E answer \in Ended : Rollback(t, answer)
  BY <1>1, OtherBooks
<1>2. CASE ~ \E answer \in Ended : Rollback(t, answer)
  <2>1. /\ pc'[t] = IF ReceiveFinish(t) THEN "commit" ELSE "receive_save"
        /\ UNCHANGED <<quantity, received, status, req>>
        /\ session'[t].todo = session[t].todo
        /\ session'[t].submitted = session[t].submitted
        /\ session'[t].received = session[t].received
        /\ session'[t].movements = session[t].movements
        /\ session'[t].written = session[t].written
    BY <1>0, <1>2 DEF ReceiveLine, ReceiveFinish, Goto, Ended, Sessions
  <2>2. /\ session'[t].status = IF ReceiveFinish(t) /\ FullyReceived(t) THEN "RECEIVED"
                                ELSE session[t].status
        /\ ReceiveFinish(t) => session[t].todo = <<>>
    BY <1>0, <1>2 DEF ReceiveLine, ReceiveFinish, Ended, Sessions
  <2>3. PICK lines, n, s, s2 : /\ lines = req[t].lines /\ n = Processed(t)
                               /\ s = session[t] /\ s2 = session'[t]
    OBVIOUS
  <2>4. DeliveryBooked(t) /\ LinesBooked(t, lines, n, s)
    BY <1>0, <2>3 DEF Booked, DeliveryBooked
  <2>5. LinesBooked(t, lines, n, s2)'
    BY <2>1, <2>3, <2>4, KeepsLines
  <2>6. Processed(t)' = n /\ (FullyReceived(t)' <=> FullyReceived(t))
    BY <2>1, <2>3 DEF Processed, FullyReceived
  <2>7. DeliveryBooked(t)'
    BY <1>0, <2>1, <2>2, <2>3, <2>4, <2>5, <2>6 DEF DeliveryBooked
  <2>8. req[t].op = "receive"
    BY <1>0 DEF ReceiveRequests
  <2>. QED  BY <2>1, <2>7, <2>8 DEF Booked, CountBooked, CreateBooked
<1>. QED  BY <1>1, <1>2

\* The entries of the first lines, and the entry of the next one.
LEMMA ListsOneMore ==
    ASSUME NEW entries \in Seq(Movements), NEW m \in Movements, NEW lines \in Seq(Lines),
           NEW n \in Nat, n + 1 \in 1..Len(lines), NEW p,
           Book!ListsLines(entries, lines, n, p)
    PROVE  /\ ProductOf[lines[n + 1].item] = p /\ m.quantity = lines[n + 1].quantity
                => Book!ListsLines(Append(entries, m), lines, n + 1, p)
           /\ ProductOf[lines[n + 1].item] # p
                => Book!ListsLines(entries, lines, n + 1, p)
<1> DEFINE R == {j \in 1..n : ProductOf[lines[j].item] = p}
           R2 == {j \in 1..(n + 1) : ProductOf[lines[j].item] = p}
           e2 == Append(entries, m)
<1>1. PICK at \in [1..Len(entries) -> R] :
        /\ \A j \in R : \E k \in 1..Len(entries) : at[k] = j
        /\ \A k, l \in 1..Len(entries) : k < l => at[k] < at[l]
        /\ \A k \in 1..Len(entries) : entries[k].quantity = lines[at[k]].quantity
  BY DEF Book!ListsLines
<1>2. \A k \in 1..Len(entries) : at[k] \in R /\ at[k] \in 1..n
  BY <1>1
<1>3. CASE ProductOf[lines[n + 1].item] # p
  <2>1. R2 = R
    BY <1>3
  <2>. QED  BY <1>1, <1>3, <2>1 DEF Book!ListsLines
<1>4. CASE ProductOf[lines[n + 1].item] = p /\ m.quantity = lines[n + 1].quantity
  <2> DEFINE at2 == [k \in 1..(Len(entries) + 1) |->
                        IF k <= Len(entries) THEN at[k] ELSE n + 1]
  <2>0. /\ Len(entries) \in Nat /\ Len(e2) = Len(entries) + 1
        /\ e2[Len(entries) + 1] = m
        /\ \A k \in 1..Len(entries) : e2[k] = entries[k]
    BY AppendElements
  <2>1. \A j : j \in R2 <=> j \in R \/ j = n + 1
    BY <1>4
  <2>2. /\ \A k \in 1..Len(entries) : k \in 1..(Len(entries) + 1) /\ at2[k] = at[k]
        /\ Len(entries) + 1 \in 1..(Len(entries) + 1)
        /\ at2[Len(entries) + 1] = n + 1
        /\ \A k \in 1..(Len(entries) + 1) : k \in 1..Len(entries) \/ k = Len(entries) + 1
    BY <2>0
  <2>3. at2 \in [1..Len(e2) -> R2]
    BY <1>2, <2>0, <2>1, <2>2
  <2> HIDE DEF at2, e2
  <2>4. ASSUME NEW j \in R2 PROVE \E k \in 1..Len(e2) : at2[k] = j
    <3>1. CASE j \in R
      <4>1. PICK k \in 1..Len(entries) : at[k] = j
        BY <1>1, <3>1
      <4>. QED  BY <2>0, <2>2, <4>1
    <3>2. CASE j = n + 1
      BY <2>0, <2>2, <3>2
    <3>. QED  BY <2>1, <3>1, <3>2
  <2>5. ASSUME NEW k \in 1..Len(e2), NEW l \in 1..Len(e2), k < l
        PROVE  at2[k] < at2[l]
    <3>1. k \in 1..Len(entries)
      BY <2>0, <2>5
    <3>2. CASE l \in 1..Len(entries)
      BY <1>1, <2>2, <2>5, <3>1, <3>2
    <3>3. CASE l = Len(entries) + 1
      <4>1. at[k] \in 1..n
        BY <1>2, <3>1
      <4>2. at[k] < n + 1
        BY <4>1
      <4>. QED  BY <2>2, <3>1, <3>3, <4>2
    <3>. QED  BY <2>0, <2>2, <3>2, <3>3
  <2>6. ASSUME NEW k \in 1..Len(e2) PROVE e2[k].quantity = lines[at2[k]].quantity
    BY <1>1, <1>4, <2>0, <2>2
  <2>7. Book!ListsLines(e2, lines, n + 1, p)
    <3> HIDE DEF R, R2
    <3>1. R2 = {j \in 1..(n + 1) : ProductOf[lines[j].item] = p}
      BY DEF R2
    <3>2. \A j \in 1..(n + 1) : ProductOf[lines[j].item] = p =>
             \E k \in 1..Len(e2) : at2[k] = j
      BY <2>4 DEF R2
    <3>. QED  BY <2>3, <2>5, <2>6, <3>1, <3>2 DEF Book!ListsLines
  <2>. QED  BY <1>4, <2>7 DEF e2
<1>. QED  BY <1>3, <1>4

\* One more receipt starts where the last one ended.
LEMMA ReceiptsOneMore ==
    ASSUME NEW t, NEW entries \in Seq(Movements), NEW m \in Movements, NEW start,
           Book!ReceiptsFrom(t, entries, start), NEW before,
           before = IF entries = <<>> THEN start ELSE entries[Len(entries)].after,
           m = Book!Entry(t, "RECEIPT", "IN", m.quantity, before, before + m.quantity)
    PROVE  Book!ReceiptsFrom(t, Append(entries, m), start)
<1> DEFINE e2 == Append(entries, m)
<1>0. /\ Len(entries) \in Nat /\ Len(e2) = Len(entries) + 1
      /\ e2[Len(entries) + 1] = m
      /\ \A k \in 1..Len(entries) : e2[k] = entries[k]
      /\ entries = <<>> <=> Len(entries) = 0
  BY AppendElements
<1> HIDE DEF e2
<1>1. ASSUME NEW k \in 1..Len(e2)
      PROVE  LET b == IF k = 1 THEN start ELSE e2[k - 1].after
                 amount == e2[k].quantity
             IN e2[k] = Book!Entry(t, "RECEIPT", "IN", amount, b, b + amount)
  <2>1. CASE k \in 1..Len(entries)
    <3>1. k # 1 => k - 1 \in 1..Len(entries)
      BY <2>1
    <3>. QED  BY <1>0, <2>1, <3>1 DEF Book!ReceiptsFrom
  <2>2. CASE k = Len(entries) + 1
    <3>1. before = IF k = 1 THEN start ELSE e2[k - 1].after
      <4>1. k # 1 => k - 1 = Len(entries) /\ k - 1 \in 1..Len(entries) /\ entries # <<>>
        BY <1>0, <2>2
      <4>2. k = 1 => entries = <<>>
        BY <1>0, <2>2
      <4>. QED  BY <1>0, <4>1, <4>2
    <3>. QED  BY <1>0, <2>2, <3>1
  <2>. QED  BY <1>0, <2>1, <2>2
<1>. QED  BY <1>1 DEF Book!ReceiptsFrom, e2

\* The first of the lines that are left, and those behind it.
LEMMA NextLine ==
    ASSUME NEW lines \in Seq(Lines), NEW n \in 0..Len(lines), NEW todo,
           todo = SubSeq(lines, n + 1, Len(lines)), todo # <<>>
    PROVE  /\ n + 1 \in 1..Len(lines) /\ Head(todo) = lines[n + 1]
           /\ Tail(todo) = SubSeq(lines, (n + 1) + 1, Len(lines))
           /\ Len(lines) - Len(todo) = n /\ Len(lines) - Len(Tail(todo)) = n + 1
<1>1. /\ Len(lines) \in Nat /\ todo \in Seq(Lines) /\ Len(todo) = Len(lines) - n
      /\ \A k \in 1..Len(todo) : todo[k] = lines[n + k]
  <2>1. Len(lines) \in Nat /\ n \in Nat /\ n <= Len(lines)
    OBVIOUS
  <2>2. \A k \in (n + 1)..Len(lines) : lines[k] \in Lines
    BY <2>1
  <2>3. todo \in Seq(Lines)
    BY <2>1, <2>2
  <2>4. Len(todo) = Len(lines) - n
    BY <2>1
  <2>5. \A k \in 1..Len(todo) : todo[k] = lines[n + k]
    BY <2>1, <2>4
  <2>. QED  BY <2>1, <2>3, <2>4, <2>5
<1>2. Len(todo) # 0
  BY <1>1
<1>3. n + 1 \in 1..Len(lines) /\ 1 \in 1..Len(todo)
  BY <1>1, <1>2
<1>4. Head(todo) = lines[n + 1]
  BY <1>1, <1>3
<1> DEFINE a == Tail(todo)
           b == SubSeq(lines, (n + 1) + 1, Len(lines))
<1>5. a \in Seq(Lines) /\ Len(a) = Len(lines) - (n + 1)
      /\ \A k \in 1..Len(a) : a[k] = todo[k + 1] /\ k + 1 \in 1..Len(todo)
  BY <1>1, <1>2
<1>6. b \in Seq(Lines) /\ Len(b) = Len(lines) - (n + 1)
      /\ \A k \in 1..Len(b) : b[k] = lines[(n + 1) + k]
  <2>1. n + 1 \in Nat /\ n + 1 <= Len(lines) /\ Len(lines) \in Nat
    BY <1>3
  <2>2. \A k \in ((n + 1) + 1)..Len(lines) : lines[k] \in Lines
    BY <2>1
  <2>3. b \in Seq(Lines)
    BY <2>1, <2>2
  <2>4. Len(b) = Len(lines) - (n + 1)
    BY <2>1
  <2>5. \A k \in 1..Len(b) : b[k] = lines[(n + 1) + k]
    BY <2>1, <2>4
  <2>. QED  BY <2>3, <2>4, <2>5
<1>7. \A k \in 1..Len(a) : (n + 1) + k = n + (k + 1)
  BY <1>5
<1> HIDE DEF a, b
<1>8. \A k \in 1..Len(a) : a[k] = b[k]
  BY <1>1, <1>5, <1>6, <1>7
<1>9. a = b
  <2>1. Len(a) = Len(b)
    BY <1>5, <1>6
  <2>. QED  BY <1>5, <1>6, <1>8, <2>1, SameSequence, Zenon
<1>. QED  BY <1>1, <1>3, <1>4, <1>5, <1>9 DEF a, b

\* A receipt books the next line.
LEMMA ReceiveSaveBooks ==
    ASSUME TypedLedger, ItemsAgree, SeparateInv, NEW t \in Txns, Booked(t), ReceiveSave(t)
    PROVE  Booked(t)'
<1>0. /\ session \in [Txns -> Sessions] /\ pc \in [Txns -> Labels] /\ session[t] \in Sessions
      /\ req[t] \in ReceiveRequests /\ Receiving(t) /\ pc[t] = "receive_save"
      /\ session[t].todo # <<>> /\ LineAccepted(t)
  BY DEF TypedLedger, TypeInv, TypeOK, RequestFits, ReceiveSave, Receiving
<1>1. CASE \E answer \in Ended : Rollback(t, answer)
  BY <1>1, OtherBooks
<1>2. CASE ~ \E answer \in Ended : Rollback(t, answer)
  <2>1. PICK line, p, from, m, lines, n, s, s2 :
          /\ line = Head(session[t].todo) /\ p = ProductOf[line.item]
          /\ from = IF session[t].before = NONE THEN 0 ELSE session[t].before
          /\ m = Movement(t, "RECEIPT", "IN", line.quantity, from, from + line.quantity)
          /\ lines = req[t].lines /\ n = Processed(t) /\ s = session[t] /\ s2 = session'[t]
    OBVIOUS
  <2>2. /\ p \in Products /\ m \in Movements /\ pc'[t] = "receive_line"
        /\ ~DuplicateRow(p, session[t].before)
        /\ s2.movements = [s.movements EXCEPT ![p] = Append(@, m)]
        /\ s2.written = [s.written EXCEPT ![p] = m.after]
        /\ s2.todo = Tail(s.todo)
    <3>1. ~Rollback(t, "failed")
      BY <1>2 DEF Ended
    <3>2. /\ p \in Products /\ m \in Movements /\ pc'[t] = "receive_line"
          /\ ~DuplicateRow(p, session[t].before) /\ s2.todo = Tail(s.todo)
          /\ s2.written = [s.written EXCEPT ![p] = m.after] /\ Records(t, p, m)
      BY <2>1, <3>1, ReceiptShape
    <3>. QED  BY <2>1, <3>2 DEF Records
  <2>3. /\ UNCHANGED <<quantity, received, status, req>>
        /\ s2.submitted = s.submitted \cup {line.item}
        /\ s2.received = [s.received EXCEPT ![line.item] = @ + line.quantity]
        /\ s2.status = s.status
    <3>1. /\ UNCHANGED <<quantity, received, status, req>>
          /\ session' = [session EXCEPT ![t] =
                [Saved(t, p, session[t].before, m) EXCEPT
                    !.received[line.item] = @ + line.quantity,
                    !.submitted = @ \cup {line.item},
                    !.todo = Tail(@)]]
      BY <1>2, <2>1 DEF ReceiveSave, Ended
    <3>. QED  BY <1>0, <2>1, <3>1 DEF Saved, Sessions
  <2>4. DeliveryBooked(t) /\ LinesBooked(t, lines, n, s) /\ lines \in Seq(Lines)
    BY <1>0, <2>1 DEF Booked, DeliveryBooked, ReceiveRequests
  <2>5. /\ n \in Nat /\ n + 1 \in 1..Len(lines) /\ n + 1 \in 0..Len(lines)
        /\ line = lines[n + 1] /\ line \in Lines
        /\ s2.todo = SubSeq(lines, (n + 1) + 1, Len(lines))
        /\ Len(lines) - Len(s2.todo) = n + 1
    <3>1. /\ n \in 0..Len(lines) /\ s.todo = SubSeq(lines, n + 1, Len(lines))
      BY <2>4 DEF LinesBooked
    <3>2. /\ n + 1 \in 1..Len(lines) /\ Head(s.todo) = lines[n + 1]
          /\ Tail(s.todo) = SubSeq(lines, (n + 1) + 1, Len(lines))
          /\ Len(lines) - Len(Tail(s.todo)) = n + 1
      <4>1. s.todo # <<>> /\ Head(s.todo) = Head(s.todo)
        BY <1>0, <2>1
      <4>2. lines \in Seq(Lines)
        BY <2>4
      <4>. QED  BY <3>1, <4>1, <4>2, NextLine
    <3>3. n \in Nat /\ n + 1 \in 0..Len(lines)
      BY <3>1, <3>2
    <3>4. lines[n + 1] \in Lines
      BY <2>4, <3>2
    <3>. QED  BY <2>1, <2>2, <3>2, <3>3, <3>4
  <2>6. line.item \notin s.submitted /\ s.received[line.item] = received[line.item]
    <3>1. line.item \notin s.submitted /\ OrderOf[line.item] = req[t].order
      BY <1>0, <2>1 DEF LineAccepted
    <3>. QED  BY <1>0, <2>1, <2>5, <3>1 DEF ItemsAgree, ItemsOf, Lines
  <2>7. \A j : j \in 1..(n + 1) <=> j \in 1..n \/ j = n + 1
    BY <2>5
  <2>8. /\ s.submitted = {lines[j].item : j \in 1..n}
        /\ \A j \in 1..n : lines[j].item \in s.submitted /\ lines[j].item # line.item
    BY <2>4, <2>6 DEF LinesBooked
  <2>9. s2.submitted = {lines[j].item : j \in 1..(n + 1)}
    BY <2>3, <2>5, <2>7, <2>8
  <2>10. \A j, k \in 1..(n + 1) : lines[j].item = lines[k].item => j = k
    <3>1. \A j, k \in 1..n : lines[j].item = lines[k].item => j = k
      BY <2>4 DEF LinesBooked
    <3>. QED  BY <2>5, <2>7, <2>8, <3>1
  <2>11. ASSUME NEW j \in 1..(n + 1)
         PROVE  s2.received[lines[j].item] = received'[lines[j].item] + lines[j].quantity
    <3>0. line.item \in Items /\ s.received \in [Items -> Nat]
      BY <1>0, <2>1, <2>5 DEF Lines, Sessions
    <3>1. CASE j = n + 1
      BY <2>3, <2>5, <2>6, <3>0, <3>1
    <3>2. CASE j \in 1..n
      <4>1. s2.received[lines[j].item] = s.received[lines[j].item]
        BY <2>3, <2>8, <3>0, <3>2
      <4>2. s.received[lines[j].item] = received[lines[j].item] + lines[j].quantity
        BY <2>4, <3>2 DEF LinesBooked
      <4>. QED  BY <2>3, <4>1, <4>2
    <3>. QED  BY <2>7, <3>1, <3>2
  <2>12. ASSUME NEW q \in Products
         PROVE  /\ Book!ListsLines(s2.movements[q], lines, n + 1, q)'
                /\ Book!ReceiptsFrom(t, s2.movements[q], OnHand(q))'
                /\ s2.movements[q] = <<>> => s2.written[q] = NONE
    <3>0. /\ Book!ListsLines(s.movements[q], lines, n, q)
          /\ Book!ReceiptsFrom(t, s.movements[q], OnHand(q)) /\ OnHand(q)' = OnHand(q)
          /\ s.movements \in [Products -> Seq(Movements)] /\ s.movements[q] \in Seq(Movements)
      BY <1>0, <2>1, <2>3, <2>4 DEF LinesBooked, OnHand, Sessions
    <3>1. Book!ListsLines(s2.movements[q], lines, n + 1, q)
      <4>1. CASE q = p
        <5>1. s2.movements[q] = Append(s.movements[q], m)
          BY <2>2, <3>0, <4>1
        <5>2. m.quantity = lines[n + 1].quantity
          BY <2>1, <2>5 DEF Movement
        <5>3. ProductOf[lines[n + 1].item] = q
          BY <2>1, <2>5, <4>1
        <5>4. /\ s.movements[q] \in Seq(Movements) /\ m \in Movements
              /\ lines \in Seq(Lines) /\ n \in Nat /\ n + 1 \in 1..Len(lines)
              /\ Book!ListsLines(s.movements[q], lines, n, q)
          BY <2>2, <2>4, <2>5, <3>0
        <5>5. Book!ListsLines(Append(s.movements[q], m), lines, n + 1, q)
          BY <5>2, <5>3, <5>4, ListsOneMore
        <5>. QED  BY <5>1, <5>5
      <4>2. CASE q # p
        <5>1. s2.movements[q] = s.movements[q]
          BY <2>2, <3>0, <4>2
        <5>2. ProductOf[lines[n + 1].item] # q
          BY <2>1, <2>5, <4>2
        <5>. QED  BY <2>2, <2>4, <2>5, <3>0, <5>1, <5>2, ListsOneMore
      <4>. QED  BY <4>1, <4>2
    <3>2. Book!ReceiptsFrom(t, s2.movements[q], OnHand(q))
      <4>1. CASE q = p
        <5>1. s2.movements[q] = Append(s.movements[q], m)
          BY <2>2, <3>0, <4>1
        <5>2. from = IF s.movements[q] = <<>> THEN OnHand(q)
                     ELSE s.movements[q][Len(s.movements[q])].after
          BY <1>0, <2>1, <2>2, <4>1, ReceiptContinues
        <5>3. m = Book!Entry(t, "RECEIPT", "IN", m.quantity, from, from + m.quantity)
          BY <2>1 DEF Movement, Book!Entry
        <5>. QED  BY <2>2, <3>0, <5>1, <5>2, <5>3, ReceiptsOneMore, SMTT(30)
      <4>2. CASE q # p
        <5>1. s2.movements[q] = s.movements[q]
          BY <2>2, <3>0, <4>2
        <5>. QED  BY <3>0, <5>1
      <4>. QED  BY <4>1, <4>2
    <3>3. Book!ListsLines(s2.movements[q], lines, n + 1, q)'
      BY <3>1 DEF Book!ListsLines
    <3>4. s2.movements[q] = <<>> => s2.written[q] = NONE
      <4>1. s.movements[q] = <<>> => s.written[q] = NONE
        BY <2>4 DEF LinesBooked
      <4>2. Append(s.movements[q], m) # <<>>
        BY <2>2, <3>0, AppendElements
      <4>3. s.written \in [Products -> Balances]
        BY <1>0, <2>1 DEF Sessions
      <4>. QED  BY <2>2, <3>0, <4>1, <4>2, <4>3
    <3>. QED  BY <3>0, <3>2, <3>3, <3>4 DEF Book!ReceiptsFrom, Book!Entry
  <2>13. LinesBooked(t, lines, n + 1, s2)'
    BY <2>5, <2>9, <2>10, <2>11, <2>12 DEF LinesBooked
  <2>14. Processed(t)' = n + 1
    BY <2>1, <2>3, <2>5 DEF Processed
  <2>15. DeliveryBooked(t)'
    <3>1. /\ status[req[t].order] \notin {"RECEIVED", "CANCELLED", "DRAFT"}
          /\ s.status = status[req[t].order]
      BY <1>0, <2>1, <2>4 DEF DeliveryBooked
    <3>2. /\ req'[t].lines = lines /\ session'[t] = s2 /\ s2.status = s.status
          /\ pc'[t] = "receive_line" /\ req' = req /\ status' = status
      BY <2>1, <2>2, <2>3
    <3>. QED  BY <2>13, <2>14, <3>1, <3>2 DEF DeliveryBooked
  <2>. QED  BY <2>2, <2>15 DEF Booked, CountBooked, CreateBooked
<1>. QED  BY <1>1, <1>2

\* BookInv is what holds for each request.
LEMMA BookByRequest ==
    /\ BookInv <=> \A t \in Txns : Booked(t)
    /\ BookInv' <=> \A t \in Txns : Booked(t)'
  BY DEF BookInv, Booked

\* The product of a count, and the order of a delivery, are what they name.
LEMMA Named ==
    ASSUME TypeInv, NEW u \in Txns
    PROVE  /\ (pc[u] \in {"count_save", "commit"} /\ req[u].op = "count") =>
                req[u].product \in Products
           /\ Receiving(u) => req[u] \in ReceiveRequests /\ req[u].order \in Orders
  BY DEF TypeInv, RequestFits, Receiving, CreateRequests, CountRequests, ReceiveRequests

\* A step that commits nothing leaves what the others have booked.
LEMMA OthersStayBooked ==
    ASSUME TypedLedger, BookInv, NEW t \in Txns, Step(t), OnlySession(t),
           status' = status, Booked(t)'
    PROVE  BookInv'
<1>1. ASSUME NEW u \in Txns \ {t} PROVE Booked(u)'
  <2>1. Booked(u)
    BY BookByRequest
  <2>2. /\ pc'[u] = pc[u] /\ req'[u] = req[u] /\ session'[u] = session[u]
        /\ quantity' = quantity /\ received' = received /\ overtaken' = overtaken
    BY DEF OnlySession
  <2>3. ASSUME pc[u] \in {"count_save", "commit"}, req[u].op = "count"
        PROVE  rowLock'[req[u].product] = u
    <3>1. req[u].product \in Products /\ rowLock[req[u].product] = u
      BY <2>1, <2>3, Named DEF Booked, CountBooked, TypedLedger
    <3>. QED  BY <3>1, LocksKept
  <2>. QED  BY <2>1, <2>2, <2>3, StaysBooked
<1>. QED  BY <1>1, BookByRequest

\* A commit leaves what the others have booked: their rows and orders are locked.
LEMMA CommitStayBooked ==
    ASSUME TypedLedger, OrdersHeld, ItemsAgree, BookInv, NEW t \in Txns, Commit(t)
    PROVE  BookInv'
<1>0. /\ \A u \in Txns \ {t} : /\ pc'[u] = pc[u] /\ req'[u] = req[u]
                               /\ session'[u] = session[u]
      /\ Step(t) /\ Receiving(t) \in BOOLEAN
  BY DEF TypedLedger, TypeInv, TypeOK, Commit, Goto, Step, Handle, Receiving
<1>1. ASSUME NEW u \in Txns \ {t} PROVE Booked(u)'
  <2>1. Booked(u)
    BY BookByRequest
  <2>2. ASSUME NEW p \in Products, rowLock[p] = u PROVE quantity'[p] = quantity[p]
    BY <2>2, CommitRow
  <2>3. ASSUME pc[u] \in {"count_save", "commit"}, req[u].op = "count"
        PROVE  /\ rowLock'[req[u].product] = u
               /\ quantity'[req[u].product] = quantity[req[u].product]
               /\ u \in overtaken' <=> u \in overtaken
    <3>2. u \in overtaken' <=> u \in overtaken
      BY <2>3 DEF Commit, Overtakes
    <3>1. req[u].product \in Products /\ rowLock[req[u].product] = u
      BY <2>1, <2>3, Named DEF Booked, CountBooked, TypedLedger
    <3>. QED  BY <1>0, <2>2, <3>1, <3>2, LocksKept
  <2>4. ASSUME Receiving(u)
        PROVE  /\ status'[req[u].order] = status[req[u].order]
               /\ \A i \in session[u].submitted : received'[i] = received[i]
               /\ \A p \in Products : session[u].movements[p] # <<>> =>
                       quantity'[p] = quantity[p]
    <3>1. req[u].order \in Orders /\ orderLock[req[u].order] = u
      BY <2>4, Named DEF OrdersHeld, TypedLedger
    <3>2. status'[req[u].order] = status[req[u].order]
      BY <3>1 DEF Commit
    <3>3. ASSUME NEW i \in session[u].submitted PROVE received'[i] = received[i]
      <4>1. i \in Items /\ OrderOf[i] = req[u].order
        BY <2>4 DEF ItemsAgree, ItemsOf
      <4>2. ASSUME i \in session[t].submitted PROVE FALSE
        <5>1. Receiving(t) /\ OrderOf[i] = req[t].order
          BY <4>2 DEF ItemsAgree, ItemsOf
        <5>2. orderLock[req[u].order] = t
          BY <3>1, <4>1, <5>1 DEF OrdersHeld
        <5>. QED  BY <3>1, <5>2
      <4>. QED  BY <4>1, <4>2 DEF Commit
    <3>4. \A p \in Products : session[u].movements[p] # <<>> => quantity'[p] = quantity[p]
      BY <2>2, HeldRow
    <3>. QED  BY <3>2, <3>3, <3>4
  <2>. QED  BY <1>0, <2>1, <2>3, <2>4, StaysBooked
<1>2. Booked(t)'
  BY OtherBooks, BookByRequest
<1>. QED  BY <1>1, <1>2, BookByRequest

\* Without edits the other steps leave the orders, and all but the session.
LEMMA StepKeeps ==
    ASSUME TypedLedger, SessionsAnnounce, NEW t \in Txns, Step(t), ~Commit(t), ~EditSave(t)
    PROVE  OnlySession(t) /\ status' = status
<1>0. /\ session \in [Txns -> Sessions] /\ pc \in [Txns -> Labels]
      /\ req \in [Txns -> Requests \cup {NONE}]
  BY DEF TypedLedger, TypeInv, TypeOK
<1>1. ASSUME NEW answer, Rollback(t, answer), pc[t] \notin Ended
      PROVE  OnlySession(t) /\ status' = status
  BY <1>0, <1>1 DEF OnlySession, Rollback, Goto
<1>2. CASE Begin(t)
  BY <1>0, <1>2 DEF Begin, OnlySession, Goto, Ended
<1>3. CASE DeadlockVictim(t) \/ Fail(t)
  <2>1. pc[t] \notin Ended
    BY <1>3 DEF DeadlockVictim, Deadlocked, WaitsFor, Fail, Ended
  <2>. QED  BY <1>1, <1>3, <2>1 DEF DeadlockVictim, Fail
<1>4. CASE CreateCheck(t) \/ CreateSave(t)
  BY <1>0, <1>1, <1>4 DEF CreateCheck, CreateSave, OnlySession, Goto, Ended
<1>5. CASE CountRead(t) \/ CountLock(t) \/ CountInsert(t) \/ CountSave(t)
  BY <1>0, <1>1, <1>5 DEF CountRead, CountLock, CountInsert, CountSave, OnlySession, Goto,
     Ended
<1>6. CASE ReceiveLock(t) \/ ReceiveLine(t)
  BY <1>0, <1>1, <1>6 DEF ReceiveLock, ReceiveLine, OnlySession, Goto, Ended
<1>7. CASE ReceiveSave(t) \/ ReceiveFinish(t) \/ EditLoad(t)
  BY <1>0, <1>1, <1>7 DEF ReceiveSave, ReceiveFinish, EditLoad, OnlySession, Goto, Ended
<1>. QED  BY <1>2, <1>3, <1>4, <1>5, <1>6, <1>7 DEF Step, Handle

\* No header is edited when nobody asks for it.
LEMMA NobodyEdits ==
    ASSUME TypeInv, Sent, NoEdits(Requests), NEW t \in Txns
    PROVE  ~EditSave(t)
<1>1. req[t] \in EditRequests => req[t].op = "edit"
  BY DEF EditRequests
<1>. QED  BY <1>1 DEF EditSave, TypeInv, RequestFits, Sent, NoEdits

\* Every step keeps what the sessions are about to do to the book.
LEMMA StepBook ==
    ASSUME TypedLedger, SessionsAnnounce, OrdersHeld, ItemsAgree, Sent, SeparateInv,
           NoEdits(Requests), BookInv, [Next]_vars
    PROVE  BookInv'
<1>1. ASSUME NEW t \in Txns, Step(t) PROVE BookInv'
  <2>1. CASE Commit(t)
    BY <2>1, CommitStayBooked
  <2>2. CASE ~Commit(t)
    <3>1. ~EditSave(t) /\ Booked(t)
      BY NobodyEdits, BookByRequest DEF TypedLedger
    <3>2. Booked(t)'
      <4>1. CASE DeadlockVictim(t) \/ Fail(t)
        BY <3>1, <4>1, OtherBooks DEF DeadlockVictim, Fail, Ended
      <4>. QED
        BY <1>1, <2>2, <3>1, <4>1, OtherBooks, CreateBooks, CountBooks, ReceiveLockBooks,
           ReceiveReadBooks, ReceiveSaveBooks DEF Step, Handle
    <3>. QED  BY <1>1, <2>2, <3>1, <3>2, StepKeeps, OthersStayBooked
  <2>. QED  BY <2>1, <2>2
<1>2. CASE UNCHANGED vars
  <2>1. ASSUME NEW u \in Txns PROVE Booked(u)'
    <3>1. Booked(u)
      BY BookByRequest
    <3>2. (pc[u] \in {"count_save", "commit"} /\ req[u].op = "count") =>
             rowLock[req[u].product] = u
      BY <3>1 DEF Booked, CountBooked
    <3>. QED  BY <1>2, <3>1, <3>2, StaysBooked DEF vars
  <2>. QED  BY <2>1, BookByRequest
<1>. QED  BY <1>1, <1>2 DEF Next, Quiescent, Step

\* Nothing is booked before the first step.
LEMMA InitBook == Init => BookInv
<1> SUFFICES ASSUME Init, NEW t \in Txns PROVE Booked(t)
  BY BookByRequest
<1>1. pc[t] = "idle" /\ req[t] = NONE
  BY DEF Init
<1>. QED
  BY <1>1 DEF Booked, CountBooked, CreateBooked, DeliveryBooked, Receiving

LEMMA AlwaysBooked ==
    ASSUME Separated(Requests), NoEdits(Requests)
    PROVE  Spec => []BookInv
<1>1. Init => BookInv
  BY InitBook
<1>2. LedgerInv /\ ReceivingInv /\ OutboxInv /\ Sent /\ SeparateInv /\ BookInv /\ [Next]_vars
        => BookInv'
  <2> SUFFICES ASSUME LedgerInv, ReceivingInv, OutboxInv, Sent, SeparateInv, BookInv,
                      [Next]_vars
               PROVE  BookInv'
    OBVIOUS
  <2>1. TypedLedger /\ SessionsAnnounce /\ OrdersHeld /\ ItemsAgree
    BY DEF LedgerInv, ReceivingInv, TypedLedger, LedgerPart, SeenPart, TypeInv,
       OutboxInv
  <2>. QED  BY <2>1, StepBook
<1>. QED
  BY <1>1, <1>2, LedgerInvariant, ReceivingInvariant, OutboxInvariant, AlwaysSent,
     AlwaysSeparate, PTL DEF Spec

\* What the clients have been told.
Answers == [t \in Txns |-> Answer(t)]

\* Going to a label answers, or does not.
LEMMA GotoAnswers ==
    ASSUME TypeInv, NEW t \in Txns, NEW label, Goto(t, label)
    PROVE  Answers' = [Answers EXCEPT ![t] =
              CASE label = "committed" -> "done"
                [] label \in {"rejected", "failed"} -> "refused"
                [] OTHER -> "none"]
<1>1. pc' = [pc EXCEPT ![t] = label] /\ pc \in [Txns -> Labels]
  BY DEF TypeInv, TypeOK, Goto
<1>2. \A u \in Txns : pc'[u] = IF u = t THEN label ELSE pc[u]
  BY <1>1
<1>. QED  BY <1>2 DEF Answers, Answer

\* The seeded rows are a book nobody has asked anything of.
LEMMA InitialBook == Init => Book!Init
<1> SUFFICES ASSUME Init PROVE Book!Init
  OBVIOUS
<1>1. BalanceIsLeftByLedger /\ ReceivedWithinOrder /\ overtaken = {}
  BY InitLedger, InitReceiving DEF LedgerPart, ReceivingPart, Init
<1>2. [t \in Txns |-> Answer(t)] = [t \in Txns |-> "none"]
  BY DEF Init, Answer
<1>. QED
  BY <1>1, <1>2 DEF Init, Book!Init, BalanceIsLeftByLedger, Left, ReceivedWithinOrder

\* A commit of a count or of an initial stock writes the row of its product.
LEMMA CommitElsewhere ==
    ASSUME TypedLedger, SeparateInv, NEW t \in Txns, Commit(t), req[t].op # "receive",
           NEW q \in Products \ {req[t].product}
    PROVE  quantity'[q] = quantity[q] /\ ledger'[q] = ledger[q]
           /\ session[t].movements[q] = <<>>
<1>1. session[t].written[q] = NONE /\ session[t].movements[q] = <<>>
  BY DEF SeparateInv, WritesItsProducts
<1>2. quantity'[q] = quantity[q]
  BY <1>1 DEF Commit
<1>3. session[t].movements[q] = <<>>
  BY <1>1
<1>4. ledger'[q] = ledger[q]
  <2>1. ledger'[q] = ledger[q] \o <<>> /\ ledger[q] \in Seq(Movements)
    BY <1>3 DEF Commit, TypedLedger, TypeInv, TypeOK
  <2>. QED  BY <2>1
<1>. QED  BY <1>2, <1>3, <1>4

\* The commit of a count or of an initial stock changes no order.
LEMMA CommitKeepsOrders ==
    ASSUME TypedLedger, OrdersHeld, ItemsAgree, NEW t \in Txns, Commit(t),
           req[t].op # "receive"
    PROVE  received' = received /\ status' = status
<1>1. ~Receiving(t)
  BY DEF Receiving, Commit
<1>2. session[t].submitted = {} /\ \A o \in Orders : orderLock[o] # t
  BY <1>1 DEF ItemsAgree, OrdersHeld
<1>3. received \in [Items -> Nat] /\ status \in [Orders -> Statuses]
  BY DEF TypedLedger, TypeInv, TypeOK
<1>4. received' = [i \in Items |-> received[i]] /\ status' = [o \in Orders |-> status[o]]
  BY <1>2 DEF Commit
<1>. QED  BY <1>3, <1>4

\* The events of a session with at most one movement, of p.
LEMMA OneAnnouncement ==
    ASSUME NEW movements, NEW p \in Products,
           \A q \in Products \ {p} : movements[q] = <<>>
    PROVE  /\ movements[p] = <<>> => Announcements(movements) = {}
           /\ \A m : movements[p] = <<m>> =>
                Announcements(movements) = IF Calls(p, m) THEN {Row(p, m)} ELSE {}
<1>1. movements[p] = <<>> => Announcements(movements) = {}
  BY NothingAnnounced
<1>2. ASSUME NEW m, movements[p] = <<m>>
      PROVE  Announcements(movements) = IF Calls(p, m) THEN {Row(p, m)} ELSE {}
  <2>1. /\ \A k : k \in 1..Len(movements[p]) <=> k = 1
        /\ movements[p][1] = m
    BY <1>2
  <2>2. ASSUME NEW q \in Products \ {p}, NEW k \in 1..Len(movements[q]) PROVE FALSE
    <3>1. Len(movements[q]) = 0
      OBVIOUS
    <3>. QED  BY <3>1
  <2>3. ASSUME NEW e
        PROVE  e \in Announcements(movements) <=> Calls(p, m) /\ e = Row(p, m)
    BY <2>1, <2>2, AnnouncementElements
  <2>. QED  BY <2>3
<1>. QED  BY <1>1, <1>2

\* The commit of an initial stock does what the book calls CreateStock.
LEMMA CommitCreates ==
    ASSUME TypedLedger, SessionsAnnounce, OrdersHeld, ItemsAgree, SeparateInv, BookInv,
           NEW t \in Txns, Commit(t), req[t] \in CreateRequests
    PROVE  Book!CreateStock(t)
<1>1. PICK r, p, e : r = req[t] /\ p = r.product /\ e = Book!InitialEntry(t, r)
  OBVIOUS
<1>2. r.op = "create" /\ p \in Products /\ r.quantity \in Nat
  BY <1>1 DEF CreateRequests
<1>3. r.quantity > 0 /\ session[t].movements[p] = <<e>>
  BY <1>1, <1>2 DEF BookInv, CreateBooked, Commit
<1>4. e.after = r.quantity /\ e.before = 0
  BY <1>1 DEF Book!InitialEntry, Book!Entry
<1>5. LET s == session[t].movements[p] IN s # <<>> /\ s[Len(s)] = e
  <2>1. <<e>> # <<>> /\ Len(<<e>>) = 1 /\ <<e>>[1] = e
    OBVIOUS
  <2>. QED  BY <1>3, <2>1
<1>6. quantity'[p] = r.quantity /\ ledger'[p] = ledger[p] \o <<e>>
  <2>1. ledger'[p] = ledger[p] \o session[t].movements[p]
    BY <1>2 DEF Commit
  <2>2. quantity'[p] = Left(session[t].movements[p][Len(session[t].movements[p])])
    BY <1>2, <1>5, CommitRow
  <2>3. ledger'[p] = ledger[p] \o <<e>>
    <3>1. PICK s : s = session[t].movements[p]
      OBVIOUS
    <3>. QED  BY <1>3, <2>1, <3>1
  <2>4. Left(e) = e.after
    BY <1>1, <1>2 DEF Book!InitialEntry, Book!Entry, Left, TypedLedger, SeenPart, CountsSee
  <2>. QED  BY <1>4, <1>5, <2>2, <2>3, <2>4
<1>7. quantity[p] = NONE
  BY <1>1, <1>2, <1>5 DEF SeparateInv, WritesItsProducts
<1>8. quantity' = [quantity EXCEPT ![p] = r.quantity]
  <2>1. /\ quantity' = [q \in Products |-> quantity'[q]]
        /\ quantity \in [Products -> Balances]
    BY DEF Commit, TypedLedger, TypeInv, TypeOK
  <2>2. \A q \in Products \ {p} : quantity'[q] = quantity[q]
    BY <1>1, <1>2, CommitElsewhere
  <2>. QED  BY <1>2, <1>6, <2>1, <2>2
<1>9. ledger' = [ledger EXCEPT ![p] = Append(@, e)]
  <2>1. /\ ledger' = [q \in Products |-> ledger'[q]]
        /\ ledger \in [Products -> Seq(Movements)]
    BY DEF Commit, TypedLedger, TypeInv, TypeOK
  <2>2. \A q \in Products \ {p} : ledger'[q] = ledger[q]
    BY <1>1, <1>2, CommitElsewhere
  <2>3. e \in Movements
    <3>1. session[t].movements[p] \in Seq(Movements)
      BY <1>2 DEF TypedLedger, TypeInv, TypeOK, Sessions
    <3>2. Len(<<e>>) = 1 /\ <<e>>[1] = e
      OBVIOUS
    <3>. QED  BY <1>3, <3>1, <3>2
  <2>4. ledger[p] \in Seq(Movements) /\ ledger[p] \o <<e>> = Append(ledger[p], e)
    BY <1>2, <2>1, <2>3
  <2>. QED  BY <1>2, <1>6, <2>1, <2>2, <2>4
<1>10. outbox' = outbox
  <2>1. ~Calls(p, e)
    BY <1>2, <1>4, ConstantsAssumption DEF Calls, Falls
  <2>2. session[t].events = {}
    BY <1>1, <1>2, <1>3, <2>1, CommitElsewhere, OneAnnouncement DEF SessionsAnnounce
  <2>. QED  BY <2>2 DEF Commit
<1>. QED
  BY <1>1, <1>2, <1>3, <1>7, <1>8, <1>9, <1>10, CommitKeepsOrders DEF Book!CreateStock

\* A count posts nothing if it matches what is on hand, or else one adjustment.
LEMMA CountPosts ==
    ASSUME NEW t, NEW r, r.quantity \in Nat, Book!OnHand(r.product) \in Nat
    PROVE  \/ /\ Book!CountEntries(t, r) = <<>> /\ r.quantity = Book!OnHand(r.product)
           \/ \E e : /\ Book!CountEntries(t, r) = <<e>> /\ e.type = "ADJUSTMENT"
                     /\ e.before = Book!OnHand(r.product) /\ e.after = r.quantity
                     /\ e.by = t
<1>1. PICK before : before = Book!OnHand(r.product)
  OBVIOUS
<1>2. CASE r.quantity > before
  <2>1. Book!CountEntries(t, r)
          = <<Book!Entry(t, "ADJUSTMENT", "IN", r.quantity - before, before, r.quantity)>>
    BY <1>1, <1>2 DEF Book!CountEntries
  <2>. QED  BY <1>1, <2>1 DEF Book!Entry
<1>3. CASE r.quantity < before
  <2>1. ~(r.quantity > before)
    BY <1>1, <1>3
  <2>2. Book!CountEntries(t, r)
          = <<Book!Entry(t, "ADJUSTMENT", "OUT", before - r.quantity, before, r.quantity)>>
    BY <1>1, <1>3, <2>1 DEF Book!CountEntries
  <2>. QED  BY <1>1, <2>2 DEF Book!Entry
<1>4. CASE r.quantity = before
  <2>1. ~(r.quantity > before) /\ ~(r.quantity < before)
    BY <1>4
  <2>2. Book!CountEntries(t, r) = <<>>
    BY <1>1, <2>1 DEF Book!CountEntries
  <2>. QED  BY <1>1, <1>4, <2>2
<1>. QED  BY <1>1, <1>2, <1>3, <1>4

\* The commit of a count does what the book calls Count.
LEMMA CommitCounts ==
    ASSUME TypedLedger, SessionsAnnounce, OrdersHeld, ItemsAgree, SeparateInv, BookInv,
           NEW t \in Txns, Commit(t), req[t] \in CountRequests
    PROVE  Book!Count(t)
<1>1. PICK r, p, entries : r = req[t] /\ p = r.product
                           /\ entries = Book!CountEntries(t, r)
  OBVIOUS
<1>2. r.op = "count" /\ p \in Products /\ r.quantity \in Nat
  BY <1>1 DEF CountRequests
<1>3. /\ session[t].movements[p] = entries
      /\ t \notin overtaken /\ session[t].written[p] = NONE => quantity[p] = r.quantity
      /\ t \in overtaken => session[t].written[p] = NONE
  BY <1>1, <1>2 DEF BookInv, CountBooked, Commit
<1>4. /\ quantity \in [Products -> Balances] /\ ledger \in [Products -> Seq(Movements)]
      /\ entries \in Seq(Movements)
  BY <1>2, <1>3 DEF TypedLedger, TypeInv, TypeOK, Sessions
<1>5. Book!OnHand(p) \in Nat /\ Book!OnHand(p) = OnHand(p)
  BY <1>2, <1>4 DEF Book!OnHand, OnHand, Balances
<1>6. ledger'[p] = ledger[p] \o entries
  <2>1. ledger'[p] = ledger[p] \o session[t].movements[p]
    BY <1>2 DEF Commit
  <2>. QED  BY <1>3, <2>1
<1>7. quantity'[p] = IF session[t].written[p] = NONE THEN quantity[p]
                     ELSE session[t].written[p]
  BY <1>2 DEF Commit
<1>8. /\ entries = <<>> /\ session[t].written[p] # NONE =>
            session[t].written[p] = 0 /\ quantity[p] = NONE
      /\ entries # <<>> /\ t \notin overtaken =>
            session[t].written[p] = entries[Len(entries)].after
  BY <1>2, <1>3 DEF TypedLedger, LedgerPart, SessionsAgree
<1>9. /\ quantity'[p] = IF t \in overtaken THEN quantity[p] ELSE r.quantity
      /\ session[t].events = Book!Announced(t, r)
  <2>1. Announcements(session[t].movements) = session[t].events
    BY DEF SessionsAnnounce
  <2>2. \A q \in Products \ {p} : session[t].movements[q] = <<>>
    BY <1>1, <1>2, CommitElsewhere
  <2>3. CASE entries = <<>> /\ r.quantity = Book!OnHand(p)
    <3>1. quantity'[p] = IF t \in overtaken THEN quantity[p] ELSE r.quantity
      BY <1>3, <1>7, <1>8, <2>3 DEF Book!OnHand
    <3>2. session[t].events = {}
      BY <1>2, <1>3, <2>1, <2>2, <2>3, OneAnnouncement
    <3>3. ~(Book!OnHand(p) > ReorderPoint[p] /\ ReorderPoint[p] >= r.quantity)
      BY <1>2, <2>3, ConstantsAssumption
    <3>. QED  BY <1>1, <3>1, <3>2, <3>3 DEF Book!Announced
  <2>4. ASSUME NEW e, entries = <<e>>, e.type = "ADJUSTMENT",
               e.before = Book!OnHand(p), e.after = r.quantity, e.by = t
        PROVE  /\ quantity'[p] = IF t \in overtaken THEN quantity[p] ELSE r.quantity
               /\ session[t].events = Book!Announced(t, r)
    <3>1. entries # <<>> /\ entries[Len(entries)] = e
      <4>1. <<e>> # <<>> /\ Len(<<e>>) = 1 /\ <<e>>[1] = e
        OBVIOUS
      <4>. QED  BY <2>4, <4>1
    <3>2. quantity'[p] = IF t \in overtaken THEN quantity[p] ELSE r.quantity
      BY <1>2, <1>3, <1>7, <1>8, <2>4, <3>1, NoneAssumption
    <3>3. session[t].events = IF Calls(p, e) THEN {Row(p, e)} ELSE {}
      BY <1>2, <1>3, <2>1, <2>2, <2>4, OneAnnouncement
    <3>4. /\ Calls(p, e) <=> Book!OnHand(p) > ReorderPoint[p] /\ ReorderPoint[p] >= r.quantity
          /\ Row(p, e) = [product |-> p, quantity |-> r.quantity, by |-> t]
      BY <2>4 DEF Calls, Falls, Row
    <3>. QED  BY <1>1, <3>2, <3>3, <3>4 DEF Book!Announced
  <2>. QED  BY <1>1, <1>2, <1>5, <2>3, <2>4, CountPosts
<1>10. quantity' = [quantity EXCEPT ![p] = IF t \in overtaken THEN @ ELSE r.quantity]
  <2>1. quantity' = [q \in Products |-> quantity'[q]]
    BY DEF Commit
  <2>2. \A q \in Products \ {p} : quantity'[q] = quantity[q]
    BY <1>1, <1>2, CommitElsewhere
  <2>. QED  BY <1>2, <1>4, <1>9, <2>1, <2>2
<1>11. ledger' = [ledger EXCEPT ![p] = @ \o entries]
  <2>1. ledger' = [q \in Products |-> ledger'[q]]
    BY DEF Commit
  <2>2. \A q \in Products \ {p} : ledger'[q] = ledger[q]
    BY <1>1, <1>2, CommitElsewhere
  <2>. QED  BY <1>2, <1>4, <1>6, <2>1, <2>2
<1>12. outbox' = outbox \cup Book!Announced(t, r)
  BY <1>9 DEF Commit
<1>. QED
  BY <1>1, <1>2, <1>10, <1>11, <1>12, CommitKeepsOrders DEF Book!Count

\* The commit of a delivery does what the book calls Deliver.
LEMMA CommitDelivers ==
    ASSUME TypedLedger, SessionsAnnounce, OrdersHeld, ItemsAgree, SeparateInv, BookInv,
           NEW t \in Txns, Commit(t), req[t] \in ReceiveRequests
    PROVE  Book!Deliver(t)
<1>1. PICK r, lines, o, s : r = req[t] /\ lines = r.lines /\ o = r.order /\ s = session[t]
  OBVIOUS
<1>2. /\ r.op = "receive" /\ o \in Orders /\ lines \in Seq(Lines) /\ Receiving(t)
      /\ pc[t] = "commit"
  BY <1>1 DEF ReceiveRequests, Commit, Receiving
<1>3. /\ s.todo = <<>> /\ status[o] \notin {"RECEIVED", "CANCELLED", "DRAFT"}
      /\ s.status = (IF FullyReceived(t) THEN "RECEIVED" ELSE status[o])
      /\ Processed(t) = Len(lines) /\ LinesBooked(t, lines, Len(lines), s)
  <2>1. DeliveryBooked(t)
    BY DEF BookInv
  <2>2. /\ s.todo = <<>> /\ status[o] \notin {"RECEIVED", "CANCELLED", "DRAFT"}
        /\ s.status = (IF FullyReceived(t) THEN "RECEIVED" ELSE status[o])
        /\ LinesBooked(t, lines, Processed(t), s)
    BY <1>1, <1>2, <2>1 DEF DeliveryBooked
  <2>3. Processed(t) = Len(lines)
    <3>1. Len(s.todo) = 0 /\ Len(lines) \in Nat
      BY <1>2, <2>2
    <3>. QED  BY <1>1, <3>1 DEF Processed
  <2>. QED  BY <2>2, <2>3
<1>4. /\ s.submitted = {lines[j].item : j \in 1..Len(lines)}
      /\ \A j, k \in 1..Len(lines) : lines[j].item = lines[k].item => j = k
      /\ \A j \in 1..Len(lines) : s.received[lines[j].item] =
                                      received[lines[j].item] + lines[j].quantity
      /\ \A p \in Products : /\ Book!ListsLines(s.movements[p], lines, Len(lines), p)
                             /\ Book!ReceiptsFrom(t, s.movements[p], OnHand(p))
                             /\ s.movements[p] = <<>> => s.written[p] = NONE
  BY <1>3 DEF LinesBooked
<1>5. /\ s.submitted \subseteq ItemsOf(o)
      /\ \A i \in ItemsOf(o) : /\ s.received[i] <= Requested[i]
                               /\ i \notin s.submitted => s.received[i] = received[i]
  BY <1>1, <1>2 DEF ItemsAgree
<1>6. \A i \in Items : received'[i] = IF i \in s.submitted THEN s.received[i]
                                      ELSE received[i]
  BY <1>1 DEF Commit
<1>7. Book!Receivable(r)
  <2>1. ASSUME NEW j \in 1..Len(lines)
        PROVE  /\ OrderOf[lines[j].item] = o
               /\ received[lines[j].item] + lines[j].quantity <= Requested[lines[j].item]
               /\ \A k \in 1..Len(lines) : lines[k].item = lines[j].item => k = j
    <3>1. lines[j].item \in s.submitted /\ lines[j].item \in ItemsOf(o)
      BY <1>4, <1>5
    <3>. QED  BY <1>4, <1>5, <3>1 DEF ItemsOf
  <2>. QED  BY <1>1, <1>3, <2>1 DEF Book!Receivable
<1>8. ASSUME NEW p \in Products
      PROVE  /\ Book!Added(p) = s.movements[p]
             /\ ledger'[p] = ledger[p] \o s.movements[p]
             /\ quantity'[p] = IF s.movements[p] = <<>> THEN quantity[p]
                               ELSE s.movements[p][Len(s.movements[p])].after
  <2>1. ledger'[p] = ledger[p] \o s.movements[p]
    BY <1>1 DEF Commit
  <2>2. ledger[p] \in Seq(Movements) /\ s.movements[p] \in Seq(Movements)
    BY <1>1 DEF TypedLedger, TypeInv, TypeOK, Sessions
  <2>3. Book!Added(p) = s.movements[p]
    BY <2>1, <2>2, SuffixOfConcat DEF Book!Added
  <2>4. quantity'[p] = IF s.written[p] = NONE THEN quantity[p] ELSE s.written[p]
    BY <1>1 DEF Commit
  <2>5. s.movements[p] # <<>> => quantity'[p] = s.movements[p][Len(s.movements[p])].after
    <3>1. t \notin overtaken
      BY <1>1, <1>2 DEF TypedLedger, SeenPart, CountsSee
    <3>2. ASSUME s.movements[p] # <<>>
          PROVE  s.written[p] = s.movements[p][Len(s.movements[p])].after
                 /\ s.written[p] # NONE
      <4> DEFINE ms == s.movements[p]
      <4>1. s.written[p] = ms[Len(ms)].after
        BY <1>1, <3>1, <3>2 DEF TypedLedger, LedgerPart, SessionsAgree
      <4>2. Len(ms) \in 1..Len(ms)
        BY <2>2, <3>2
      <4> HIDE DEF ms
      <4>3. ms[Len(ms)] \in Movements
        BY <2>2, <4>2 DEF ms
      <4>4. ms[Len(ms)].after # NONE
        BY <4>3, NoneAssumption DEF Movements
      <4>. QED  BY <4>1, <4>4 DEF ms
    <3>. QED  BY <2>4, <3>2
  <2>. QED  BY <1>4, <2>1, <2>3, <2>4, <2>5
<1>9. ASSUME NEW p \in Products
      PROVE  /\ ledger'[p] = ledger[p] \o Book!Added(p)
             /\ Book!ListsLines(Book!Added(p), lines, Len(lines), p)
             /\ Book!ReceiptsFrom(t, Book!Added(p), Book!OnHand(p))
             /\ quantity'[p] = IF Book!Added(p) = <<>> THEN quantity[p]
                               ELSE Book!Added(p)[Len(Book!Added(p))].after
  <2>1. Book!OnHand(p) = OnHand(p)
    BY DEF Book!OnHand, OnHand
  <2>. QED  BY <1>4, <1>8, <2>1
<1>10. ASSUME NEW j \in 1..Len(lines)
       PROVE  received'[lines[j].item] = received[lines[j].item] + lines[j].quantity
  <2>1. lines[j].item \in s.submitted /\ lines[j].item \in Items
    BY <1>4, <1>5 DEF ItemsOf
  <2>. QED  BY <1>4, <1>6, <2>1
<1>11. ASSUME NEW i \in Items, \A j \in 1..Len(lines) : lines[j].item # i
       PROVE  received'[i] = received[i]
  BY <1>4, <1>6, <1>11
<1>12. FullyReceived(t) <=> \A i \in Items : OrderOf[i] = o => received'[i] >= Requested[i]
  <2>1. \A i \in ItemsOf(o) : received'[i] = s.received[i]
    BY <1>5, <1>6 DEF ItemsOf
  <2>. QED  BY <1>1, <2>1 DEF FullyReceived, ItemsOf
<1>13. status' = [status EXCEPT ![o] =
           IF \A i \in Items : OrderOf[i] = o => received'[i] >= Requested[i]
           THEN "RECEIVED" ELSE @]
  <2>1. status' = [x \in Orders |-> IF orderLock[x] = t THEN s.status ELSE status[x]]
    BY <1>1 DEF Commit
  <2>2. \A x \in Orders : orderLock[x] = t <=> x = o
    BY <1>1, <1>2 DEF OrdersHeld
  <2>3. status \in [Orders -> Statuses]
    BY DEF TypedLedger, TypeInv, TypeOK
  <2>4. status' = [status EXCEPT ![o] = IF FullyReceived(t) THEN "RECEIVED" ELSE @]
    BY <1>2, <1>3, <2>1, <2>2, <2>3
  <2>. QED  BY <1>12, <2>4
<1>14. outbox' = outbox
  <2>1. ASSUME NEW e \in Announcements(s.movements) PROVE FALSE
    <3>0. PICK p \in Products : \E k \in 1..Len(s.movements[p]) :
             Calls(p, s.movements[p][k]) /\ e = Row(p, s.movements[p][k])
      BY <2>1, AnnouncementElements
    <3>1. PICK k \in 1..Len(s.movements[p]) : Calls(p, s.movements[p][k])
      BY <3>0
    <3>2. s.movements[p][k].type = "RECEIPT"
      BY <1>1, <1>2, <3>1 DEF SeparateInv, ContinuesLedger
    <3>. QED  BY <3>1, <3>2 DEF Calls
  <2>2. s.events = {}
    BY <1>1, <2>1 DEF SessionsAnnounce
  <2>. QED  BY <1>1, <2>2 DEF Commit
<1>. QED
  BY <1>1, <1>7, <1>9, <1>10, <1>11, <1>13, <1>14 DEF Book!Deliver

\* A commit carries out its request in one step.
LEMMA CommitDoes ==
    ASSUME TypedLedger, SessionsAnnounce, OrdersHeld, ItemsAgree, Sent, SeparateInv,
           BookInv, NEW t \in Txns, Commit(t)
    PROVE  Book!Do(t)
<1>1. /\ pc[t] = "commit" /\ req[t] \in Requests /\ req' = req
      /\ req[t] \in CreateRequests \cup CountRequests \cup ReceiveRequests
  BY DEF Commit, Sent, TypedLedger, TypeInv, RequestFits
<1>2. Answers[t] = "none" /\ Answers' = [Answers EXCEPT ![t] = "done"]
  BY <1>1, GotoAnswers DEF Answers, Answer, Commit, TypedLedger
<1>3. \/ req[t].op = "create" /\ Book!CreateStock(t)
      \/ req[t].op = "count" /\ Book!Count(t)
      \/ req[t].op = "receive" /\ Book!Deliver(t)
  BY <1>1, CommitCreates, CommitCounts, CommitDelivers
     DEF CreateRequests, CountRequests, ReceiveRequests
<1>4. \E late \in SUBSET Book!TakenFrom : overtaken' = overtaken \cup late
  <2>1. ASSUME NEW u \in Overtakes(t) \ overtaken PROVE u \in Book!TakenFrom
    <3>1. /\ u \in Txns /\ pc[u] = "count_lock"
          /\ session[u].snapshot[req[u].product] = req[u].quantity
          /\ session[t].written[req[u].product] \notin {NONE, req[u].quantity}
      BY DEF Overtakes
    <3>2. req[u] \in CountRequests /\ req[u] \in Requests /\ Answers[u] = "none"
      BY <3>1 DEF TypedLedger, TypeInv, RequestFits, Sent, Answers, Answer
    <3>3. req[u].op = "count" /\ req[u].product \in Products
      BY <3>2 DEF CountRequests
    <3>4. quantity[req[u].product] = req[u].quantity
      BY <3>1 DEF TypedLedger, SeenPart, CountsSee, CountSees
    <3>5. quantity'[req[u].product] # req[u].quantity
      BY <3>1, <3>3 DEF Commit
    <3>. QED  BY <3>1, <3>2, <3>3, <3>4, <3>5 DEF Book!TakenFrom, Book!Waits, Answers
  <2>2. overtaken' = overtaken \cup (Overtakes(t) \ overtaken)
    BY DEF Commit
  <2>. QED  BY <2>1, <2>2
<1>. QED  BY <1>1, <1>2, <1>3, <1>4 DEF Book!Do, Book!Waits, Answers

\* A request that is rolled back is refused; the other steps are not seen.
LEMMA StepRefuses ==
    ASSUME TypedLedger, Sent, BookInv, NEW t \in Txns, Step(t), ~Commit(t), ~EditSave(t)
    PROVE  \/ Book!Ask(t) \/ Book!Refuse(t)
           \/ UNCHANGED <<quantity, ledger, received, status, outbox, req, Answers,
                          overtaken>>
<1>0. TypeInv /\ pc \in [Txns -> Labels]
  BY DEF TypedLedger, TypeInv, TypeOK
<1>1. CASE Begin(t)
  <2>1. PICK r \in Requests : req' = [req EXCEPT ![t] = r] /\ Goto(t, FirstStep[r.op])
    BY <1>1 DEF Begin
  <2>2. FirstStep[r.op] \in {"create_check", "count_read", "receive_lock", "edit_load"}
    BY ConstantsAssumption
       DEF FirstStep, CreateRequests, CountRequests, ReceiveRequests, EditRequests
  <2>3. Answers' = [Answers EXCEPT ![t] = "none"]
    BY <1>0, <2>1, <2>2, GotoAnswers
  <2>4. Answers[t] = "none" /\ req[t] = NONE
    BY <1>1 DEF Begin, Answers, Answer, BookInv
  <2>5. Answers' = Answers
    BY <2>3, <2>4 DEF Answers
  <2>. QED  BY <1>1, <2>1, <2>4, <2>5 DEF Begin, Book!Ask, Book!tables, Answers
<1>2. ASSUME NEW answer \in {"rejected", "failed"}, Rollback(t, answer),
             pc[t] \notin Ended \cup {"idle"}
      PROVE  Book!Refuse(t)
  <2>1. Answers[t] = "none" /\ req[t] \in Requests
    BY <1>2 DEF Answers, Answer, Sent, Ended
  <2>2. Answers' = [Answers EXCEPT ![t] = "refused"]
    BY <1>0, <1>2, GotoAnswers DEF Rollback
  <2>. QED  BY <1>2, <2>1, <2>2 DEF Rollback, Book!Refuse, Book!Waits, Book!tables,
     Answers
<1>3. ASSUME NEW label \in Labels \ Ended, Goto(t, label), pc[t] \notin Ended,
             UNCHANGED <<quantity, ledger, received, status, outbox, req, overtaken>>
      PROVE  UNCHANGED <<quantity, ledger, received, status, outbox, req, Answers, overtaken>>
  <2>1. Answers' = [Answers EXCEPT ![t] = "none"]
    BY <1>0, <1>3, GotoAnswers DEF Ended
  <2>2. Answers[t] = "none"
    BY <1>3 DEF Answers, Answer, Ended
  <2>. QED  BY <1>3, <2>1, <2>2 DEF Answers
<1>4. CASE DeadlockVictim(t) \/ Fail(t)
  <2>1. pc[t] \notin Ended \cup {"idle"}
    BY <1>4 DEF DeadlockVictim, Deadlocked, WaitsFor, Fail, Ended
  <2>. QED  BY <1>2, <1>4, <2>1 DEF DeadlockVictim, Fail
<1>5. CASE CreateCheck(t) \/ CreateSave(t)
  BY <1>2, <1>3, <1>5 DEF CreateCheck, CreateSave, Ended, Labels
<1>6. CASE CountRead(t) \/ CountLock(t) \/ CountInsert(t) \/ CountSave(t)
  BY <1>2, <1>3, <1>6 DEF CountRead, CountLock, CountInsert, CountSave, Ended, Labels
<1>7. CASE ReceiveLock(t) \/ ReceiveLine(t)
  BY <1>2, <1>3, <1>7 DEF ReceiveLock, ReceiveLine, Ended, Labels
<1>8. CASE ReceiveSave(t) \/ ReceiveFinish(t)
  BY <1>2, <1>3, <1>8 DEF ReceiveSave, ReceiveFinish, Ended, Labels
<1>9. CASE EditLoad(t)
  BY <1>2, <1>3, <1>9 DEF EditLoad, Ended, Labels
<1>. QED  BY <1>1, <1>4, <1>5, <1>6, <1>7, <1>8, <1>9 DEF Step, Handle

\* Where no product is delivered that is also counted or delivered on another
\* order, and no header is edited, requests that interleave, fail and are rolled
\* back change stocks and orders as if they were carried out one at a time, where a
\* count may leave the balance as it is if another request took away the balance it
\* asks for while it waited (stock.service.ts:52-301, purchase_orders.service.ts:477-700).
THEOREM RequestsAreSerial ==
    ASSUME Separated(Requests), NoEdits(Requests)
    PROVE  Spec => ImplementsStockBook
<1>1. Init => Book!Init
  BY InitialBook
<1>2. LedgerInv /\ ReceivingInv /\ OutboxInv /\ Sent /\ SeparateInv /\ BookInv /\ [Next]_vars
        => [Book!Next]_<<Book!tables, req, [t \in Txns |-> Answer(t)], overtaken>>
  <2> SUFFICES ASSUME LedgerInv, ReceivingInv, OutboxInv, Sent, SeparateInv, BookInv,
                      [Next]_vars
               PROVE  \/ Book!Next
                      \/ UNCHANGED <<quantity, ledger, received, status, outbox, req,
                                     Answers, overtaken>>
    BY DEF Answers, Book!tables
  <2>1. TypedLedger /\ SessionsAnnounce /\ OrdersHeld /\ ItemsAgree
    BY DEF LedgerInv, ReceivingInv, TypedLedger, LedgerPart, SeenPart, TypeInv,
       OutboxInv
  <2>2. ASSUME NEW t \in Txns, Step(t)
        PROVE  \/ Book!Next
               \/ UNCHANGED <<quantity, ledger, received, status, outbox, req, Answers,
                          overtaken>>
    <3>1. ~EditSave(t)
      BY <2>1, NobodyEdits DEF TypedLedger
    <3>. QED  BY <2>1, <2>2, <3>1, CommitDoes, StepRefuses DEF Book!Next
  <2>3. CASE UNCHANGED vars
    BY <2>3 DEF vars, Answers, Answer
  <2>. QED  BY <2>2, <2>3 DEF Next, Quiescent, Step
<1>. QED
  BY <1>1, <1>2, LedgerInvariant, ReceivingInvariant, OutboxInvariant, AlwaysSent,
     AlwaysSeparate, AlwaysBooked, PTL
     DEF Spec, ImplementsStockBook, Book!Spec

=============================================================================
