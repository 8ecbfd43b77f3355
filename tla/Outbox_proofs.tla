---------------------------- MODULE Outbox_proofs ----------------------------
(***************************************************************************)
(* What holds of Outbox for any number of events, users, instances, cycles *)
(* and faults: attempts are bounded, notifications are unique and          *)
(* committed before they are emitted, only swallowed rejections lose those  *)
(* of a PUBLISHED event, and the outbox implements Announcements.          *)
(***************************************************************************)
EXTENDS Outbox, TLAPS

USE ConstantsAssumption, NoneAssumption DEF NoFault

-----------------------------------------------------------------------------
(* Initial states                                                          *)

\* A cycle that has loaded nothing is a cycle.
LEMMA EmptyCycleTyped == EmptyCycle \in CycleStates
  BY DEF EmptyCycle, CycleStates, Absent, Rows, Statuses

\* With no event, no notification and no cycle under way the invariant holds.
LEMMA InitInv == Init => OutboxInv
<1> SUFFICES ASSUME Init PROVE OutboxInv
  OBVIOUS
<1>1. TypeOK
  <2>1. Absent \in Rows
    BY DEF Absent, Rows, Statuses
  <2>. QED  BY <2>1, EmptyCycleTyped DEF Init, TypeOK, Labels
<1>2. CyclesFit /\ InsertsApart
  BY DEF Init, CyclesFit, InsertsApart, BatchFits, HandlerFits, EmptyCycle
<1>3. NotifiedOnce /\ EmittedWasPersisted /\ RetriesAreBounded /\ UnnotifiedWasSwallowed
  BY DEF Init, NotifiedOnce, EmittedWasPersisted, RetriesAreBounded,
         UnnotifiedWasSwallowed, Absent
<1>. QED  BY <1>1, <1>2, <1>3 DEF OutboxInv

-----------------------------------------------------------------------------
(* What one step of a cycle leaves alone                                   *)

\* The steps of c change no other cycle, forget no recorded event and take back no
\* notification.
Own(c) ==
    /\ \A d \in Cycles \ {c} : pc'[d] = pc[d] /\ cycle'[d] = cycle[d]
    /\ Recorded \subseteq Recorded' /\ swallowed \subseteq swallowed'
    /\ \A x \in Pairs : notified[x] > 0 => notified'[x] > 0

\* The other cycles still fit, if the notifications they have inserted are still
\* missing.
LEMMA OthersFit ==
    ASSUME TypeOK, CyclesFit, NEW c \in Cycles, Own(c), NEW d \in Cycles \ {c},
           \A u \in cycle[d].inserted : notified'[<<cycle[d].at, u>>] = 0
    PROVE  BatchFits(d)' /\ HandlerFits(d)'
<1>1. pc'[d] = pc[d] /\ cycle'[d] = cycle[d]
  BY DEF Own
<1>2. BatchFits(d) /\ HandlerFits(d)
  BY DEF CyclesFit
<1>3. BatchFits(d)'
  BY <1>1, <1>2 DEF BatchFits, Own
<1>4. cycle[d].snapshot \subseteq Pairs
  BY DEF TypeOK, CycleStates
<1>5. ASSUME pc[d] \in {"notify", "emit", "publish"},
             NEW u \in Recipients[cycle[d].at], notified[<<cycle[d].at, u>>] > 0
      PROVE  notified'[<<cycle[d].at, u>>] > 0
  <2>1. cycle[d].at \in Events
    BY <1>2, <1>5 DEF BatchFits, TypeOK, CycleStates
  <2>2. <<cycle[d].at, u>> \in Pairs
    BY <1>5, <2>1 DEF Pairs
  <2>. QED  BY <1>5, <2>2 DEF Own
<1>6. pc[d] \in {"emit", "publish"} /\ Notified(cycle[d].at) => Notified(cycle[d].at)'
  BY <1>1, <1>5 DEF Notified
<1>7. HandlerFits(d)'
  <2>1. pc'[d] # "notify" => cycle'[d].inserted = {}
    BY <1>1, <1>2 DEF HandlerFits
  <2>2. \A u \in cycle'[d].inserted : notified'[<<cycle'[d].at, u>>] = 0
    BY <1>1
  <2>3. \A x \in cycle'[d].snapshot : notified'[x] > 0
    BY <1>1, <1>2, <1>4 DEF HandlerFits, Own
  <2>4. pc'[d] = "notify" =>
            /\ cycle'[d].todo \cup cycle'[d].inserted \subseteq Recipients[cycle'[d].at]
            /\ \A u \in Recipients[cycle'[d].at]
                            \ (cycle'[d].todo \cup cycle'[d].inserted) :
                    notified'[<<cycle'[d].at, u>>] > 0
    BY <1>1, <1>2, <1>5 DEF HandlerFits
  <2>5. pc'[d] = "emit" => Notified(cycle[d].at)'
    BY <1>1, <1>2, <1>6 DEF HandlerFits, Notified
  <2>6. pc'[d] = "publish" => Notified(cycle[d].at)' \/ cycle'[d].at \in swallowed'
    <3>1. swallowed \subseteq swallowed'
      BY DEF Own
    <3>. QED  BY <1>1, <1>2, <1>6, <3>1 DEF HandlerFits
  <2>. QED  BY <2>1, <2>2, <2>3, <2>4, <2>5, <2>6 DEF HandlerFits
<1>. QED  BY <1>3, <1>7

\* A step of c that changes no notification and leaves it without inserted ones
\* keeps the invariant, if c still fits and the rows keep their bounds.
LEMMA CycleStep ==
    ASSUME OutboxInv, NEW c \in Cycles, Own(c), UNCHANGED notified, TypeOK',
           cycle'[c].inserted = {}, BatchFits(c)', HandlerFits(c)',
           EmittedWasPersisted', RetriesAreBounded',
           UnnotifiedWasSwallowed'
    PROVE  OutboxInv'
<1>1. ASSUME NEW d \in Cycles PROVE BatchFits(d)' /\ HandlerFits(d)'
  <2>1. CASE d = c
    BY <2>1
  <2>2. CASE d # c
    BY <2>2, OthersFit DEF OutboxInv, CyclesFit, HandlerFits
  <2>. QED  BY <2>1, <2>2
<1>2. ASSUME NEW d \in Cycles, NEW f \in Cycles \ {d}, NEW u \in cycle'[d].inserted
      PROVE  ~(cycle'[f].at = cycle'[d].at /\ u \in cycle'[f].inserted)
  <2>1. d # c /\ cycle'[d] = cycle[d]
    BY <1>2 DEF Own
  <2>2. CASE f = c
    BY <2>2 DEF HeldBy
  <2>3. CASE f # c
    <3>1. cycle'[f] = cycle[f]
      BY <2>3 DEF Own
    <3>. QED  BY <1>2, <2>1, <3>1 DEF OutboxInv, InsertsApart, HeldBy
  <2>. QED  BY <2>2, <2>3
<1>3. CyclesFit' /\ InsertsApart'
  BY <1>1, <1>2 DEF CyclesFit, InsertsApart, HeldBy
<1>4. NotifiedOnce'
  BY DEF OutboxInv, NotifiedOnce, Pairs
<1>. QED  BY <1>3, <1>4 DEF OutboxInv

\* A step of c that changes nothing but its label and its cycle keeps the
\* invariant, if c is typed and fits.
LEMMA QuietStep ==
    ASSUME OutboxInv, NEW c \in Cycles, NEW s \in CycleStates, NEW label \in Labels,
           UNCHANGED <<row, notified, emitted>>,
           swallowed \subseteq swallowed', swallowed' \subseteq Events,
           isRunning' \in [Instances -> BOOLEAN], faults' \in 0..MaxFaults,
           Goto(c, label), cycle' = [cycle EXCEPT ![c] = s],
           s.inserted = {}, BatchFits(c)', HandlerFits(c)'
    PROVE  OutboxInv'
<1>1. TypeOK'
  BY DEF OutboxInv, TypeOK, Goto
<1>2. Own(c)
  BY DEF OutboxInv, TypeOK, Goto, Own, Recorded
<1>3. cycle'[c].inserted = {}
  BY DEF OutboxInv, TypeOK
<1>4. EmittedWasPersisted' /\ RetriesAreBounded' /\ UnnotifiedWasSwallowed'
  BY DEF OutboxInv, EmittedWasPersisted, RetriesAreBounded, UnnotifiedWasSwallowed, Notified
<1>. QED  BY <1>1, <1>2, <1>3, <1>4, CycleStep

\* A fault counts as one.
LEMMA FaultTyped ==
    ASSUME TypeOK, NEW kind, Fault(kind)
    PROVE  faults' \in 0..MaxFaults
  BY DEF TypeOK, Fault

-----------------------------------------------------------------------------
(* The polling cycle                                                       *)

\* The firing of the interval starts an empty cycle.
LEMMA TickInv == ASSUME OutboxInv, NEW c \in Cycles, Tick(c) PROVE OutboxInv'
<1>1. TypeOK /\ BatchFits(c) /\ HandlerFits(c)
  BY DEF OutboxInv, CyclesFit
<1>2. cycle[c] = EmptyCycle /\ cycle[c] \in CycleStates
  BY <1>1 DEF Tick, BatchFits, TypeOK
<1>3. isRunning' \in [Instances -> BOOLEAN] /\ faults' \in 0..MaxFaults
  BY <1>1 DEF Tick, TypeOK
<1>4. cycle' = [cycle EXCEPT ![c] = cycle[c]] /\ pc'[c] = "find"
  BY <1>1 DEF Tick, TypeOK, Goto
<1>5. BatchFits(c)' /\ HandlerFits(c)'
  BY <1>2, <1>4 DEF Tick, BatchFits, HandlerFits, EmptyCycle
<1>6. cycle[c].inserted = {}
  BY <1>2 DEF EmptyCycle
<1>7. "find" \in Labels /\ Goto(c, "find") /\ UNCHANGED <<row, notified, emitted>>
      /\ swallowed \subseteq swallowed' /\ swallowed' \subseteq Events
  BY <1>1 DEF Tick, Labels, TypeOK
<1>. QED  BY <1>2, <1>3, <1>4, <1>5, <1>6, <1>7, QuietStep

\* The end of a cycle forgets what it has loaded.
LEMMA FinishInv ==
    ASSUME OutboxInv, NEW c \in Cycles, Finish(c), faults' \in 0..MaxFaults
    PROVE  OutboxInv'
<1>1. TypeOK
  BY DEF OutboxInv
<1>2. isRunning' \in [Instances -> BOOLEAN]
  BY <1>1 DEF Finish, TypeOK
<1>3. cycle'[c] = EmptyCycle /\ pc'[c] = "idle"
  BY <1>1 DEF Finish, TypeOK, Goto
<1>4. BatchFits(c)' /\ HandlerFits(c)'
  BY <1>3 DEF BatchFits, HandlerFits, EmptyCycle
<1>5. swallowed \subseteq swallowed' /\ swallowed' \subseteq Events
  BY <1>1 DEF Finish, TypeOK
<1>6. /\ "idle" \in Labels /\ EmptyCycle.inserted = {}
      /\ UNCHANGED <<row, notified, emitted>> /\ Goto(c, "idle")
      /\ cycle' = [cycle EXCEPT ![c] = EmptyCycle]
  BY DEF Finish, Labels, EmptyCycle
<1>. QED  BY <1>2, <1>4, <1>5, <1>6, EmptyCycleTyped, QuietStep

\* A poll loads rows that wait, with attempts left.
LEMMA FindInv == ASSUME OutboxInv, NEW c \in Cycles, Find(c) PROVE OutboxInv'
<1>1. TypeOK /\ BatchFits(c) /\ RetriesAreBounded
  BY DEF OutboxInv, CyclesFit
<1>2. faults' \in 0..MaxFaults
  BY <1>1 DEF Find, TypeOK
<1>3. PICK B \in Batches :
        \/ B = {} /\ Finish(c)
        \/ /\ B # {}
           /\ cycle' = [cycle EXCEPT ![c].batch = B, ![c].copy = row]
           /\ Goto(c, "next")
           /\ UNCHANGED <<row, notified, emitted, isRunning, swallowed>>
  BY DEF Find
<1>4. CASE Finish(c)
  BY <1>2, <1>4, FinishInv
<1>5. CASE /\ cycle' = [cycle EXCEPT ![c].batch = B, ![c].copy = row]
           /\ Goto(c, "next")
           /\ UNCHANGED <<row, notified, emitted, isRunning, swallowed>>
  <2> DEFINE s == [cycle[c] EXCEPT !.batch = B, !.copy = row]
  <2>1. cycle[c] = EmptyCycle
    BY <1>1 DEF Find, BatchFits
  <2>2. \A e \in B : e \in Events /\ row[e].status = "PENDING"
    BY DEF Batches, Eligible
  <2>9. cycle[c].inserted = {} /\ cycle[c].snapshot = {} /\ cycle[c].at = NONE
    BY <2>1 DEF EmptyCycle
  <2>10. cycle[c] \in CycleStates /\ row \in [Events -> Rows] /\ B \subseteq Events
    BY <1>1, <2>2 DEF TypeOK
  <2>3. s \in CycleStates /\ s.inserted = {} /\ s.snapshot = {}
        /\ s.at = NONE /\ s.batch = B /\ s.copy = row
    BY <2>9, <2>10 DEF CycleStates
  <2>4. cycle' = [cycle EXCEPT ![c] = s]
    BY <1>5
  <2>5. cycle'[c] = s /\ pc'[c] = "next"
    BY <1>1, <1>5, <2>4 DEF TypeOK, Goto
  <2> HIDE DEF s
  <2>6. BatchFits(c)'
    BY <1>1, <1>5, <2>2, <2>3, <2>5 DEF BatchFits, Recorded, RetriesAreBounded
  <2>7. HandlerFits(c)'
    BY <2>3, <2>5 DEF HandlerFits
  <2>8. /\ "next" \in Labels /\ isRunning' \in [Instances -> BOOLEAN]
        /\ swallowed \subseteq swallowed' /\ swallowed' \subseteq Events
    BY <1>1, <1>5 DEF Labels, TypeOK
  <2>. QED  BY <1>2, <1>5, <2>3, <2>4, <2>6, <2>7, <2>8, QuietStep
<1>. QED  BY <1>3, <1>4, <1>5

-----------------------------------------------------------------------------
(* An event                                                                *)

\* An event without a listener fails without being claimed.
LEMMA NoListenerInv == ASSUME OutboxInv, NEW c \in Cycles, NoListener(c) PROVE OutboxInv'
<1>1. TypeOK /\ BatchFits(c) /\ HandlerFits(c)
  BY DEF OutboxInv, CyclesFit
<1>2. PICK e \in cycle[c].batch : cycle' = [cycle EXCEPT ![c].at = e]
  BY DEF NoListener, Oldest
<1> DEFINE s == [cycle[c] EXCEPT !.at = e]
<1>3. cycle[c] \in CycleStates /\ e \in Events
  BY <1>1 DEF TypeOK, CycleStates
<1>4. s \in CycleStates /\ s.inserted = {} /\ s.at = e
      /\ s.batch = cycle[c].batch /\ s.copy = cycle[c].copy
      /\ s.snapshot = cycle[c].snapshot
  BY <1>1, <1>3 DEF CycleStates, HandlerFits, NoListener
<1>5. cycle' = [cycle EXCEPT ![c] = s]
  BY <1>2
<1>6. cycle'[c] = s /\ pc'[c] = "failure"
  BY <1>1, <1>5 DEF TypeOK, Goto, NoListener
<1> HIDE DEF s
<1>7. BatchFits(c)'
  BY <1>1, <1>4, <1>6 DEF BatchFits, NoListener, Recorded
<1>8. HandlerFits(c)'
  BY <1>1, <1>4, <1>6 DEF HandlerFits, NoListener
<1>. QED  BY <1>1, <1>4, <1>5, <1>7, <1>8, QuietStep DEF NoListener, Labels, TypeOK

\* A row that becomes w, at the event c has at hand, keeps the bounds of the rows
\* if w does.
LEMMA RowStep ==
    ASSUME OutboxInv, NEW e \in Events, NEW w \in Rows, e \in Recorded,
           row' = [row EXCEPT ![e] = w], UNCHANGED <<notified, emitted, swallowed>>,
           w.status # "ABSENT",
           w.status = "PENDING" => w.attempts < MaxAttempts,
           w.status = "FAILED" => w.attempts = MaxAttempts,
           w.status = "PUBLISHED" => Notified(e) \/ e \in swallowed
    PROVE  /\ row' \in [Events -> Rows] /\ Recorded' = Recorded
           /\ EmittedWasPersisted' /\ RetriesAreBounded'
           /\ UnnotifiedWasSwallowed'
<1>1. row \in [Events -> Rows]
  BY DEF OutboxInv, TypeOK
<1>2. row' \in [Events -> Rows] /\ row'[e] = w
      /\ \A f \in Events \ {e} : row'[f] = row[f]
  BY <1>1
<1>3. Recorded' = Recorded
  BY <1>2 DEF Recorded
<1>4. EmittedWasPersisted' /\ RetriesAreBounded'
  BY <1>2 DEF OutboxInv, EmittedWasPersisted, RetriesAreBounded
<1>5. UnnotifiedWasSwallowed'
  BY <1>2 DEF OutboxInv, UnnotifiedWasSwallowed, Notified
<1>. QED  BY <1>2, <1>3, <1>4, <1>5

\* A step of c that saves a row, or fails to, and changes no notification.
LEMMA SaveStep ==
    ASSUME OutboxInv, NEW c \in Cycles, NEW s \in CycleStates, NEW label \in Labels,
           NEW e \in Recorded, NEW w \in Rows,
           row' = [row EXCEPT ![e] = w] \/ row' = row,
           w.status # "ABSENT",
           w.status = "PENDING" => w.attempts < MaxAttempts,
           w.status = "FAILED" => w.attempts = MaxAttempts,
           w.status = "PUBLISHED" => Notified(e) \/ e \in swallowed,
           UNCHANGED <<notified, emitted, isRunning, swallowed>>, faults' \in 0..MaxFaults,
           Goto(c, label), cycle' = [cycle EXCEPT ![c] = s],
           s.inserted = {}, s.batch \subseteq Recorded,
           label = "next" => s.at = NONE,
           label \notin {"idle", "find", "next"} => s.at \in s.batch,
           label \notin {"idle", "find", "notify", "emit"},
           label = "publish" => Notified(s.at) \/ s.at \in swallowed,
           \A x \in s.snapshot : notified[x] > 0,
           \A f \in s.batch :
              /\ s.copy[f].status # "ABSENT"
              /\ f # s.at => /\ s.copy[f].status = "PENDING"
                             /\ s.copy[f].attempts < MaxAttempts
    PROVE  OutboxInv'
<1>1. TypeOK /\ Recorded \subseteq Events
  BY DEF OutboxInv, Recorded
<1>2. /\ row' \in [Events -> Rows] /\ Recorded' = Recorded
      /\ EmittedWasPersisted' /\ RetriesAreBounded'
      /\ UnnotifiedWasSwallowed'
  <2>1. CASE row' = [row EXCEPT ![e] = w]
    BY <1>1, <2>1, RowStep
  <2>2. CASE row' = row
    BY <1>1, <2>2 DEF TypeOK, OutboxInv, Recorded, EmittedWasPersisted, RetriesAreBounded,
                      UnnotifiedWasSwallowed, Notified
  <2>. QED  BY <2>1, <2>2
<1>3. TypeOK'
  BY <1>1, <1>2 DEF TypeOK, Goto
<1>4. Own(c)
  BY <1>1, <1>2 DEF TypeOK, Goto, Own
<1>5. cycle'[c] = s /\ pc'[c] = label
  BY <1>1 DEF TypeOK, Goto
<1>6. BatchFits(c)'
  BY <1>2, <1>5 DEF BatchFits
<1>7. HandlerFits(c)'
  BY <1>5 DEF HandlerFits, Notified
<1>. QED  BY <1>2, <1>3, <1>4, <1>5, <1>6, <1>7, CycleStep

\* An entity with attempts left can be claimed.
LEMMA ClaimTyped ==
    ASSUME NEW r \in Rows, r.attempts < MaxAttempts
    PROVE  /\ [r EXCEPT !.status = "PROCESSING", !.attempts = @ + 1] \in Rows
           /\ [r EXCEPT !.status = "PROCESSING", !.attempts = @ + 1].status = "PROCESSING"
<1>1. r.attempts + 1 \in 0..MaxAttempts
  BY DEF Rows
<1>2. "PROCESSING" \in Statuses
  BY DEF Statuses
<1>. QED  BY <1>1, <1>2 DEF Rows

\* A claim takes one attempt more than a row that waits has had.
LEMMA ClaimInv == ASSUME OutboxInv, NEW c \in Cycles, Claim(c) PROVE OutboxInv'
<1>1. TypeOK /\ BatchFits(c) /\ HandlerFits(c)
  BY DEF OutboxInv, CyclesFit
<1>2. PICK e \in cycle[c].batch :
        LET claimed == [cycle[c].copy[e] EXCEPT !.status = "PROCESSING",
                                                !.attempts = @ + 1] IN
        /\ cycle' = [cycle EXCEPT ![c].at = e, ![c].copy[e] = claimed]
        /\ \/ /\ NoFault
              /\ row' = [row EXCEPT ![e] = claimed]
              /\ Goto(c, "handle")
           \/ /\ Fault("claim")
              /\ Goto(c, "failure")
              /\ UNCHANGED row
  BY DEF Claim, Oldest
<1> DEFINE w == [cycle[c].copy[e] EXCEPT !.status = "PROCESSING", !.attempts = @ + 1]
           s == [cycle[c] EXCEPT !.at = e, !.copy[e] = w]
<1>3. /\ cycle[c] \in CycleStates /\ e \in Events /\ e \in Recorded
      /\ cycle[c].copy[e] \in Rows /\ cycle[c].copy[e].attempts < MaxAttempts
      /\ cycle[c].at = NONE
  BY <1>1 DEF TypeOK, CycleStates, BatchFits, Claim
<1>4. w \in Rows /\ w.status = "PROCESSING"
  BY <1>3, ClaimTyped
<1>5. cycle' = [cycle EXCEPT ![c] = s]
  BY <1>2
<1> HIDE DEF w
<1>6. /\ s \in CycleStates /\ s.at = e /\ s.batch = cycle[c].batch
      /\ s.copy = [cycle[c].copy EXCEPT ![e] = w]
      /\ s.inserted = cycle[c].inserted /\ s.snapshot = cycle[c].snapshot
  BY <1>3, <1>4 DEF CycleStates
<1>7. /\ s.inserted = {} /\ \A x \in s.snapshot : notified[x] > 0
      /\ s.batch \subseteq Recorded
  BY <1>1, <1>6 DEF HandlerFits, BatchFits, Claim
<1>8. \A f \in s.batch : /\ s.copy[f].status # "ABSENT"
                         /\ f # s.at => /\ s.copy[f].status = "PENDING"
                                        /\ s.copy[f].attempts < MaxAttempts
  <2> SUFFICES ASSUME NEW f \in cycle[c].batch
               PROVE  /\ s.copy[f].status # "ABSENT"
                      /\ f # e => /\ s.copy[f].status = "PENDING"
                                  /\ s.copy[f].attempts < MaxAttempts
    BY <1>6
  <2>1. f \in Events /\ cycle[c].copy \in [Events -> Rows]
    BY <1>3 DEF CycleStates
  <2> HIDE DEF s
  <2>2. CASE f = e
    BY <1>4, <1>6, <2>1, <2>2
  <2>3. CASE f # e
    BY <1>1, <1>3, <1>6, <2>1, <2>3 DEF BatchFits
  <2>. QED  BY <2>2, <2>3
<1> HIDE DEF s
<1>9. PICK label \in {"handle", "failure"} : Goto(c, label)
  BY <1>2
<1>10. faults' \in 0..MaxFaults /\ (row' = [row EXCEPT ![e] = w] \/ row' = row)
  BY <1>1, <1>2, FaultTyped DEF w, TypeOK
<1>11. s.at \in s.batch /\ label \in Labels /\ label \notin {"idle", "find", "next"}
  BY <1>6, <1>9 DEF Labels
<1>12. UNCHANGED <<notified, emitted, isRunning, swallowed>>
  BY DEF Claim
<1>13. /\ w.status # "ABSENT" /\ w.status # "PENDING"
       /\ w.status # "FAILED" /\ w.status # "PUBLISHED"
       /\ label \notin {"notify", "emit", "publish"}
  BY <1>4, <1>9
<1>. QED
  BY <1>3, <1>4, <1>5, <1>6, <1>7, <1>8, <1>9, <1>10, <1>11, <1>12, <1>13, SaveStep


\* A poll that fails ends the cycle.
LEMMA FindFailsInv == ASSUME OutboxInv, NEW c \in Cycles, FindFails(c) PROVE OutboxInv'
  BY FaultTyped, FinishInv DEF FindFails, OutboxInv

\* The end of a batch ends the cycle.
LEMMA EndBatchInv == ASSUME OutboxInv, NEW c \in Cycles, EndBatch(c) PROVE OutboxInv'
<1>1. faults' \in 0..MaxFaults
  BY DEF EndBatch, OutboxInv, TypeOK
<1>. QED  BY <1>1, FinishInv DEF EndBatch

\* An event c is done with, whether it is saved as w or not, leaves its batch.
LEMMA LeaveStep ==
    ASSUME OutboxInv, NEW c \in Cycles, pc[c] \in {"publish", "failure"}, NEW w \in Rows,
           row' = [row EXCEPT ![cycle[c].at] = w] \/ row' = row,
           w.status # "ABSENT",
           w.status = "PENDING" => w.attempts < MaxAttempts,
           w.status = "FAILED" => w.attempts = MaxAttempts,
           w.status = "PUBLISHED" => Notified(cycle[c].at) \/ cycle[c].at \in swallowed,
           cycle' = [cycle EXCEPT ![c].batch = @ \ {cycle[c].at}, ![c].at = NONE],
           UNCHANGED <<notified, emitted, isRunning, swallowed>>, faults' \in 0..MaxFaults,
           Goto(c, "next")
    PROVE  OutboxInv'
<1>1. TypeOK /\ BatchFits(c) /\ HandlerFits(c)
  BY DEF OutboxInv, CyclesFit
<1>2. cycle[c] \in CycleStates /\ cycle[c].at \in Recorded
  BY <1>1 DEF TypeOK, BatchFits
<1> DEFINE s == [cycle[c] EXCEPT !.batch = @ \ {cycle[c].at}, !.at = NONE]
<1>3. /\ s \in CycleStates /\ s.at = NONE /\ s.batch = cycle[c].batch \ {cycle[c].at}
      /\ s.copy = cycle[c].copy /\ s.inserted = cycle[c].inserted
      /\ s.snapshot = cycle[c].snapshot
  BY <1>2 DEF CycleStates
<1>4. cycle' = [cycle EXCEPT ![c] = s]
  OBVIOUS
<1> HIDE DEF s
<1>5. /\ s.inserted = {} /\ \A x \in s.snapshot : notified[x] > 0
      /\ s.batch \subseteq Recorded
  BY <1>1, <1>3 DEF HandlerFits, BatchFits
<1>6. \A f \in s.batch : /\ s.copy[f].status = "PENDING"
                         /\ s.copy[f].attempts < MaxAttempts
  BY <1>1, <1>3 DEF BatchFits
<1>7. "next" \in Labels
  BY DEF Labels
<1>. QED  BY <1>2, <1>3, <1>4, <1>5, <1>6, <1>7, SaveStep

\* The event at hand is one of the batch, and its entity a row.
LEMMA AtHand ==
    ASSUME OutboxInv, NEW c \in Cycles, pc[c] \notin {"idle", "find", "next"}
    PROVE  /\ cycle[c].at \in cycle[c].batch /\ cycle[c].at \in Recorded
           /\ cycle[c].at \in Events /\ Entity(c) \in Rows
  BY DEF OutboxInv, CyclesFit, BatchFits, TypeOK, CycleStates, Entity

\* PUBLISHED is saved for an event whose handler has ended.
LEMMA PublishInv == ASSUME OutboxInv, NEW c \in Cycles, Publish(c) PROVE OutboxInv'
<1>1. TypeOK /\ BatchFits(c) /\ HandlerFits(c)
  BY DEF OutboxInv, CyclesFit
<1>2. /\ pc[c] = "publish" /\ cycle[c].at \in cycle[c].batch
      /\ cycle[c].at \in Recorded /\ Entity(c) \in Rows
  BY AtHand DEF Publish
<1> DEFINE w == [Entity(c) EXCEPT !.status = "PUBLISHED"]
<1>3. w \in Rows /\ w.status = "PUBLISHED"
  BY <1>2 DEF Rows, Statuses
<1>4. Notified(cycle[c].at) \/ cycle[c].at \in swallowed
  BY <1>1, <1>2 DEF HandlerFits
<1>5. UNCHANGED <<notified, emitted, isRunning, swallowed>>
  BY DEF Publish
<1>6. CASE /\ NoFault
           /\ row' = [row EXCEPT ![cycle[c].at] = w]
           /\ cycle' = [cycle EXCEPT ![c].batch = @ \ {cycle[c].at}, ![c].at = NONE]
           /\ Goto(c, "next")
  <2>1. faults' \in 0..MaxFaults
    BY <1>1, <1>6 DEF TypeOK
  <2> HIDE DEF w
  <2>. QED  BY <1>2, <1>3, <1>4, <1>5, <1>6, <2>1, LeaveStep
<1>7. CASE /\ Fault("publish")
           /\ cycle' = [cycle EXCEPT ![c].copy[cycle[c].at] = w]
           /\ Goto(c, "failure")
           /\ UNCHANGED row
  <2> DEFINE s == [cycle[c] EXCEPT !.copy[cycle[c].at] = w]
  <2> HIDE DEF w
  <2>1. cycle[c] \in CycleStates /\ cycle' = [cycle EXCEPT ![c] = s]
    BY <1>1, <1>7 DEF TypeOK
  <2>2. /\ s \in CycleStates /\ s.at = cycle[c].at /\ s.batch = cycle[c].batch
        /\ s.copy = [cycle[c].copy EXCEPT ![cycle[c].at] = w]
        /\ s.inserted = cycle[c].inserted /\ s.snapshot = cycle[c].snapshot
    BY <2>1, <1>3 DEF CycleStates
  <2> HIDE DEF s
  <2>3. /\ s.inserted = {} /\ \A x \in s.snapshot : notified[x] > 0
        /\ s.batch \subseteq Recorded
    BY <1>1, <1>2, <2>2 DEF HandlerFits, BatchFits
  <2>4. \A f \in s.batch : /\ s.copy[f].status # "ABSENT"
                           /\ f # s.at => /\ s.copy[f].status = "PENDING"
                                          /\ s.copy[f].attempts < MaxAttempts
    <3>1. cycle[c].copy \in [Events -> Rows] /\ cycle[c].batch \subseteq Events
      BY <2>1 DEF CycleStates
    <3>. QED  BY <1>1, <1>3, <2>2, <3>1 DEF BatchFits
  <2>5. "failure" \in Labels /\ faults' \in 0..MaxFaults
    BY <1>1, <1>7, FaultTyped DEF Labels
  <2>. QED  BY <1>2, <1>3, <1>4, <1>5, <1>7, <2>1, <2>2, <2>3, <2>4, <2>5, SaveStep
<1>. QED  BY <1>6, <1>7 DEF Publish

\* A failed entity waits with attempts left or has used them up.
LEMMA RetryBounded ==
    ASSUME NEW r \in Rows
    PROVE  /\ Retry(r) \in Rows /\ Retry(r).status \in {"PENDING", "FAILED"}
           /\ Retry(r).status = "PENDING" => Retry(r).attempts < MaxAttempts
           /\ Retry(r).status = "FAILED" => Retry(r).attempts = MaxAttempts
<1>1. r.attempts \in 0..MaxAttempts
  BY DEF Rows
<1>2. CASE r.attempts >= MaxAttempts
  <2>1. Retry(r) = [r EXCEPT !.status = "FAILED"]
    BY <1>2 DEF Retry
  <2>. QED  BY <1>1, <1>2, <2>1 DEF Rows, Statuses
<1>3. CASE ~(r.attempts >= MaxAttempts)
  <2>1. Retry(r) = [r EXCEPT !.status = "PENDING", !.due = FALSE]
    BY <1>3 DEF Retry
  <2>2. r.attempts < MaxAttempts
    BY <1>1, <1>3
  <2>. QED  BY <1>1, <2>1, <2>2 DEF Rows, Statuses
<1>. QED  BY <1>2, <1>3

\* The failure of an event is saved in its row, or forgotten.
LEMMA HandleFailureInv ==
    ASSUME OutboxInv, NEW c \in Cycles, HandleFailure(c) PROVE OutboxInv'
<1>1. pc[c] = "failure" /\ Entity(c) \in Rows
  BY AtHand DEF HandleFailure
<1> DEFINE w == Retry(Entity(c))
<1>2. /\ w \in Rows /\ w.status \in {"PENDING", "FAILED"}
      /\ w.status = "PENDING" => w.attempts < MaxAttempts
      /\ w.status = "FAILED" => w.attempts = MaxAttempts
  BY <1>1, RetryBounded
<1>3. w.status # "ABSENT" /\ w.status # "PUBLISHED"
  BY <1>2
<1>4. faults' \in 0..MaxFaults
  BY FaultTyped DEF HandleFailure, OutboxInv, TypeOK
<1>5. /\ row' = [row EXCEPT ![cycle[c].at] = w] \/ row' = row
      /\ cycle' = [cycle EXCEPT ![c].batch = @ \ {cycle[c].at}, ![c].at = NONE]
      /\ Goto(c, "next") /\ UNCHANGED <<notified, emitted, isRunning, swallowed>>
  BY DEF HandleFailure
<1> HIDE DEF w
<1>. QED  BY <1>1, <1>2, <1>3, <1>4, <1>5, LeaveStep

-----------------------------------------------------------------------------
(* The handler                                                             *)

\* A transaction that starts has all recipients to notify.
LEMMA StartHandlerInv ==
    ASSUME OutboxInv, NEW c \in Cycles, StartHandler(c) PROVE OutboxInv'
<1>1. TypeOK /\ BatchFits(c) /\ HandlerFits(c)
  BY DEF OutboxInv, CyclesFit
<1>2. /\ pc[c] = "handle" /\ cycle[c].at \in cycle[c].batch
      /\ cycle[c].at \in Events /\ cycle[c] \in CycleStates
  BY <1>1, AtHand DEF StartHandler, TypeOK
<1>3. cycle[c].inserted = {}
  BY <1>1, <1>2 DEF HandlerFits
<1>4. /\ UNCHANGED <<row, notified, emitted>>
      /\ isRunning' \in [Instances -> BOOLEAN] /\ faults' \in 0..MaxFaults
      /\ "publish" \in Labels /\ "notify" \in Labels
      /\ swallowed \subseteq swallowed' /\ swallowed' \subseteq Events
  BY <1>1 DEF StartHandler, TypeOK, Labels
<1>5. CASE /\ Recipients[cycle[c].at] = {}
           /\ Goto(c, "publish")
           /\ UNCHANGED cycle
  <2>1. pc'[c] = "publish" /\ cycle'[c] = cycle[c] /\ cycle' = [cycle EXCEPT ![c] = cycle[c]]
    BY <1>1, <1>5 DEF TypeOK, Goto
  <2>2. BatchFits(c)'
    BY <1>1, <1>2, <1>4, <2>1 DEF BatchFits, Recorded
  <2>3. HandlerFits(c)'
    BY <1>1, <1>3, <1>4, <1>5, <2>1 DEF HandlerFits, Notified
  <2>. QED  BY <1>2, <1>3, <1>4, <1>5, <2>1, <2>2, <2>3, QuietStep
<1>6. CASE /\ cycle' = [cycle EXCEPT ![c].todo = Recipients[cycle[c].at],
                                     ![c].snapshot = {x \in Pairs : notified[x] > 0}]
           /\ Goto(c, "notify")
  <2> DEFINE seen == {x \in Pairs : notified[x] > 0}
             s == [cycle[c] EXCEPT !.todo = Recipients[cycle[c].at], !.snapshot = seen]
  <2>1. Recipients[cycle[c].at] \subseteq Users /\ seen \subseteq Pairs
    BY <1>2
  <2>2. cycle' = [cycle EXCEPT ![c] = s]
    BY <1>6
  <2>3. \A x \in seen : notified[x] > 0
    OBVIOUS
  <2> HIDE DEF seen
  <2>4. /\ s \in CycleStates /\ s.at = cycle[c].at /\ s.batch = cycle[c].batch
        /\ s.copy = cycle[c].copy /\ s.inserted = cycle[c].inserted
        /\ s.todo = Recipients[cycle[c].at] /\ s.snapshot = seen
    BY <1>2, <2>1 DEF CycleStates
  <2> HIDE DEF s
  <2>5. pc'[c] = "notify" /\ cycle'[c] = s
    BY <1>1, <1>6, <2>2 DEF TypeOK, Goto
  <2>6. BatchFits(c)'
    BY <1>1, <1>2, <1>4, <2>4, <2>5 DEF BatchFits, Recorded
  <2>7. HandlerFits(c)'
    BY <1>3, <1>4, <2>3, <2>4, <2>5 DEF HandlerFits
  <2>. QED  BY <1>3, <1>4, <1>6, <2>2, <2>4, <2>6, <2>7, QuietStep
<1>. QED  BY <1>5, <1>6 DEF StartHandler

\* A handler that throws leaves no insert behind.
LEMMA RejectInv ==
    ASSUME OutboxInv, NEW c \in Cycles, pc[c] \in {"handle", "notify", "emit"}, Reject(c),
           faults' \in 0..MaxFaults
    PROVE  OutboxInv'
<1>1. TypeOK /\ BatchFits(c) /\ HandlerFits(c)
  BY DEF OutboxInv, CyclesFit
<1>2. cycle[c].at \in cycle[c].batch /\ cycle[c] \in CycleStates
  BY <1>1, AtHand DEF TypeOK
<1> DEFINE s == [cycle[c] EXCEPT !.todo = {}, !.inserted = {}, !.snapshot = {}]
<1>3. /\ s \in CycleStates /\ s.at = cycle[c].at /\ s.batch = cycle[c].batch
      /\ s.copy = cycle[c].copy /\ s.inserted = {} /\ s.snapshot = {}
  BY <1>2 DEF CycleStates
<1>4. cycle' = [cycle EXCEPT ![c] = s]
  BY DEF Reject
<1> HIDE DEF s
<1>5. /\ AfterRejection = "publish" /\ AfterRejection \in Labels
      /\ cycle[c].at \in swallowed' /\ swallowed \subseteq swallowed'
      /\ swallowed' \subseteq Events
  BY <1>1, AtHand DEF AfterRejection, Labels, Reject, TypeOK
<1>6. /\ UNCHANGED <<row, notified, emitted>> /\ Goto(c, AfterRejection)
      /\ isRunning' \in [Instances -> BOOLEAN]
  BY <1>1 DEF Reject, TypeOK
<1>7. pc'[c] = AfterRejection /\ cycle'[c] = s
  BY <1>1, <1>4, <1>6 DEF TypeOK, Goto
<1>8. BatchFits(c)'
  BY <1>1, <1>2, <1>3, <1>5, <1>6, <1>7 DEF BatchFits, Recorded
<1>9. HandlerFits(c)'
  BY <1>3, <1>5, <1>7 DEF HandlerFits
<1>. QED  BY <1>3, <1>4, <1>5, <1>6, <1>8, <1>9, QuietStep

\* A statement of the handler that fails rolls it back.
LEMMA HandlerFailsInv ==
    ASSUME OutboxInv, NEW c \in Cycles, HandlerFails(c) PROVE OutboxInv'
  BY RejectInv, FaultTyped DEF HandlerFails, OutboxInv

\* So does a deadlock.
LEMMA DeadlockVictimInv ==
    ASSUME OutboxInv, NEW c \in Cycles, DeadlockVictim(c) PROVE OutboxInv'
<1>1. pc[c] = "notify"
  BY DEF DeadlockVictim, Blocked
<1>2. faults' \in 0..MaxFaults
  BY DEF DeadlockVictim, OutboxInv, TypeOK
<1>. QED  BY <1>1, <1>2, RejectInv DEF DeadlockVictim

\* One recipient less to notify: what c has inserted stays missing and apart from
\* what the others have inserted, and who is done has a notification.
LEMMA NotifyStep ==
    ASSUME OutboxInv, NEW c \in Cycles, pc[c] = "notify", NEW s \in CycleStates,
           UNCHANGED <<row, notified, emitted, isRunning, pc, swallowed, faults>>,
           cycle' = [cycle EXCEPT ![c] = s],
           s.batch = cycle[c].batch, s.copy = cycle[c].copy, s.at = cycle[c].at,
           s.snapshot = cycle[c].snapshot,
           s.todo \cup s.inserted \subseteq Recipients[s.at],
           \A u \in s.inserted : /\ notified[<<s.at, u>>] = 0
                                 /\ \A d \in Cycles \ {c} : ~HeldBy(d, s.at, u),
           \A u \in Recipients[s.at] \ (s.todo \cup s.inserted) : notified[<<s.at, u>>] > 0
    PROVE  OutboxInv'
<1>1. TypeOK /\ BatchFits(c) /\ HandlerFits(c)
  BY DEF OutboxInv, CyclesFit
<1>2. cycle'[c] = s /\ \A d \in Cycles \ {c} : cycle'[d] = cycle[d]
  BY <1>1 DEF TypeOK
<1>3. TypeOK'
  BY <1>1 DEF TypeOK
<1>4. Own(c)
  BY <1>2 DEF Own, Recorded
<1>5. BatchFits(c)' /\ HandlerFits(c)'
  <2>1. BatchFits(c)'
    BY <1>1, <1>2 DEF BatchFits, Recorded
  <2>2. HandlerFits(c)'
    BY <1>1, <1>2 DEF HandlerFits
  <2>. QED  BY <2>1, <2>2
<1>6. CyclesFit'
  <2> SUFFICES ASSUME NEW d \in Cycles PROVE BatchFits(d)' /\ HandlerFits(d)'
    BY DEF CyclesFit
  <2>1. CASE d = c
    BY <1>5, <2>1
  <2>2. CASE d # c
    BY <1>1, <1>4, <2>2, OthersFit DEF OutboxInv, CyclesFit, HandlerFits
  <2>. QED  BY <2>1, <2>2
<1>7. InsertsApart'
  <2> SUFFICES ASSUME NEW d \in Cycles, NEW f \in Cycles \ {d},
                      NEW u \in cycle'[d].inserted,
                      cycle'[f].at = cycle'[d].at, u \in cycle'[f].inserted
               PROVE  FALSE
    BY DEF InsertsApart, HeldBy
  <2>1. CASE d = c
    BY <1>2, <2>1 DEF HeldBy
  <2>2. CASE f = c
    <3>1. d \in Cycles \ {c} /\ cycle'[d] = cycle[d] /\ cycle'[f] = s
      BY <1>2, <2>2
    <3>2. u \in s.inserted /\ cycle[d].at = s.at /\ u \in cycle[d].inserted
      BY <3>1
    <3>. QED  BY <3>1, <3>2 DEF HeldBy
  <2>3. CASE d # c /\ f # c
    BY <1>2, <2>3 DEF OutboxInv, InsertsApart, HeldBy
  <2>. QED  BY <2>1, <2>2, <2>3
<1>8. NotifiedOnce' /\ EmittedWasPersisted' /\ RetriesAreBounded'
  BY DEF OutboxInv, NotifiedOnce, EmittedWasPersisted, RetriesAreBounded, Pairs
<1>9. UnnotifiedWasSwallowed'
  BY DEF OutboxInv, UnnotifiedWasSwallowed, Notified
<1>. QED  BY <1>3, <1>6, <1>7, <1>8, <1>9 DEF OutboxInv

\* A notification the transaction sees is kept, one that is missing is inserted;
\* an insert that loses ends the handler.
LEMMA NotifyInv == ASSUME OutboxInv, NEW c \in Cycles, Notify(c) PROVE OutboxInv'
<1>1. TypeOK /\ BatchFits(c) /\ HandlerFits(c)
  BY DEF OutboxInv, CyclesFit
<1>2. /\ pc[c] = "notify" /\ cycle[c].at \in Events /\ cycle[c] \in CycleStates
      /\ faults' = faults
  BY <1>1, AtHand DEF Notify, TypeOK
<1> DEFINE e == cycle[c].at
<1>3. PICK u \in cycle[c].todo :
        \/ /\ Existing(c, u)
           /\ cycle' = [cycle EXCEPT ![c].todo = @ \ {u}]
           /\ UNCHANGED <<row, notified, emitted, isRunning, pc, swallowed>>
        \/ /\ ~Existing(c, u)
           /\ \A d \in Cycles \ {c} : ~HeldBy(d, e, u)
           /\ Unique(e, u)
           /\ cycle' = [cycle EXCEPT ![c].todo = @ \ {u}, ![c].inserted = @ \cup {u}]
           /\ UNCHANGED <<row, notified, emitted, isRunning, pc, swallowed>>
        \/ Reject(c)
  BY DEF Notify
<1>4. u \in Users /\ u \in Recipients[e] /\ cycle[c].todo \subseteq Recipients[e]
  BY <1>1, <1>2 DEF HandlerFits, CycleStates
<1>5. \A v \in cycle[c].inserted : /\ notified[<<e, v>>] = 0
                                   /\ \A d \in Cycles \ {c} : ~HeldBy(d, e, v)
  BY <1>1 DEF HandlerFits, OutboxInv, InsertsApart
<1>6. CASE /\ Existing(c, u)
           /\ cycle' = [cycle EXCEPT ![c].todo = @ \ {u}]
           /\ UNCHANGED <<row, notified, emitted, isRunning, pc, swallowed>>
  <2> DEFINE s == [cycle[c] EXCEPT !.todo = @ \ {u}]
  <2>1. /\ s \in CycleStates /\ s.at = e /\ s.batch = cycle[c].batch
        /\ s.copy = cycle[c].copy /\ s.snapshot = cycle[c].snapshot
        /\ s.inserted = cycle[c].inserted /\ s.todo = cycle[c].todo \ {u}
    BY <1>2 DEF CycleStates
  <2>2. cycle' = [cycle EXCEPT ![c] = s]
    BY <1>6
  <2>3. notified[<<e, u>>] > 0
    BY <1>1, <1>6 DEF HandlerFits, Existing
  <2> HIDE DEF s
  <2>4. s.todo \cup s.inserted \subseteq Recipients[s.at]
    BY <1>1, <1>2, <2>1 DEF HandlerFits
  <2>5. \A v \in Recipients[s.at] \ (s.todo \cup s.inserted) : notified[<<s.at, v>>] > 0
    BY <1>1, <1>2, <2>1, <2>3 DEF HandlerFits
  <2>6. \A v \in s.inserted : /\ notified[<<s.at, v>>] = 0
                              /\ \A d \in Cycles \ {c} : ~HeldBy(d, s.at, v)
    BY <1>5, <2>1
  <2>. QED  BY <1>2, <1>6, <2>1, <2>2, <2>4, <2>5, <2>6, NotifyStep
<1>7. CASE /\ \A d \in Cycles \ {c} : ~HeldBy(d, e, u)
           /\ Unique(e, u)
           /\ cycle' = [cycle EXCEPT ![c].todo = @ \ {u}, ![c].inserted = @ \cup {u}]
           /\ UNCHANGED <<row, notified, emitted, isRunning, pc, swallowed>>
  <2> DEFINE s == [cycle[c] EXCEPT !.todo = @ \ {u}, !.inserted = @ \cup {u}]
  <2>1. /\ s \in CycleStates /\ s.at = e /\ s.batch = cycle[c].batch
        /\ s.copy = cycle[c].copy /\ s.snapshot = cycle[c].snapshot
        /\ s.inserted = cycle[c].inserted \cup {u} /\ s.todo = cycle[c].todo \ {u}
    BY <1>2, <1>4 DEF CycleStates
  <2>2. cycle' = [cycle EXCEPT ![c] = s]
    BY <1>7
  <2> HIDE DEF s
  <2>4. s.todo \cup s.inserted \subseteq Recipients[s.at]
    BY <1>1, <1>2, <1>4, <2>1 DEF HandlerFits
  <2>5. \A v \in Recipients[s.at] \ (s.todo \cup s.inserted) : notified[<<s.at, v>>] > 0
    BY <1>1, <1>2, <2>1 DEF HandlerFits
  <2>6. \A v \in s.inserted : /\ notified[<<s.at, v>>] = 0
                              /\ \A d \in Cycles \ {c} : ~HeldBy(d, s.at, v)
    BY <1>5, <1>7, <2>1 DEF Unique
  <2>. QED  BY <1>2, <1>7, <2>1, <2>2, <2>4, <2>5, <2>6, NotifyStep
<1>8. CASE Reject(c)
  <2>1. faults' \in 0..MaxFaults
    BY <1>1, <1>2 DEF TypeOK
  <2>. QED  BY <1>2, <1>8, <2>1, RejectInv
<1>. QED  BY <1>3, <1>6, <1>7, <1>8

\* The commit adds the inserted notifications, which were missing, and leaves the
\* others alone.
LEMMA CommitAdds ==
    ASSUME OutboxInv, NEW c \in Cycles, CommitHandler(c)
    PROVE  /\ notified' \in [Pairs -> Nat] /\ cycle[c].at \in Events
           /\ \A x \in Pairs : x[1] = cycle[c].at /\ x[2] \in cycle[c].inserted
                                => notified[x] = 0 /\ notified'[x] = 1
           /\ \A x \in Pairs : ~(x[1] = cycle[c].at /\ x[2] \in cycle[c].inserted)
                                => notified'[x] = notified[x]
<1>1. TypeOK /\ HandlerFits(c) /\ cycle[c].at \in Events
  BY AtHand DEF OutboxInv, CyclesFit, CommitHandler
<1>2. notified' = [x \in Pairs |->
            IF x[1] = cycle[c].at /\ x[2] \in cycle[c].inserted
            THEN notified[x] + 1 ELSE notified[x]]
  BY DEF CommitHandler, HeldBy
<1>3. \A x \in Pairs : x = <<x[1], x[2]>>
  BY DEF Pairs
<1>4. \A x \in Pairs : notified[x] \in Nat
  BY <1>1 DEF TypeOK
<1>. QED  BY <1>1, <1>2, <1>3, <1>4 DEF HandlerFits

\* All recipients of the event have a notification once the handler has committed.
LEMMA CommitInv == ASSUME OutboxInv, NEW c \in Cycles, CommitHandler(c) PROVE OutboxInv'
<1>1. TypeOK /\ CyclesFit /\ BatchFits(c) /\ HandlerFits(c)
  BY DEF OutboxInv, CyclesFit
<1>2. /\ pc[c] = "notify" /\ cycle[c].todo = {}
      /\ cycle[c].at \in Events /\ cycle[c].at \in cycle[c].batch
      /\ cycle[c] \in CycleStates
      /\ UNCHANGED <<row, emitted, isRunning, swallowed, faults>>
  BY <1>1, AtHand DEF CommitHandler, TypeOK
<1> DEFINE s == [cycle[c] EXCEPT !.inserted = {}, !.snapshot = {}]
<1>3. /\ s \in CycleStates /\ s.at = cycle[c].at /\ s.batch = cycle[c].batch
      /\ s.copy = cycle[c].copy /\ s.snapshot = {} /\ s.inserted = {}
  BY <1>2 DEF CycleStates
<1>4. cycle' = [cycle EXCEPT ![c] = s] /\ Goto(c, "emit")
  BY DEF CommitHandler
<1> HIDE DEF s
<1>5. cycle'[c] = s /\ pc'[c] = "emit"
      /\ \A d \in Cycles \ {c} : cycle'[d] = cycle[d] /\ pc'[d] = pc[d]
  BY <1>1, <1>4 DEF TypeOK, Goto
<1>6. \A x \in Pairs : notified[x] > 0 => notified'[x] > 0
  BY CommitAdds
<1>7. Own(c)
  BY <1>2, <1>5, <1>6 DEF Own, Recorded
<1>8. TypeOK'
  <2>1. cycle' \in [Cycles -> CycleStates]
    BY <1>1, <1>3, <1>4 DEF TypeOK
  <2>2. pc' \in [Cycles -> Labels]
    BY <1>1, <1>4 DEF TypeOK, Goto, Labels
  <2>. QED  BY <1>1, <1>2, <2>1, <2>2, CommitAdds DEF TypeOK
<1>9. BatchFits(c)'
  BY <1>1, <1>2, <1>3, <1>5 DEF BatchFits, Recorded
<1>10. HandlerFits(c)'
  <2>1. ASSUME NEW u \in Recipients[cycle[c].at]
        PROVE  notified'[<<cycle[c].at, u>>] > 0
    <3>1. <<cycle[c].at, u>> \in Pairs
      BY <1>2 DEF Pairs
    <3>2. CASE u \in cycle[c].inserted
      BY <3>1, <3>2, CommitAdds
    <3>3. CASE u \notin cycle[c].inserted
      BY <1>1, <1>2, <1>6, <3>1, <3>3 DEF HandlerFits
    <3>. QED  BY <3>2, <3>3
  <2>. QED  BY <1>3, <1>5, <2>1 DEF HandlerFits, Notified
<1>11. CyclesFit'
  <2> SUFFICES ASSUME NEW d \in Cycles \ {c} PROVE BatchFits(d)' /\ HandlerFits(d)'
    BY <1>9, <1>10 DEF CyclesFit
  <2>1. ASSUME NEW u \in cycle[d].inserted
        PROVE  notified'[<<cycle[d].at, u>>] = 0
    <3>1. pc[d] = "notify" /\ notified[<<cycle[d].at, u>>] = 0 /\ u \in Users
      BY <1>1 DEF CyclesFit, HandlerFits, TypeOK, CycleStates
    <3>2. cycle[d].at \in Events
      BY <3>1, AtHand
    <3>3. ~(cycle[d].at = cycle[c].at /\ u \in cycle[c].inserted)
      BY DEF OutboxInv, InsertsApart, HeldBy
    <3>4. <<cycle[d].at, u>> \in Pairs
      BY <3>1, <3>2 DEF Pairs
    <3>. QED  BY <3>1, <3>3, <3>4, CommitAdds
  <2>. QED  BY <1>1, <1>7, <2>1, OthersFit
<1>12. InsertsApart'
  <2> SUFFICES ASSUME NEW d \in Cycles, NEW f \in Cycles \ {d},
                      NEW u \in cycle'[d].inserted,
                      cycle'[f].at = cycle'[d].at, u \in cycle'[f].inserted
               PROVE  FALSE
    BY DEF InsertsApart, HeldBy
  <2>1. d # c /\ f # c
    BY <1>3, <1>5
  <2>. QED  BY <1>5, <2>1 DEF OutboxInv, InsertsApart, HeldBy
<1>13. NotifiedOnce'
  BY CommitAdds DEF OutboxInv, NotifiedOnce, Pairs
<1>14. EmittedWasPersisted' /\ RetriesAreBounded'
  BY <1>1, <1>2, <1>6 DEF OutboxInv, EmittedWasPersisted, RetriesAreBounded, TypeOK
<1>15. UnnotifiedWasSwallowed'
  BY <1>2, <1>6 DEF OutboxInv, UnnotifiedWasSwallowed, Notified, Pairs
<1>. QED  BY <1>8, <1>11, <1>12, <1>13, <1>14, <1>15 DEF OutboxInv

\* What is emitted has been committed.
LEMMA EmitInv == ASSUME OutboxInv, NEW c \in Cycles, Emit(c) PROVE OutboxInv'
<1>1. TypeOK /\ BatchFits(c) /\ HandlerFits(c)
  BY DEF OutboxInv, CyclesFit
<1>2. /\ pc[c] = "emit" /\ cycle[c].at \in Events /\ cycle[c].at \in cycle[c].batch
      /\ UNCHANGED <<row, notified, isRunning, cycle, swallowed, faults>>
      /\ Goto(c, "publish")
  BY AtHand DEF Emit, MayEmit
<1>3. Notified(cycle[c].at) /\ cycle[c].inserted = {}
  BY <1>1, <1>2 DEF HandlerFits
<1>4. pc'[c] = "publish" /\ \A d \in Cycles \ {c} : pc'[d] = pc[d]
  BY <1>1, <1>2 DEF TypeOK, Goto
<1>5. emitted' = emitted \cup ({cycle[c].at} \X Recipients[cycle[c].at])
  BY DEF Emit
<1>6. Recipients[cycle[c].at] \subseteq Users
  BY <1>2
<1>7. TypeOK'
  <2>1. pc' \in [Cycles -> Labels]
    BY <1>1, <1>2 DEF TypeOK, Goto, Labels
  <2>2. emitted' \subseteq Pairs
    BY <1>1, <1>2, <1>5, <1>6 DEF TypeOK, Pairs
  <2>. QED  BY <1>1, <1>2, <2>1, <2>2 DEF TypeOK
<1>8. EmittedWasPersisted'
  BY <1>2, <1>3, <1>5 DEF OutboxInv, EmittedWasPersisted, Notified
<1>9. Own(c)
  BY <1>2, <1>4 DEF Own, Recorded
<1>10. BatchFits(c)' /\ HandlerFits(c)'
  BY <1>1, <1>2, <1>3, <1>4 DEF BatchFits, HandlerFits, Recorded, Notified
<1>11. RetriesAreBounded' /\ UnnotifiedWasSwallowed'
  BY <1>2 DEF OutboxInv, RetriesAreBounded, UnnotifiedWasSwallowed, Notified
<1>. QED  BY <1>2, <1>3, <1>7, <1>8, <1>9, <1>10, <1>11, CycleStep

-----------------------------------------------------------------------------
(* Steps of no cycle                                                       *)

\* A change of the rows alone keeps the invariant if the rows keep their bounds.
LEMMA RowsInv ==
    ASSUME OutboxInv, UNCHANGED <<notified, emitted, isRunning, pc, cycle, swallowed, faults>>,
           row' \in [Events -> Rows], Recorded \subseteq Recorded', RetriesAreBounded',
           UnnotifiedWasSwallowed'
    PROVE  OutboxInv'
<1>1. TypeOK'
  BY DEF OutboxInv, TypeOK
<1>2. ASSUME NEW c \in Cycles PROVE BatchFits(c)' /\ HandlerFits(c)'
  <2>1. BatchFits(c) /\ HandlerFits(c)
    BY DEF OutboxInv, CyclesFit
  <2>2. BatchFits(c)'
    BY <2>1 DEF BatchFits
  <2>3. HandlerFits(c)'
    BY <2>1 DEF HandlerFits, Notified
  <2>. QED  BY <2>2, <2>3
<1>3. InsertsApart' /\ NotifiedOnce' /\ EmittedWasPersisted'
  BY DEF OutboxInv, InsertsApart, HeldBy, NotifiedOnce, EmittedWasPersisted, Pairs
<1>. QED  BY <1>1, <1>2, <1>3 DEF OutboxInv, CyclesFit

\* A recorded event waits with all of its attempts.
LEMMA EnqueueInv == ASSUME OutboxInv, NEW e \in Events, Enqueue(e) PROVE OutboxInv'
<1> DEFINE w == [status |-> "PENDING", attempts |-> 0, due |-> TRUE]
<1>1. /\ row \in [Events -> Rows] /\ RetriesAreBounded
      /\ UnnotifiedWasSwallowed
  BY DEF OutboxInv, TypeOK
<1>2. w \in Rows /\ w.status = "PENDING" /\ w.attempts < MaxAttempts
  BY DEF Rows, Statuses
<1>3. row' = [row EXCEPT ![e] = w]
      /\ UNCHANGED <<notified, emitted, isRunning, pc, cycle, swallowed, faults>>
  BY DEF Enqueue
<1> HIDE DEF w
<1>4. row' \in [Events -> Rows] /\ Recorded \subseteq Recorded'
  BY <1>1, <1>2, <1>3 DEF Recorded
<1>5. RetriesAreBounded' /\ UnnotifiedWasSwallowed'
  BY <1>1, <1>2, <1>3 DEF RetriesAreBounded, UnnotifiedWasSwallowed, Notified
<1>. QED  BY <1>3, <1>4, <1>5, RowsInv

\* The end of a delay changes neither status nor attempts.
LEMMA ElapseInv == ASSUME OutboxInv, NEW e \in Events, Elapse(e) PROVE OutboxInv'
<1>1. /\ row \in [Events -> Rows] /\ RetriesAreBounded
      /\ UnnotifiedWasSwallowed
  BY DEF OutboxInv, TypeOK
<1>2. row' = [row EXCEPT ![e].due = TRUE]
      /\ UNCHANGED <<notified, emitted, isRunning, pc, cycle, swallowed, faults>>
  BY DEF Elapse
<1>3. row' \in [Events -> Rows]
      /\ \A f \in Events : row'[f].status = row[f].status /\ row'[f].attempts = row[f].attempts
  BY <1>1, <1>2 DEF Rows
<1>4. Recorded' = Recorded
  BY <1>3 DEF Recorded
<1>5. RetriesAreBounded' /\ UnnotifiedWasSwallowed'
  BY <1>1, <1>2, <1>3 DEF RetriesAreBounded, UnnotifiedWasSwallowed, Notified
<1>. QED  BY <1>2, <1>3, <1>4, <1>5, RowsInv

\* A crash empties the cycles of the instance and rolls their transactions back.
LEMMA CrashInv == ASSUME OutboxInv, NEW i \in Instances, Crash(i) PROVE OutboxInv'
<1>1. TypeOK /\ CyclesFit
  BY DEF OutboxInv
<1>2. /\ UNCHANGED <<row, notified, emitted, swallowed>> /\ faults' \in 0..MaxFaults
      /\ isRunning' \in [Instances -> BOOLEAN]
  BY <1>1, FaultTyped DEF Crash, TypeOK
<1>3. \A c \in Cycles : \/ pc'[c] = "idle" /\ cycle'[c] = EmptyCycle
                        \/ pc'[c] = pc[c] /\ cycle'[c] = cycle[c]
  BY DEF Crash
<1>4. TypeOK'
  <2>1. pc' \in [Cycles -> Labels]
    BY <1>1 DEF Crash, TypeOK, Labels
  <2>2. cycle' \in [Cycles -> CycleStates]
    BY <1>1, EmptyCycleTyped DEF Crash, TypeOK
  <2>. QED  BY <1>1, <1>2, <2>1, <2>2 DEF TypeOK
<1>5. ASSUME NEW c \in Cycles PROVE BatchFits(c)' /\ HandlerFits(c)'
  <2>1. CASE pc'[c] = "idle" /\ cycle'[c] = EmptyCycle
    BY <2>1 DEF BatchFits, HandlerFits, EmptyCycle
  <2>2. CASE pc'[c] = pc[c] /\ cycle'[c] = cycle[c]
    <3>1. BatchFits(c) /\ HandlerFits(c)
      BY <1>1 DEF CyclesFit
    <3>2. BatchFits(c)'
      BY <1>2, <2>2, <3>1 DEF BatchFits, Recorded
    <3>3. HandlerFits(c)'
      BY <1>2, <2>2, <3>1 DEF HandlerFits, Notified
    <3>. QED  BY <3>2, <3>3
  <2>. QED  BY <1>3, <2>1, <2>2
<1>6. InsertsApart'
  <2> SUFFICES ASSUME NEW c \in Cycles, NEW d \in Cycles \ {c},
                      NEW u \in cycle'[c].inserted,
                      cycle'[d].at = cycle'[c].at, u \in cycle'[d].inserted
               PROVE  FALSE
    BY DEF InsertsApart, HeldBy
  <2>1. cycle'[c] = cycle[c] /\ cycle'[d] = cycle[d]
    BY <1>3 DEF EmptyCycle
  <2>. QED  BY <2>1 DEF OutboxInv, InsertsApart, HeldBy
<1>7. NotifiedOnce' /\ EmittedWasPersisted' /\ RetriesAreBounded'
      /\ UnnotifiedWasSwallowed'
  BY <1>2 DEF OutboxInv, NotifiedOnce, EmittedWasPersisted, RetriesAreBounded,
              UnnotifiedWasSwallowed, Notified, Pairs
<1>. QED  BY <1>4, <1>5, <1>6, <1>7 DEF OutboxInv, CyclesFit

-----------------------------------------------------------------------------
(* The theorems                                                            *)

\* Every step keeps the invariant.
LEMMA NextInv == OutboxInv /\ [Next]_vars => OutboxInv'
<1> SUFFICES ASSUME OutboxInv, [Next]_vars PROVE OutboxInv'
  OBVIOUS
<1>1. CASE \E e \in Events : Enqueue(e) \/ Elapse(e)
  BY <1>1, EnqueueInv, ElapseInv
<1>2. ASSUME NEW c \in Cycles, Tick(c) \/ Step(c) \/ FindFails(c) \/ HandlerFails(c)
      PROVE  OutboxInv'
  <2>1. CASE Tick(c) \/ FindFails(c) \/ HandlerFails(c)
    BY <2>1, TickInv, FindFailsInv, HandlerFailsInv
  <2>2. CASE Find(c) \/ EndBatch(c) \/ NoListener(c) \/ Claim(c)
    BY <2>2, FindInv, EndBatchInv, NoListenerInv, ClaimInv
  <2>3. CASE Publish(c) \/ HandleFailure(c) \/ StartHandler(c) \/ Notify(c)
    BY <2>3, PublishInv, HandleFailureInv, StartHandlerInv, NotifyInv
  <2>4. CASE CommitHandler(c) \/ Emit(c) \/ DeadlockVictim(c)
    BY <2>4, CommitInv, EmitInv, DeadlockVictimInv
  <2>. QED  BY <1>2, <2>1, <2>2, <2>3, <2>4 DEF Step
<1>3. CASE \E i \in Instances : Crash(i)
  BY <1>3, CrashInv
<1>4. CASE UNCHANGED vars
  <2>1. UNCHANGED <<notified, emitted, isRunning, pc, cycle, swallowed, faults>> /\ row' = row
    BY <1>4 DEF vars
  <2>2. row' \in [Events -> Rows] /\ Recorded' = Recorded
    BY <2>1 DEF OutboxInv, TypeOK, Recorded
  <2>3. RetriesAreBounded' /\ UnnotifiedWasSwallowed'
    BY <2>1 DEF OutboxInv, RetriesAreBounded, UnnotifiedWasSwallowed, Notified
  <2>. QED  BY <2>1, <2>2, <2>3, RowsInv
<1>. QED  BY <1>1, <1>2, <1>3, <1>4 DEF Next

\* The cycles, the rows and the notifications always agree.
THEOREM OutboxInvariant == Spec => []OutboxInv
<1>. QED  BY InitInv, NextInv, PTL DEF Spec

\* The tables and the cycles always hold values of their types.
THEOREM TypeCorrect == Spec => []TypeOK
<1>1. OutboxInv => TypeOK
  BY DEF OutboxInv
<1>. QED  BY <1>1, OutboxInvariant, PTL

\* No recipient ever has two notifications of one event, whatever is repeated on
\* however many instances.
THEOREM NotificationsAreUnique == Spec => []NotifiedOnce
<1>1. OutboxInv => NotifiedOnce
  BY DEF OutboxInv
<1>. QED  BY <1>1, OutboxInvariant, PTL

\* No client ever receives a notification that is not committed.
THEOREM EmissionsArePersisted == Spec => []EmittedWasPersisted
<1>1. OutboxInv => EmittedWasPersisted
  BY DEF OutboxInv
<1>. QED  BY <1>1, OutboxInvariant, PTL

\* An event always waits with attempts left or has used them up.
THEOREM AttemptsAreBounded == Spec => []RetriesAreBounded
<1>1. OutboxInv => RetriesAreBounded
  BY DEF OutboxInv
<1>. QED  BY <1>1, OutboxInvariant, PTL

\* No event is PUBLISHED while one of its recipients has no notification, unless a
\* rejection of its handler was swallowed.
THEOREM OnlyRejectionsAreLost == Spec => []UnnotifiedWasSwallowed
<1>1. OutboxInv => UnnotifiedWasSwallowed
  BY DEF OutboxInv
<1>. QED  BY <1>1, OutboxInvariant, PTL

-----------------------------------------------------------------------------
(* The outbox keeps its promise                                            *)

\* The steps that neither record nor commit leave what is promised alone.
LEMMA QuietKeeps ==
    ASSUME OutboxInv, NEW c \in Cycles,
           Tick(c) \/ Step(c) \/ FindFails(c) \/ HandlerFails(c), ~CommitHandler(c)
    PROVE  Recorded' = Recorded /\ notified' = notified
<1>1. notified' = notified
  BY DEF Tick, Step, FindFails, HandlerFails, Find, EndBatch, Finish, NoListener, Claim,
         Publish, HandleFailure, StartHandler, Notify, Emit, DeadlockVictim, Reject
<1>2. \/ row' = row
      \/ \E e \in Recorded, w \in Rows : w.status # "ABSENT" /\ row' = [row EXCEPT ![e] = w]
  <2>1. CASE Claim(c)
    <3>1. PICK e \in cycle[c].batch :
            \/ row' = row
            \/ row' = [row EXCEPT ![e] = [cycle[c].copy[e] EXCEPT !.status = "PROCESSING",
                                                                  !.attempts = @ + 1]]
      BY <2>1 DEF Claim, Oldest
    <3>2. e \in Recorded /\ cycle[c].copy[e] \in Rows
          /\ cycle[c].copy[e].attempts < MaxAttempts
      BY <2>1 DEF OutboxInv, TypeOK, CycleStates, CyclesFit, BatchFits, Claim
    <3>. QED  BY <3>1, <3>2, ClaimTyped
  <2>2. CASE Publish(c)
    <3>1. cycle[c].at \in Recorded /\ Entity(c) \in Rows
      BY <2>2, AtHand DEF Publish
    <3>2. [Entity(c) EXCEPT !.status = "PUBLISHED"] \in Rows
          /\ [Entity(c) EXCEPT !.status = "PUBLISHED"].status # "ABSENT"
      BY <3>1 DEF Rows, Statuses
    <3>. QED  BY <2>2, <3>1, <3>2 DEF Publish
  <2>3. CASE HandleFailure(c)
    <3>1. cycle[c].at \in Recorded /\ Entity(c) \in Rows
      BY <2>3, AtHand DEF HandleFailure
    <3>2. Retry(Entity(c)) \in Rows /\ Retry(Entity(c)).status # "ABSENT"
      BY <3>1, RetryBounded
    <3>. QED  BY <2>3, <3>1, <3>2 DEF HandleFailure
  <2>4. CASE Tick(c) \/ FindFails(c) \/ HandlerFails(c) \/ Find(c) \/ EndBatch(c)
             \/ NoListener(c) \/ StartHandler(c) \/ Notify(c) \/ Emit(c) \/ DeadlockVictim(c)
    BY <2>4 DEF Tick, FindFails, HandlerFails, Find, EndBatch, Finish, NoListener,
                StartHandler, Notify, Emit, DeadlockVictim, Reject
  <2>. QED  BY <2>1, <2>2, <2>3, <2>4 DEF Step
<1>3. Recorded' = Recorded
  BY <1>2 DEF Recorded, OutboxInv, TypeOK
<1>. QED  BY <1>1, <1>3

\* The commit announces the event to all of its recipients and to nobody else.
LEMMA CommitAnnounces ==
    ASSUME OutboxInv, NEW c \in Cycles, CommitHandler(c)
    PROVE  Promise!Announce(cycle[c].at)
<1>1. OutboxInv' /\ Recorded' = Recorded
  BY CommitInv DEF CommitHandler, Recorded
<1>2. HandlerFits(c) /\ pc[c] = "notify" /\ cycle[c].at \in Recorded
  BY AtHand DEF OutboxInv, CyclesFit, CommitHandler
<1>3. \A u \in Recipients[cycle[c].at] :
        <<cycle[c].at, u>> \in Pairs /\ notified'[<<cycle[c].at, u>>] > 0
  <2>1. HandlerFits(c)' /\ pc'[c] = "emit" /\ cycle'[c].at = cycle[c].at
    BY <1>1 DEF OutboxInv, CyclesFit, CommitHandler, Goto, TypeOK
  <2>. QED  BY <1>2, <2>1, CommitAdds DEF HandlerFits, Notified, Pairs
<1>4. \A x \in Pairs : notified'[x] > 0 /\ ~(notified[x] > 0) =>
        x[1] = cycle[c].at /\ x[2] \in Recipients[cycle[c].at] /\ x = <<x[1], x[2]>>
  BY <1>2, CommitAdds DEF HandlerFits, Pairs
<1>5. \A x \in Pairs : notified[x] > 0 => notified'[x] > 0
  BY CommitAdds
<1>6. {x \in Pairs : notified'[x] > 0}
        = {x \in Pairs : notified[x] > 0}
            \cup {<<cycle[c].at, u>> : u \in Recipients[cycle[c].at]}
  BY <1>3, <1>4, <1>5
<1>. QED  BY <1>1, <1>2, <1>6 DEF Promise!Announce, Recorded

\* The outbox implements the announcements: an event is announced to all of its
\* recipients at once, and no announcement is taken back.
THEOREM OutboxAnnounces == Spec => Announces
<1>1. Init => Promise!Init
  BY DEF Init, Promise!Init, Absent
<1>2. OutboxInv /\ [Next]_vars
        => [Promise!Next]_<<{e \in Events : row[e].status # "ABSENT"},
                            {x \in Pairs : notified[x] > 0}>>
  <2> SUFFICES ASSUME OutboxInv, [Next]_vars
               PROVE  \/ Promise!Next
                      \/ Recorded' = Recorded /\ notified' = notified
    BY DEF Recorded
  <2>1. ASSUME NEW e \in Events, Enqueue(e) PROVE Promise!Next
    <3>1. Recorded' = Recorded \cup {e} /\ e \notin Recorded /\ notified' = notified
      BY <2>1 DEF Enqueue, Recorded, OutboxInv, TypeOK
    <3>. QED  BY <3>1 DEF Promise!Next, Promise!Record, Recorded
  <2>2. ASSUME NEW e \in Events, Elapse(e) PROVE Recorded' = Recorded /\ notified' = notified
    BY <2>2 DEF Elapse, Recorded, OutboxInv, TypeOK, Rows
  <2>3. ASSUME NEW c \in Cycles, CommitHandler(c) PROVE Promise!Next
    <3>1. cycle[c].at \in Events /\ Promise!Announce(cycle[c].at)
      BY <2>3, CommitAnnounces, CommitAdds
    <3>. QED  BY <3>1 DEF Promise!Next, Promise!Announce
  <2>4. ASSUME NEW i \in Instances, Crash(i)
        PROVE  Recorded' = Recorded /\ notified' = notified
    BY <2>4 DEF Crash, Recorded
  <2>5. CASE UNCHANGED vars
    BY <2>5 DEF vars, Recorded
  <2>. QED  BY <2>1, <2>2, <2>3, <2>4, <2>5, QuietKeeps DEF Next
<1>. QED  BY <1>1, <1>2, OutboxInvariant, PTL DEF Spec, Announces, Promise!Spec

-----------------------------------------------------------------------------
(* Settled events                                                          *)

\* c is under way, and the rows it saves are those of its batch; one that settles
\* leaves the batch.
Works(c) ==
    /\ pc[c] # "idle" /\ UNCHANGED isRunning
    /\ \A d \in Cycles \ {c} : pc'[d] = pc[d] /\ cycle'[d] = cycle[d]
    /\ cycle'[c].batch \subseteq cycle[c].batch
    /\ \A e \in Events :
        \/ row'[e] = row[e]
        \/ e \in cycle[c].batch
           /\ (e \in cycle'[c].batch => row'[e].status \notin Settled)

\* What a cycle does between its poll and its end.
LEMMA WorkShape ==
    ASSUME OutboxInv, NEW c \in Cycles,
           \/ NoListener(c) \/ Claim(c) \/ Publish(c) \/ HandleFailure(c)
           \/ StartHandler(c) \/ Notify(c) \/ CommitHandler(c) \/ Emit(c)
           \/ DeadlockVictim(c) \/ HandlerFails(c)
    PROVE  Works(c)
<1>1. /\ row \in [Events -> Rows] /\ pc \in [Cycles -> Labels]
      /\ cycle \in [Cycles -> CycleStates] /\ cycle[c] \in CycleStates
      /\ cycle[c].batch \subseteq Events
  BY DEF OutboxInv, TypeOK, CycleStates
<1>2. CASE Claim(c)
  <2> DEFINE claimed(e) == [cycle[c].copy[e] EXCEPT !.status = "PROCESSING",
                                                    !.attempts = @ + 1]
  <2>1. PICK e \in Oldest(c) :
          /\ cycle' = [cycle EXCEPT ![c].at = e, ![c].copy[e] = claimed(e)]
          /\ row' = [row EXCEPT ![e] = claimed(e)] \/ row' = row
    BY <1>2 DEF Claim
  <2>2. e \in cycle[c].batch /\ cycle[c].copy[e] \in Rows /\ e \in Events
    BY <1>1 DEF Oldest, CycleStates
  <2>3. claimed(e).status = "PROCESSING"
    BY <2>2 DEF Rows
  <2> HIDE DEF claimed
  <2>4. \A f \in Events : \/ row'[f] = row[f]
                          \/ f = e /\ row'[f].status \notin Settled
    <3>1. CASE row' = [row EXCEPT ![e] = claimed(e)]
      <4>1. row'[e] = claimed(e) /\ \A f \in Events \ {e} : row'[f] = row[f]
        BY <1>1, <2>2, <3>1
      <4>. QED  BY <2>3, <4>1 DEF Settled
    <3>. QED  BY <2>1, <3>1
  <2>5. cycle'[c].batch = cycle[c].batch
    BY <1>1, <2>1 DEF CycleStates
  <2>. QED  BY <1>1, <1>2, <2>1, <2>2, <2>4, <2>5 DEF Claim, Works, Goto
<1>3. CASE Publish(c) \/ HandleFailure(c)
  <2>1. cycle[c].at \in cycle[c].batch
    BY <1>3, AtHand DEF Publish, HandleFailure
  <2>2. \/ UNCHANGED row /\ cycle'[c].batch = cycle[c].batch
        \/ UNCHANGED row /\ cycle'[c].batch = cycle[c].batch \ {cycle[c].at}
        \/ /\ \E w : row' = [row EXCEPT ![cycle[c].at] = w]
           /\ cycle'[c].batch = cycle[c].batch \ {cycle[c].at}
    BY <1>1, <1>3 DEF Publish, HandleFailure, CycleStates
  <2>3. /\ pc[c] # "idle" /\ UNCHANGED isRunning
        /\ \A d \in Cycles \ {c} : pc'[d] = pc[d] /\ cycle'[d] = cycle[d]
    BY <1>1, <1>3 DEF Publish, HandleFailure, Goto
  <2>. QED  BY <1>1, <2>1, <2>2, <2>3 DEF Works
<1>4. CASE \/ NoListener(c) \/ StartHandler(c) \/ Notify(c) \/ CommitHandler(c)
           \/ Emit(c) \/ DeadlockVictim(c) \/ HandlerFails(c)
  <2>1. ASSUME Reject(c), pc[c] # "idle" PROVE Works(c)
    BY <1>1, <2>1 DEF Reject, Goto, Works, CycleStates
  <2>2. CASE DeadlockVictim(c) \/ HandlerFails(c)
    BY <2>1, <2>2 DEF DeadlockVictim, Blocked, HandlerFails
  <2>3. CASE Notify(c)
    BY <1>1, <2>1, <2>3, SMTT(30) DEF Notify, Works, CycleStates
  <2>4. CASE NoListener(c) \/ StartHandler(c)
    <3>1. /\ UNCHANGED <<row, isRunning>> /\ pc[c] # "idle"
          /\ \E label : Goto(c, label)
      BY <2>4 DEF NoListener, StartHandler
    <3>2. /\ \A d \in Cycles \ {c} : cycle'[d] = cycle[d]
          /\ cycle'[c].batch = cycle[c].batch
      BY <1>1, <2>4 DEF NoListener, StartHandler, CycleStates
    <3>. QED  BY <1>1, <3>1, <3>2 DEF Goto, Works
  <2>5. CASE CommitHandler(c) \/ Emit(c)
    BY <1>1, <2>5 DEF CommitHandler, Emit, MayEmit, Goto, Works, CycleStates
  <2>. QED  BY <1>4, <2>2, <2>3, <2>4, <2>5
<1>. QED  BY <1>2, <1>3, <1>4

\* The flag of an instance keeps its next cycle away.
LEMMA ApartStep == OutboxInv /\ CyclesApart /\ [Next]_vars => CyclesApart'
<1> SUFFICES ASSUME OutboxInv, CyclesApart, [Next]_vars PROVE CyclesApart'
  OBVIOUS
<1>1. /\ pc \in [Cycles -> Labels] /\ isRunning \in [Instances -> BOOLEAN]
      /\ \A c \in Cycles : InstanceOf[c] \in Instances
  BY DEF OutboxInv, TypeOK
<1>2. ASSUME NEW c \in Cycles, Works(c) PROVE CyclesApart'
  BY <1>2 DEF CyclesApart, Works
<1>3. ASSUME NEW c \in Cycles, Tick(c) PROVE CyclesApart'
  <2>1. /\ \A d \in Cycles \ {c} : pc'[d] = pc[d]
        /\ isRunning[InstanceOf[c]] = FALSE /\ isRunning'[InstanceOf[c]] = TRUE
        /\ \A i \in Instances \ {InstanceOf[c]} : isRunning'[i] = isRunning[i]
    BY <1>1, <1>3 DEF Tick, MayRun, Goto
  <2>2. \A d \in Cycles : InstanceOf[d] = InstanceOf[c] => pc[d] = "idle"
    BY <2>1 DEF CyclesApart
  <2>. QED  BY <1>1, <2>1, <2>2 DEF CyclesApart
<1>4. ASSUME NEW c \in Cycles, pc[c] # "idle", Finish(c) PROVE CyclesApart'
  <2>1. /\ \A d \in Cycles \ {c} : pc'[d] = pc[d] /\ pc'[c] = "idle"
        /\ \A i \in Instances \ {InstanceOf[c]} : isRunning'[i] = isRunning[i]
    BY <1>1, <1>4 DEF Finish, Goto
  <2>2. \A d \in Cycles \ {c} : InstanceOf[d] = InstanceOf[c] => pc[d] = "idle"
    BY <1>4 DEF CyclesApart
  <2>. QED  BY <1>1, <1>4, <2>1, <2>2 DEF CyclesApart, Finish, Goto
<1>5. ASSUME NEW c \in Cycles, Find(c), ~Finish(c) PROVE CyclesApart'
  <2>1. /\ pc[c] # "idle" /\ UNCHANGED isRunning
        /\ \A d \in Cycles \ {c} : pc'[d] = pc[d]
    BY <1>1, <1>5 DEF Find, Goto
  <2>. QED  BY <2>1 DEF CyclesApart
<1>6. ASSUME NEW i \in Instances, Crash(i) PROVE CyclesApart'
  <2>1. /\ \A c \in Cycles : pc'[c] = IF InstanceOf[c] = i THEN "idle" ELSE pc[c]
        /\ \A j \in Instances \ {i} : isRunning'[j] = isRunning[j]
    BY <1>1, <1>6 DEF Crash
  <2>. QED  BY <1>1, <2>1 DEF CyclesApart
<1>7. CASE UNCHANGED <<pc, isRunning>>
  BY <1>7 DEF CyclesApart
<1>8. ASSUME NEW c \in Cycles, Tick(c) \/ Step(c) \/ FindFails(c) \/ HandlerFails(c)
      PROVE  CyclesApart'
  BY <1>2, <1>3, <1>4, <1>5, <1>8, WorkShape DEF Step, FindFails, EndBatch, Find
<1>. QED  BY <1>6, <1>7, <1>8 DEF Next, Enqueue, Elapse, vars

\* Cycles of one instance never overlap, on however many instances others run: the
\* flag is set as long as one is under way, and goes down with the process
\* (outbox_processor.service.ts:15-32).
THEOREM CyclesOfAnInstanceAreApart == Spec => []CyclesApart
<1>1. Init => CyclesApart
  BY DEF Init, CyclesApart
<1>. QED  BY <1>1, ApartStep, OutboxInvariant, PTL DEF Spec

\* Served by one instance, what a cycle has loaded stays open until it settles it
\* itself.
LEMMA OpenStep ==
    ASSUME ServedByOne, OutboxInv, AloneInv, [Next]_vars
    PROVE  LoadedIsOpen'
<1>1. /\ row \in [Events -> Rows] /\ pc \in [Cycles -> Labels]
      /\ cycle \in [Cycles -> CycleStates]
      /\ \A c \in Cycles : cycle[c].batch \subseteq Events
  BY DEF OutboxInv, TypeOK, CycleStates
<1>2. ASSUME NEW c \in Cycles, pc[c] # "idle", NEW d \in Cycles \ {c}
      PROVE  cycle[d].batch = {}
  <2>1. pc[d] = "idle"
    BY <1>2 DEF ServedByOne, AloneInv, CyclesApart
  <2>. QED  BY <2>1 DEF OutboxInv, CyclesFit, BatchFits, EmptyCycle
<1>3. ASSUME NEW c \in Cycles, Works(c) PROVE LoadedIsOpen'
  <2>1. \A d \in Cycles \ {c} : cycle'[d].batch = {}
    BY <1>2, <1>3 DEF Works
  <2>2. \A e \in cycle'[c].batch : row'[e].status \notin Settled
    BY <1>1, <1>3 DEF Works, AloneInv, LoadedIsOpen
  <2>. QED  BY <2>1, <2>2 DEF LoadedIsOpen
<1>4. ASSUME NEW c \in Cycles, Finish(c) PROVE LoadedIsOpen'
  <2>1. row' = row /\ cycle' = [cycle EXCEPT ![c] = EmptyCycle]
    BY <1>4 DEF Finish
  <2>2. \A d \in Cycles : cycle'[d].batch \subseteq cycle[d].batch
    BY <1>1, <2>1 DEF EmptyCycle
  <2>. QED  BY <2>1, <2>2 DEF AloneInv, LoadedIsOpen
<1>5. ASSUME NEW c \in Cycles, Find(c), ~Finish(c) PROVE LoadedIsOpen'
  <2>1. PICK B \in Batches :
          row' = row /\ cycle' = [cycle EXCEPT ![c].batch = B, ![c].copy = row]
    BY <1>5 DEF Find
  <2>2. \A e \in B : row[e].status \notin Settled
    BY DEF Batches, Eligible, Settled
  <2>3. cycle'[c].batch = B /\ \A d \in Cycles \ {c} : cycle'[d] = cycle[d]
    BY <1>1, <2>1 DEF CycleStates
  <2>. QED  BY <2>1, <2>2, <2>3 DEF AloneInv, LoadedIsOpen
<1>6. ASSUME NEW i \in Instances, Crash(i) PROVE LoadedIsOpen'
  <2>1. /\ row' = row
        /\ \A d \in Cycles : cycle'[d] = cycle[d] \/ cycle'[d] = EmptyCycle
    BY <1>6 DEF Crash
  <2>. QED  BY <2>1 DEF AloneInv, LoadedIsOpen, EmptyCycle
<1>7. ASSUME NEW e \in Events, Enqueue(e) \/ Elapse(e) PROVE LoadedIsOpen'
  <2>1. cycle' = cycle /\ \A f \in Events : \/ row'[f].status = row[f].status
                                            \/ row'[f].status = "PENDING"
    BY <1>1, <1>7 DEF Enqueue, Elapse, Rows
  <2>. QED  BY <1>1, <2>1 DEF AloneInv, LoadedIsOpen, Settled
<1>8. CASE UNCHANGED <<row, cycle>>
  BY <1>8 DEF AloneInv, LoadedIsOpen
<1>9. ASSUME NEW c \in Cycles, Tick(c) \/ Step(c) \/ FindFails(c) \/ HandlerFails(c)
      PROVE  LoadedIsOpen'
  BY <1>3, <1>4, <1>5, <1>8, <1>9, WorkShape DEF Step, FindFails, EndBatch, Tick
<1>. QED  BY <1>6, <1>7, <1>8, <1>9 DEF Next, vars

\* No cycle holds an entity of a settled row.
LEMMA AlwaysAlone == ASSUME ServedByOne PROVE Spec => []AloneInv
<1>1. Init => AloneInv
  BY DEF Init, AloneInv, CyclesApart, LoadedIsOpen, EmptyCycle
<1>2. OutboxInv /\ AloneInv /\ [Next]_vars => AloneInv'
  BY ApartStep, OpenStep DEF AloneInv
<1>. QED  BY <1>1, <1>2, OutboxInvariant, PTL DEF Spec

\* One instance never takes up again what is PUBLISHED or FAILED: it has no cycle
\* that could save a stale entity over the row
\* (outbox_processor.service.ts:15-32, 95-127).
THEOREM SettledStaysSettled ==
    ASSUME ServedByOne
    PROVE  Spec => SettledIsFinal
<1> DEFINE Final == \A e \in Events : row[e].status \in {"PUBLISHED", "FAILED"} =>
                        row'[e] = row[e]
<1>1. OutboxInv /\ AloneInv /\ [Next]_vars => [Final]_vars
  <2> SUFFICES ASSUME OutboxInv, AloneInv, [Next]_vars PROVE Final \/ UNCHANGED vars
    OBVIOUS
  <2>1. row \in [Events -> Rows]
    BY DEF OutboxInv, TypeOK
  <2>2. ASSUME NEW c \in Cycles, Works(c) PROVE Final
    BY <2>2 DEF Works, AloneInv, LoadedIsOpen, Settled
  <2>3. ASSUME NEW e \in Events, Enqueue(e) \/ Elapse(e) PROVE Final
    BY <2>1, <2>3 DEF Enqueue, Elapse
  <2>4. ASSUME row' = row PROVE Final
    BY <2>4
  <2>5. ASSUME NEW c \in Cycles, Tick(c) \/ Step(c) \/ FindFails(c) \/ HandlerFails(c)
        PROVE  Final
    <3>1. CASE Tick(c) \/ Find(c) \/ EndBatch(c) \/ FindFails(c)
      BY <2>4, <3>1 DEF Tick, Find, EndBatch, FindFails, Finish
    <3>2. CASE ~(Tick(c) \/ Find(c) \/ EndBatch(c) \/ FindFails(c))
      <4>1. Works(c)
        BY <2>5, <3>2, WorkShape DEF Step
      <4>. QED  BY <2>2, <4>1
    <3>. QED  BY <3>1, <3>2
  <2>6. CASE \E i \in Instances : Crash(i)
    BY <2>4, <2>6 DEF Crash
  <2>. QED  BY <2>3, <2>5, <2>6 DEF Next
<1>. QED  BY <1>1, OutboxInvariant, AlwaysAlone, PTL DEF Spec, SettledIsFinal

=============================================================================
