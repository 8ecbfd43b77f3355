------------------------------- MODULE Outbox -------------------------------
(***************************************************************************)
(* The outbox of low-stock events: OutboxProcessorService polls the        *)
(* PENDING rows of outbox_events, hands each to LowStockHandler, which     *)
(* stores one notification per recipient with NotificationsService.create  *)
(* and emits them to the recipients' sockets, and records the outcome in   *)
(* the row.                                                                *)
(*                                                                         *)
(* The actors are the polling cycles, one per firing of the interval.  A   *)
(* cycle belongs to an instance of the application; isRunning keeps the    *)
(* cycles of one instance apart, nothing keeps instances apart.  A cycle   *)
(* works on the rows it has loaded and saves them as a whole.              *)
(***************************************************************************)
EXTENDS Integers, FiniteSets

CONSTANTS
    Events,         \* the rows of outbox_events
    Created,        \* [Events -> Nat] created_at, in seconds: ties happen
    Users,          \* the users of the business
    Recipients,     \* [Events -> SUBSET Users] the storemen of the business
                    \* and the managers of the store
    Instances,      \* instances of the application on one database
    Cycles,         \* polling cycles
    InstanceOf,     \* [Cycles -> Instances]
    BatchSize,      \* 25 in the code
    MaxAttempts,    \* 10 in the code
    Heard,          \* the events whose type has a listener
    Faults,         \* the kinds of faults that may happen
    MaxFaults,      \* how many of them a behaviour has
    NONE

FaultKinds == {"find", "claim", "handler", "publish", "failure", "crash"}

ASSUME ConstantsAssumption ==
    /\ Created \in [Events -> Nat]
    /\ Recipients \in [Events -> SUBSET Users]
    /\ InstanceOf \in [Cycles -> Instances]
    /\ BatchSize \in Nat \ {0}
    /\ MaxAttempts \in Nat \ {0}
    /\ Heard \subseteq Events
    /\ Faults \subseteq FaultKinds
    /\ MaxFaults \in Nat

ASSUME NoneAssumption == NONE \notin Events

VARIABLES
    row,        \* outbox_events
    notified,   \* how many rows of notifications an event and a user have
    emitted,    \* the events and users for whom the gateway has emitted
    isRunning,  \* the flag of each instance
    pc,         \* where a cycle stands
    cycle,      \* what a cycle holds in memory and in its transaction
    swallowed,  \* history: the events whose handler has thrown, unnoticed by
                \* the processor
    faults      \* the faults so far

vars == <<row, notified, emitted, isRunning, pc, cycle, swallowed, faults>>

-----------------------------------------------------------------------------
(* Rows and cycles                                                         *)

Statuses == {"PENDING", "PROCESSING", "PUBLISHED", "FAILED"}

\* due: has available_at passed?
Rows == [status: Statuses \cup {"ABSENT"}, attempts: 0..MaxAttempts, due: BOOLEAN]

Pairs == Events \X Users

CycleStates == [
    batch:    SUBSET Events,          \* the loaded events still to process
    copy:     [Events -> Rows],       \* the loaded entities
    at:       Events \cup {NONE},     \* the event at hand
    snapshot: SUBSET Pairs,           \* notifications the transaction sees
    inserted: SUBSET Users,           \* recipients notified, not committed
    todo:     SUBSET Users]           \* recipients still to notify

Absent == [status |-> "ABSENT", attempts |-> 0, due |-> FALSE]

EmptyCycle == [batch |-> {}, copy |-> [e \in Events |-> Absent], at |-> NONE,
               snapshot |-> {}, inserted |-> {}, todo |-> {}]

Init ==
    /\ row = [e \in Events |-> Absent]
    /\ notified = [x \in Pairs |-> 0]
    /\ emitted = {}
    /\ isRunning = [i \in Instances |-> FALSE]
    /\ pc = [c \in Cycles |-> "idle"]
    /\ cycle = [c \in Cycles |-> EmptyCycle]
    /\ swallowed = {}
    /\ faults = 0

Goto(c, label) == pc' = [pc EXCEPT ![c] = label]

NoFault == UNCHANGED faults

Fault(kind) ==
    /\ kind \in Faults /\ faults < MaxFaults
    /\ faults' = faults + 1

\* StocksService.update commits an event with the count that caused it.
Enqueue(e) ==
    /\ row[e].status = "ABSENT"
    /\ row' = [row EXCEPT ![e] = [status |-> "PENDING", attempts |-> 0, due |-> TRUE]]
    /\ UNCHANGED <<notified, emitted, isRunning, pc, cycle, swallowed, faults>>

\* The delay of a failed event has passed.
Elapse(e) ==
    /\ row[e].status = "PENDING" /\ ~row[e].due
    /\ row' = [row EXCEPT ![e].due = TRUE]
    /\ UNCHANGED <<notified, emitted, isRunning, pc, cycle, swallowed, faults>>

-----------------------------------------------------------------------------
(* OutboxProcessorService.processPendingEvents                             *)

\* Mutant: the flag is not looked at.
MayRunAlways(c) == TRUE

MayRun(c) == ~isRunning[InstanceOf[c]]

\* The interval fires.
Tick(c) ==
    /\ pc[c] = "idle" /\ MayRun(c)
    /\ isRunning' = [isRunning EXCEPT ![InstanceOf[c]] = TRUE]
    /\ Goto(c, "find")
    /\ UNCHANGED <<row, notified, emitted, cycle, swallowed, faults>>

\* Mutant: the flag is not reset.
FinishRunning(c) ==
    /\ Goto(c, "idle")
    /\ cycle' = [cycle EXCEPT ![c] = EmptyCycle]
    /\ UNCHANGED <<row, notified, emitted, isRunning, swallowed>>

Finish(c) ==
    /\ isRunning' = [isRunning EXCEPT ![InstanceOf[c]] = FALSE]
    /\ Goto(c, "idle")
    /\ cycle' = [cycle EXCEPT ![c] = EmptyCycle]
    /\ UNCHANGED <<row, notified, emitted, swallowed>>

Eligible == {e \in Events : row[e].status = "PENDING" /\ row[e].due}

\* The oldest BatchSize eligible events.
Batches ==
    {B \in SUBSET Eligible :
        /\ Cardinality(B) = IF Cardinality(Eligible) < BatchSize
                            THEN Cardinality(Eligible) ELSE BatchSize
        /\ \A e \in B, f \in Eligible \ B : Created[e] <= Created[f]}

Find(c) ==
    /\ pc[c] = "find"
    /\ NoFault
    /\ \E B \in Batches :
        \/ B = {} /\ Finish(c)
        \/ /\ B # {}
           /\ cycle' = [cycle EXCEPT ![c].batch = B, ![c].copy = row]
           /\ Goto(c, "next")
           /\ UNCHANGED <<row, notified, emitted, isRunning, swallowed>>

\* The poll fails: it is logged and the cycle ends.
FindFails(c) ==
    /\ pc[c] = "find"
    /\ Fault("find")
    /\ Finish(c)

\* All loaded events are processed.
EndBatch(c) ==
    /\ pc[c] = "next" /\ cycle[c].batch = {}
    /\ NoFault
    /\ Finish(c)

-----------------------------------------------------------------------------
(* OutboxProcessorService.processEvent and handleFailure                   *)

\* The loaded entity of the event at hand.
Entity(c) == cycle[c].copy[cycle[c].at]

\* The events of the batch to process next.
Oldest(c) == {e \in cycle[c].batch :
                \A f \in cycle[c].batch : Created[e] <= Created[f]}

\* Mutant: an event without a listener counts as done.
NoListenerDiscards(c) ==
    /\ pc[c] = "next"
    /\ \E e \in Oldest(c) \ Heard : cycle' = [cycle EXCEPT ![c].at = e]
    /\ Goto(c, "publish")
    /\ UNCHANGED <<row, notified, emitted, isRunning, swallowed, faults>>

\* An event without a listener is a failure, but no attempt.
NoListener(c) ==
    /\ pc[c] = "next"
    /\ \E e \in Oldest(c) \ Heard : cycle' = [cycle EXCEPT ![c].at = e]
    /\ Goto(c, "failure")
    /\ UNCHANGED <<row, notified, emitted, isRunning, swallowed, faults>>

\* The entity is PROCESSING with one attempt more, and so is the row, unless
\* the save fails.
Claim(c) ==
    /\ pc[c] = "next"
    /\ \E e \in Oldest(c) \cap Heard :
        LET claimed == [cycle[c].copy[e] EXCEPT !.status = "PROCESSING",
                                                !.attempts = @ + 1] IN
        /\ cycle' = [cycle EXCEPT ![c].at = e, ![c].copy[e] = claimed]
        /\ \/ /\ NoFault
              /\ row' = [row EXCEPT ![e] = claimed]
              /\ Goto(c, "handle")
           \/ /\ Fault("claim")
              /\ Goto(c, "failure")
              /\ UNCHANGED row
    /\ UNCHANGED <<notified, emitted, isRunning, swallowed>>

\* Where processEvent goes on once the handler has thrown: the decorator logs the
\* rejection and swallows it, which is what it does unless it is told otherwise,
\* so that emitAsync resolves.
AfterRejection == "publish"

\* The entity is PUBLISHED, and so is the row, unless the save fails.
Publish(c) ==
    /\ pc[c] = "publish"
    /\ LET e == cycle[c].at
           published == [Entity(c) EXCEPT !.status = "PUBLISHED"] IN
        \/ /\ NoFault
           /\ row' = [row EXCEPT ![e] = published]
           /\ cycle' = [cycle EXCEPT ![c].batch = @ \ {e}, ![c].at = NONE]
           /\ Goto(c, "next")
        \/ /\ Fault("publish")
           /\ cycle' = [cycle EXCEPT ![c].copy[e] = published]
           /\ Goto(c, "failure")
           /\ UNCHANGED row
    /\ UNCHANGED <<notified, emitted, isRunning, swallowed>>

\* Mutant: one attempt too many.
RetryOnceMore(entity) ==
    IF entity.attempts > MaxAttempts THEN [entity EXCEPT !.status = "FAILED"]
    ELSE [entity EXCEPT !.status = "PENDING", !.due = FALSE]

\* What becomes of an entity whose processing has failed: it waits for its next
\* attempt, or has used them up.
Retry(entity) ==
    IF entity.attempts >= MaxAttempts THEN [entity EXCEPT !.status = "FAILED"]
    ELSE [entity EXCEPT !.status = "PENDING", !.due = FALSE]

\* A save that fails here as well is logged and forgotten.
HandleFailure(c) ==
    /\ pc[c] = "failure"
    /\ LET e == cycle[c].at IN
        /\ \/ NoFault /\ row' = [row EXCEPT ![e] = Retry(Entity(c))]
           \/ Fault("failure") /\ UNCHANGED row
        /\ cycle' = [cycle EXCEPT ![c].batch = @ \ {e}, ![c].at = NONE]
    /\ Goto(c, "next")
    /\ UNCHANGED <<notified, emitted, isRunning, swallowed>>

-----------------------------------------------------------------------------
(* LowStockHandler.handle and NotificationsService.create                  *)

\* The transaction starts and reads the recipients, which fixes what it sees.
\* Without recipients there is nothing to do.
StartHandler(c) ==
    /\ pc[c] = "handle"
    /\ LET recipients == Recipients[cycle[c].at] IN
        \/ /\ recipients = {}
           /\ Goto(c, "publish")
           /\ UNCHANGED cycle
        \/ /\ recipients # {}
           /\ cycle' = [cycle EXCEPT ![c].todo = recipients,
                                     ![c].snapshot = {x \in Pairs : notified[x] > 0}]
           /\ Goto(c, "notify")
    /\ UNCHANGED <<row, notified, emitted, isRunning, swallowed, faults>>

\* Cycle d has inserted the notification of e and u and not committed it yet.
HeldBy(d, e, u) == cycle[d].at = e /\ u \in cycle[d].inserted

\* Mutant: the notifications inserted so far are committed.
RejectCommitting(c) ==
    /\ Goto(c, AfterRejection)
    /\ notified' = [x \in Pairs |->
            IF HeldBy(c, x[1], x[2]) THEN notified[x] + 1 ELSE notified[x]]
    /\ cycle' = [cycle EXCEPT ![c].todo = {}, ![c].inserted = {}, ![c].snapshot = {}]
    /\ swallowed' = swallowed \cup {cycle[c].at}
    /\ UNCHANGED <<row, emitted, isRunning>>

\* The handler throws: its transaction, if it is still open, is rolled back.
Reject(c) ==
    /\ Goto(c, AfterRejection)
    /\ cycle' = [cycle EXCEPT ![c].todo = {}, ![c].inserted = {}, ![c].snapshot = {}]
    /\ swallowed' = swallowed \cup {cycle[c].at}
    /\ UNCHANGED <<row, notified, emitted, isRunning>>

\* Mutant: there is no unique index.
AnyIsUnique(e, u) == TRUE

\* Does the unique index take a notification of e and u?
Unique(e, u) == notified[<<e, u>>] = 0

\* The plain read for an existing notification.
Existing(c, u) == <<cycle[c].at, u>> \in cycle[c].snapshot

\* A notification that is there is kept; otherwise one is inserted.  A duplicate
\* is looked up again by the same plain read.
Notify(c) ==
    /\ pc[c] = "notify"
    /\ \E u \in cycle[c].todo :
        LET e == cycle[c].at IN
        \/ /\ Existing(c, u)
           /\ cycle' = [cycle EXCEPT ![c].todo = @ \ {u}]
           /\ UNCHANGED <<row, notified, emitted, isRunning, pc, swallowed>>
        \/ /\ ~Existing(c, u)
           /\ \A d \in Cycles \ {c} : ~HeldBy(d, e, u)
           /\ \/ /\ Unique(e, u)
                 /\ cycle' = [cycle EXCEPT ![c].todo = @ \ {u},
                                           ![c].inserted = @ \cup {u}]
                 /\ UNCHANGED <<row, notified, emitted, isRunning, pc, swallowed>>
              \/ /\ ~Unique(e, u)
                 /\ Reject(c)
    /\ NoFault

\* Mutant: the notifications are emitted before the commit.
MayEmitEarly(c) == pc[c] = "emit" \/ (pc[c] = "notify" /\ cycle[c].todo = {})

MayEmit(c) == pc[c] = "emit"

\* Mutant: the transaction is not committed.
ForgetCommit(c) ==
    /\ pc[c] = "notify" /\ cycle[c].todo = {}
    /\ cycle' = [cycle EXCEPT ![c].inserted = {}, ![c].snapshot = {}]
    /\ Goto(c, "emit")
    /\ UNCHANGED <<row, notified, emitted, isRunning, swallowed, faults>>

CommitHandler(c) ==
    /\ pc[c] = "notify" /\ cycle[c].todo = {}
    /\ notified' = [x \in Pairs |->
            IF HeldBy(c, x[1], x[2]) THEN notified[x] + 1 ELSE notified[x]]
    /\ cycle' = [cycle EXCEPT ![c].inserted = {}, ![c].snapshot = {}]
    /\ Goto(c, "emit")
    /\ UNCHANGED <<row, emitted, isRunning, swallowed, faults>>

\* The recipients' sockets get the notifications, those that were there before
\* included.
Emit(c) ==
    /\ MayEmit(c)
    /\ emitted' = emitted \cup ({cycle[c].at} \X Recipients[cycle[c].at])
    /\ Goto(c, "publish")
    /\ UNCHANGED <<row, notified, isRunning, cycle, swallowed, faults>>

\* A statement of the handler fails, or the commit is done but its answer is lost,
\* or the emission fails.
HandlerFails(c) ==
    /\ pc[c] \in {"handle", "notify", "emit"}
    /\ Fault("handler")
    /\ Reject(c)

\* c cannot go on before d ends its transaction.
WaitsFor(c, d) ==
    /\ pc[c] = "notify"
    /\ \E u \in cycle[c].todo : ~Existing(c, u) /\ HeldBy(d, cycle[c].at, u)

Blocked(c) ==
    /\ pc[c] = "notify" /\ cycle[c].todo # {}
    /\ \A u \in cycle[c].todo :
        ~Existing(c, u) /\ \E d \in Cycles \ {c} : HeldBy(d, cycle[c].at, u)

\* The database rolls back one of the transactions that wait for each other.
DeadlockVictim(c) ==
    /\ \E S \in SUBSET Cycles :
        /\ c \in S
        /\ \A d \in S : Blocked(d) /\ \E f \in S \ {d} : WaitsFor(d, f)
    /\ NoFault
    /\ Reject(c)

-----------------------------------------------------------------------------

\* The process of an instance dies and is started again.
Crash(i) ==
    /\ Fault("crash")
    /\ isRunning' = [isRunning EXCEPT ![i] = FALSE]
    /\ pc' = [c \in Cycles |-> IF InstanceOf[c] = i THEN "idle" ELSE pc[c]]
    /\ cycle' = [c \in Cycles |-> IF InstanceOf[c] = i THEN EmptyCycle ELSE cycle[c]]
    /\ UNCHANGED <<row, notified, emitted, swallowed>>

\* What a cycle does once its interval has fired, when nothing fails.
Step(c) ==
    \/ Find(c) \/ EndBatch(c) \/ NoListener(c) \/ Claim(c) \/ Publish(c)
    \/ HandleFailure(c) \/ StartHandler(c) \/ Notify(c) \/ CommitHandler(c)
    \/ Emit(c) \/ DeadlockVictim(c)

Next ==
    \/ \E e \in Events : Enqueue(e) \/ Elapse(e)
    \/ \E c \in Cycles : Tick(c) \/ Step(c) \/ FindFails(c) \/ HandlerFails(c)
    \/ \E i \in Instances : Crash(i)

Spec == Init /\ [][Next]_vars

\* The interval keeps firing, a cycle goes on, delays pass.  Nothing makes a
\* count record an event and nothing makes a fault happen.
Fairness ==
    /\ \A c \in Cycles : WF_vars(Tick(c)) /\ WF_vars(Step(c))
    /\ \A e \in Events : WF_vars(Elapse(e))

FairSpec == Spec /\ Fairness

-----------------------------------------------------------------------------
(* Properties                                                              *)

Labels == {"idle", "find", "next", "handle", "notify", "emit", "publish", "failure"}

\* The tables and the cycles hold values of their types; in particular no row
\* and no loaded entity has more attempts than the maximum.
TypeOK ==
    /\ row \in [Events -> Rows]
    /\ notified \in [Pairs -> Nat]
    /\ emitted \subseteq Pairs
    /\ isRunning \in [Instances -> BOOLEAN]
    /\ pc \in [Cycles -> Labels]
    /\ cycle \in [Cycles -> CycleStates]
    /\ swallowed \subseteq Events
    /\ faults \in 0..MaxFaults

\* Everybody whom e concerns has a notification of it.
Notified(e) == \A u \in Recipients[e] : notified[<<e, u>>] > 0

\* An event is PUBLISHED only when each of its recipients has a notification: a
\* rejection of the listener must not reach the save of PUBLISHED.  The comment
\* of the dispatch says so (outbox_processor.service.ts:77-86), and it is not so.
PublishedWasNotified ==
    \A e \in Events : row[e].status = "PUBLISHED" => Notified(e)

\* Nothing but a swallowed rejection takes the notifications of an event that is
\* PUBLISHED: no missing listener, failed claim or save, lost answer or crash
\* does, nor the stale entity of another instance
\* (outbox_processor.service.ts:66-92, low_stock.handler.ts:25, 85-122).
UnnotifiedWasSwallowed ==
    \A e \in Events :
        row[e].status = "PUBLISHED" /\ ~Notified(e) => e \in swallowed

\* A recipient has one notification of an event at most, although handlers are
\* repeated after lost answers and crashes and run on several instances at once
\* (notification.entity.ts:12, notifications.service.ts:44).
NotifiedOnce == \A x \in Pairs : notified[x] <= 1

\* Clients never receive a notification that is not committed
\* (low_stock.handler.ts:103).
EmittedWasPersisted == \A x \in emitted : notified[x] > 0

\* A row that waits has attempts left and a FAILED one has none, also where the
\* save of an attempt fails or another instance saves a stale entity
\* (outbox_processor.service.ts:104-107).
RetriesAreBounded ==
    \A e \in Events :
        /\ row[e].status = "PENDING" => row[e].attempts < MaxAttempts
        /\ row[e].status = "FAILED" => row[e].attempts = MaxAttempts

\* One instance never takes up again what is PUBLISHED or FAILED: its cycles do
\* not overlap, so no cycle saves a stale entity over a settled row
\* (outbox_processor.service.ts:15-32).
SettledIsFinal ==
    [][\A e \in Events : row[e].status \in {"PUBLISHED", "FAILED"} =>
            row'[e] = row[e]]_vars

\* When a concurrent insert wins the notification of a recipient, the handler
\* goes on with the notification that is there
\* (notifications.service.ts:67, notifications.service.spec.ts:187).
ConcurrentInsertIsReturned ==
    [][\A c \in Cycles :
        (pc[c] = "notify" /\ ~Blocked(c) /\ faults' = faults) =>
            pc'[c] \in {"notify", "emit"}]_vars

\* A recorded event ends as PUBLISHED or FAILED: polls that fail, handlers that
\* fail and saves that fail only delay it, as long as the process lives and the
\* failure itself can be saved.
EventIsSettled ==
    \A e \in Events :
        row[e].status = "PENDING" ~> row[e].status \in {"PUBLISHED", "FAILED"}

\* The outbox implements the announcements: what is announced is what has a
\* notification.
Promise == INSTANCE Announcements WITH
    recorded  <- {e \in Events : row[e].status # "ABSENT"},
    announced <- {x \in Pairs : notified[x] > 0}

\* An event is announced to all of its recipients in one step and never taken
\* back, although the handler inserts the notifications one by one.
Announces == Promise!Spec

-----------------------------------------------------------------------------
(* The inductive invariant behind the safety properties                    *)

Recorded == {e \in Events : row[e].status # "ABSENT"}

\* What a cycle has loaded was recorded, and waits with attempts left until it is
\* the event at hand.
BatchFits(c) ==
    /\ pc[c] \in {"idle", "find"} => cycle[c] = EmptyCycle
    /\ pc[c] = "next" => cycle[c].at = NONE
    /\ pc[c] \notin {"idle", "find", "next"} => cycle[c].at \in cycle[c].batch
    /\ \A e \in cycle[c].batch :
        /\ e \in Recorded
        /\ cycle[c].copy[e].status # "ABSENT"
        /\ e # cycle[c].at => /\ cycle[c].copy[e].status = "PENDING"
                              /\ cycle[c].copy[e].attempts < MaxAttempts

\* What a transaction has seen is there, what it has inserted is not there yet, and
\* the recipients it is done with have a notification or get one with its commit.
HandlerFits(c) ==
    /\ pc[c] # "notify" => cycle[c].inserted = {}
    /\ \A u \in cycle[c].inserted : notified[<<cycle[c].at, u>>] = 0
    /\ \A x \in cycle[c].snapshot : notified[x] > 0
    /\ pc[c] = "notify" =>
        /\ cycle[c].todo \cup cycle[c].inserted \subseteq Recipients[cycle[c].at]
        /\ \A u \in Recipients[cycle[c].at] \ (cycle[c].todo \cup cycle[c].inserted) :
                notified[<<cycle[c].at, u>>] > 0
    /\ pc[c] = "emit" => Notified(cycle[c].at)
    /\ pc[c] = "publish" => Notified(cycle[c].at) \/ cycle[c].at \in swallowed

\* Two transactions never hold an insert of the same notification.
InsertsApart ==
    \A c \in Cycles : \A d \in Cycles \ {c} :
        \A u \in cycle[c].inserted : ~HeldBy(d, cycle[c].at, u)

CyclesFit == \A c \in Cycles : BatchFits(c) /\ HandlerFits(c)

\* The cycles agree with the rows, the notifications and the rejections, so that
\* notifications are unique, attempts bounded, and nothing but a rejection keeps
\* the recipients of a PUBLISHED event without a notification.
OutboxInv ==
    /\ TypeOK /\ CyclesFit /\ InsertsApart
    /\ NotifiedOnce /\ EmittedWasPersisted /\ RetriesAreBounded
    /\ UnnotifiedWasSwallowed

\* All cycles belong to one instance of the application.
ServedByOne == \A c, d \in Cycles : InstanceOf[c] = InstanceOf[d]

Settled == {"PUBLISHED", "FAILED"}

\* Cycles of one instance do not overlap: isRunning is set while one is under way.
CyclesApart ==
    \A c \in Cycles : pc[c] # "idle" =>
        /\ isRunning[InstanceOf[c]]
        /\ \A d \in Cycles \ {c} : InstanceOf[d] = InstanceOf[c] => pc[d] = "idle"

\* What a cycle has loaded and not processed yet is not settled.
LoadedIsOpen ==
    \A c \in Cycles : \A e \in cycle[c].batch : row[e].status \notin Settled

\* Served by one instance, no cycle holds an entity of a settled row.
AloneInv == CyclesApart /\ LoadedIsOpen

=============================================================================
