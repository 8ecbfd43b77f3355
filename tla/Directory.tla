------------------------------ MODULE Directory ------------------------------
(***************************************************************************)
(* Stores, categories, suppliers, product sources and the creation of      *)
(* purchase orders, for one business, over the pool of MySQL connections   *)
(* that TypeORM shares between the calls.                                  *)
(*                                                                         *)
(* A repository takes any free connection for a statement.  Creating a     *)
(* source opens a transaction, never commits it and gives the connection   *)
(* back: what is read there afterwards is the old snapshot, a plain UPDATE *)
(* or DELETE joins the open transaction, and the next START TRANSACTION on *)
(* that connection commits it all.                                         *)
(*                                                                         *)
(* The business, the creator and the products asked for exist throughout,  *)
(* and all sources are of one product.  A call that finds no row to work   *)
(* on answers 404 and changes nothing: it is left out.                     *)
(***************************************************************************)
EXTENDS Naturals, FiniteSets

CONSTANTS
    Requests,       \* the calls; each is made once and names the row it makes
    Connections,    \* the pool
    Labels,         \* what rows can be called: records of a name and a code
    Initial,        \* the rows at the start: id -> row
    NIL             \* no row, call or value

Ids == Requests \cup DOMAIN Initial

Tables == {"store", "category", "supplier", "source", "order"}
Titles == {l.name : l \in Labels} \cup {Initial[i].name : i \in DOMAIN Initial}
              \cup {NIL}
Codes == {l.code : l \in Labels} \cup {Initial[i].code : i \in DOMAIN Initial}
              \cup {NIL}

Entries == [table : Tables, name : Titles, code : Codes,
            supplier : Ids \cup {NIL}, removed : BOOLEAN]

\* What a transaction writes, or a snapshot holds.
RowsOfIds(rows) == DOMAIN rows \subseteq Ids /\ rows \in [DOMAIN rows -> Entries \cup {NIL}]

Jobs == [op : {"none", "create", "update", "remove"}, id : Ids \cup {NIL},
         row : Entries \cup {NIL}, memory : Entries \cup {NIL}]

\* The rows at the start are ones that calls have made one after the other.
ASSUME DirectoryAssumption ==
    /\ Connections # {}
    /\ NIL \notin Ids /\ NIL \notin Entries
    /\ Requests \cap DOMAIN Initial = {}
    /\ \A i \in DOMAIN Initial : Initial[i] \in Entries
    /\ \A i, j \in DOMAIN Initial :
           /\ Initial[i].table = "store" /\ ~ Initial[i].removed
           /\ Initial[j].table = "store" /\ ~ Initial[j].removed
           /\ Initial[i].name = Initial[j].name
           => i = j

VARIABLES
    entries,        \* committed: id -> row, or NIL
    pool,           \* connection -> its user, its open transaction
    job,            \* call -> what it was asked and the row it has loaded
    step,           \* call -> what it does next
    answer,         \* call -> "none", "ok" or "refused"
    contested,      \* history: calls that overlapped another one, or that read
                    \* through a transaction that a source creation left open
    writers,        \* history: id -> the calls that have written the row
    overtaken,      \* history: calls that had loaded a row removed since, or
                    \* that loaded a removed row from an old snapshot
    retired,        \* history: ids that were live once and then removed
    closed          \* history: ids whose pending writes went with a connection

directoryVars == <<entries, pool, job, step, answer, contested, writers,
                   overtaken, retired, closed>>
unchangedRows == <<entries, overtaken, retired>>

Steps == {"new", "insert", "name", "code", "save", "softDelete", "counts",
          "sources", "orders", "used", "delete", "softRemove", "source", "order", "readBack",
          "end"}

-----------------------------------------------------------------------------
(* The connections.                                                        *)

NoChange == [i \in {} |-> NIL]
Change(i, row) == [j \in {i} |-> row]

\* The rows as the changes leave them.
Over(changes, rows) ==
    [i \in DOMAIN changes \cup DOMAIN rows |->
        IF i \in DOMAIN changes THEN changes[i] ELSE rows[i]]

Idle == [by |-> NIL, open |-> FALSE, opener |-> NIL, view |-> NoChange,
         writes |-> NoChange]

Free(k) == pool[k].by = NIL
Pending(k) == DOMAIN pool[k].writes

\* The latest rows, and the ones a plain read sees.
Latest(k) == Over(pool[k].writes, entries)
Seen(k) == IF pool[k].open THEN Over(pool[k].writes, pool[k].view) ELSE entries

Present(rows, i) == rows[i] # NIL
Live(rows) == {i \in Ids : Present(rows, i) /\ ~ rows[i].removed}
LiveIn(rows, t) == {i \in Live(rows) : rows[i].table = t}

\* What the unique keys of the tables compare; names of stores are not unique.
Key(row) == CASE row.table = "store"  -> <<"store", row.code>>
              [] row.table = "source" -> <<"source", row.supplier>>
              [] OTHER                -> <<row.table, row.name>>
Keyed(row) == row.table # "order"

KeyFree(rows, i, row) ==
    Keyed(row) => \A j \in Ids \ {i} :
        Present(rows, j) /\ Keyed(rows[j]) => Key(rows[j]) # Key(row)

ReferenceHolds(rows, row) == row.supplier = NIL \/ Present(rows, row.supplier)

Accepted(rows, i, row) == KeyFree(rows, i, row) /\ ReferenceHolds(rows, row)

\* Row locks of the open transactions of other connections.
Waits(k, i, row) ==
    \E l \in Connections \ {k} : \E j \in Pending(l) :
        LET pending == pool[l].writes[j]
        IN  \/ j = i
            \/ pending # NIL /\ pending.supplier = i
            \/ row # NIL /\ row.supplier = j
            \/ row # NIL /\ pending # NIL /\ Keyed(row) /\ Keyed(pending)
                         /\ Key(row) = Key(pending)

-----------------------------------------------------------------------------
(* History and answers.                                                    *)

Going == {c \in Requests : step[c] \notin {"new", "end"}}

\* Call c goes on with connection k: it overlaps the calls under way.
Contest(c, k) ==
    contested' = contested \cup
        (IF Going \ {c} = {} THEN {} ELSE Going \cup {c}) \cup
        (IF Free(k) /\ pool[k].open THEN {c} ELSE {})

\* "first" and then "rows" become the committed ones.
Install(first, rows) ==
    LET gone == Live(entries) \ (Live(first) \cap Live(rows))
    IN  /\ entries' = rows
        /\ retired' = retired \cup gone
        /\ overtaken' = overtaken \cup {c \in Going : job[c].id \in gone}

\* A statement without a transaction of its own: it joins one that is open.
Execute(k, changes) ==
    IF pool[k].open
    THEN /\ pool' = [pool EXCEPT ![k].writes = Over(changes, @)]
         /\ UNCHANGED unchangedRows
    ELSE Install(entries, Over(changes, entries)) /\ UNCHANGED pool

\* START TRANSACTION commits what the connection has open; COMMIT the rest.
Transaction(k, changes) ==
    /\ Install(Latest(k), Over(changes, Latest(k)))
    /\ pool' = [pool EXCEPT ![k] = Idle]

Wrote(c, i) == writers' = [writers EXCEPT ![i] = @ \cup {c}]

Continue(c, s) == step' = [step EXCEPT ![c] = s] /\ UNCHANGED answer
Reply(c, a) == /\ step' = [step EXCEPT ![c] = "end"]
               /\ answer' = [answer EXCEPT ![c] = a]

Asked(op, i, row, memory) == [op |-> op, id |-> i, row |-> row, memory |-> memory]
Ask(c, op, i, row, memory) ==
    job' = [job EXCEPT ![c] = Asked(op, i, row, memory)]

\* A row as it is asked for.
Entry(t, label, supplier) ==
    [table |-> t,
     name |-> IF t \in {"store", "category", "supplier"} THEN label.name ELSE NIL,
     code |-> IF t = "store" THEN label.code ELSE NIL,
     supplier |-> supplier, removed |-> FALSE]

-----------------------------------------------------------------------------
(* create of stores, categories and suppliers                              *)

\* Mutant: only the code of a store is compared.
SameLabelByCode(row, other) ==
    IF row.table = "store" THEN row.code = other.code ELSE row.name = other.name

SameLabel(row, other) ==
    \/ row.name = other.name
    \/ row.table = "store" /\ row.code = other.code

\* A live row with the name, or the code of a store, refuses the call.
CheckNew(c, k) ==
    /\ step[c] = "new" /\ Free(k)
    /\ \E t \in {"store", "category", "supplier"}, l \in Labels :
           LET row == Entry(t, l, NIL)
               taken == \E i \in LiveIn(Seen(k), t) : SameLabel(row, Seen(k)[i])
           IN  /\ Ask(c, "create", c, row, NIL)
               /\ IF taken THEN Reply(c, "refused") ELSE Continue(c, "insert")
    /\ Contest(c, k)
    /\ UNCHANGED <<unchangedRows, pool, writers, closed>>

InsertNew(c, k) ==
    LET row == job[c].row
    IN  /\ step[c] = "insert" /\ Free(k) /\ ~ Waits(k, c, row)
        /\ IF Accepted(Latest(k), c, row)
           THEN Transaction(k, Change(c, row)) /\ Reply(c, "ok") /\ Wrote(c, c)
           ELSE Transaction(k, NoChange) /\ Reply(c, "refused")
                /\ UNCHANGED writers
        /\ Contest(c, k)
        /\ UNCHANGED <<job, closed>>

-----------------------------------------------------------------------------
(* update of stores, categories, suppliers and product sources             *)

\* "row" is what is asked for, "memory" the entity that was loaded.
Renames(c) == job[c].row.name # job[c].memory.name
Recodes(c) == job[c].row.code # job[c].memory.code

\* Mutant: an update finds removed rows as well, and brings them back.
FindableRemoved(rows, t) == {i \in Ids : Present(rows, i) /\ rows[i].table = t}

Findable(rows, t) == LiveIn(rows, t)

Load(c, k) ==
    /\ step[c] = "new" /\ Free(k)
    /\ \E t \in Tables \ {"order"} : \E i \in Findable(Seen(k), t), l \in Labels :
       \E s \in IF t = "source" THEN LiveIn(Latest(k), "supplier") ELSE {NIL} :
           LET row == Entry(t, l, s)
               old == Seen(k)[i]
           IN  /\ row # old
               /\ Ask(c, "update", i, row, old)
               /\ Continue(c, IF row.name # old.name THEN "name"
                              ELSE IF row.code # old.code THEN "code"
                              ELSE "save")
               /\ overtaken' = IF pool[k].open /\ i \notin Live(entries)
                               THEN overtaken \cup {c} ELSE overtaken
    /\ Contest(c, k)
    /\ UNCHANGED <<entries, pool, writers, retired, closed>>

\* Another live row has the name; for a supplier also the row itself counts.
CheckName(c, k) ==
    LET row == job[c].row
        taken == \E i \in LiveIn(Seen(k), row.table) :
                     /\ Seen(k)[i].name = row.name
                     /\ row.table # "supplier" => i # job[c].id
    IN  /\ step[c] = "name" /\ Free(k)
        /\ IF taken THEN Reply(c, "refused")
           ELSE Continue(c, IF Recodes(c) THEN "code" ELSE "save")
        /\ Contest(c, k)
        /\ UNCHANGED <<unchangedRows, pool, job, writers, closed>>

CheckCode(c, k) ==
    LET taken == \E i \in LiveIn(Seen(k), "store") \ {job[c].id} :
                     Seen(k)[i].code = job[c].row.code
    IN  /\ step[c] = "code" /\ Free(k)
        /\ IF taken THEN Reply(c, "refused") ELSE Continue(c, "save")
        /\ Contest(c, k)
        /\ UNCHANGED <<unchangedRows, pool, job, writers, closed>>

\* save() reads the row again, removed or not: the columns in which the entity
\* differs from it are written, and a row that is gone is inserted again.
Save(c, k) ==
    LET i      == job[c].id
        wanted == job[c].row        \* as loaded, with what was asked: not removed
        base   == Seen(k)[i]
        now    == Latest(k)[i]
        row    == IF base = NIL THEN wanted
                  ELSE IF now = NIL THEN NIL
                  ELSE [f \in DOMAIN wanted |->
                           IF wanted[f] # base[f] THEN wanted[f] ELSE now[f]]
    IN  /\ step[c] = "save" /\ Free(k) /\ ~ Waits(k, i, row)
        /\ IF base = wanted
           THEN Reply(c, "ok") /\ UNCHANGED <<unchangedRows, pool, writers>>
           ELSE IF row = NIL
           THEN Transaction(k, NoChange) /\ Reply(c, "ok") /\ UNCHANGED writers
           ELSE IF Accepted(Latest(k), i, row) /\ (base = NIL => now = NIL)
           THEN Transaction(k, Change(i, row)) /\ Reply(c, "ok") /\ Wrote(c, i)
           ELSE Transaction(k, NoChange) /\ Reply(c, "refused")
                /\ UNCHANGED writers
        /\ Contest(c, k)
        /\ UNCHANGED <<job, closed>>

-----------------------------------------------------------------------------
(* remove of stores, suppliers, product sources and draft orders           *)

LoadToRemove(c, k) ==
    /\ step[c] = "new" /\ Free(k)
    /\ \E t \in Tables \ {"category"} : \E i \in LiveIn(Seen(k), t) :
           /\ Ask(c, "remove", i, NIL, NIL)
           /\ Continue(c, CASE t = "store"    -> "softDelete"
                            [] t = "supplier" -> "counts"
                            [] OTHER          -> "softRemove")
    /\ Contest(c, k)
    /\ UNCHANGED <<unchangedRows, pool, writers, closed>>

\* UPDATE stores SET deleted_at, in no transaction of its own.
SoftDelete(c, k) ==
    LET i == job[c].id
    IN  /\ step[c] = "softDelete" /\ Free(k) /\ ~ Waits(k, i, NIL)
        /\ Execute(k, Change(i, [Latest(k)[i] EXCEPT !.removed = TRUE]))
        /\ Wrote(c, i) /\ Reply(c, "ok")
        /\ Contest(c, k)
        /\ UNCHANGED <<job, closed>>

\* Neither entity has a column for the date: TypeORM refuses, after it has
\* started a transaction, which commits what the connection had open.
SoftRemove(c, k) ==
    /\ step[c] = "softRemove" /\ Free(k)
    /\ Transaction(k, NoChange) /\ Reply(c, "refused")
    /\ Contest(c, k)
    /\ UNCHANGED <<job, writers, closed>>

Using(rows, t, i) == {j \in LiveIn(rows, t) : rows[j].supplier = i}

\* The two counts of the uses of a supplier are sent together, on two connections,
\* and both are awaited: the one that finds a use may answer first.
CountUses(c, k, t, alone, other) ==
    LET used == Using(Seen(k), t, job[c].id) # {}
    IN  /\ step[c] \in {"counts", alone} /\ Free(k)
        /\ IF step[c] = "counts" THEN Continue(c, IF used THEN "used" ELSE other)
           ELSE IF used THEN Reply(c, "refused") ELSE Continue(c, "delete")
        /\ Contest(c, k)
        /\ UNCHANGED <<unchangedRows, pool, job, writers, closed>>

CountSources(c, k) == CountUses(c, k, "source", "sources", "orders")
CountOrders(c, k) == CountUses(c, k, "order", "orders", "sources")

CountLast(c, k) ==
    /\ step[c] = "used" /\ Free(k)
    /\ Reply(c, "refused")
    /\ Contest(c, k)
    /\ UNCHANGED <<unchangedRows, pool, job, writers, closed>>

\* DELETE, in no transaction of its own: orders forbid it, sources go with it.
DeleteSupplier(c, k) ==
    LET i    == job[c].id
        gone == Using(Latest(k), "source", i) \cup {i}
    IN  /\ step[c] = "delete" /\ Free(k) /\ ~ Waits(k, i, NIL)
        /\ IF Using(Latest(k), "order", i) # {}
           THEN Reply(c, "refused") /\ UNCHANGED <<unchangedRows, pool, writers>>
           ELSE Execute(k, [j \in gone |-> NIL]) /\ Reply(c, "ok") /\ Wrote(c, i)
        /\ Contest(c, k)
        /\ UNCHANGED <<job, closed>>

-----------------------------------------------------------------------------
(* create of a product source and of a purchase order                      *)

\* A query runner keeps a connection: START TRANSACTION, then the checks, the
\* first of which takes the snapshot.
Start(c, k, t) ==
    /\ step[c] = "new" /\ Free(k)
    /\ Install(entries, Latest(k))
    /\ \E s \in LiveIn(Latest(k), "supplier") :
           LET row == [Entry(t, NIL, s) EXCEPT !.supplier = s]
               refused == t = "source" /\ ~ KeyFree(Latest(k), c, row)
           IN  /\ Ask(c, "create", c, row, NIL)
               /\ IF refused
                  THEN Reply(c, "refused") /\ pool' = [pool EXCEPT ![k] = Idle]
                  ELSE /\ Continue(c, t)
                       /\ pool' = [pool EXCEPT ![k] =
                              [by |-> c, open |-> TRUE, opener |-> c,
                               view |-> Latest(k), writes |-> NoChange]]
    /\ Contest(c, k)
    /\ UNCHANGED <<writers, closed>>

\* The source is answered, and the connection released with the transaction
\* open; a refused INSERT is rolled back.
InsertSource(c, k) ==
    LET row == job[c].row
    IN  /\ step[c] = "source" /\ pool[k].by = c /\ ~ Waits(k, c, row)
        /\ IF Accepted(entries, c, row)
           THEN /\ pool' = [pool EXCEPT ![k].by = NIL,
                                        ![k].writes = Change(c, row)]
                /\ Reply(c, "ok") /\ Wrote(c, c)
           ELSE /\ pool' = [pool EXCEPT ![k] = Idle]
                /\ Reply(c, "refused") /\ UNCHANGED writers
        /\ Contest(c, k)
        /\ UNCHANGED <<unchangedRows, job, closed>>

\* Mutant: the transaction is not committed.
InsertOrderOnly(c, k) ==
    LET row == job[c].row
    IN  /\ step[c] = "order" /\ pool[k].by = c /\ ~ Waits(k, c, row)
        /\ IF Accepted(entries, c, row)
           THEN /\ pool' = [pool EXCEPT ![k].by = NIL,
                                        ![k].writes = Change(c, row)]
                /\ Reply(c, "ok") /\ Wrote(c, c)
           ELSE /\ pool' = [pool EXCEPT ![k] = Idle]
                /\ Reply(c, "refused") /\ UNCHANGED writers
        /\ Contest(c, k)
        /\ UNCHANGED <<unchangedRows, job, closed>>

\* The order and its lines are inserted and committed; the connection is kept.
\* Nothing gives the total_cost of a line, which is NOT NULL: the SQL mode of the
\* server decides whether it refuses the lines or stores a zero.
InsertOrder(c, k) ==
    LET row == job[c].row
    IN  /\ step[c] = "order" /\ pool[k].by = c /\ ~ Waits(k, c, row)
        /\ \E strict \in BOOLEAN :
           IF Accepted(entries, c, row) /\ ~ strict
           THEN /\ Install(entries, Over(Change(c, row), entries))
                /\ pool' = [pool EXCEPT ![k] = [Idle EXCEPT !.by = c]]
                /\ Continue(c, "readBack") /\ Wrote(c, c)
           ELSE /\ pool' = [pool EXCEPT ![k] = Idle]
                /\ Reply(c, "refused") /\ UNCHANGED <<unchangedRows, writers>>
        /\ Contest(c, k)
        /\ UNCHANGED <<job, closed>>

\* The order is read back on another connection; one that does not see it makes
\* the catch roll back a transaction that has ended, and the call fail.
ReadBack(c, k) ==
    /\ step[c] = "readBack" /\ Free(k)
    /\ Reply(c, IF Present(Seen(k), c) THEN "ok" ELSE "refused")
    /\ pool' = [l \in Connections |-> IF pool[l].by = c THEN Idle ELSE pool[l]]
    /\ Contest(c, k)
    /\ UNCHANGED <<unchangedRows, job, writers, closed>>

\* A statement fails or waits too long for a lock: a query runner rolls back.
RequestFails(c) ==
    /\ c \in Going
    /\ Reply(c, "refused")
    /\ pool' = [l \in Connections |-> IF pool[l].by = c THEN Idle ELSE pool[l]]
    /\ UNCHANGED <<unchangedRows, job, contested, writers, closed>>

\* A pooled connection is closed: what it has open is rolled back.
CloseConnection(k) ==
    /\ Free(k) /\ pool[k].open
    /\ pool' = [pool EXCEPT ![k] = Idle]
    /\ closed' = closed \cup Pending(k)
    /\ UNCHANGED <<unchangedRows, job, step, answer, contested, writers>>

Nothing == Asked("none", NIL, NIL, NIL)

DirectoryInit ==
    /\ entries = [i \in Ids |-> IF i \in DOMAIN Initial THEN Initial[i] ELSE NIL]
    /\ pool = [k \in Connections |-> Idle]
    /\ job = [c \in Requests |-> Nothing]
    /\ step = [c \in Requests |-> "new"]
    /\ answer = [c \in Requests |-> "none"]
    /\ contested = {} /\ overtaken = {} /\ retired = {} /\ closed = {}
    /\ writers = [i \in Ids |-> {}]

DirectoryNext ==
    \/ \E c \in Requests, k \in Connections :
           \/ CheckNew(c, k) \/ InsertNew(c, k)
           \/ Load(c, k) \/ CheckName(c, k) \/ CheckCode(c, k) \/ Save(c, k)
           \/ LoadToRemove(c, k) \/ SoftDelete(c, k) \/ SoftRemove(c, k)
           \/ CountSources(c, k) \/ CountOrders(c, k) \/ CountLast(c, k)
           \/ DeleteSupplier(c, k)
           \/ Start(c, k, "source") \/ InsertSource(c, k)
           \/ Start(c, k, "order") \/ InsertOrder(c, k) \/ ReadBack(c, k)
    \/ \E c \in Requests : RequestFails(c)
    \/ \E k \in Connections : CloseConnection(k)

DirectorySpec == DirectoryInit /\ [][DirectoryNext]_directoryVars

-----------------------------------------------------------------------------
(* Properties.                                                             *)

\* Type invariant.
DirectoryTypeOK ==
    /\ entries \in [Ids -> Entries \cup {NIL}]
    /\ pool \in [Connections -> [by : Requests \cup {NIL}, open : BOOLEAN,
                                 opener : Requests \cup {NIL},
                                 view : {pool[k].view : k \in Connections},
                                 writes : {pool[k].writes : k \in Connections}]]
    /\ \A k \in Connections : RowsOfIds(pool[k].view) /\ RowsOfIds(pool[k].writes)
    /\ job \in [Requests -> Jobs]
    /\ step \in [Requests -> Steps]
    /\ answer \in [Requests -> {"none", "ok", "refused"}]
    /\ contested \subseteq Requests /\ overtaken \subseteq Requests
    /\ retired \subseteq Ids /\ closed \subseteq Ids
    /\ writers \in [Ids -> SUBSET Requests]

\* Two live stores have the same name, which no key of the database forbids,
\* only if one was written by a call that overlapped another, or that checked
\* in the snapshot of a transaction that was left open.
StoreNamesDiffer ==
    \A i, j \in LiveIn(entries, "store") :
        i # j /\ entries[i].name = entries[j].name =>
            (writers[i] \cup writers[j]) \cap contested # {}

\* A removed store or supplier comes back only by an update that had loaded it
\* before the removal, or that read it in an old snapshot.
RemovedStaysRemoved ==
    [][\A i \in retired : i \notin Live(entries) /\ i \in Live(entries') =>
           \E c \in overtaken : job[c].id = i /\ step[c] = "save" /\ step'[c] = "end"
      ]_directoryVars

\* Row i waits in a transaction that the creation of a source left open.
LeftOpen(i) ==
    \E k \in Connections : /\ i \in Pending(k) /\ Free(k)
                           /\ job[pool[k].opener].row.table = "source"

Suppliers(i) == {job[c].row.supplier : c \in {d \in writers[i] : job[d].op # "remove"}}

\* What was answered as created or removed is in the database, unless it waits
\* in a transaction that the creation of a source left open, or went with that
\* connection, or a later removal or an update of a stale row undid it.
AnsweredIsKept ==
    \A c \in Requests :
        LET i == job[c].id
            done(d, op) == answer[d] = "ok" /\ job[d].op = op
        IN  /\ done(c, "create") =>
                   \/ Present(entries, i) \/ LeftOpen(i) \/ i \in closed
                   \/ \E d \in Requests :
                          done(d, "remove") /\ job[d].id \in Suppliers(i) \cup {i}
            /\ done(c, "remove") =>
                   \/ i \notin Live(entries) \/ LeftOpen(i) \/ i \in closed
                   \/ \E d \in overtaken : done(d, "update") /\ job[d].id = i

-----------------------------------------------------------------------------
(* The inductive invariant behind the properties.                          *)

\* The table of a row: it is known from the start or was asked for.
TableOf(i) == IF i \in DOMAIN Initial THEN Initial[i].table ELSE job[i].row.table

Fitting(rows) == \A i \in DOMAIN rows : rows[i] # NIL => rows[i].table = TableOf(i)

\* The steps of the removal of a supplier.
RemovesSupplier == {"counts", "sources", "orders", "used", "delete"}

\* A call that has begun has been asked for something, and its steps follow from it.
JobFits(c) ==
    LET j == job[c] IN
    /\ step[c] = "new" <=> j.op = "none"
    /\ step[c] = "new" => \A i \in Ids : c \notin writers[i]
    /\ step[c] = "end" <=> answer[c] # "none"
    /\ j.op = "none" <=> j.id = NIL
    /\ j.op = "create" <=> j.id = c
    /\ j.op = "create" => j.row # NIL /\ ~ j.row.removed
    /\ j.op = "update" => /\ j.row # NIL /\ j.row.table = TableOf(j.id)
                          /\ ~ j.row.removed
                          /\ j.memory # NIL /\ j.memory.table = TableOf(j.id)
                          /\ ~ j.memory.removed
    /\ j.op = "remove" /\ answer[c] = "ok" => TableOf(j.id) \in {"store", "supplier"}
    /\ step[c] \in {"insert", "source", "order", "readBack"} => j.op = "create"
    /\ step[c] = "insert" => j.row.table \in {"store", "category", "supplier"}
    /\ step[c] \in {"source", "order"} => j.row.table = step[c]
    /\ step[c] = "readBack" => j.row.table = "order" /\ entries[c] # NIL
    /\ step[c] \in {"name", "code", "save"} => j.op = "update"
    /\ step[c] \in {"softDelete", "softRemove"} \cup RemovesSupplier => j.op = "remove"
    /\ step[c] = "softDelete" => TableOf(j.id) = "store" /\ entries[j.id] # NIL
    /\ step[c] \in RemovesSupplier => TableOf(j.id) = "supplier"

\* A connection without a transaction has nothing to write.  One with a transaction
\* is used by the call that has started it, or was left open by the creation of a
\* source; the only live row that waits in it is that source.
ConnectionFits(k) ==
    LET p == pool[k] IN
    /\ ~ p.open => Pending(k) = {} /\ p.opener = NIL
    /\ p.open => DOMAIN p.view = Ids /\ p.opener # NIL
    /\ p.by # NIL /\ p.open => /\ p.opener = p.by /\ Pending(k) = {}
                               /\ step[p.by] \in {"source", "order"}
    /\ p.by # NIL /\ ~ p.open => step[p.by] = "readBack"
    /\ p.by = NIL /\ p.open => /\ step[p.opener] = "end" /\ job[p.opener].op = "create"
                               /\ job[p.opener].row.table = "source"
    /\ \A i \in Pending(k) :
           /\ p.writes[i] # NIL /\ ~ p.writes[i].removed =>
                  i = p.opener /\ entries[i] = NIL /\ i \notin retired
           /\ p.writes[i] # NIL /\ p.writes[i].removed => TableOf(i) = "store"
           /\ p.writes[i] = NIL => TableOf(i) \in {"supplier", "source"}
    /\ \A i \in DOMAIN p.view :
           p.view[i] # NIL /\ p.view[i].table = "store" => entries[i] # NIL
    /\ Fitting(p.view) /\ Fitting(p.writes)

\* A call has started one open transaction at most.
OpenersDiffer ==
    \A k, l \in Connections : pool[k].opener = pool[l].opener /\ pool[k].opener # NIL => k = l

\* Before a call has written its row, nothing has it; afterwards it is a creation.
RowMade(c) ==
    IF writers[c] = {}
    THEN /\ entries[c] = NIL /\ c \notin retired
         /\ \A k \in Connections :
                c \notin Pending(k) /\ (c \in DOMAIN pool[k].view => pool[k].view[c] = NIL)
         /\ \A d \in Requests : job[d].id = c => d = c
    ELSE job[c].op = "create" /\ step[c] \in {"readBack", "end"}

\* A row to update is live, or the call is known to have been overtaken.
LoadedIsLive(c) ==
    step[c] \in {"name", "code", "save"} => job[c].id \in Live(entries) \/ c \in overtaken

\* What a call about a store that met no other has checked still holds.
NameIsChecked(c) ==
    LET j == job[c]
        others == {i \in LiveIn(entries, "store") \ {j.id} : entries[i].name = j.row.name}
    IN  c \in Going \ contested /\ j.row # NIL /\ j.row.table = "store" =>
            /\ step[c] = "insert" => others = {}
            /\ j.op = "update" => entries[j.id] = j.memory
            /\ step[c] \in {"code", "save"} /\ Renames(c) => others = {}

\* The supplier of a row was given by a call that has written it, and a row that is
\* to be deleted was removed, or its supplier was.
SupplierGiven(rows) ==
    \A i \in DOMAIN rows \cap Requests : rows[i] # NIL => rows[i].supplier \in Suppliers(i)
RemovalAnswered(i) ==
    \E d \in Requests : answer[d] = "ok" /\ job[d].op = "remove"
                           /\ job[d].id \in Suppliers(i) \cup {i}

SuppliersFit ==
    /\ SupplierGiven(entries)
    /\ \A k \in Connections :
           /\ SupplierGiven(pool[k].writes)
           /\ \A i \in Pending(k) \cap Requests :
                  pool[k].writes[i] = NIL => RemovalAnswered(i)

DirectoryInv ==
    /\ DirectoryTypeOK /\ Fitting(entries)
    /\ \A c \in Requests : JobFits(c) /\ RowMade(c) /\ LoadedIsLive(c) /\ NameIsChecked(c)
    /\ \A k \in Connections : ConnectionFits(k)
    /\ OpenersDiffer /\ SuppliersFit /\ StoreNamesDiffer /\ AnsweredIsKept

=============================================================================
