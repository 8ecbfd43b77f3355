------------------------------ MODULE Deployment ------------------------------
(***************************************************************************)
(* migration:run and migration:revert on a MySQL database: the schema, the *)
(* sample data, and what is left when a command is interrupted.            *)
(*                                                                         *)
(* The command line of TypeORM runs all pending migrations in one          *)
(* transaction, and reverts the last one in one.  MySQL commits before     *)
(* every statement that changes the schema, and what follows in the same   *)
(* session is no longer part of a transaction.                             *)
(*                                                                         *)
(* In development the application seeds the database whenever it starts,   *)
(* without a transaction and without a record.  Commands and starts follow *)
(* one another.                                                            *)
(***************************************************************************)
EXTENDS Seeds

CONSTANTS
    MaxRuns,        \* bound: executions of migration:run and starts
    MaxFaults       \* bound: interrupted commands

ASSUME BoundAssumption == MaxRuns \in Nat /\ MaxFaults \in Nat

VARIABLES
    tables,         \* the tables that exist
    keys,           \* the indexes and foreign keys that exist: <<table, key>>
    rows,           \* table -> its rows
    executed,       \* the migrations recorded as executed
    command,        \* the command in progress
    pc,             \* the next statement of the migration at hand
    inTx,           \* whether the transaction of the command is still open
    saved,          \* rows and executed when the command began
    runs,           \* how many times migration:run or the application started
    started,        \* history: which of these were starts of the application
    refused,        \* history: whether a statement of a command was refused
    interrupted,    \* history: what was interrupted, and how far it had come
    faults          \* how many commands were interrupted

vars == <<tables, keys, rows, executed, command, pc, inTx, saved, runs,
          started, refused, interrupted, faults>>
database == <<tables, keys, rows>>

\* The files of src/migrations, by the timestamps of their classes.
Migrations == <<"InitialSchema", "InitialSeeding">>

AllTables == {s.table : s \in {SchemaUp[i] : i \in 1..Len(SchemaUp)}}
KeysOf(s) == CASE s.do = "table" -> {<<s.table, k>> : k \in s.inline}
               [] s.do = "key"   -> {<<s.table, s.key>>}
AllKeys == UNION {KeysOf(SchemaUp[i]) : i \in 1..Len(SchemaUp)}

Creation(t) == CHOOSE s \in {SchemaUp[i] : i \in 1..Len(SchemaUp)} :
                   s.do = "table" /\ s.table = t

FirstKey == LET i == CHOOSE i \in 1..Len(SchemaUp) :
                       /\ SchemaUp[i].do = "key"
                       /\ \A j \in 1..(i - 1) : SchemaUp[j].do = "table"
            IN  CHOOSE k \in KeysOf(SchemaUp[i]) : TRUE

-----------------------------------------------------------------------------
(* What the database accepts, and what a statement does.                   *)

References(t) == {k[2] : k \in {x \in keys : x[1] = t /\ x[2].kind = "reference"}}
UniqueKeys(t) == {k[2] : k \in {x \in keys : x[1] = t /\ x[2].kind = "unique"}}

Names(row, k) == k.column \in DOMAIN row /\ row[k.column] # NONE
SameKey(x, y, k) == \A c \in k.columns : x[c] = y[c]

RowFits(t, row, others) ==
    /\ Creation(t).required \subseteq DOMAIN row
    /\ \A k \in References(t) :
           Names(row, k) => \E x \in rows[k.to] : x.id = row[k.column]
    /\ \A k \in UniqueKeys(t) :
           ~ \E x \in rows[t] \cup (others \ {row}) : SameKey(x, row, k)

\* Mutant: what belongs to a table that exists is skipped as well.
SkippedWithKeys(s) ==
    \/ s.do \in {"table", "key"} /\ s.table \in tables
    \/ s.do = "drop" /\ s.table \notin tables

\* CREATE TABLE and DROP TABLE look first whether the table exists.
Skipped(s) ==
    \/ s.do = "table" /\ s.table \in tables
    \/ s.do = "drop" /\ s.table \notin tables

ChangesSchema(s) == s.do \in {"table", "key", "drop"} /\ ~ Skipped(s)

Define(s) ==
    /\ tables' = IF s.do = "table" THEN tables \cup {s.table} ELSE tables
    /\ keys' = keys \cup KeysOf(s)
    /\ UNCHANGED rows

\* Mutant: the rows survive.
DropTableOnly(s) ==
    /\ tables' = tables \ {s.table}
    /\ keys' = {k \in keys : k[1] # s.table}
    /\ UNCHANGED rows

Drop(s) ==
    /\ tables' = tables \ {s.table}
    /\ keys' = {k \in keys : k[1] # s.table}
    /\ rows' = [rows EXCEPT ![s.table] = {}]

\* The rows of an alternative that are not there yet.
Absent(s, new) ==
    IF s.missing THEN {x \in new : \A y \in rows[s.table] : y.id # x.id} ELSE new

InsertRows(s, new) ==
    /\ rows' = [rows EXCEPT ![s.table] = @ \cup Absent(s, new)]
    /\ UNCHANGED <<tables, keys>>

\* The rows of t that name a row of table "to" by a key with this action.
Naming(t, to, onDelete) ==
    {x \in rows[t] : \E k \in References(t) :
        /\ k.to = to /\ k.onDelete = onDelete /\ Names(x, k)
        /\ \E y \in rows[to] : y.id = x[k.column]}

\* DELETE FROM.  No row that goes with its parent is named itself.
DeleteRows(s) ==
    /\ rows' = [t \in AllTables |->
           IF t = s.table THEN {}
           ELSE LET left == rows[t] \ Naming(t, s.table, "CASCADE")
                    blank == {k.column : k \in {k \in References(t) :
                                  k.to = s.table /\ k.onDelete = "SET NULL"}}
                IN  {[c \in DOMAIN x |-> IF c \in blank THEN NONE ELSE x[c]] :
                     x \in left}]
    /\ UNCHANGED <<tables, keys>>

\* Mutant: a key that exists is created again.
KeyFitsAgain(s) ==
    /\ s.table \in tables
    /\ s.key.kind = "reference" => s.key.to \in tables

KeyFits(s) ==
    /\ s.table \in tables
    /\ \A k \in keys : k[1] = s.table => k[2].name # s.key.name
    /\ s.key.kind = "reference" => s.key.to \in tables

\* A table that another one refers to cannot be dropped.
DropFits(s) ==
    \A k \in keys : k[2].kind = "reference" /\ k[2].to = s.table => k[1] = s.table

InsertFits(s, new) ==
    s.table \in tables /\ \A x \in Absent(s, new) : RowFits(s.table, x, Absent(s, new))

DeleteFits(s) ==
    s.table \in tables /\ \A t \in AllTables : Naming(t, s.table, "RESTRICT") = {}

-----------------------------------------------------------------------------
(* The commands.                                                           *)

Pending == {i \in 1..Len(Migrations) : Migrations[i] \notin executed}
First(S) == CHOOSE i \in S : \A j \in S : i <= j
Last1(S) == CHOOSE i \in S : \A j \in S : i >= j

\* The migration at hand.
Current ==
    CASE command = "run"    -> Migrations[First(Pending)]
      [] command = "revert" -> Migrations[Last1((1..Len(Migrations)) \ Pending)]
      [] command = "start"  -> "InitialSeeding"

\* What each execution of migration:run seeds; its rows are told apart by their
\* identifiers.
Seedings == [r \in 1..MaxRuns |-> SeedingUp(r)]
Program ==
    CASE command = "run" /\ Current = "InitialSchema"     -> SchemaUp
      [] command = "run" /\ Current = "InitialSeeding"    -> Seedings[runs]
      [] command = "start"                                -> Seedings[runs]
      [] command = "revert" /\ Current = "InitialSchema"  -> SchemaDown
      [] command = "revert" /\ Current = "InitialSeeding" -> SeedingDown

Begin(c) ==
    /\ command' = c
    /\ pc' = 1
    /\ inTx' = (c # "start")
    /\ saved' = [rows |-> rows, executed |-> executed]
    /\ UNCHANGED <<database, executed, refused, interrupted, faults>>

Run ==
    /\ command = "idle" /\ Pending # {} /\ runs < MaxRuns
    /\ runs' = runs + 1
    /\ Begin("run")
    /\ UNCHANGED started

Revert ==
    /\ command = "idle" /\ executed # {}
    /\ Begin("revert")
    /\ UNCHANGED <<runs, started>>

\* bootstrap, where NODE_ENV is "development".
StartInDevelopment ==
    /\ command = "idle" /\ runs < MaxRuns
    /\ runs' = runs + 1
    /\ started' = started \cup {runs'}
    /\ Begin("start")

Apply(s) ==
    \/ Skipped(s) /\ UNCHANGED database
    \/ s.do = "table" /\ ~ Skipped(s) /\ Define(s)
    \/ s.do = "key" /\ ~ Skipped(s) /\ KeyFits(s) /\ Define(s)
    \/ s.do = "drop" /\ ~ Skipped(s) /\ DropFits(s) /\ Drop(s)
    \/ /\ s.do = "insert"
       /\ \E new \in s.alternatives : InsertFits(s, new) /\ InsertRows(s, new)
    \/ s.do = "delete" /\ DeleteFits(s) /\ DeleteRows(s)

\* Some choice of the statement is refused.
MayBeRefused(s) ==
    \/ s.do = "key" /\ ~ Skipped(s) /\ ~ KeyFits(s)
    \/ s.do = "drop" /\ ~ Skipped(s) /\ ~ DropFits(s)
    \/ s.do = "insert" /\ \E new \in s.alternatives : ~ InsertFits(s, new)
    \/ s.do = "delete" /\ ~ DeleteFits(s)

Execute ==
    /\ command # "idle" /\ pc <= Len(Program)
    /\ Apply(Program[pc])
    /\ inTx' = (inTx /\ ~ ChangesSchema(Program[pc]))
    /\ pc' = pc + 1
    /\ UNCHANGED <<executed, command, saved, runs, started, refused, interrupted,
                   faults>>

\* The record of the migration is written after its last statement.
Finish ==
    /\ command # "idle" /\ pc = Len(Program) + 1
    /\ executed' = CASE command = "run"    -> executed \cup {Current}
                     [] command = "revert" -> executed \ {Current}
                     [] command = "start"  -> executed
    /\ command' = IF command = "run" /\ Cardinality(Pending) > 1
                  THEN command ELSE "idle"
    /\ pc' = 1
    /\ UNCHANGED <<database, inTx, saved, runs, started, refused, interrupted,
                   faults>>

\* ROLLBACK takes back what the transaction still covers.
Abort ==
    /\ command' = "idle"
    /\ pc' = 1
    /\ inTx' = FALSE
    /\ rows' = IF inTx THEN saved.rows ELSE rows
    /\ executed' = IF inTx THEN saved.executed ELSE executed
    /\ UNCHANGED <<tables, keys, saved, runs, started>>

\* The database refuses a statement and the command fails; the application goes
\* on when its seeding does.
Refuse ==
    /\ command # "idle" /\ pc <= Len(Program)
    /\ MayBeRefused(Program[pc])
    /\ refused' = (refused \/ command # "start")
    /\ Abort
    /\ UNCHANGED <<interrupted, faults>>

\* The connection is lost or the process is killed.
Interrupt ==
    /\ command # "idle" /\ faults < MaxFaults
    /\ faults' = faults + 1
    /\ interrupted' = interrupted \cup
           {[migration |-> Current, command |-> command, inTx |-> inTx,
             keyed |-> FirstKey \in keys]}
    /\ Abort
    /\ UNCHANGED refused

Init ==
    /\ tables = {} /\ keys = {}
    /\ rows = [t \in AllTables |-> {}]
    /\ executed = {}
    /\ command = "idle" /\ pc = 1 /\ inTx = FALSE
    /\ saved = [rows |-> rows, executed |-> executed]
    /\ runs = 0 /\ started = {} /\ refused = FALSE /\ interrupted = {} /\ faults = 0

Next == Run \/ Revert \/ StartInDevelopment \/ Execute \/ Finish \/ Refuse \/ Interrupt

Spec == Init /\ [][Next]_vars

-----------------------------------------------------------------------------
(* Properties.                                                             *)

Interruptions == [migration : {Migrations[i] : i \in 1..Len(Migrations)},
                  command : {"run", "revert", "start"}, inTx : BOOLEAN, keyed : BOOLEAN]

\* Type invariant: every key belongs to a table that exists and is one of the
\* migration, every row to a table that exists.
TypeOK ==
    /\ tables \subseteq AllTables
    /\ keys \subseteq AllKeys
    /\ \A k \in keys : k[1] \in tables
    /\ DOMAIN rows = AllTables
    /\ \A t \in AllTables : rows[t] # {} => t \in tables
    /\ executed \subseteq {Migrations[i] : i \in 1..Len(Migrations)}
    /\ command \in {"idle", "run", "revert", "start"}
    /\ pc \in Nat /\ runs \in 0..MaxRuns /\ started \subseteq 1..runs
    /\ faults \in 0..MaxFaults
    /\ inTx \in BOOLEAN /\ refused \in BOOLEAN
    /\ interrupted \subseteq Interruptions

\* As long as nothing was interrupted the database refuses no statement of a
\* command, whatever commands and starts in development follow each other:
\* tables come before the keys that name them and rows before the rows that name
\* them, they go in an order in which nothing is still named, what is left behind
\* by a revert does not disturb the next run, and all seeded rows fit the schema.
RunIsNotRefused == refused => interrupted # {}

\* A schema that is recorded as executed is there, with every table and every
\* key, unless it is being reverted or a revert of it was interrupted.
RecordedSchemaIsWhole ==
    \/ "InitialSchema" \notin executed
    \/ command = "revert" /\ Current = "InitialSchema"
    \/ \E x \in interrupted :
           x.migration = "InitialSchema" /\ x.command = "revert"
    \/ tables = AllTables /\ keys = AllKeys

\* Once the creation of the schema was interrupted after its first key, no
\* further execution ever completes it: the tables are skipped because they are
\* there, and the first key is refused because it is there as well.
InterruptedSchemaNeedsRepair ==
    (\E x \in interrupted : /\ x.migration = "InitialSchema"
                            /\ x.command = "run" /\ x.keyed)
        => "InitialSchema" \notin executed

\* The migrations seed each tenant once, however often runs and reverts are
\* interrupted, except where the seeding that follows the creation of the schema
\* in the same command is interrupted: that one is not part of a transaction any
\* more.  (Each start in development adds another copy.)
NoTenantTwice ==
    \/ \E x \in interrupted : /\ x.migration = "InitialSeeding"
                               /\ x.command = "run" /\ ~ x.inTx
    \/ \A x, y \in {z \in rows["businesses"] : z.id[2] \notin started} :
           x.legal_name = y.legal_name => x = y

\* The columns that the services give when they insert a row, at most: the
\* movement of an initial stock or a delivery, and of a count; an order and its
\* lines; a user; the audit entry of a product that is removed.
MovementColumns ==
    {"stock_id", "business_id", "created_by_id", "type", "direction",
     "quantity", "quantity_before", "quantity_after", "unit_cost_price",
     "unit_selling_price"}
ServiceInserts ==
    {[table |-> "stock_movements", gives |-> MovementColumns],
     [table |-> "stock_movements", gives |-> MovementColumns \cup {"reason"}],
     [table |-> "purchase_orders",
      gives |-> {"po_number", "supplier_id", "total_estimated_cost",
                 "created_by_id", "business_id", "store_id", "status"}],
     [table |-> "purchase_order_items",
      gives |-> {"purchase_order_id", "product_id", "quantity_requested",
                 "quantity_received", "estimated_unit_cost"}],
     [table |-> "users",
      gives |-> {"first_name", "last_name", "company_email", "phone_number",
                 "role_id", "profile_image"}],
     [table |-> "audit_logs",
      gives |-> {"action", "entity", "entity_id", "old_value", "new_value",
                 "metadata"}]}

\* In the SQL mode that is the default of MySQL, the recorded schema accepts the
\* rows that the services insert.
InsertsFitSchema ==
    "InitialSchema" \in executed /\ command = "idle" /\ interrupted = {} =>
        \A i \in ServiceInserts : Creation(i.table).required \subseteq i.gives

=============================================================================
