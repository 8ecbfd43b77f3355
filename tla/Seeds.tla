-------------------------------- MODULE Seeds --------------------------------
(***************************************************************************)
(* The sample data of the application: the INSERTs that the migration      *)
(* InitialSeeding1785451531000 sends for one business, in their order, and *)
(* the DELETEs that take all of it back.                                   *)
(*                                                                         *)
(* A row is a record of the columns that the schema constrains (Schema).   *)
(* Random choices of the seeders are left open: an INSERT has a set of     *)
(* alternatives, each one the set of rows that it adds.                    *)
(***************************************************************************)
EXTENDS Schema, SequencesExt

CONSTANTS
    Blueprints,     \* the tenants of independentBusinessBlueprints
    Scale,          \* currentScale: how many rows of each kind a tenant gets
    RoleNames,      \* the names of ROLE_DEFINITIONS, in their order
    PermissionNames,
    PermissionsOf,  \* role name -> the permissions of its definition
    NONE            \* SQL NULL

ScaleFields == {"stores", "categories", "suppliers", "products", "users",
                "orders"}

\* No profile seeds more tenants than independentBusinessBlueprints holds, and
\* their legal names differ: a tenant is told by its own.
ASSUME TenantAssumption ==
    /\ Blueprints \in Seq(Range(Blueprints))
    /\ \A i, j \in 1..Len(Blueprints) : Blueprints[i] = Blueprints[j] => i = j

ASSUME ScaleAssumption ==
    /\ RoleNames \in Seq(Range(RoleNames))
    /\ Scale \in [ScaleFields -> Nat \ {0}]
    /\ Scale.users <= Len(RoleNames)
    /\ PermissionsOf \in [{RoleNames[i] : i \in 1..Len(RoleNames)} ->
                              SUBSET PermissionNames]

\* randomUUID: the row k of table t that execution r of the seeding adds for b.
Uuid(t, r, b, k) == <<t, r, b, k>>

Insert(t, alternatives) ==
    [do |-> "insert", table |-> t, alternatives |-> alternatives,
     missing |-> FALSE]
InsertOne(t, row) == <<Insert(t, {{row}})>>

\* Rows that are looked up first; only the ones not found are inserted.
InsertMissing(t, rows) ==
    <<[do |-> "insert", table |-> t, alternatives |-> {rows},
       missing |-> TRUE]>>

\* The statements of a loop that is executed n times.
Loop(n, Body(_)) == FlattenSeq([i \in 1..n |-> Body(i)])

-----------------------------------------------------------------------------
SeedBusiness(r, b) ==
    InsertOne("businesses",
        [id |-> Uuid("businesses", r, b, 1), legal_name |-> b,
         display_name |-> b, registration_number |-> b])

RoleId(r, b, name) == Uuid("roles", r, b, name)
PermissionId(p) == Uuid("permissions", 0, NONE, p)

\* Permissions are global, roles and what they may do belong to the business.
SeedPermissionsAndRoles(r, b) ==
    InsertMissing("permissions",
        {[id |-> PermissionId(p), name |-> p] : p \in PermissionNames}) \o
    Loop(Len(RoleNames), LAMBDA i :
        LET name == RoleNames[i] IN
        InsertMissing("roles",
            {[id |-> RoleId(r, b, name), name |-> name,
              business_id |-> Uuid("businesses", r, b, 1)]}) \o
        InsertMissing("role_permissions",
            {[id |-> Uuid("role_permissions", r, b, <<name, p>>),
              role_id |-> RoleId(r, b, name),
              permission_id |-> PermissionId(p)] : p \in PermissionsOf[name]}))

SeedStores(r, b) ==
    Loop(Scale.stores, LAMBDA s :
        InsertOne("stores",
            [id |-> Uuid("stores", r, b, s), name |-> <<b, s>>,
             code |-> <<b, s>>, business_id |-> Uuid("businesses", r, b, 1)]))

SeedCategories(r, b) ==
    Loop(Scale.categories, LAMBDA c :
        InsertOne("categories",
            [id |-> Uuid("categories", r, b, c), name |-> <<b, c>>,
             business_id |-> Uuid("businesses", r, b, 1)]))

SeedSuppliers(r, b) ==
    Loop(Scale.suppliers, LAMBDA s :
        InsertOne("suppliers",
            [id |-> Uuid("suppliers", r, b, s), name |-> <<b, s>>,
             business_id |-> Uuid("businesses", r, b, 1)]))

\* The category of a product is the one of its template.
SeedProducts(r, b) ==
    Loop(Scale.products, LAMBDA p :
        <<Insert("products",
            {{[id |-> Uuid("products", r, b, p), name |-> p, images |-> p,
               sku |-> <<b, p>>, selling_price |-> p,
               category_id |-> Uuid("categories", r, b, c),
               business_id |-> Uuid("businesses", r, b, 1)]} :
             c \in 1..Scale.categories})>>)

\* One to three of the suppliers; they are inserted one after the other.
SeedSources(r, b) ==
    Loop(Scale.products, LAMBDA p :
        <<Insert("product_sources",
            {{[id |-> Uuid("product_sources", r, b, <<p, s>>),
               product_id |-> Uuid("products", r, b, p),
               supplier_id |-> Uuid("suppliers", r, b, s),
               business_id |-> Uuid("businesses", r, b, 1)] : s \in chosen} :
             chosen \in {x \in SUBSET (1..Scale.suppliers) :
                            Cardinality(x) \in 1..3}})>>)

\* One user for each of the first roles, in the first store.
SeedUsers(r, b) ==
    Loop(Scale.users, LAMBDA u :
        InsertOne("users",
            [id |-> Uuid("users", r, b, u), first_name |-> u,
             last_name |-> u, company_email |-> <<b, u>>,
             role_id |-> RoleId(r, b, RoleNames[u]),
             store_id |-> Uuid("stores", r, b, 1),
             business_id |-> Uuid("businesses", r, b, 1)]) \o
        InsertOne("user_auth",
            [id |-> Uuid("user_auth", r, b, u),
             user_id |-> Uuid("users", r, b, u)]))

\* The header, from a supplier and for a store of the business, then its items,
\* one of every product.
SeedOrders(r, b) ==
    Loop(Scale.orders, LAMBDA o :
        <<Insert("purchase_orders",
            {{[id |-> Uuid("purchase_orders", r, b, o), po_number |-> <<b, o>>,
               supplier_id |-> Uuid("suppliers", r, b, s),
               store_id |-> Uuid("stores", r, b, st),
               created_by_id |-> Uuid("users", r, b, 1),
               approved_by_id |-> approver,
               business_id |-> Uuid("businesses", r, b, 1)]} :
             s \in 1..Scale.suppliers, st \in 1..Scale.stores,
             approver \in {NONE, Uuid("users", r, b, 1)}})>> \o
        Loop(Scale.products, LAMBDA p :
            InsertOne("purchase_order_items",
                [id |-> Uuid("purchase_order_items", r, b, <<o, p>>),
                 purchase_order_id |-> Uuid("purchase_orders", r, b, o),
                 product_id |-> Uuid("products", r, b, p),
                 quantity_requested |-> p, quantity_received |-> p,
                 estimated_unit_cost |-> p, total_cost |-> p])))

MovementRow(r, b, k, st) ==
    [id |-> Uuid("stock_movements", r, b, k), stock_id |-> st,
     business_id |-> Uuid("businesses", r, b, 1), type |-> k, reason |-> k,
     direction |-> k, quantity |-> k, quantity_before |-> k,
     quantity_after |-> k, unit_cost_price |-> k,
     created_by_id |-> Uuid("users", r, b, 1)]

\* Stock of a product in a store, and its opening movement unless it is zero; the
\* movements that follow it have the same columns.  Every store has all products.
SeedStocks(r, b) ==
    Loop(Scale.stores, LAMBDA s :
        Loop(Scale.products, LAMBDA p :
            InsertOne("stocks",
                [id |-> Uuid("stocks", r, b, <<s, p>>),
                 product_id |-> Uuid("products", r, b, p),
                 store_id |-> Uuid("stores", r, b, s),
                 business_id |-> Uuid("businesses", r, b, 1)]) \o
            <<Insert("stock_movements",
                {{}, {MovementRow(r, b, <<s, p>>,
                                  Uuid("stocks", r, b, <<s, p>>))}})>>))

SeedAuditLogs(r, b) ==
    <<Insert("audit_logs",
        {{[id |-> Uuid("audit_logs", r, b, 1), action |-> 1, entity |-> 1,
           entity_id |-> 1, user_id |-> Uuid("users", r, b, u),
           store_id |-> Uuid("stores", r, b, s),
           business_id |-> Uuid("businesses", r, b, 1)]} :
         u \in 1..Scale.users, s \in 1..Scale.stores})>>

-----------------------------------------------------------------------------
SeedTenant(r, b) ==
    SeedBusiness(r, b) \o SeedPermissionsAndRoles(r, b) \o SeedStores(r, b)
    \o SeedCategories(r, b) \o SeedSuppliers(r, b) \o SeedProducts(r, b)
    \o SeedSources(r, b) \o SeedUsers(r, b) \o SeedOrders(r, b)
    \o SeedStocks(r, b) \o SeedAuditLogs(r, b)

\* InitialSeeding.up, as execution r.
SeedingUp(r) == Loop(Len(Blueprints), LAMBDA i : SeedTenant(r, Blueprints[i]))

\* Mutant: the last table is forgotten.
EmptyingButLast(ts) ==
    [i \in 1..(Len(ts) - 1) |-> [do |-> "delete", table |-> ts[i]]]

Emptying(ts) == [i \in 1..Len(ts) |-> [do |-> "delete", table |-> ts[i]]]

\* InitialSeeding.down.  It ignores a failure to delete the suppliers, of which
\* there is none: what names a supplier has been deleted by then.
SeedingDown == Emptying(
    <<"audit_logs", "stock_movements", "stocks", "purchase_order_items",
      "purchase_orders", "product_sources", "user_auth", "users",
      "role_permissions", "roles", "permissions", "suppliers", "categories",
      "products", "stores", "businesses">>)

=============================================================================
