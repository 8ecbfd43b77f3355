------------------------------- MODULE Schema -------------------------------
(***************************************************************************)
(* The database schema of the application, statement by statement, as the  *)
(* migration InitialSchema1783699991545 creates and drops it.              *)
(*                                                                         *)
(* A statement is a record.  Of the columns only those are kept that       *)
(* decide whether a row is accepted: the ones without a default that may   *)
(* not be NULL (apart from the primary key "id", which every INSERT        *)
(* gives), the ones of unique indexes and the ones that refer to another   *)
(* table.                                                                  *)
(***************************************************************************)
EXTENDS Naturals, Sequences

\* createTable(table, ifNotExist = true), with the indexes given inline.
TableWith(t, required, inline) ==
    <<[do |-> "table", table |-> t, required |-> required, inline |-> inline]>>
Table(t, required) == TableWith(t, required, {})

\* createForeignKey: column c of t names a row of the table "to".
Reference(t, name, c, to, onDelete) ==
    [do |-> "key", table |-> t, key |-> [name |-> name, kind |-> "reference",
     column |-> c, to |-> to, onDelete |-> onDelete]]

\* createIndex with isUnique, and without.
UniqueKey(name, cs) == [name |-> name, kind |-> "unique", columns |-> cs]
Unique(t, name, cs) == [do |-> "key", table |-> t, key |-> UniqueKey(name, cs)]
PlainKey(name) == [name |-> name, kind |-> "plain"]
Indexes(t, names) ==
    [i \in 1..Len(names) |->
        [do |-> "key", table |-> t, key |-> PlainKey(names[i])]]

-----------------------------------------------------------------------------
Businesses == Table("businesses", {"legal_name", "display_name"})

Stores ==
    Table("stores", {"business_id", "name", "code"}) \o
    <<Reference("stores", "FK_stores_business", "business_id", "businesses",
                "CASCADE"),
      Unique("stores", "UQ_stores_business_code", {"business_id", "code"})>> \o
    Indexes("stores", <<"IDX_stores_business">>)

Roles ==
    Table("roles", {"name", "business_id"}) \o
    <<Unique("roles", "UQ_ROLE_NAME_BUSINESS", {"name", "business_id"})>>

Permissions ==
    TableWith("permissions", {"name"}, {UniqueKey("name", {"name"})})

\* The index has the name of a unique one but is not.
RolePermissions ==
    Table("role_permissions", {"role_id", "permission_id"}) \o
    Indexes("role_permissions", <<"UQ_role_permissions_role_permission">>) \o
    <<Reference("role_permissions", "FK_role_permissions_role", "role_id",
                "roles", "CASCADE"),
      Reference("role_permissions", "FK_role_permissions_permission",
                "permission_id", "permissions", "CASCADE")>>

Users ==
    Table("users", {"business_id", "first_name", "last_name", "company_email",
                    "role_id"}) \o
    <<Reference("users", "FK_users_business", "business_id", "businesses",
                "CASCADE"),
      Reference("users", "FK_users_store", "store_id", "stores", "SET NULL"),
      Reference("users", "FK_users_role", "role_id", "roles", "RESTRICT"),
      Unique("users", "UQ_users_company_email",
             {"business_id", "company_email"})>> \o
    Indexes("users", <<"IDX_users_business", "IDX_users_store",
                       "IDX_users_role">>)

UserAuth ==
    TableWith("user_auth", {"user_id"}, {UniqueKey("user_id", {"user_id"})}) \o
    <<Reference("user_auth", "FK_user_auth_user", "user_id", "users",
                "CASCADE")>>

Categories ==
    Table("categories", {"business_id", "name"}) \o
    <<Reference("categories", "FK_categories_business", "business_id",
                "businesses", "CASCADE"),
      Unique("categories", "UQ_categories_business_name",
             {"business_id", "name"})>> \o
    Indexes("categories", <<"IDX_categories_business">>)

Products ==
    Table("products", {"business_id", "name", "images", "sku",
                       "selling_price"}) \o
    <<Reference("products", "FK_products_business", "business_id",
                "businesses", "CASCADE"),
      Reference("products", "FK_products_category", "category_id",
                "categories", "SET NULL")>> \o
    Indexes("products", <<"IDX_products_business", "IDX_products_category",
                          "IDX_products_business_status">>) \o
    <<Unique("products", "UQ_products_business_sku", {"business_id", "sku"})>>

Suppliers ==
    Table("suppliers", {"business_id", "name"}) \o
    <<Reference("suppliers", "FK_suppliers_business", "business_id",
                "businesses", "CASCADE"),
      Unique("suppliers", "UQ_suppliers_business_name",
             {"business_id", "name"})>> \o
    Indexes("suppliers", <<"IDX_suppliers_business">>)

ProductSources ==
    Table("product_sources", {"business_id", "product_id", "supplier_id"}) \o
    <<Reference("product_sources", "FK_product_sources_business",
                "business_id", "businesses", "CASCADE"),
      Reference("product_sources", "FK_product_sources_product", "product_id",
                "products", "CASCADE"),
      Reference("product_sources", "FK_product_sources_supplier",
                "supplier_id", "suppliers", "CASCADE"),
      Unique("product_sources", "UQ_product_sources_product_supplier",
             {"product_id", "supplier_id"})>> \o
    Indexes("product_sources",
            <<"IDX_product_sources_business", "IDX_product_sources_product",
              "IDX_product_sources_supplier">>)

Stocks ==
    Table("stocks", {"product_id", "business_id", "store_id"}) \o
    <<Reference("stocks", "FK_stocks_product", "product_id", "products",
                "RESTRICT"),
      Reference("stocks", "FK_stocks_business", "business_id", "businesses",
                "RESTRICT"),
      Reference("stocks", "FK_stocks_store", "store_id", "stores",
                "RESTRICT"),
      Unique("stocks", "UQ_stocks_product_store",
             {"product_id", "store_id"})>> \o
    Indexes("stocks", <<"IDX_stocks_business", "IDX_stocks_store",
                        "IDX_stocks_product", "IDX_stocks_store_reorder">>)

StockMovements ==
    Table("stock_movements",
          {"stock_id", "business_id", "type", "reason", "direction",
           "quantity", "quantity_before", "quantity_after",
           "unit_cost_price"}) \o
    <<Reference("stock_movements", "FK_stock_movements_stock", "stock_id",
                "stocks", "RESTRICT"),
      Reference("stock_movements", "FK_stock_movements_business",
                "business_id", "businesses", "RESTRICT"),
      Reference("stock_movements", "FK_stock_movements_created_by",
                "created_by_id", "users", "SET NULL")>> \o
    Indexes("stock_movements",
            <<"IDX_stock_movements_business_created_at",
              "IDX_stock_movements_stock_created_at",
              "IDX_stock_movements_created_by", "IDX_stock_movements_type",
              "IDX_stock_movements_direction">>)

PurchaseOrders ==
    Table("purchase_orders", {"business_id", "store_id", "po_number",
                              "supplier_id", "created_by_id"}) \o
    <<Reference("purchase_orders", "FK_purchase_orders_store", "store_id",
                "stores", "CASCADE"),
      Reference("purchase_orders", "FK_purchase_orders_supplier",
                "supplier_id", "suppliers", "RESTRICT"),
      Reference("purchase_orders", "FK_purchase_orders_created_by",
                "created_by_id", "users", "RESTRICT"),
      Reference("purchase_orders", "FK_purchase_orders_approved_by",
                "approved_by_id", "users", "SET NULL"),
      Unique("purchase_orders", "UQ_purchase_orders_store_po_number",
             {"store_id", "po_number"})>> \o
    Indexes("purchase_orders",
            <<"IDX_purchase_orders_store", "IDX_purchase_orders_supplier",
              "IDX_purchase_orders_status", "IDX_purchase_orders_created_by">>)

PurchaseOrderItems ==
    Table("purchase_order_items",
          {"purchase_order_id", "product_id", "quantity_requested",
           "quantity_received", "estimated_unit_cost", "total_cost"}) \o
    <<Reference("purchase_order_items",
                "FK_purchase_order_items_purchase_order", "purchase_order_id",
                "purchase_orders", "CASCADE"),
      Reference("purchase_order_items", "FK_purchase_order_items_product",
                "product_id", "products", "RESTRICT")>> \o
    Indexes("purchase_order_items",
            <<"IDX_purchase_order_items_purchase_order",
              "IDX_purchase_order_items_product">>)

AuditLogs ==
    Table("audit_logs", {"business_id", "action", "entity", "entity_id"}) \o
    <<Reference("audit_logs", "FK_audit_logs_business", "business_id",
                "businesses", "CASCADE"),
      Reference("audit_logs", "FK_audit_logs_store", "store_id", "stores",
                "SET NULL"),
      Reference("audit_logs", "FK_audit_logs_user", "user_id", "users",
                "SET NULL")>> \o
    Indexes("audit_logs",
            <<"IDX_audit_logs_business", "IDX_audit_logs_store",
              "IDX_audit_logs_user", "IDX_audit_logs_action",
              "IDX_audit_logs_entity", "IDX_audit_logs_entity_id",
              "IDX_audit_logs_created_at", "IDX_audit_logs_entity_lookup",
              "IDX_audit_logs_business_entity",
              "IDX_audit_logs_store_created_at">>)

\* Mutant: the index is created by a statement of its own.
OutboxEventsThenIndex ==
    Table("outbox_events",
          {"event_type", "aggregate_id", "aggregate_type", "business_id",
           "store_id", "available_at"}) \o
    Indexes("outbox_events", <<"IDX_outbox_events_status_available_at">>)

OutboxEvents ==
    TableWith("outbox_events",
              {"event_type", "aggregate_id", "aggregate_type", "business_id",
               "store_id", "available_at"},
              {PlainKey("IDX_outbox_events_status_available_at")})

Notifications ==
    TableWith("notifications",
              {"business_id", "recipient_id", "source_event_id", "type"},
              {UniqueKey("UQ_notifications_source_event_recipient",
                         {"source_event_id", "recipient_id"})})

\* InitialSchema.up.
SchemaUp ==
    Businesses \o Stores \o Roles \o Permissions \o RolePermissions \o Users
    \o UserAuth \o Categories \o Products \o Suppliers \o ProductSources
    \o Stocks \o StockMovements \o PurchaseOrders \o PurchaseOrderItems
    \o AuditLogs \o OutboxEvents \o Notifications

\* InitialSchema.down: dropTable(table, ifExist = true).
SchemaDown ==
    LET dropped == <<"audit_logs", "purchase_order_items", "purchase_orders",
                     "stock_movements", "stocks", "product_sources",
                     "suppliers", "products", "categories", "user_auth",
                     "users", "role_permissions", "permissions", "roles",
                     "stores", "businesses">>
    IN  [i \in 1..Len(dropped) |-> [do |-> "drop", table |-> dropped[i]]]

=============================================================================
