-------------------------- MODULE Deployment_proofs --------------------------
(***************************************************************************)
(* What migrations and starts leave in the database, for any number of     *)
(* tenants and rows, any number of executions and interruptions.           *)
(*                                                                         *)
(* First what the statements are: each relies only on earlier ones.  Then  *)
(* what they leave, by stages of the commands: the schema (SchemaInv), the *)
(* rows (RowsInv) and the tenants (TenantsInv).                            *)
(***************************************************************************)
EXTENDS Deployment, FiniteSetTheorems, WellFoundedInduction, TLAPS

-----------------------------------------------------------------------------
(* Sequences: concatenation, and the FlattenSeq behind the loops.          *)

\* A set of natural numbers that is not empty has a least one.
LEMMA LeastNumber ==
    ASSUME NEW T \in SUBSET Nat, T # {}
    PROVE  \E n \in T : \A m \in T : n <= m
<1>1. PICK n \in T : \A m \in T : ~ (<<m, n>> \in OpToRel(<, Nat))
  BY WFMin, NatLessThanWellFounded
<1>2. \A m \in T : ~ (m < n)
  BY <1>1 DEF OpToRel
<1>. QED  BY <1>2

\* The elements of a sequence, and what makes something a sequence.
Elements(s) == {s[i] : i \in 1..Len(s)}
IsSequence(s) == s \in Seq(Elements(s))

\* A function on the first n numbers is a sequence.
LEMMA FunctionIsSequence ==
    ASSUME NEW n \in Nat, NEW f, f = [i \in 1..n |-> f[i]]
    PROVE  IsSequence(f) /\ Len(f) = n
<1> DEFINE S == {f[i] : i \in 1..n}
<1>1. \A i \in 1..n : f[i] \in S
  OBVIOUS
<1>2. f \in [1..n -> S]
  <2> HIDE DEF S
  <2>. QED  BY <1>1
<1>3. f \in Seq(S) /\ Len(f) = n
  <2> HIDE DEF S
  <2>. QED  BY <1>2
<1>. QED  BY <1>3 DEF IsSequence, Elements

\* Concatenation, element by element.
LEMMA ConcatAt ==
    ASSUME NEW a, NEW b, IsSequence(a), IsSequence(b)
    PROVE  /\ IsSequence(a \o b) /\ Len(a \o b) = Len(a) + Len(b)
           /\ Len(a) \in Nat /\ Len(b) \in Nat
           /\ \A i \in 1..Len(a) : (a \o b)[i] = a[i]
           /\ \A i \in 1..Len(b) : (a \o b)[Len(a) + i] = b[i]
<1> DEFINE S == Elements(a) \cup Elements(b)
           c == a \o b
<1>1. a \in Seq(S) /\ b \in Seq(S)
  BY DEF IsSequence
<1>2. /\ c \in Seq(S) /\ Len(c) = Len(a) + Len(b)
      /\ Len(a) \in Nat /\ Len(b) \in Nat
      /\ \A i \in 1..Len(a) : c[i] = a[i]
      /\ \A i \in 1..Len(b) : c[Len(a) + i] = b[i]
  <2> HIDE DEF S
  <2>. QED  BY <1>1
<1>3. c = [i \in 1..Len(c) |-> c[i]] /\ Len(c) \in Nat
  <2> HIDE DEF S, c
  <2>. QED  BY <1>2
<1> HIDE DEF c
<1>4. IsSequence(c)
  BY <1>3, FunctionIsSequence
<1>5. IsSequence(c) /\ Len(c) = Len(a) + Len(b)
  BY <1>2, <1>4
<1>. QED  BY <1>2, <1>5 DEF c

LEMMA ElementsConcat ==
    ASSUME NEW a, NEW b, IsSequence(a), IsSequence(b)
    PROVE  Elements(a \o b) = Elements(a) \cup Elements(b)
<1> DEFINE c == a \o b
<1>1. /\ Len(c) = Len(a) + Len(b) /\ Len(a) \in Nat /\ Len(b) \in Nat
      /\ \A i \in 1..Len(a) : c[i] = a[i]
      /\ \A i \in 1..Len(b) : c[Len(a) + i] = b[i]
  BY ConcatAt
<1> HIDE DEF c
<1>2. ASSUME NEW i \in 1..Len(c) PROVE c[i] \in Elements(a) \cup Elements(b)
  <2>1. CASE i <= Len(a)
    BY <1>1, <2>1 DEF Elements
  <2>2. CASE i > Len(a)
    <3>1. i - Len(a) \in 1..Len(b) /\ Len(a) + (i - Len(a)) = i
      BY <1>1, <2>2
    <3>. QED  BY <1>1, <3>1 DEF Elements
  <2>. QED  BY <1>1, <2>1, <2>2
<1>3. ASSUME NEW i \in 1..Len(a) PROVE a[i] \in Elements(c)
  <2>1. i \in 1..Len(c)
    BY <1>1
  <2>. QED  BY <1>1, <2>1 DEF Elements
<1>4. ASSUME NEW i \in 1..Len(b) PROVE b[i] \in Elements(c)
  <2>1. Len(a) + i \in 1..Len(c)
    BY <1>1
  <2>. QED  BY <1>1, <2>1 DEF Elements
<1>5. Elements(c) = Elements(a) \cup Elements(b)
  BY <1>2, <1>3, <1>4 DEF Elements
<1>. QED  BY <1>5 DEF c

\* Elements by their index.
LEMMA ElementAt ==
    ASSUME NEW s, NEW x \in Elements(s)
    PROVE  \E i \in 1..Len(s) : x = s[i]
  BY DEF Elements

\* The recursion behind FlattenSeq.
Flattens(h, q, n) == h = [i \in 1..n |-> IF i = 1 THEN q[i] ELSE h[i - 1] \o q[i]]

LEMMA FlatteningGrows ==
    ASSUME NEW q, NEW n \in Nat, NEW g, Flattens(g, q, n)
    PROVE  \E h : Flattens(h, q, n + 1)
<1> DEFINE h == [i \in 1..(n + 1) |-> IF i = 1 THEN q[i] ELSE g[i - 1] \o q[i]]
<1>0. ASSUME NEW i \in 1..n PROVE g[i] = IF i = 1 THEN q[i] ELSE g[i - 1] \o q[i]
  <2> DEFINE F(j) == IF j = 1 THEN q[j] ELSE g[j - 1] \o q[j]
  <2>1. g = [j \in 1..n |-> F(j)]
    BY DEF Flattens
  <2> HIDE DEF F
  <2>2. g[i] = F(i)
    BY <2>1
  <2>. QED  BY <2>2 DEF F
<1>1. ASSUME NEW i \in 1..n PROVE h[i] = g[i]
  <2>1. i \in 1..(n + 1)
    OBVIOUS
  <2>. QED  BY <1>0, <2>1
<1>2. h = [i \in 1..(n + 1) |-> IF i = 1 THEN q[i] ELSE h[i - 1] \o q[i]]
  <2>1. ASSUME NEW i \in 1..(n + 1), i # 1 PROVE h[i - 1] = g[i - 1]
    <3>1. i - 1 \in 1..n
      BY <2>1
    <3> HIDE DEF h
    <3>. QED  BY <1>1, <3>1
  <2>. QED  BY <2>1
<1> HIDE DEF h
<1>. QED  BY <1>2 DEF Flattens

LEMMA FlatteningExists ==
    ASSUME NEW q, NEW n \in Nat
    PROVE  \E h : Flattens(h, q, n)
<1> DEFINE Bad == {k \in Nat : ~ \E h : Flattens(h, q, k)}
<1>1. ASSUME NEW m \in Bad, \A k \in Bad : m <= k PROVE FALSE
  <2>1. CASE m = 0
    <3>1. Flattens([i \in 1..0 |-> 0], q, 0)
      BY DEF Flattens
    <3>. QED  BY <2>1, <3>1
  <2>2. CASE m # 0
    <3>1. m - 1 \in Nat /\ m - 1 \notin Bad /\ (m - 1) + 1 = m
      BY <1>1, <2>2
    <3>2. PICK g : Flattens(g, q, m - 1)
      BY <3>1
    <3>3. \E h : Flattens(h, q, (m - 1) + 1)
      BY <3>1, <3>2, FlatteningGrows
    <3>. QED  BY <3>1, <3>3
  <2>. QED  BY <2>1, <2>2
<1>2. Bad = {}
  <2>1. Bad \in SUBSET Nat
    OBVIOUS
  <2> HIDE DEF Bad
  <2>. QED  BY <1>1, <2>1, LeastNumber
<1>. QED  BY <1>2

\* A flattened sequence is the last of the concatenations.
LEMMA FlattenIsLast ==
    ASSUME NEW n \in Nat \ {0}, NEW q, q = [i \in 1..n |-> q[i]]
    PROVE  \E h : /\ h[1] = q[1]
                  /\ \A i \in 2..n : h[i] = h[i - 1] \o q[i]
                  /\ FlattenSeq(q) = h[n]
<1>1. Len(q) = n
  BY FunctionIsSequence
<1>2. FlattenSeq(q) = (CHOOSE h : Flattens(h, q, n))[n]
  BY <1>1 DEF FlattenSeq, Flattens
<1>3. Flattens(CHOOSE h : Flattens(h, q, n), q, n)
  BY FlatteningExists
<1> DEFINE g == CHOOSE h : Flattens(h, q, n)
<1>4. g = [i \in 1..n |-> IF i = 1 THEN q[i] ELSE g[i - 1] \o q[i]]
  BY <1>3 DEF Flattens
<1> HIDE DEF g
<1>5. ASSUME NEW i \in 1..n PROVE g[i] = IF i = 1 THEN q[i] ELSE g[i - 1] \o q[i]
  <2> DEFINE F(j) == IF j = 1 THEN q[j] ELSE g[j - 1] \o q[j]
  <2>1. g = [j \in 1..n |-> F(j)]
    BY <1>4
  <2> HIDE DEF F
  <2>2. g[i] = F(i)
    BY <2>1
  <2>. QED  BY <2>2 DEF F
<1>6. g[1] = q[1]
  <2>1. 1 \in 1..n
    OBVIOUS
  <2>. QED  BY <1>5, <2>1
<1>7. ASSUME NEW i \in 2..n PROVE g[i] = g[i - 1] \o q[i]
  <2>1. i \in 1..n /\ i # 1
    OBVIOUS
  <2>. QED  BY <1>5, <2>1
<1>. QED  BY <1>2, <1>6, <1>7 DEF g

-----------------------------------------------------------------------------
(* The order of statements.                                                *)

\* (The blank in the name is kept away from the solver.)
SetNull == "SET NULL"

\* The references and the unique keys of the schema.
ReferenceTable ==
    {<<"stores", "business_id", "businesses", "CASCADE">>,
     <<"role_permissions", "role_id", "roles", "CASCADE">>,
     <<"role_permissions", "permission_id", "permissions", "CASCADE">>,
     <<"users", "business_id", "businesses", "CASCADE">>,
     <<"users", "store_id", "stores", SetNull>>,
     <<"users", "role_id", "roles", "RESTRICT">>,
     <<"user_auth", "user_id", "users", "CASCADE">>,
     <<"categories", "business_id", "businesses", "CASCADE">>,
     <<"products", "business_id", "businesses", "CASCADE">>,
     <<"products", "category_id", "categories", SetNull>>,
     <<"suppliers", "business_id", "businesses", "CASCADE">>,
     <<"product_sources", "business_id", "businesses", "CASCADE">>,
     <<"product_sources", "product_id", "products", "CASCADE">>,
     <<"product_sources", "supplier_id", "suppliers", "CASCADE">>,
     <<"stocks", "product_id", "products", "RESTRICT">>,
     <<"stocks", "business_id", "businesses", "RESTRICT">>,
     <<"stocks", "store_id", "stores", "RESTRICT">>,
     <<"stock_movements", "stock_id", "stocks", "RESTRICT">>,
     <<"stock_movements", "business_id", "businesses", "RESTRICT">>,
     <<"stock_movements", "created_by_id", "users", SetNull>>,
     <<"purchase_orders", "store_id", "stores", "CASCADE">>,
     <<"purchase_orders", "supplier_id", "suppliers", "RESTRICT">>,
     <<"purchase_orders", "created_by_id", "users", "RESTRICT">>,
     <<"purchase_orders", "approved_by_id", "users", SetNull>>,
     <<"purchase_order_items", "purchase_order_id", "purchase_orders", "CASCADE">>,
     <<"purchase_order_items", "product_id", "products", "RESTRICT">>,
     <<"audit_logs", "business_id", "businesses", "CASCADE">>,
     <<"audit_logs", "store_id", "stores", SetNull>>,
     <<"audit_logs", "user_id", "users", SetNull>>}

UniqueTable ==
    {<<"stores", {"business_id", "code"}>>,
     <<"roles", {"name", "business_id"}>>,
     <<"permissions", {"name"}>>,
     <<"users", {"business_id", "company_email"}>>,
     <<"user_auth", {"user_id"}>>,
     <<"categories", {"business_id", "name"}>>,
     <<"products", {"business_id", "sku"}>>,
     <<"suppliers", {"business_id", "name"}>>,
     <<"product_sources", {"product_id", "supplier_id"}>>,
     <<"stocks", {"product_id", "store_id"}>>,
     <<"purchase_orders", {"store_id", "po_number"}>>,
     <<"notifications", {"source_event_id", "recipient_id"}>>}

\* What a statement relies on, what it leaves for certain, what it may make,
\* and what nobody may have made before it: tables, keys of a table, rows.
Needs(s, w) ==
    \/ s.do = "key" /\ w = <<"table", s.table>>
    \/ s.do = "key" /\ s.key.kind = "reference" /\ w = <<"table", s.key.to>>
    \/ /\ s.do = "insert"
       /\ \E new \in s.alternatives : \E x \in new : \E e \in ReferenceTable :
              /\ e[1] = s.table /\ e[2] \in DOMAIN x /\ x[e[2]] # NONE
              /\ w = <<e[3], x[e[2]]>>

Gives(s, w) ==
    \/ s.do = "table" /\ w = <<"table", s.table>>
    \/ /\ s.do = "insert"
       /\ \A new \in s.alternatives : \E x \in new : w = <<s.table, x.id>>

Makes(s, w) ==
    \/ s.do = "table" /\ w = <<"table", s.table>>
    \/ s.do = "table" /\ \E k \in s.inline : w = <<"key", s.table, k.name>>
    \/ s.do = "key" /\ w = <<"key", s.table, s.key.name>>
    \/ /\ s.do = "insert"
       /\ \E new \in s.alternatives : \E x \in new : w = <<s.table, x.id>>

Fresh(s, w) == Makes(s, w) /\ ~ (s.do = "insert" /\ s.missing)

\* Every statement finds what it needs in G or among what the ones before it
\* gave, and none of them has made what it makes.
InOrder(p, G) ==
    \A n \in 1..Len(p) :
        /\ \A w : Needs(p[n], w) =>
               w \in G \/ \E m \in 1..(n - 1) : Gives(p[m], w)
        /\ \A m \in 1..(n - 1) : \A w : ~ (Makes(p[m], w) /\ Fresh(p[n], w))

LEMMA InOrderConcat ==
    ASSUME NEW a, NEW b, IsSequence(a), IsSequence(b), NEW G, NEW H,
           InOrder(a, G), InOrder(b, H),
           \A w \in H : w \in G \/ \E s \in Elements(a) : Gives(s, w),
           \A s \in Elements(a), t \in Elements(b) : \A w : ~ (Makes(s, w) /\ Fresh(t, w))
    PROVE  InOrder(a \o b, G)
<1> DEFINE c == a \o b
<1>1. /\ Len(c) = Len(a) + Len(b) /\ Len(a) \in Nat /\ Len(b) \in Nat
      /\ \A i \in 1..Len(a) : c[i] = a[i]
      /\ \A i \in 1..Len(b) : c[Len(a) + i] = b[i]
  BY ConcatAt
<1> HIDE DEF c
<1>2. ASSUME NEW n \in 1..Len(c), n <= Len(a)
      PROVE  /\ \A w : Needs(c[n], w) =>
                    w \in G \/ \E m \in 1..(n - 1) : Gives(c[m], w)
             /\ \A m \in 1..(n - 1) : \A w : ~ (Makes(c[m], w) /\ Fresh(c[n], w))
  <2>1. n \in 1..Len(a) /\ c[n] = a[n] /\ \A m \in 1..(n - 1) : c[m] = a[m]
    BY <1>1, <1>2
  <2>. QED  BY <2>1 DEF InOrder
<1>3. ASSUME NEW n \in 1..Len(c), n > Len(a)
      PROVE  /\ \A w : Needs(c[n], w) =>
                    w \in G \/ \E m \in 1..(n - 1) : Gives(c[m], w)
             /\ \A m \in 1..(n - 1) : \A w : ~ (Makes(c[m], w) /\ Fresh(c[n], w))
  <2> DEFINE i == n - Len(a)
  <2>1. i \in 1..Len(b) /\ n = Len(a) + i
    BY <1>1, <1>3
  <2> HIDE DEF i
  <2>2. b[i] \in Elements(b) /\ c[n] = b[i]
    BY <1>1, <2>1 DEF Elements
  <2>3. ASSUME NEW w, w \in G \/ \E s \in Elements(a) : Gives(s, w)
        PROVE  w \in G \/ \E m \in 1..(n - 1) : Gives(c[m], w)
    <3>1. CASE \E s \in Elements(a) : Gives(s, w)
      <4>1. PICK m \in 1..Len(a) : Gives(a[m], w)
        BY <3>1 DEF Elements
      <4>2. m \in 1..(n - 1) /\ c[m] = a[m]
        BY <1>1, <2>1
      <4>. QED  BY <4>1, <4>2
    <3>. QED  BY <2>3, <3>1
  <2>4. ASSUME NEW w, Needs(c[n], w)
        PROVE  w \in G \/ \E m \in 1..(n - 1) : Gives(c[m], w)
    <3>1. w \in H \/ \E m \in 1..(i - 1) : Gives(b[m], w)
      BY <2>1, <2>2, <2>4 DEF InOrder
    <3>2. CASE w \in H
      BY <2>3, <3>2
    <3>3. ASSUME NEW m \in 1..(i - 1), Gives(b[m], w)
          PROVE  \E j \in 1..(n - 1) : Gives(c[j], w)
      <4>1. m \in 1..Len(b) /\ Len(a) + m \in 1..(n - 1) /\ c[Len(a) + m] = b[m]
        BY <1>1, <2>1
      <4>. QED  BY <3>3, <4>1
    <3>. QED  BY <3>1, <3>2, <3>3
  <2>5. ASSUME NEW m \in 1..(n - 1), NEW w PROVE ~ (Makes(c[m], w) /\ Fresh(c[n], w))
    <3>1. CASE m <= Len(a)
      <4>1. c[m] = a[m] /\ a[m] \in Elements(a)
        BY <1>1, <3>1 DEF Elements
      <4>. QED  BY <2>1, <2>2, <4>1
    <3>2. CASE m > Len(a)
      <4>1. /\ m - Len(a) \in 1..(i - 1) /\ m - Len(a) \in 1..Len(b)
            /\ m = Len(a) + (m - Len(a))
        BY <1>1, <2>1, <3>2
      <4>2. c[m] = b[m - Len(a)]
        BY <1>1, <4>1
      <4>. QED  BY <2>1, <2>2, <4>1, <4>2 DEF InOrder
    <3>. QED  BY <1>1, <3>1, <3>2
  <2>. QED  BY <2>4, <2>5
<1>4. InOrder(c, G)
  BY <1>1, <1>2, <1>3 DEF InOrder
<1>. QED  BY <1>4 DEF c

\* The statements of a loop are in order when the ones of each iteration are, and
\* no iteration makes anew what an earlier one may have made.
LEMMA LoopInOrder ==
    ASSUME NEW n \in Nat \ {0}, NEW q, q = [i \in 1..n |-> q[i]], NEW G,
           \A i \in 1..n : IsSequence(q[i]) /\ InOrder(q[i], G),
           \A i \in 1..n : \A j \in 1..(i - 1) :
               \A s \in Elements(q[j]), t \in Elements(q[i]) :
                   \A w : ~ (Makes(s, w) /\ Fresh(t, w))
    PROVE  /\ IsSequence(FlattenSeq(q)) /\ InOrder(FlattenSeq(q), G)
           /\ Elements(FlattenSeq(q)) = UNION {Elements(q[i]) : i \in 1..n}
<1>1. PICK h : /\ h[1] = q[1]
               /\ \A i \in 2..n : h[i] = h[i - 1] \o q[i]
               /\ FlattenSeq(q) = h[n]
  BY FlattenIsLast
<1> DEFINE Good(k) == /\ IsSequence(h[k]) /\ InOrder(h[k], G)
                      /\ Elements(h[k]) = UNION {Elements(q[i]) : i \in 1..k}
           Bad == {k \in 1..n : ~ Good(k)}
<1>2. ASSUME NEW m \in Bad, \A k \in Bad : m <= k PROVE FALSE
  <2>1. CASE m = 1
    <3>1. 1..1 = {1}
      OBVIOUS
    <3>. QED  BY <1>1, <2>1, <3>1
  <2>2. CASE m # 1
    <3>1. m \in 2..n /\ m - 1 \in 1..n /\ m - 1 \notin Bad
      BY <1>2, <2>2
    <3>2. h[m] = h[m - 1] \o q[m] /\ Good(m - 1) /\ IsSequence(q[m]) /\ InOrder(q[m], G)
      BY <1>1, <3>1
    <3>3. 1..m = (1..(m - 1)) \cup {m}
      BY <3>1
    <3>4. Elements(h[m]) = UNION {Elements(q[i]) : i \in 1..m}
      <4> DEFINE Below(k) == UNION {Elements(q[i]) : i \in 1..k}
      <4>1. Elements(h[m]) = Elements(h[m - 1]) \cup Elements(q[m])
        BY <3>2, ElementsConcat
      <4>2. Elements(h[m - 1]) = Below(m - 1)
        BY <3>2
      <4>3. Below(m) = Below(m - 1) \cup Elements(q[m])
        BY <3>3, Zenon
      <4>. QED  BY <4>1, <4>2, <4>3
    <3>5. \A s \in Elements(h[m - 1]), t \in Elements(q[m]) :
              \A w : ~ (Makes(s, w) /\ Fresh(t, w))
      BY <3>1, <3>2
    <3>6. InOrder(h[m], G)
      BY <3>2, <3>5, InOrderConcat
    <3>7. IsSequence(h[m])
      BY <3>2, ConcatAt
    <3>. QED  BY <3>4, <3>6, <3>7
  <2>. QED  BY <2>1, <2>2
<1>3. Bad = {}
  <2>1. Bad \in SUBSET Nat
    OBVIOUS
  <2> HIDE DEF Bad
  <2>. QED  BY <1>2, <2>1, LeastNumber
<1>4. Good(n)
  <2> HIDE DEF Good
  <2>. QED  BY <1>3
<1>. QED  BY <1>1, <1>4

\* Without an iteration there is no statement.
LEMMA NoIteration ==
    ASSUME NEW q, q = [i \in 1..0 |-> q[i]]
    PROVE  IsSequence(FlattenSeq(q)) /\ Len(FlattenSeq(q)) = 0
<1>1. IsSequence(q) /\ Len(q) = 0
  BY FunctionIsSequence
<1>. QED  BY <1>1 DEF FlattenSeq

-----------------------------------------------------------------------------
(* The schema, table by table.                                             *)

\* A key of t that refers to a table of G, if any, and the creation of t with
\* indexes whose names are in N.
IsKey(s, t, G) ==
    /\ s.do = "key" /\ s.table = t
    /\ \/ s.key.kind = "plain"
       \/ s.key.kind = "unique" /\ <<t, s.key.columns>> \in UniqueTable
       \/ /\ s.key.kind = "reference" /\ s.key.to \in G
          /\ <<t, s.key.column, s.key.to, s.key.onDelete>> \in ReferenceTable

IsIndex(k, t) ==
    \/ k.kind = "plain"
    \/ k.kind = "unique" /\ <<t, k.columns>> \in UniqueTable

IsTable(s, t, required, N) ==
    /\ s.do = "table" /\ s.table = t /\ s.required = required
    /\ \A k \in s.inline :
           k.name \in N /\ IsIndex(k, t)

\* Keys of t with different names, all of N.
AreKeys(q, t, N, G) ==
    /\ IsSequence(q)
    /\ \A n \in 1..Len(q) :
           /\ IsKey(q[n], t, G) /\ q[n].key.name \in N
           /\ \A m \in 1..(n - 1) : q[m].key.name # q[n].key.name

\* The same behind the creation of t.
IsPiece(p, t, required, N, G) ==
    /\ IsSequence(p) /\ Len(p) >= 1 /\ IsTable(p[1], t, required, N)
    /\ \A n \in 2..Len(p) :
           /\ IsKey(p[n], t, G) /\ p[n].key.name \in N
           /\ \A k \in p[1].inline : k.name # p[n].key.name
           /\ \A m \in 2..(n - 1) : p[m].key.name # p[n].key.name

LEMMA ReferenceIsKey ==
    ASSUME NEW t, NEW name, NEW c, NEW to, NEW onDelete, NEW G,
           <<t, c, to, onDelete>> \in ReferenceTable, to \in G
    PROVE  /\ IsKey(Reference(t, name, c, to, onDelete), t, G)
           /\ Reference(t, name, c, to, onDelete).key.name = name
  BY DEF IsKey, Reference

LEMMA UniqueIsKey ==
    ASSUME NEW t, NEW name, NEW cs, NEW G, <<t, cs>> \in UniqueTable
    PROVE  IsKey(Unique(t, name, cs), t, G) /\ Unique(t, name, cs).key.name = name
  BY DEF IsKey, Unique, UniqueKey

LEMMA IndexesAreKeys ==
    ASSUME NEW t, NEW names, NEW G, IsSequence(names),
           \A i, j \in 1..Len(names) : i # j => names[i] # names[j]
    PROVE  AreKeys(Indexes(t, names), t, Elements(names), G)
<1> DEFINE q == Indexes(t, names)
<1>0. Len(names) \in Nat /\ q = [i \in 1..Len(names) |->
          [do |-> "key", table |-> t, key |-> [name |-> names[i], kind |-> "plain"]]]
  BY DEF Indexes, PlainKey, IsSequence
<1>1. \A i \in 1..Len(names) : IsKey(q[i], t, G)
  BY <1>0 DEF IsKey
<1>2. \A i \in 1..Len(names) : q[i].key.name = names[i]
  BY <1>0
<1>3. q = [i \in 1..Len(names) |-> q[i]]
  BY <1>0
<1> HIDE DEF q
<1>4. IsSequence(q) /\ Len(q) = Len(names)
  BY <1>0, <1>3, FunctionIsSequence
<1>5. AreKeys(q, t, Elements(names), G)
  BY <1>0, <1>1, <1>2, <1>4 DEF AreKeys, Elements
<1>. QED  BY <1>5 DEF q

LEMMA OneKey ==
    ASSUME NEW t, NEW G, NEW a,
           NEW n1,
           IsKey(a, t, G),
           a.key.name = n1
    PROVE  AreKeys(<<a>>, t, {n1}, G)
<1> DEFINE q == <<a>>
<1>1. q[1] = a /\ Len(q) = 1
  OBVIOUS
<1>2. q = [i \in 1..1 |-> q[i]]
  OBVIOUS
<1> HIDE DEF q
<1>3. IsSequence(q)
  BY <1>2, FunctionIsSequence
<1>4. \A n \in 1..1 : n = 1
  OBVIOUS
<1>5. AreKeys(q, t, {n1}, G)
  BY <1>1, <1>3, <1>4 DEF AreKeys
<1>. QED  BY <1>5 DEF q

LEMMA TwoKeys ==
    ASSUME NEW t, NEW G, NEW a, NEW b,
           NEW n1, NEW n2,
           IsKey(a, t, G), IsKey(b, t, G),
           a.key.name = n1, b.key.name = n2,
           n1 # n2
    PROVE  AreKeys(<<a, b>>, t, {n1, n2}, G)
<1> DEFINE q == <<a, b>>
<1>1. q[1] = a /\ q[2] = b /\ Len(q) = 2
  OBVIOUS
<1>2. q = [i \in 1..2 |-> q[i]]
  OBVIOUS
<1> HIDE DEF q
<1>3. IsSequence(q)
  BY <1>2, FunctionIsSequence
<1>4. \A n \in 1..2 : n = 1 \/ n = 2
  OBVIOUS
<1>5. AreKeys(q, t, {n1, n2}, G)
  BY <1>1, <1>3, <1>4 DEF AreKeys
<1>. QED  BY <1>5 DEF q

LEMMA ThreeKeys ==
    ASSUME NEW t, NEW G, NEW a, NEW b, NEW c,
           NEW n1, NEW n2, NEW n3,
           IsKey(a, t, G), IsKey(b, t, G), IsKey(c, t, G),
           a.key.name = n1, b.key.name = n2, c.key.name = n3,
           n1 # n2, n1 # n3, n2 # n3
    PROVE  AreKeys(<<a, b, c>>, t, {n1, n2, n3}, G)
<1> DEFINE q == <<a, b, c>>
<1>1. q[1] = a /\ q[2] = b /\ q[3] = c /\ Len(q) = 3
  OBVIOUS
<1>2. q = [i \in 1..3 |-> q[i]]
  OBVIOUS
<1> HIDE DEF q
<1>3. IsSequence(q)
  BY <1>2, FunctionIsSequence
<1>4. \A n \in 1..3 : n = 1 \/ n = 2 \/ n = 3
  OBVIOUS
<1>5. AreKeys(q, t, {n1, n2, n3}, G)
  BY <1>1, <1>3, <1>4 DEF AreKeys
<1>. QED  BY <1>5 DEF q

LEMMA FourKeys ==
    ASSUME NEW t, NEW G, NEW a, NEW b, NEW c, NEW d,
           NEW n1, NEW n2, NEW n3, NEW n4,
           IsKey(a, t, G), IsKey(b, t, G), IsKey(c, t, G), IsKey(d, t, G),
           a.key.name = n1, b.key.name = n2, c.key.name = n3, d.key.name = n4,
           n1 # n2, n1 # n3, n1 # n4, n2 # n3, n2 # n4, n3 # n4
    PROVE  AreKeys(<<a, b, c, d>>, t, {n1, n2, n3, n4}, G)
<1> DEFINE q == <<a, b, c, d>>
<1>1. q[1] = a /\ q[2] = b /\ q[3] = c /\ q[4] = d /\ Len(q) = 4
  OBVIOUS
<1>2. q = [i \in 1..4 |-> q[i]]
  OBVIOUS
<1> HIDE DEF q
<1>3. IsSequence(q)
  BY <1>2, FunctionIsSequence
<1>4. \A n \in 1..4 : n = 1 \/ n = 2 \/ n = 3 \/ n = 4
  OBVIOUS
<1>5. AreKeys(q, t, {n1, n2, n3, n4}, G)
  BY <1>1, <1>3, <1>4 DEF AreKeys
<1>. QED  BY <1>5 DEF q

LEMMA FiveKeys ==
    ASSUME NEW t, NEW G, NEW a, NEW b, NEW c, NEW d, NEW e,
           NEW n1, NEW n2, NEW n3, NEW n4, NEW n5,
           IsKey(a, t, G), IsKey(b, t, G), IsKey(c, t, G), IsKey(d, t, G), IsKey(e, t, G),
           a.key.name = n1, b.key.name = n2, c.key.name = n3, d.key.name = n4, e.key.name = n5,
           n1 # n2, n1 # n3, n1 # n4, n1 # n5, n2 # n3, n2 # n4, n2 # n5, n3 # n4, n3 # n5, n4 # n5
    PROVE  AreKeys(<<a, b, c, d, e>>, t, {n1, n2, n3, n4, n5}, G)
<1> DEFINE q == <<a, b, c, d, e>>
<1>1. q[1] = a /\ q[2] = b /\ q[3] = c /\ q[4] = d /\ q[5] = e /\ Len(q) = 5
  OBVIOUS
<1>2. q = [i \in 1..5 |-> q[i]]
  OBVIOUS
<1> HIDE DEF q
<1>3. IsSequence(q)
  BY <1>2, FunctionIsSequence
<1>4. \A n \in 1..5 : n = 1 \/ n = 2 \/ n = 3 \/ n = 4 \/ n = 5
  OBVIOUS
<1>5. AreKeys(q, t, {n1, n2, n3, n4, n5}, G)
  BY <1>1, <1>3, <1>4 DEF AreKeys
<1>. QED  BY <1>5 DEF q

\* A table without keys of its own.
LEMMA PieceStarts ==
    ASSUME NEW t, NEW required, NEW G
    PROVE  IsPiece(Table(t, required), t, required, {}, G)
<1> DEFINE p == Table(t, required)
<1>1. /\ p[1] = [do |-> "table", table |-> t, required |-> required, inline |-> {}]
      /\ Len(p) = 1 /\ p = [i \in 1..1 |-> p[i]]
  BY DEF Table, TableWith
<1> HIDE DEF p
<1>2. IsSequence(p)
  BY <1>1, FunctionIsSequence
<1>3. IsPiece(p, t, required, {}, G)
  BY <1>1, <1>2 DEF IsPiece, IsTable
<1>. QED  BY <1>3 DEF p

\* A table with one index given inline.
LEMMA PieceWithStarts ==
    ASSUME NEW t, NEW required, NEW G, NEW k,
           IsIndex(k, t)
    PROVE  IsPiece(TableWith(t, required, {k}), t, required, {k.name}, G)
<1> DEFINE p == TableWith(t, required, {k})
<1>1. /\ p[1] = [do |-> "table", table |-> t, required |-> required, inline |-> {k}]
      /\ Len(p) = 1 /\ p = [i \in 1..1 |-> p[i]]
  BY DEF TableWith
<1> HIDE DEF p
<1>2. IsSequence(p)
  BY <1>1, FunctionIsSequence
<1>3. IsPiece(p, t, required, {k.name}, G)
  BY <1>1, <1>2 DEF IsPiece, IsTable
<1>. QED  BY <1>3 DEF p

\* Keys behind a piece.
LEMMA PieceGrows ==
    ASSUME NEW p, NEW q, NEW t, NEW required, NEW N, NEW M, NEW G,
           IsPiece(p, t, required, N, G), AreKeys(q, t, M, G), N \cap M = {}
    PROVE  IsPiece(p \o q, t, required, N \cup M, G)
<1> DEFINE c == p \o q
<1>1. /\ IsSequence(c) /\ Len(c) = Len(p) + Len(q)
      /\ Len(p) \in Nat /\ Len(q) \in Nat /\ Len(p) >= 1
      /\ \A i \in 1..Len(p) : c[i] = p[i]
      /\ \A i \in 1..Len(q) : c[Len(p) + i] = q[i]
  BY ConcatAt DEF IsPiece, AreKeys
<1> HIDE DEF c
<1>2. c[1] = p[1]
  BY <1>1
<1>3. ASSUME NEW n \in 2..Len(c), n <= Len(p)
      PROVE  /\ IsKey(c[n], t, G) /\ c[n].key.name \in N
             /\ \A k \in c[1].inline : k.name # c[n].key.name
             /\ \A m \in 2..(n - 1) : c[m].key.name # c[n].key.name
  <2>1. n \in 2..Len(p) /\ c[n] = p[n]
    BY <1>1, <1>3
  <2>2. \A m \in 2..(n - 1) : c[m] = p[m]
    BY <1>1, <1>3
  <2>. QED  BY <1>2, <2>1, <2>2 DEF IsPiece
<1>4. ASSUME NEW n \in 2..Len(c), n > Len(p)
      PROVE  /\ IsKey(c[n], t, G) /\ c[n].key.name \in M
             /\ \A k \in c[1].inline : k.name # c[n].key.name
             /\ \A m \in 2..(n - 1) : c[m].key.name # c[n].key.name
  <2>1. PICK i \in 1..Len(q) : n = Len(p) + i
    <3>1. n - Len(p) \in 1..Len(q) /\ n = Len(p) + (n - Len(p))
      BY <1>1, <1>4
    <3>. QED  BY <3>1
  <2>2. c[n] = q[i] /\ IsKey(q[i], t, G) /\ q[i].key.name \in M
    BY <1>1, <2>1 DEF AreKeys
  <2>4. \A k \in c[1].inline : k.name # c[n].key.name
    BY <1>2, <2>2 DEF IsPiece, IsTable
  <2>5. ASSUME NEW m \in 2..(n - 1) PROVE c[m].key.name # c[n].key.name
    <3>1. CASE m <= Len(p)
      <4>1. m \in 2..Len(p) /\ c[m] = p[m]
        BY <1>1, <3>1
      <4>. QED  BY <2>2, <4>1 DEF IsPiece
    <3>2. CASE m > Len(p)
      <4>1. /\ m - Len(p) \in 1..(i - 1) /\ m - Len(p) \in 1..Len(q)
            /\ m = Len(p) + (m - Len(p))
        BY <1>1, <2>1, <3>2
      <4>2. c[m] = q[m - Len(p)]
        BY <1>1, <4>1
      <4>. QED  BY <2>2, <4>1, <4>2 DEF AreKeys
    <3>. QED  BY <1>1, <3>1, <3>2
  <2>. QED  BY <2>2, <2>4, <2>5
<1>5. \A n \in 2..Len(c) : n <= Len(p) \/ n > Len(p)
  BY <1>1
<1>6. Len(c) >= 1 /\ IsTable(c[1], t, required, N \cup M)
  BY <1>1, <1>2 DEF IsPiece, IsTable
<1>7. IsPiece(c, t, required, N \cup M, G)
  BY <1>1, <1>3, <1>4, <1>5, <1>6 DEF IsPiece
<1>. QED  BY <1>7 DEF c

\* A piece, whatever the names of its keys.
HasPiece(p, t, required, G) == \E N : IsPiece(p, t, required, N, G)

LEMMA PieceOfOne ==
    ASSUME NEW p, NEW q, NEW t, NEW required, NEW N, NEW M, NEW G,
           IsPiece(p, t, required, N, G), AreKeys(q, t, M, G), N \cap M = {}
    PROVE  HasPiece(p \o q, t, required, G)
  BY PieceGrows DEF HasPiece

LEMMA PieceOfTwo ==
    ASSUME NEW p, NEW q, NEW r, NEW t, NEW required, NEW N, NEW M, NEW L, NEW G,
           IsPiece(p, t, required, N, G), AreKeys(q, t, M, G), AreKeys(r, t, L, G),
           N \cap M = {}, (N \cup M) \cap L = {}
    PROVE  HasPiece(p \o q \o r, t, required, G)
  BY PieceGrows DEF HasPiece

LEMMA PieceOfThree ==
    ASSUME NEW p, NEW q, NEW r, NEW u, NEW t, NEW required, NEW N, NEW M, NEW L, NEW K,
           NEW G, IsPiece(p, t, required, N, G), AreKeys(q, t, M, G),
           AreKeys(r, t, L, G), AreKeys(u, t, K, G),
           N \cap M = {}, (N \cup M) \cap L = {}, (N \cup M \cup L) \cap K = {}
    PROVE  HasPiece(p \o q \o r \o u, t, required, G)
<1>1. IsPiece(p \o q, t, required, N \cup M, G)
  BY PieceGrows
<1>. QED  BY <1>1, PieceOfTwo

\* A literal sequence of names.
LEMMA NamesAreSequence ==
    ASSUME NEW n \in Nat, NEW names, names = [i \in 1..n |-> names[i]], Len(names) = n
    PROVE  IsSequence(names)
  BY FunctionIsSequence

LEMMA BusinessesPiece ==
    HasPiece(Businesses, "businesses",
             {"legal_name", "display_name"}, {})
<1> DEFINE required == {"legal_name", "display_name"}
           G == {}
<1>1. IsPiece(Table("businesses", required), "businesses", required, {}, G)
  BY PieceStarts
<1>. QED  BY <1>1 DEF Businesses, HasPiece

LEMMA StoresPiece ==
    HasPiece(Stores, "stores",
             {"business_id", "name", "code"}, {"businesses"})
<1> DEFINE required == {"business_id", "name", "code"}
           G == {"businesses"}
           a1 == Reference("stores", "FK_stores_business",
                           "business_id", "businesses", "CASCADE")
           b1 == Unique("stores", "UQ_stores_business_code",
                        {"business_id", "code"})
           names2 == <<"IDX_stores_business">>
<1>1. IsPiece(Table("stores", required), "stores", required, {}, G)
  BY PieceStarts
<1>2. IsKey(a1, "stores", G) /\ a1.key.name = "FK_stores_business"
  <2>1. <<"stores", "business_id", "businesses", "CASCADE">> \in ReferenceTable
    BY DEF ReferenceTable
  <2>. QED  BY <2>1, ReferenceIsKey
<1>3. IsKey(b1, "stores", G) /\ b1.key.name = "UQ_stores_business_code"
  <2>1. <<"stores", {"business_id", "code"}>> \in UniqueTable
    BY DEF UniqueTable
  <2>. QED  BY <2>1, UniqueIsKey
<1>4. AreKeys(<<a1, b1>>, "stores",
              {"FK_stores_business", "UQ_stores_business_code"}, G)
  <2> HIDE DEF G, a1, b1
  <2>. QED  BY <1>2, <1>3, TwoKeys
<1>5. /\ names2 = [i \in 1..1 |-> names2[i]] /\ Len(names2) = 1
      /\ \A i, j \in 1..Len(names2) : i # j => names2[i] # names2[j]
  OBVIOUS
<1>6. Elements(names2) = {"IDX_stores_business"}
  BY DEF Elements
<1>7. AreKeys(Indexes("stores", names2), "stores",
              {"IDX_stores_business"}, G)
  <2> HIDE DEF names2, G
  <2>1. IsSequence(names2)
    BY <1>5, NamesAreSequence
  <2>. QED  BY <1>5, <1>6, <2>1, IndexesAreKeys
<1>8. HasPiece(Table("stores", required) \o
               <<a1, b1>> \o
               Indexes("stores", names2),
              "stores", required, G)
  <2> HIDE DEF required, a1, b1, names2, G
  <2>. QED  BY <1>1, <1>4, <1>7, PieceOfTwo
<1>. QED  BY <1>8 DEF Stores

LEMMA RolesPiece ==
    HasPiece(Roles, "roles",
             {"name", "business_id"}, {})
<1> DEFINE required == {"name", "business_id"}
           G == {}
           a1 == Unique("roles", "UQ_ROLE_NAME_BUSINESS", {"name",
                        "business_id"})
<1>1. IsPiece(Table("roles", required), "roles", required, {}, G)
  BY PieceStarts
<1>2. IsKey(a1, "roles", G) /\ a1.key.name = "UQ_ROLE_NAME_BUSINESS"
  <2>1. <<"roles", {"name", "business_id"}>> \in UniqueTable
    BY DEF UniqueTable
  <2>. QED  BY <2>1, UniqueIsKey
<1>3. AreKeys(<<a1>>, "roles",
              {"UQ_ROLE_NAME_BUSINESS"}, G)
  <2> HIDE DEF G, a1
  <2>. QED  BY <1>2, OneKey
<1>4. HasPiece(Table("roles", required) \o
               <<a1>>,
              "roles", required, G)
  <2> HIDE DEF required, a1, G
  <2>. QED  BY <1>1, <1>3, PieceOfOne
<1>. QED  BY <1>4 DEF Roles

LEMMA PermissionsPiece ==
    HasPiece(Permissions, "permissions",
             {"name"}, {})
<1> DEFINE required == {"name"}
           G == {}
           inline == UniqueKey("name", {"name"})
<1>0. /\ inline.name = "name" /\ inline.kind = "unique"
      /\ <<"permissions", inline.columns>> \in UniqueTable
  BY DEF UniqueKey, UniqueTable
<1>1. IsPiece(TableWith("permissions", required, {inline}), "permissions",
              required, {"name"}, G)
  <2>1. IsIndex(inline, "permissions")
    BY <1>0 DEF IsIndex
  <2> HIDE DEF required, inline, G
  <2>. QED  BY <1>0, <2>1, PieceWithStarts
<1>. QED  BY <1>1 DEF Permissions, HasPiece

LEMMA RolePermissionsPiece ==
    HasPiece(RolePermissions, "role_permissions",
             {"role_id", "permission_id"}, {"permissions", "roles"})
<1> DEFINE required == {"role_id", "permission_id"}
           G == {"permissions", "roles"}
           names1 == <<"UQ_role_permissions_role_permission">>
           a2 == Reference("role_permissions",
                           "FK_role_permissions_role", "role_id", "roles",
                           "CASCADE")
           b2 == Reference("role_permissions",
                           "FK_role_permissions_permission", "permission_id",
                           "permissions", "CASCADE")
<1>1. IsPiece(Table("role_permissions", required), "role_permissions", required, {}, G)
  BY PieceStarts
<1>2. /\ names1 = [i \in 1..1 |-> names1[i]] /\ Len(names1) = 1
      /\ \A i, j \in 1..Len(names1) : i # j => names1[i] # names1[j]
  OBVIOUS
<1>3. Elements(names1) = {"UQ_role_permissions_role_permission"}
  BY DEF Elements
<1>4. AreKeys(Indexes("role_permissions", names1), "role_permissions",
              {"UQ_role_permissions_role_permission"}, G)
  <2> HIDE DEF names1, G
  <2>1. IsSequence(names1)
    BY <1>2, NamesAreSequence
  <2>. QED  BY <1>2, <1>3, <2>1, IndexesAreKeys
<1>5. IsKey(a2, "role_permissions", G) /\ a2.key.name = "FK_role_permissions_role"
  <2>1. <<"role_permissions", "role_id", "roles", "CASCADE">> \in ReferenceTable
    BY DEF ReferenceTable
  <2>. QED  BY <2>1, ReferenceIsKey
<1>6. IsKey(b2, "role_permissions", G) /\ b2.key.name = "FK_role_permissions_permission"
  <2>1. <<"role_permissions", "permission_id", "permissions", "CASCADE">> \in ReferenceTable
    BY DEF ReferenceTable
  <2>. QED  BY <2>1, ReferenceIsKey
<1>7. AreKeys(<<a2, b2>>, "role_permissions",
              {"FK_role_permissions_role", "FK_role_permissions_permission"}, G)
  <2> HIDE DEF G, a2, b2
  <2>. QED  BY <1>5, <1>6, TwoKeys
<1>8. HasPiece(Table("role_permissions", required) \o
               Indexes("role_permissions", names1) \o
               <<a2, b2>>,
              "role_permissions", required, G)
  <2> HIDE DEF required, names1, a2, b2, G
  <2>. QED  BY <1>1, <1>4, <1>7, PieceOfTwo
<1>. QED  BY <1>8 DEF RolePermissions

LEMMA UsersPiece ==
    HasPiece(Users, "users",
             {"business_id", "first_name", "last_name", "company_email",
              "role_id"}, {"businesses", "roles", "stores"})
<1> DEFINE required == {"business_id", "first_name", "last_name",
                        "company_email", "role_id"}
           G == {"businesses", "roles", "stores"}
           a1 == Reference("users", "FK_users_business", "business_id",
                           "businesses", "CASCADE")
           b1 == Reference("users", "FK_users_store", "store_id",
                           "stores", "SET NULL")
           c1 == Reference("users", "FK_users_role", "role_id",
                           "roles", "RESTRICT")
           d1 == Unique("users", "UQ_users_company_email", {"business_id",
                        "company_email"})
           names2 == <<"IDX_users_business", "IDX_users_store", "IDX_users_role">>
<1>1. IsPiece(Table("users", required), "users", required, {}, G)
  BY PieceStarts
<1>2. IsKey(a1, "users", G) /\ a1.key.name = "FK_users_business"
  <2>1. <<"users", "business_id", "businesses", "CASCADE">> \in ReferenceTable
    BY DEF ReferenceTable
  <2>. QED  BY <2>1, ReferenceIsKey
<1>3. IsKey(b1, "users", G) /\ b1.key.name = "FK_users_store"
  <2>1. <<"users", "store_id", "stores", SetNull>> \in ReferenceTable
    BY DEF ReferenceTable
  <2>2. /\ IsKey(Reference("users", "FK_users_store", "store_id", "stores", SetNull), "users", G)
        /\ Reference("users", "FK_users_store",
                     "store_id", "stores", SetNull).key.name = "FK_users_store"
    BY <2>1, ReferenceIsKey
  <2>. QED  BY <2>2, Zenon DEF SetNull
<1>4. IsKey(c1, "users", G) /\ c1.key.name = "FK_users_role"
  <2>1. <<"users", "role_id", "roles", "RESTRICT">> \in ReferenceTable
    BY DEF ReferenceTable
  <2>. QED  BY <2>1, ReferenceIsKey
<1>5. IsKey(d1, "users", G) /\ d1.key.name = "UQ_users_company_email"
  <2>1. <<"users", {"business_id", "company_email"}>> \in UniqueTable
    BY DEF UniqueTable
  <2>. QED  BY <2>1, UniqueIsKey
<1>6. AreKeys(<<a1, b1, c1, d1>>, "users",
              {"FK_users_business", "FK_users_store", "FK_users_role",
               "UQ_users_company_email"}, G)
  <2> HIDE DEF G, a1, b1, c1, d1
  <2>. QED  BY <1>2, <1>3, <1>4, <1>5, FourKeys
<1>7. /\ names2 = [i \in 1..3 |-> names2[i]] /\ Len(names2) = 3
      /\ \A i, j \in 1..Len(names2) : i # j => names2[i] # names2[j]
  OBVIOUS
<1>8. Elements(names2) = {"IDX_users_business", "IDX_users_store",
                             "IDX_users_role"}
  BY DEF Elements
<1>9. AreKeys(Indexes("users", names2), "users",
              {"IDX_users_business", "IDX_users_store", "IDX_users_role"}, G)
  <2> HIDE DEF names2, G
  <2>1. IsSequence(names2)
    BY <1>7, NamesAreSequence
  <2>. QED  BY <1>7, <1>8, <2>1, IndexesAreKeys
<1>10. HasPiece(Table("users", required) \o
               <<a1, b1, c1, d1>> \o
               Indexes("users", names2),
              "users", required, G)
  <2> HIDE DEF required, a1, b1, c1, d1, names2, G
  <2>. QED  BY <1>1, <1>6, <1>9, PieceOfTwo
<1>. QED  BY <1>10 DEF Users

LEMMA UserAuthPiece ==
    HasPiece(UserAuth, "user_auth",
             {"user_id"}, {"users"})
<1> DEFINE required == {"user_id"}
           G == {"users"}
           inline == UniqueKey("user_id", {"user_id"})
           a1 == Reference("user_auth", "FK_user_auth_user", "user_id",
                           "users", "CASCADE")
<1>0. /\ inline.name = "user_id" /\ inline.kind = "unique"
      /\ <<"user_auth", inline.columns>> \in UniqueTable
  BY DEF UniqueKey, UniqueTable
<1>1. IsPiece(TableWith("user_auth", required, {inline}), "user_auth",
              required, {"user_id"}, G)
  <2>1. IsIndex(inline, "user_auth")
    BY <1>0 DEF IsIndex
  <2> HIDE DEF required, inline, G
  <2>. QED  BY <1>0, <2>1, PieceWithStarts
<1>2. IsKey(a1, "user_auth", G) /\ a1.key.name = "FK_user_auth_user"
  <2>1. <<"user_auth", "user_id", "users", "CASCADE">> \in ReferenceTable
    BY DEF ReferenceTable
  <2>. QED  BY <2>1, ReferenceIsKey
<1>3. AreKeys(<<a1>>, "user_auth",
              {"FK_user_auth_user"}, G)
  <2> HIDE DEF G, a1
  <2>. QED  BY <1>2, OneKey
<1>4. HasPiece(TableWith("user_auth", required, {inline}) \o
               <<a1>>,
              "user_auth", required, G)
  <2> HIDE DEF required, inline, a1, G
  <2>. QED  BY <1>1, <1>3, PieceOfOne
<1>. QED  BY <1>4 DEF UserAuth

LEMMA CategoriesPiece ==
    HasPiece(Categories, "categories",
             {"business_id", "name"}, {"businesses"})
<1> DEFINE required == {"business_id", "name"}
           G == {"businesses"}
           a1 == Reference("categories", "FK_categories_business",
                           "business_id", "businesses", "CASCADE")
           b1 == Unique("categories", "UQ_categories_business_name",
                        {"business_id", "name"})
           names2 == <<"IDX_categories_business">>
<1>1. IsPiece(Table("categories", required), "categories", required, {}, G)
  BY PieceStarts
<1>2. IsKey(a1, "categories", G) /\ a1.key.name = "FK_categories_business"
  <2>1. <<"categories", "business_id", "businesses", "CASCADE">> \in ReferenceTable
    BY DEF ReferenceTable
  <2>. QED  BY <2>1, ReferenceIsKey
<1>3. IsKey(b1, "categories", G) /\ b1.key.name = "UQ_categories_business_name"
  <2>1. <<"categories", {"business_id", "name"}>> \in UniqueTable
    BY DEF UniqueTable
  <2>. QED  BY <2>1, UniqueIsKey
<1>4. AreKeys(<<a1, b1>>, "categories",
              {"FK_categories_business", "UQ_categories_business_name"}, G)
  <2> HIDE DEF G, a1, b1
  <2>. QED  BY <1>2, <1>3, TwoKeys
<1>5. /\ names2 = [i \in 1..1 |-> names2[i]] /\ Len(names2) = 1
      /\ \A i, j \in 1..Len(names2) : i # j => names2[i] # names2[j]
  OBVIOUS
<1>6. Elements(names2) = {"IDX_categories_business"}
  BY DEF Elements
<1>7. AreKeys(Indexes("categories", names2), "categories",
              {"IDX_categories_business"}, G)
  <2> HIDE DEF names2, G
  <2>1. IsSequence(names2)
    BY <1>5, NamesAreSequence
  <2>. QED  BY <1>5, <1>6, <2>1, IndexesAreKeys
<1>8. HasPiece(Table("categories", required) \o
               <<a1, b1>> \o
               Indexes("categories", names2),
              "categories", required, G)
  <2> HIDE DEF required, a1, b1, names2, G
  <2>. QED  BY <1>1, <1>4, <1>7, PieceOfTwo
<1>. QED  BY <1>8 DEF Categories

LEMMA ProductsPiece ==
    HasPiece(Products, "products",
             {"business_id", "name", "images", "sku", "selling_price"}, {"businesses", "categories"})
<1> DEFINE required == {"business_id", "name", "images", "sku", "selling_price"}
           G == {"businesses", "categories"}
           a1 == Reference("products", "FK_products_business",
                           "business_id", "businesses", "CASCADE")
           b1 == Reference("products", "FK_products_category",
                           "category_id", "categories", "SET NULL")
           names2 == <<"IDX_products_business", "IDX_products_category",
                       "IDX_products_business_status">>
           a3 == Unique("products", "UQ_products_business_sku",
                        {"business_id", "sku"})
<1>1. IsPiece(Table("products", required), "products", required, {}, G)
  BY PieceStarts
<1>2. IsKey(a1, "products", G) /\ a1.key.name = "FK_products_business"
  <2>1. <<"products", "business_id", "businesses", "CASCADE">> \in ReferenceTable
    BY DEF ReferenceTable
  <2>. QED  BY <2>1, ReferenceIsKey
<1>3. IsKey(b1, "products", G) /\ b1.key.name = "FK_products_category"
  <2>1. <<"products", "category_id", "categories", SetNull>> \in ReferenceTable
    BY DEF ReferenceTable
  <2>2. /\ IsKey(Reference("products", "FK_products_category",
                           "category_id", "categories", SetNull), "products", G)
        /\ Reference("products", "FK_products_category",
                     "category_id", "categories", SetNull).key.name = "FK_products_category"
    BY <2>1, ReferenceIsKey
  <2>. QED  BY <2>2, Zenon DEF SetNull
<1>4. AreKeys(<<a1, b1>>, "products",
              {"FK_products_business", "FK_products_category"}, G)
  <2> HIDE DEF G, a1, b1
  <2>. QED  BY <1>2, <1>3, TwoKeys
<1>5. /\ names2 = [i \in 1..3 |-> names2[i]] /\ Len(names2) = 3
      /\ \A i, j \in 1..Len(names2) : i # j => names2[i] # names2[j]
  OBVIOUS
<1>6. Elements(names2) = {"IDX_products_business", "IDX_products_category",
                             "IDX_products_business_status"}
  BY DEF Elements
<1>7. AreKeys(Indexes("products", names2), "products",
              {"IDX_products_business", "IDX_products_category",
               "IDX_products_business_status"}, G)
  <2> HIDE DEF names2, G
  <2>1. IsSequence(names2)
    BY <1>5, NamesAreSequence
  <2>. QED  BY <1>5, <1>6, <2>1, IndexesAreKeys
<1>8. IsKey(a3, "products", G) /\ a3.key.name = "UQ_products_business_sku"
  <2>1. <<"products", {"business_id", "sku"}>> \in UniqueTable
    BY DEF UniqueTable
  <2>. QED  BY <2>1, UniqueIsKey
<1>9. AreKeys(<<a3>>, "products",
              {"UQ_products_business_sku"}, G)
  <2> HIDE DEF G, a3
  <2>. QED  BY <1>8, OneKey
<1>10. HasPiece(Table("products", required) \o
               <<a1, b1>> \o
               Indexes("products", names2) \o
               <<a3>>,
              "products", required, G)
  <2> HIDE DEF required, a1, b1, names2, a3, G
  <2>. QED  BY <1>1, <1>4, <1>7, <1>9, PieceOfThree
<1>. QED  BY <1>10 DEF Products

LEMMA SuppliersPiece ==
    HasPiece(Suppliers, "suppliers",
             {"business_id", "name"}, {"businesses"})
<1> DEFINE required == {"business_id", "name"}
           G == {"businesses"}
           a1 == Reference("suppliers", "FK_suppliers_business",
                           "business_id", "businesses", "CASCADE")
           b1 == Unique("suppliers", "UQ_suppliers_business_name",
                        {"business_id", "name"})
           names2 == <<"IDX_suppliers_business">>
<1>1. IsPiece(Table("suppliers", required), "suppliers", required, {}, G)
  BY PieceStarts
<1>2. IsKey(a1, "suppliers", G) /\ a1.key.name = "FK_suppliers_business"
  <2>1. <<"suppliers", "business_id", "businesses", "CASCADE">> \in ReferenceTable
    BY DEF ReferenceTable
  <2>. QED  BY <2>1, ReferenceIsKey
<1>3. IsKey(b1, "suppliers", G) /\ b1.key.name = "UQ_suppliers_business_name"
  <2>1. <<"suppliers", {"business_id", "name"}>> \in UniqueTable
    BY DEF UniqueTable
  <2>. QED  BY <2>1, UniqueIsKey
<1>4. AreKeys(<<a1, b1>>, "suppliers",
              {"FK_suppliers_business", "UQ_suppliers_business_name"}, G)
  <2> HIDE DEF G, a1, b1
  <2>. QED  BY <1>2, <1>3, TwoKeys
<1>5. /\ names2 = [i \in 1..1 |-> names2[i]] /\ Len(names2) = 1
      /\ \A i, j \in 1..Len(names2) : i # j => names2[i] # names2[j]
  OBVIOUS
<1>6. Elements(names2) = {"IDX_suppliers_business"}
  BY DEF Elements
<1>7. AreKeys(Indexes("suppliers", names2), "suppliers",
              {"IDX_suppliers_business"}, G)
  <2> HIDE DEF names2, G
  <2>1. IsSequence(names2)
    BY <1>5, NamesAreSequence
  <2>. QED  BY <1>5, <1>6, <2>1, IndexesAreKeys
<1>8. HasPiece(Table("suppliers", required) \o
               <<a1, b1>> \o
               Indexes("suppliers", names2),
              "suppliers", required, G)
  <2> HIDE DEF required, a1, b1, names2, G
  <2>. QED  BY <1>1, <1>4, <1>7, PieceOfTwo
<1>. QED  BY <1>8 DEF Suppliers

LEMMA ProductSourcesPiece ==
    HasPiece(ProductSources, "product_sources",
             {"business_id", "product_id", "supplier_id"}, {"businesses", "products", "suppliers"})
<1> DEFINE required == {"business_id", "product_id", "supplier_id"}
           G == {"businesses", "products", "suppliers"}
           a1 == Reference("product_sources",
                           "FK_product_sources_business", "business_id",
                           "businesses", "CASCADE")
           b1 == Reference("product_sources",
                           "FK_product_sources_product", "product_id",
                           "products", "CASCADE")
           c1 == Reference("product_sources",
                           "FK_product_sources_supplier", "supplier_id",
                           "suppliers", "CASCADE")
           d1 == Unique("product_sources",
                        "UQ_product_sources_product_supplier", {"product_id",
                        "supplier_id"})
           names2 == <<"IDX_product_sources_business",
                       "IDX_product_sources_product",
                       "IDX_product_sources_supplier">>
<1>1. IsPiece(Table("product_sources", required), "product_sources", required, {}, G)
  BY PieceStarts
<1>2. IsKey(a1, "product_sources", G) /\ a1.key.name = "FK_product_sources_business"
  <2>1. <<"product_sources", "business_id", "businesses", "CASCADE">> \in ReferenceTable
    BY DEF ReferenceTable
  <2>. QED  BY <2>1, ReferenceIsKey
<1>3. IsKey(b1, "product_sources", G) /\ b1.key.name = "FK_product_sources_product"
  <2>1. <<"product_sources", "product_id", "products", "CASCADE">> \in ReferenceTable
    BY DEF ReferenceTable
  <2>. QED  BY <2>1, ReferenceIsKey
<1>4. IsKey(c1, "product_sources", G) /\ c1.key.name = "FK_product_sources_supplier"
  <2>1. <<"product_sources", "supplier_id", "suppliers", "CASCADE">> \in ReferenceTable
    BY DEF ReferenceTable
  <2>. QED  BY <2>1, ReferenceIsKey
<1>5. IsKey(d1, "product_sources", G) /\ d1.key.name = "UQ_product_sources_product_supplier"
  <2>1. <<"product_sources", {"product_id", "supplier_id"}>> \in UniqueTable
    BY DEF UniqueTable
  <2>. QED  BY <2>1, UniqueIsKey
<1>6. AreKeys(<<a1, b1, c1, d1>>, "product_sources",
              {"FK_product_sources_business", "FK_product_sources_product",
               "FK_product_sources_supplier",
               "UQ_product_sources_product_supplier"}, G)
  <2> HIDE DEF G, a1, b1, c1, d1
  <2>. QED  BY <1>2, <1>3, <1>4, <1>5, FourKeys
<1>7. /\ names2 = [i \in 1..3 |-> names2[i]] /\ Len(names2) = 3
      /\ \A i, j \in 1..Len(names2) : i # j => names2[i] # names2[j]
  OBVIOUS
<1>8. Elements(names2) = {"IDX_product_sources_business",
                             "IDX_product_sources_product",
                             "IDX_product_sources_supplier"}
  BY DEF Elements
<1>9. AreKeys(Indexes("product_sources", names2), "product_sources",
              {"IDX_product_sources_business", "IDX_product_sources_product",
               "IDX_product_sources_supplier"}, G)
  <2> HIDE DEF names2, G
  <2>1. IsSequence(names2)
    BY <1>7, NamesAreSequence
  <2>. QED  BY <1>7, <1>8, <2>1, IndexesAreKeys
<1>10. HasPiece(Table("product_sources", required) \o
               <<a1, b1, c1, d1>> \o
               Indexes("product_sources", names2),
              "product_sources", required, G)
  <2> HIDE DEF required, a1, b1, c1, d1, names2, G
  <2>. QED  BY <1>1, <1>6, <1>9, PieceOfTwo
<1>. QED  BY <1>10 DEF ProductSources

LEMMA StocksPiece ==
    HasPiece(Stocks, "stocks",
             {"product_id", "business_id", "store_id"}, {"businesses", "products", "stores"})
<1> DEFINE required == {"product_id", "business_id", "store_id"}
           G == {"businesses", "products", "stores"}
           a1 == Reference("stocks", "FK_stocks_product", "product_id",
                           "products", "RESTRICT")
           b1 == Reference("stocks", "FK_stocks_business",
                           "business_id", "businesses", "RESTRICT")
           c1 == Reference("stocks", "FK_stocks_store", "store_id",
                           "stores", "RESTRICT")
           d1 == Unique("stocks", "UQ_stocks_product_store",
                        {"product_id", "store_id"})
           names2 == <<"IDX_stocks_business", "IDX_stocks_store",
                       "IDX_stocks_product", "IDX_stocks_store_reorder">>
<1>1. IsPiece(Table("stocks", required), "stocks", required, {}, G)
  BY PieceStarts
<1>2. IsKey(a1, "stocks", G) /\ a1.key.name = "FK_stocks_product"
  <2>1. <<"stocks", "product_id", "products", "RESTRICT">> \in ReferenceTable
    BY DEF ReferenceTable
  <2>. QED  BY <2>1, ReferenceIsKey
<1>3. IsKey(b1, "stocks", G) /\ b1.key.name = "FK_stocks_business"
  <2>1. <<"stocks", "business_id", "businesses", "RESTRICT">> \in ReferenceTable
    BY DEF ReferenceTable
  <2>. QED  BY <2>1, ReferenceIsKey
<1>4. IsKey(c1, "stocks", G) /\ c1.key.name = "FK_stocks_store"
  <2>1. <<"stocks", "store_id", "stores", "RESTRICT">> \in ReferenceTable
    BY DEF ReferenceTable
  <2>. QED  BY <2>1, ReferenceIsKey
<1>5. IsKey(d1, "stocks", G) /\ d1.key.name = "UQ_stocks_product_store"
  <2>1. <<"stocks", {"product_id", "store_id"}>> \in UniqueTable
    BY DEF UniqueTable
  <2>. QED  BY <2>1, UniqueIsKey
<1>6. AreKeys(<<a1, b1, c1, d1>>, "stocks",
              {"FK_stocks_product", "FK_stocks_business", "FK_stocks_store",
               "UQ_stocks_product_store"}, G)
  <2> HIDE DEF G, a1, b1, c1, d1
  <2>. QED  BY <1>2, <1>3, <1>4, <1>5, FourKeys
<1>7. /\ names2 = [i \in 1..4 |-> names2[i]] /\ Len(names2) = 4
      /\ \A i, j \in 1..Len(names2) : i # j => names2[i] # names2[j]
  OBVIOUS
<1>8. Elements(names2) = {"IDX_stocks_business", "IDX_stocks_store",
                             "IDX_stocks_product", "IDX_stocks_store_reorder"}
  BY DEF Elements
<1>9. AreKeys(Indexes("stocks", names2), "stocks",
              {"IDX_stocks_business", "IDX_stocks_store", "IDX_stocks_product",
               "IDX_stocks_store_reorder"}, G)
  <2> HIDE DEF names2, G
  <2>1. IsSequence(names2)
    BY <1>7, NamesAreSequence
  <2>. QED  BY <1>7, <1>8, <2>1, IndexesAreKeys
<1>10. HasPiece(Table("stocks", required) \o
               <<a1, b1, c1, d1>> \o
               Indexes("stocks", names2),
              "stocks", required, G)
  <2> HIDE DEF required, a1, b1, c1, d1, names2, G
  <2>. QED  BY <1>1, <1>6, <1>9, PieceOfTwo
<1>. QED  BY <1>10 DEF Stocks

LEMMA StockMovementsPiece ==
    HasPiece(StockMovements, "stock_movements",
             {"stock_id", "business_id", "type", "reason", "direction",
              "quantity", "quantity_before", "quantity_after",
              "unit_cost_price"}, {"businesses", "stocks", "users"})
<1> DEFINE required == {"stock_id", "business_id", "type", "reason",
                        "direction", "quantity", "quantity_before",
                        "quantity_after", "unit_cost_price"}
           G == {"businesses", "stocks", "users"}
           a1 == Reference("stock_movements",
                           "FK_stock_movements_stock", "stock_id", "stocks",
                           "RESTRICT")
           b1 == Reference("stock_movements",
                           "FK_stock_movements_business", "business_id",
                           "businesses", "RESTRICT")
           c1 == Reference("stock_movements",
                           "FK_stock_movements_created_by", "created_by_id",
                           "users", "SET NULL")
           names2 == <<"IDX_stock_movements_business_created_at",
                       "IDX_stock_movements_stock_created_at",
                       "IDX_stock_movements_created_by",
                       "IDX_stock_movements_type", "IDX_stock_movements_direction">>
<1>1. IsPiece(Table("stock_movements", required), "stock_movements", required, {}, G)
  BY PieceStarts
<1>2. IsKey(a1, "stock_movements", G) /\ a1.key.name = "FK_stock_movements_stock"
  <2>1. <<"stock_movements", "stock_id", "stocks", "RESTRICT">> \in ReferenceTable
    BY DEF ReferenceTable
  <2>. QED  BY <2>1, ReferenceIsKey
<1>3. IsKey(b1, "stock_movements", G) /\ b1.key.name = "FK_stock_movements_business"
  <2>1. <<"stock_movements", "business_id", "businesses", "RESTRICT">> \in ReferenceTable
    BY DEF ReferenceTable
  <2>. QED  BY <2>1, ReferenceIsKey
<1>4. IsKey(c1, "stock_movements", G) /\ c1.key.name = "FK_stock_movements_created_by"
  <2>1. <<"stock_movements", "created_by_id", "users", SetNull>> \in ReferenceTable
    BY DEF ReferenceTable
  <2>2. /\ IsKey(Reference("stock_movements", "FK_stock_movements_created_by",
                           "created_by_id", "users", SetNull), "stock_movements", G)
        /\ Reference("stock_movements", "FK_stock_movements_created_by",
                     "created_by_id", "users", SetNull).key.name = "FK_stock_movements_created_by"
    BY <2>1, ReferenceIsKey
  <2>. QED  BY <2>2, Zenon DEF SetNull
<1>5. AreKeys(<<a1, b1, c1>>, "stock_movements",
              {"FK_stock_movements_stock", "FK_stock_movements_business",
               "FK_stock_movements_created_by"}, G)
  <2> HIDE DEF G, a1, b1, c1
  <2>. QED  BY <1>2, <1>3, <1>4, ThreeKeys
<1>6. /\ names2 = [i \in 1..5 |-> names2[i]] /\ Len(names2) = 5
      /\ \A i, j \in 1..Len(names2) : i # j => names2[i] # names2[j]
  OBVIOUS
<1>7. Elements(names2) = {"IDX_stock_movements_business_created_at",
                             "IDX_stock_movements_stock_created_at",
                             "IDX_stock_movements_created_by",
                             "IDX_stock_movements_type",
                             "IDX_stock_movements_direction"}
  BY DEF Elements
<1>8. AreKeys(Indexes("stock_movements", names2), "stock_movements",
              {"IDX_stock_movements_business_created_at",
               "IDX_stock_movements_stock_created_at",
               "IDX_stock_movements_created_by", "IDX_stock_movements_type",
               "IDX_stock_movements_direction"}, G)
  <2> HIDE DEF names2, G
  <2>1. IsSequence(names2)
    BY <1>6, NamesAreSequence
  <2>. QED  BY <1>6, <1>7, <2>1, IndexesAreKeys
<1>9. HasPiece(Table("stock_movements", required) \o
               <<a1, b1, c1>> \o
               Indexes("stock_movements", names2),
              "stock_movements", required, G)
  <2> HIDE DEF required, a1, b1, c1, names2, G
  <2>. QED  BY <1>1, <1>5, <1>8, PieceOfTwo
<1>. QED  BY <1>9 DEF StockMovements

LEMMA PurchaseOrdersPiece ==
    HasPiece(PurchaseOrders, "purchase_orders",
             {"business_id", "store_id", "po_number", "supplier_id",
              "created_by_id"}, {"stores", "suppliers", "users"})
<1> DEFINE required == {"business_id", "store_id", "po_number", "supplier_id",
                        "created_by_id"}
           G == {"stores", "suppliers", "users"}
           a1 == Reference("purchase_orders",
                           "FK_purchase_orders_store", "store_id", "stores",
                           "CASCADE")
           b1 == Reference("purchase_orders",
                           "FK_purchase_orders_supplier", "supplier_id",
                           "suppliers", "RESTRICT")
           c1 == Reference("purchase_orders",
                           "FK_purchase_orders_created_by", "created_by_id",
                           "users", "RESTRICT")
           d1 == Reference("purchase_orders",
                           "FK_purchase_orders_approved_by", "approved_by_id",
                           "users", "SET NULL")
           e1 == Unique("purchase_orders",
                        "UQ_purchase_orders_store_po_number", {"store_id",
                        "po_number"})
           names2 == <<"IDX_purchase_orders_store",
                       "IDX_purchase_orders_supplier",
                       "IDX_purchase_orders_status",
                       "IDX_purchase_orders_created_by">>
<1>1. IsPiece(Table("purchase_orders", required), "purchase_orders", required, {}, G)
  BY PieceStarts
<1>2. IsKey(a1, "purchase_orders", G) /\ a1.key.name = "FK_purchase_orders_store"
  <2>1. <<"purchase_orders", "store_id", "stores", "CASCADE">> \in ReferenceTable
    BY DEF ReferenceTable
  <2>. QED  BY <2>1, ReferenceIsKey
<1>3. IsKey(b1, "purchase_orders", G) /\ b1.key.name = "FK_purchase_orders_supplier"
  <2>1. <<"purchase_orders", "supplier_id", "suppliers", "RESTRICT">> \in ReferenceTable
    BY DEF ReferenceTable
  <2>. QED  BY <2>1, ReferenceIsKey
<1>4. IsKey(c1, "purchase_orders", G) /\ c1.key.name = "FK_purchase_orders_created_by"
  <2>1. <<"purchase_orders", "created_by_id", "users", "RESTRICT">> \in ReferenceTable
    BY DEF ReferenceTable
  <2>. QED  BY <2>1, ReferenceIsKey
<1>5. IsKey(d1, "purchase_orders", G) /\ d1.key.name = "FK_purchase_orders_approved_by"
  <2>1. <<"purchase_orders", "approved_by_id", "users", SetNull>> \in ReferenceTable
    BY DEF ReferenceTable
  <2>2. /\ IsKey(Reference("purchase_orders", "FK_purchase_orders_approved_by",
                           "approved_by_id", "users", SetNull), "purchase_orders", G)
        /\ Reference("purchase_orders", "FK_purchase_orders_approved_by",
                     "approved_by_id", "users", SetNull).key.name = "FK_purchase_orders_approved_by"
    BY <2>1, ReferenceIsKey
  <2>. QED  BY <2>2, Zenon DEF SetNull
<1>6. IsKey(e1, "purchase_orders", G) /\ e1.key.name = "UQ_purchase_orders_store_po_number"
  <2>1. <<"purchase_orders", {"store_id", "po_number"}>> \in UniqueTable
    BY DEF UniqueTable
  <2>. QED  BY <2>1, UniqueIsKey
<1>7. AreKeys(<<a1, b1, c1, d1, e1>>, "purchase_orders",
              {"FK_purchase_orders_store", "FK_purchase_orders_supplier",
               "FK_purchase_orders_created_by",
               "FK_purchase_orders_approved_by",
               "UQ_purchase_orders_store_po_number"}, G)
  <2> HIDE DEF G, a1, b1, c1, d1, e1
  <2>. QED  BY <1>2, <1>3, <1>4, <1>5, <1>6, FiveKeys
<1>8. /\ names2 = [i \in 1..4 |-> names2[i]] /\ Len(names2) = 4
      /\ \A i, j \in 1..Len(names2) : i # j => names2[i] # names2[j]
  OBVIOUS
<1>9. Elements(names2) = {"IDX_purchase_orders_store",
                             "IDX_purchase_orders_supplier",
                             "IDX_purchase_orders_status",
                             "IDX_purchase_orders_created_by"}
  BY DEF Elements
<1>10. AreKeys(Indexes("purchase_orders", names2), "purchase_orders",
              {"IDX_purchase_orders_store", "IDX_purchase_orders_supplier",
               "IDX_purchase_orders_status", "IDX_purchase_orders_created_by"}, G)
  <2> HIDE DEF names2, G
  <2>1. IsSequence(names2)
    BY <1>8, NamesAreSequence
  <2>. QED  BY <1>8, <1>9, <2>1, IndexesAreKeys
<1>11. HasPiece(Table("purchase_orders", required) \o
               <<a1, b1, c1, d1, e1>> \o
               Indexes("purchase_orders", names2),
              "purchase_orders", required, G)
  <2> HIDE DEF required, a1, b1, c1, d1, e1, names2, G
  <2>. QED  BY <1>1, <1>7, <1>10, PieceOfTwo
<1>. QED  BY <1>11 DEF PurchaseOrders

LEMMA PurchaseOrderItemsPiece ==
    HasPiece(PurchaseOrderItems, "purchase_order_items",
             {"purchase_order_id", "product_id", "quantity_requested",
              "quantity_received", "estimated_unit_cost", "total_cost"},
              {"products", "purchase_orders"})
<1> DEFINE required == {"purchase_order_id", "product_id", "quantity_requested",
                        "quantity_received", "estimated_unit_cost",
                        "total_cost"}
           G == {"products", "purchase_orders"}
           a1 == Reference("purchase_order_items",
                           "FK_purchase_order_items_purchase_order",
                           "purchase_order_id", "purchase_orders", "CASCADE")
           b1 == Reference("purchase_order_items",
                           "FK_purchase_order_items_product", "product_id",
                           "products", "RESTRICT")
           names2 == <<"IDX_purchase_order_items_purchase_order",
                       "IDX_purchase_order_items_product">>
<1>1. IsPiece(Table("purchase_order_items", required), "purchase_order_items", required, {}, G)
  BY PieceStarts
<1>2. IsKey(a1, "purchase_order_items", G) /\ a1.key.name = "FK_purchase_order_items_purchase_order"
  <2>1. <<"purchase_order_items", "purchase_order_id", "purchase_orders", "CASCADE">> \in ReferenceTable
    BY DEF ReferenceTable
  <2>. QED  BY <2>1, ReferenceIsKey
<1>3. IsKey(b1, "purchase_order_items", G) /\ b1.key.name = "FK_purchase_order_items_product"
  <2>1. <<"purchase_order_items", "product_id", "products", "RESTRICT">> \in ReferenceTable
    BY DEF ReferenceTable
  <2>. QED  BY <2>1, ReferenceIsKey
<1>4. AreKeys(<<a1, b1>>, "purchase_order_items",
              {"FK_purchase_order_items_purchase_order",
               "FK_purchase_order_items_product"}, G)
  <2> HIDE DEF G, a1, b1
  <2>. QED  BY <1>2, <1>3, TwoKeys
<1>5. /\ names2 = [i \in 1..2 |-> names2[i]] /\ Len(names2) = 2
      /\ \A i, j \in 1..Len(names2) : i # j => names2[i] # names2[j]
  OBVIOUS
<1>6. Elements(names2) = {"IDX_purchase_order_items_purchase_order",
                             "IDX_purchase_order_items_product"}
  BY DEF Elements
<1>7. AreKeys(Indexes("purchase_order_items", names2), "purchase_order_items",
              {"IDX_purchase_order_items_purchase_order",
               "IDX_purchase_order_items_product"}, G)
  <2> HIDE DEF names2, G
  <2>1. IsSequence(names2)
    BY <1>5, NamesAreSequence
  <2>. QED  BY <1>5, <1>6, <2>1, IndexesAreKeys
<1>8. HasPiece(Table("purchase_order_items", required) \o
               <<a1, b1>> \o
               Indexes("purchase_order_items", names2),
              "purchase_order_items", required, G)
  <2> HIDE DEF required, a1, b1, names2, G
  <2>. QED  BY <1>1, <1>4, <1>7, PieceOfTwo
<1>. QED  BY <1>8 DEF PurchaseOrderItems

LEMMA AuditLogsPiece ==
    HasPiece(AuditLogs, "audit_logs",
             {"business_id", "action", "entity", "entity_id"}, {"businesses", "stores", "users"})
<1> DEFINE required == {"business_id", "action", "entity", "entity_id"}
           G == {"businesses", "stores", "users"}
           a1 == Reference("audit_logs", "FK_audit_logs_business",
                           "business_id", "businesses", "CASCADE")
           b1 == Reference("audit_logs", "FK_audit_logs_store",
                           "store_id", "stores", "SET NULL")
           c1 == Reference("audit_logs", "FK_audit_logs_user",
                           "user_id", "users", "SET NULL")
           names2 == <<"IDX_audit_logs_business", "IDX_audit_logs_store",
                       "IDX_audit_logs_user", "IDX_audit_logs_action",
                       "IDX_audit_logs_entity", "IDX_audit_logs_entity_id",
                       "IDX_audit_logs_created_at",
                       "IDX_audit_logs_entity_lookup",
                       "IDX_audit_logs_business_entity",
                       "IDX_audit_logs_store_created_at">>
<1>1. IsPiece(Table("audit_logs", required), "audit_logs", required, {}, G)
  BY PieceStarts
<1>2. IsKey(a1, "audit_logs", G) /\ a1.key.name = "FK_audit_logs_business"
  <2>1. <<"audit_logs", "business_id", "businesses", "CASCADE">> \in ReferenceTable
    BY DEF ReferenceTable
  <2>. QED  BY <2>1, ReferenceIsKey
<1>3. IsKey(b1, "audit_logs", G) /\ b1.key.name = "FK_audit_logs_store"
  <2>1. <<"audit_logs", "store_id", "stores", SetNull>> \in ReferenceTable
    BY DEF ReferenceTable
  <2>2. /\ IsKey(Reference("audit_logs", "FK_audit_logs_store",
                           "store_id", "stores", SetNull), "audit_logs", G)
        /\ Reference("audit_logs", "FK_audit_logs_store",
                     "store_id", "stores", SetNull).key.name = "FK_audit_logs_store"
    BY <2>1, ReferenceIsKey
  <2>. QED  BY <2>2, Zenon DEF SetNull
<1>4. IsKey(c1, "audit_logs", G) /\ c1.key.name = "FK_audit_logs_user"
  <2>1. <<"audit_logs", "user_id", "users", SetNull>> \in ReferenceTable
    BY DEF ReferenceTable
  <2>2. /\ IsKey(Reference("audit_logs", "FK_audit_logs_user",
                           "user_id", "users", SetNull), "audit_logs", G)
        /\ Reference("audit_logs", "FK_audit_logs_user",
                     "user_id", "users", SetNull).key.name = "FK_audit_logs_user"
    BY <2>1, ReferenceIsKey
  <2>. QED  BY <2>2, Zenon DEF SetNull
<1>5. AreKeys(<<a1, b1, c1>>, "audit_logs",
              {"FK_audit_logs_business", "FK_audit_logs_store",
               "FK_audit_logs_user"}, G)
  <2> HIDE DEF G, a1, b1, c1
  <2>. QED  BY <1>2, <1>3, <1>4, ThreeKeys
<1>6. /\ names2 = [i \in 1..10 |-> names2[i]] /\ Len(names2) = 10
      /\ \A i, j \in 1..Len(names2) : i # j => names2[i] # names2[j]
  OBVIOUS
<1>7. Elements(names2) = {"IDX_audit_logs_business", "IDX_audit_logs_store",
                             "IDX_audit_logs_user", "IDX_audit_logs_action",
                             "IDX_audit_logs_entity",
                             "IDX_audit_logs_entity_id",
                             "IDX_audit_logs_created_at",
                             "IDX_audit_logs_entity_lookup",
                             "IDX_audit_logs_business_entity",
                             "IDX_audit_logs_store_created_at"}
  BY DEF Elements
<1>8. AreKeys(Indexes("audit_logs", names2), "audit_logs",
              {"IDX_audit_logs_business", "IDX_audit_logs_store",
               "IDX_audit_logs_user", "IDX_audit_logs_action",
               "IDX_audit_logs_entity", "IDX_audit_logs_entity_id",
               "IDX_audit_logs_created_at", "IDX_audit_logs_entity_lookup",
               "IDX_audit_logs_business_entity",
               "IDX_audit_logs_store_created_at"}, G)
  <2> HIDE DEF names2, G
  <2>1. IsSequence(names2)
    BY <1>6, NamesAreSequence
  <2>. QED  BY <1>6, <1>7, <2>1, IndexesAreKeys
<1>9. HasPiece(Table("audit_logs", required) \o
               <<a1, b1, c1>> \o
               Indexes("audit_logs", names2),
              "audit_logs", required, G)
  <2> HIDE DEF required, a1, b1, c1, names2, G
  <2>. QED  BY <1>1, <1>5, <1>8, PieceOfTwo
<1>. QED  BY <1>9 DEF AuditLogs

LEMMA OutboxEventsPiece ==
    HasPiece(OutboxEvents, "outbox_events",
             {"event_type", "aggregate_id", "aggregate_type", "business_id",
              "store_id", "available_at"}, {})
<1> DEFINE required == {"event_type", "aggregate_id", "aggregate_type",
                        "business_id", "store_id", "available_at"}
           G == {}
           inline == PlainKey("IDX_outbox_events_status_available_at")
<1>0. inline.name = "IDX_outbox_events_status_available_at" /\ inline.kind = "plain"
  BY DEF PlainKey
<1>1. IsPiece(TableWith("outbox_events", required, {inline}), "outbox_events",
              required, {"IDX_outbox_events_status_available_at"}, G)
  <2>1. IsIndex(inline, "outbox_events")
    BY <1>0 DEF IsIndex
  <2> HIDE DEF required, inline, G
  <2>. QED  BY <1>0, <2>1, PieceWithStarts
<1>. QED  BY <1>1 DEF OutboxEvents, HasPiece

LEMMA NotificationsPiece ==
    HasPiece(Notifications, "notifications",
             {"business_id", "recipient_id", "source_event_id", "type"}, {})
<1> DEFINE required == {"business_id", "recipient_id", "source_event_id",
                        "type"}
           G == {}
           inline == UniqueKey("UQ_notifications_source_event_recipient",
                               {"source_event_id", "recipient_id"})
<1>0. /\ inline.name = "UQ_notifications_source_event_recipient" /\ inline.kind = "unique"
      /\ <<"notifications", inline.columns>> \in UniqueTable
  BY DEF UniqueKey, UniqueTable
<1>1. IsPiece(TableWith("notifications", required, {inline}), "notifications",
              required, {"UQ_notifications_source_event_recipient"}, G)
  <2>1. IsIndex(inline, "notifications")
    BY <1>0 DEF IsIndex
  <2> HIDE DEF required, inline, G
  <2>. QED  BY <1>0, <2>1, PieceWithStarts
<1>. QED  BY <1>1 DEF Notifications, HasPiece

-----------------------------------------------------------------------------
(* The statements of InitialSchema.                                        *)

\* The columns that each table requires, and the tables that go with a revert.
RequiredTable ==
    {<<"businesses", {"legal_name", "display_name"}>>,
     <<"stores", {"business_id", "name", "code"}>>,
     <<"roles", {"name", "business_id"}>>,
     <<"permissions", {"name"}>>,
     <<"role_permissions", {"role_id", "permission_id"}>>,
     <<"users", {"business_id", "first_name", "last_name", "company_email",
                 "role_id"}>>,
     <<"user_auth", {"user_id"}>>,
     <<"categories", {"business_id", "name"}>>,
     <<"products", {"business_id", "name", "images", "sku", "selling_price"}>>,
     <<"suppliers", {"business_id", "name"}>>,
     <<"product_sources", {"business_id", "product_id", "supplier_id"}>>,
     <<"stocks", {"product_id", "business_id", "store_id"}>>,
     <<"stock_movements", {"stock_id", "business_id", "type", "reason",
                           "direction", "quantity", "quantity_before",
                           "quantity_after", "unit_cost_price"}>>,
     <<"purchase_orders", {"business_id", "store_id", "po_number", "supplier_id",
                           "created_by_id"}>>,
     <<"purchase_order_items", {"purchase_order_id", "product_id",
                                "quantity_requested", "quantity_received",
                                "estimated_unit_cost", "total_cost"}>>,
     <<"audit_logs", {"business_id", "action", "entity", "entity_id"}>>,
     <<"outbox_events", {"event_type", "aggregate_id", "aggregate_type",
                         "business_id", "store_id", "available_at"}>>,
     <<"notifications", {"business_id", "recipient_id", "source_event_id", "type"}>>}

DroppedTables ==
    {"audit_logs", "purchase_order_items", "purchase_orders", "stock_movements",
     "stocks", "product_sources", "suppliers", "products", "categories",
     "user_auth", "users", "role_permissions", "permissions", "roles", "stores",
     "businesses"}

\* The creation of a table, or of a key of a table that goes with a revert.
SchemaStatement(s) ==
    \/ s.do = "table" /\ <<s.table, s.required>> \in RequiredTable
                      /\ \A k \in s.inline : IsIndex(k, s.table)
    \/ s.do = "key" /\ s.table \in DroppedTables /\ \E G : IsKey(s, s.table, G)

\* Keys of its own only where the table goes with a revert.
KeysGo(p, t) == t \in DroppedTables \/ Len(p) = 1

LEMMA PieceStatements ==
    ASSUME NEW p, NEW t, NEW required, NEW G, HasPiece(p, t, required, G),
           <<t, required>> \in RequiredTable, KeysGo(p, t)
    PROVE  /\ IsSequence(p) /\ InOrder(p, {<<"table", x>> : x \in G})
           /\ \A s \in Elements(p) : s.table = t /\ SchemaStatement(s)
           /\ \E s \in Elements(p) : s.do = "table"
<1>1. PICK N : IsPiece(p, t, required, N, G)
  BY DEF HasPiece
<1>2. /\ IsSequence(p) /\ Len(p) \in Nat /\ Len(p) >= 1
      /\ IsTable(p[1], t, required, N)
      /\ \A n \in 2..Len(p) :
             /\ IsKey(p[n], t, G)
             /\ \A k \in p[1].inline : k.name # p[n].key.name
             /\ \A m \in 2..(n - 1) : p[m].key.name # p[n].key.name
  BY <1>1 DEF IsPiece, IsSequence
<1>3. p[1] \in Elements(p) /\ p[1].do = "table" /\ p[1].table = t /\ SchemaStatement(p[1])
  BY <1>2 DEF Elements, IsTable, SchemaStatement
<1>4. ASSUME NEW n \in 1..Len(p), n # 1
      PROVE  p[n].do = "key" /\ p[n].table = t /\ SchemaStatement(p[n])
  <2>1. n \in 2..Len(p) /\ Len(p) # 1
    BY <1>2, <1>4
  <2>2. IsKey(p[n], t, G)
    BY <1>2, <2>1
  <2>3. p[n].do = "key" /\ p[n].table = t
    BY <2>2 DEF IsKey
  <2>. QED  BY <2>1, <2>2, <2>3 DEF SchemaStatement, KeysGo
<1>5. \A s \in Elements(p) : s.table = t /\ SchemaStatement(s)
  BY <1>3, <1>4 DEF Elements
<1>6. ASSUME NEW n \in 1..Len(p), NEW w, Needs(p[n], w)
      PROVE  w \in {<<"table", x>> : x \in G} \/ \E m \in 1..(n - 1) : Gives(p[m], w)
  <2>1. n # 1
    BY <1>3, <1>6 DEF Needs
  <2>2. n \in 2..Len(p) /\ 1 \in 1..(n - 1)
    BY <1>2, <2>1
  <2>3. IsKey(p[n], t, G) /\ p[n].do = "key" /\ p[n].table = t
    BY <1>2, <1>4, <2>1, <2>2
  <2>4. CASE w = <<"table", t>>
    BY <1>3, <2>2, <2>4 DEF Gives
  <2>5. CASE p[n].key.kind = "reference" /\ w = <<"table", p[n].key.to>>
    <3>1. p[n].key.to \in G
      BY <2>3, <2>5 DEF IsKey
    <3>. QED  BY <2>5, <3>1
  <2>6. w = <<"table", t>> \/ (p[n].key.kind = "reference" /\ w = <<"table", p[n].key.to>>)
    BY <1>6, <2>3 DEF Needs
  <2>. QED  BY <2>4, <2>5, <2>6
<1>7. ASSUME NEW n \in 1..Len(p), NEW m \in 1..(n - 1), NEW w, Makes(p[m], w), Fresh(p[n], w)
      PROVE  FALSE
  <2>1. n \in 2..Len(p) /\ n # 1
    BY <1>2
  <2>2. p[n].do = "key" /\ p[n].table = t /\ w = <<"key", t, p[n].key.name>>
    BY <1>4, <1>7, <2>1 DEF Fresh, Makes
  <2>3. CASE m = 1
    <3>1. p[1].do = "table" /\ p[1].table = t
      BY <1>3
    <3>2. ~ (w = <<"table", t>>)
      BY <2>2
    <3>3. PICK k \in p[1].inline : w = <<"key", t, k.name>>
      BY <1>7, <2>3, <3>1, <3>2 DEF Makes
    <3>4. k.name = p[n].key.name
      BY <2>2, <3>3
    <3>. QED  BY <1>2, <2>1, <3>4
  <2>4. CASE m # 1
    <3>1. m \in 2..(n - 1) /\ m \in 1..Len(p)
      BY <1>2, <2>4
    <3>2. p[m].do = "key" /\ p[m].table = t
      BY <1>4, <2>4, <3>1
    <3>3. w = <<"key", t, p[m].key.name>>
      BY <1>7, <3>2 DEF Makes
    <3>4. p[m].key.name = p[n].key.name
      BY <2>2, <3>3
    <3>. QED  BY <1>2, <2>1, <3>1, <3>4
  <2>. QED  BY <2>3, <2>4
<1>8. InOrder(p, {<<"table", x>> : x \in G})
  BY <1>6, <1>7 DEF InOrder
<1>. QED  BY <1>2, <1>3, <1>5, <1>8

\* What an initial part of the schema is: it creates the tables of T.
IsSchema(a, T) ==
    /\ IsSequence(a) /\ InOrder(a, {})
    /\ \A s \in Elements(a) : s.table \in T /\ SchemaStatement(s)
    /\ \A t \in T : \E s \in Elements(a) : s.do = "table" /\ s.table = t

\* A statement of the schema makes what belongs to its table.
LEMMA MakesOfTable ==
    ASSUME NEW s, SchemaStatement(s), NEW w, Makes(s, w)
    PROVE  w[2] = s.table
  BY DEF SchemaStatement, Makes

LEMMA SchemaGrows ==
    ASSUME NEW a, NEW T, IsSchema(a, T),
           NEW p, NEW t, NEW required, NEW G, HasPiece(p, t, required, G),
           <<t, required>> \in RequiredTable, KeysGo(p, t),
           t \notin T, G \subseteq T
    PROVE  /\ IsSchema(a \o p, T \cup {t})
           /\ Elements(a \o p) = Elements(a) \cup Elements(p)
<1>1. /\ IsSequence(p) /\ InOrder(p, {<<"table", x>> : x \in G})
      /\ \A s \in Elements(p) : s.table = t /\ SchemaStatement(s)
      /\ \E s \in Elements(p) : s.do = "table"
  BY PieceStatements
<1>2. /\ IsSequence(a) /\ InOrder(a, {})
      /\ \A s \in Elements(a) : s.table \in T /\ SchemaStatement(s)
      /\ \A u \in T : \E s \in Elements(a) : s.do = "table" /\ s.table = u
  BY DEF IsSchema
<1>3. ASSUME NEW s \in Elements(a), NEW u \in Elements(p), NEW w, Makes(s, w), Fresh(u, w)
      PROVE  FALSE
  <2>1. w[2] = s.table /\ w[2] = u.table
    BY <1>1, <1>2, <1>3, MakesOfTable DEF Fresh
  <2>. QED  BY <1>1, <1>2, <2>1
<1>4. ASSUME NEW w \in {<<"table", x>> : x \in G}
      PROVE  \E s \in Elements(a) : Gives(s, w)
  <2>1. PICK x \in G : w = <<"table", x>>
    BY <1>4
  <2>2. PICK s \in Elements(a) : s.do = "table" /\ s.table = x
    BY <1>2
  <2>. QED  BY <2>1, <2>2 DEF Gives
<1>5. InOrder(a \o p, {})
  <2> DEFINE H == {<<"table", x>> : x \in G}
  <2>1. \A w \in H : w \in {} \/ \E s \in Elements(a) : Gives(s, w)
    BY <1>4
  <2>2. \A s \in Elements(a), u \in Elements(p) : \A w : ~ (Makes(s, w) /\ Fresh(u, w))
    BY <1>3
  <2>3. InOrder(p, H)
    BY <1>1
  <2> HIDE DEF H
  <2>. QED  BY <1>1, <1>2, <2>1, <2>2, <2>3, InOrderConcat
<1>6. IsSequence(a \o p) /\ Elements(a \o p) = Elements(a) \cup Elements(p)
  BY <1>1, <1>2, ConcatAt, ElementsConcat
<1>. QED  BY <1>1, <1>2, <1>5, <1>6 DEF IsSchema

LEMMA SchemaStarts ==
    ASSUME NEW p, NEW t, NEW required, HasPiece(p, t, required, {}),
           <<t, required>> \in RequiredTable, KeysGo(p, t)
    PROVE  IsSchema(p, {t})
<1> DEFINE H == {<<"table", x>> : x \in {}}
<1>1. H = {}
  OBVIOUS
<1>2. /\ IsSequence(p) /\ InOrder(p, H)
      /\ \A s \in Elements(p) : s.table = t /\ SchemaStatement(s)
      /\ \E s \in Elements(p) : s.do = "table"
  BY PieceStatements
<1> HIDE DEF H
<1>. QED  BY <1>1, <1>2 DEF IsSchema

\* The columns are the ones of RequiredTable.
LEMMA RequiredColumns ==
    /\ <<"businesses", {"legal_name", "display_name"}>> \in RequiredTable
    /\ <<"stores", {"business_id", "name", "code"}>> \in RequiredTable
    /\ <<"roles", {"name", "business_id"}>> \in RequiredTable
    /\ <<"permissions", {"name"}>> \in RequiredTable
    /\ <<"role_permissions", {"role_id", "permission_id"}>> \in RequiredTable
    /\ <<"users", {"business_id", "first_name", "last_name", "company_email",
                  "role_id"}>> \in RequiredTable
    /\ <<"user_auth", {"user_id"}>> \in RequiredTable
    /\ <<"categories", {"business_id", "name"}>> \in RequiredTable
    /\ <<"products", {"business_id", "name", "images", "sku", "selling_price"}>> \in RequiredTable
    /\ <<"suppliers", {"business_id", "name"}>> \in RequiredTable
    /\ <<"product_sources", {"business_id", "product_id", "supplier_id"}>> \in RequiredTable
    /\ <<"stocks", {"product_id", "business_id", "store_id"}>> \in RequiredTable
    /\ <<"stock_movements", {"stock_id", "business_id", "type", "reason",
                            "direction", "quantity", "quantity_before",
                            "quantity_after", "unit_cost_price"}>> \in RequiredTable
    /\ <<"purchase_orders", {"business_id", "store_id", "po_number", "supplier_id",
                            "created_by_id"}>> \in RequiredTable
    /\ <<"purchase_order_items", {"purchase_order_id", "product_id",
                                 "quantity_requested", "quantity_received",
                                 "estimated_unit_cost", "total_cost"}>> \in RequiredTable
    /\ <<"audit_logs", {"business_id", "action", "entity", "entity_id"}>> \in RequiredTable
    /\ <<"outbox_events", {"event_type", "aggregate_id", "aggregate_type",
                          "business_id", "store_id", "available_at"}>> \in RequiredTable
    /\ <<"notifications", {"business_id", "recipient_id", "source_event_id", "type"}>> \in RequiredTable
  BY DEF RequiredTable

\* The tables of the schema.
SchemaTables ==
    {"businesses", "stores", "roles", "permissions", "role_permissions", "users",
     "user_auth", "categories", "products", "suppliers", "product_sources",
     "stocks", "stock_movements", "purchase_orders", "purchase_order_items",
     "audit_logs", "outbox_events", "notifications"}

LEMMA StoresHaveKey == \E s \in Elements(Stores) : s.do = "key"
<1>1. Len(Stores) = 4 /\ Stores[2].do = "key"
  BY DEF Stores, Table, TableWith, Reference, Unique, UniqueKey, Indexes, PlainKey
<1>. QED  BY <1>1 DEF Elements

\* Every statement comes after what it relies on, and none makes what is there.
LEMMA SchemaIsInOrder ==
    /\ IsSchema(SchemaUp, SchemaTables)
    /\ \E s \in Elements(SchemaUp) : s.do = "key"
<1> DEFINE T0 == {}
           T1 == T0 \cup {"businesses"}
           T2 == T1 \cup {"stores"}
           T3 == T2 \cup {"roles"}
           T4 == T3 \cup {"permissions"}
           T5 == T4 \cup {"role_permissions"}
           T6 == T5 \cup {"users"}
           T7 == T6 \cup {"user_auth"}
           T8 == T7 \cup {"categories"}
           T9 == T8 \cup {"products"}
           T10 == T9 \cup {"suppliers"}
           T11 == T10 \cup {"product_sources"}
           T12 == T11 \cup {"stocks"}
           T13 == T12 \cup {"stock_movements"}
           T14 == T13 \cup {"purchase_orders"}
           T15 == T14 \cup {"purchase_order_items"}
           T16 == T15 \cup {"audit_logs"}
           T17 == T16 \cup {"outbox_events"}
           T18 == T17 \cup {"notifications"}
           a1 == Businesses
           a2 == a1 \o Stores
           a3 == a2 \o Roles
           a4 == a3 \o Permissions
           a5 == a4 \o RolePermissions
           a6 == a5 \o Users
           a7 == a6 \o UserAuth
           a8 == a7 \o Categories
           a9 == a8 \o Products
           a10 == a9 \o Suppliers
           a11 == a10 \o ProductSources
           a12 == a11 \o Stocks
           a13 == a12 \o StockMovements
           a14 == a13 \o PurchaseOrders
           a15 == a14 \o PurchaseOrderItems
           a16 == a15 \o AuditLogs
           a17 == a16 \o OutboxEvents
           a18 == a17 \o Notifications
<1>1. IsSchema(a1, T1)
  <2>1. IsSchema(Businesses, {"businesses"})
    BY BusinessesPiece, RequiredColumns, SchemaStarts DEF DroppedTables, KeysGo
  <2>. QED  BY <2>1
<1>2. IsSchema(a2, T2) /\ \E s \in Elements(a2) : s.do = "key"
  <2> DEFINE required == {"business_id", "name", "code"}
             G == {"businesses"}
  <2>1. IsSchema(a1, T1) /\ "stores" \notin T1 /\ G \subseteq T1
    BY <1>1
  <2>2. KeysGo(Stores, "stores")
    BY DEF DroppedTables, KeysGo
  <2>3. HasPiece(Stores, "stores", required, G) /\ <<"stores", required>> \in RequiredTable
    BY StoresPiece, RequiredColumns
  <2> HIDE DEF required, G, T1, a1
  <2>4. /\ IsSchema(a1 \o Stores, T1 \cup {"stores"})
        /\ Elements(a1 \o Stores) = Elements(a1) \cup Elements(Stores)
    BY <2>1, <2>2, <2>3, SchemaGrows
  <2>. QED  BY <1>1, <2>4, StoresHaveKey
<1>3. IsSchema(a3, T3) /\ \E s \in Elements(a3) : s.do = "key"
  <2> DEFINE required == {"name", "business_id"}
             G == {}
  <2>1. IsSchema(a2, T2) /\ "roles" \notin T2 /\ G \subseteq T2
    BY <1>2
  <2>2. KeysGo(Roles, "roles")
    BY DEF DroppedTables, KeysGo
  <2>3. HasPiece(Roles, "roles", required, G) /\ <<"roles", required>> \in RequiredTable
    BY RolesPiece, RequiredColumns
  <2> HIDE DEF required, G, T2, a2
  <2>4. /\ IsSchema(a2 \o Roles, T2 \cup {"roles"})
        /\ Elements(a2 \o Roles) = Elements(a2) \cup Elements(Roles)
    BY <2>1, <2>2, <2>3, SchemaGrows
  <2>. QED  BY <1>2, <2>4
<1>4. IsSchema(a4, T4) /\ \E s \in Elements(a4) : s.do = "key"
  <2> DEFINE required == {"name"}
             G == {}
  <2>1. IsSchema(a3, T3) /\ "permissions" \notin T3 /\ G \subseteq T3
    BY <1>3
  <2>2. KeysGo(Permissions, "permissions")
    BY DEF DroppedTables, KeysGo
  <2>3. /\ HasPiece(Permissions, "permissions", required, G)
        /\ <<"permissions", required>> \in RequiredTable
    BY PermissionsPiece, RequiredColumns
  <2> HIDE DEF required, G, T3, a3
  <2>4. /\ IsSchema(a3 \o Permissions, T3 \cup {"permissions"})
        /\ Elements(a3 \o Permissions) = Elements(a3) \cup Elements(Permissions)
    BY <2>1, <2>2, <2>3, SchemaGrows
  <2>. QED  BY <1>3, <2>4
<1>5. IsSchema(a5, T5) /\ \E s \in Elements(a5) : s.do = "key"
  <2> DEFINE required == {"role_id", "permission_id"}
             G == {"permissions", "roles"}
  <2>1. IsSchema(a4, T4) /\ "role_permissions" \notin T4 /\ G \subseteq T4
    BY <1>4
  <2>2. KeysGo(RolePermissions, "role_permissions")
    BY DEF DroppedTables, KeysGo
  <2>3. /\ HasPiece(RolePermissions, "role_permissions", required, G)
        /\ <<"role_permissions", required>> \in RequiredTable
    BY RolePermissionsPiece, RequiredColumns
  <2> HIDE DEF required, G, T4, a4
  <2>4. /\ IsSchema(a4 \o RolePermissions, T4 \cup {"role_permissions"})
        /\ Elements(a4 \o RolePermissions) = Elements(a4) \cup Elements(RolePermissions)
    BY <2>1, <2>2, <2>3, SchemaGrows
  <2>. QED  BY <1>4, <2>4
<1>6. IsSchema(a6, T6) /\ \E s \in Elements(a6) : s.do = "key"
  <2> DEFINE required == {"business_id", "first_name", "last_name",
                          "company_email", "role_id"}
             G == {"businesses", "roles", "stores"}
  <2>1. IsSchema(a5, T5) /\ "users" \notin T5 /\ G \subseteq T5
    BY <1>5
  <2>2. KeysGo(Users, "users")
    BY DEF DroppedTables, KeysGo
  <2>3. HasPiece(Users, "users", required, G) /\ <<"users", required>> \in RequiredTable
    BY UsersPiece, RequiredColumns
  <2> HIDE DEF required, G, T5, a5
  <2>4. /\ IsSchema(a5 \o Users, T5 \cup {"users"})
        /\ Elements(a5 \o Users) = Elements(a5) \cup Elements(Users)
    BY <2>1, <2>2, <2>3, SchemaGrows
  <2>. QED  BY <1>5, <2>4
<1>7. IsSchema(a7, T7) /\ \E s \in Elements(a7) : s.do = "key"
  <2> DEFINE required == {"user_id"}
             G == {"users"}
  <2>1. IsSchema(a6, T6) /\ "user_auth" \notin T6 /\ G \subseteq T6
    BY <1>6
  <2>2. KeysGo(UserAuth, "user_auth")
    BY DEF DroppedTables, KeysGo
  <2>3. HasPiece(UserAuth, "user_auth", required, G) /\ <<"user_auth", required>> \in RequiredTable
    BY UserAuthPiece, RequiredColumns
  <2> HIDE DEF required, G, T6, a6
  <2>4. /\ IsSchema(a6 \o UserAuth, T6 \cup {"user_auth"})
        /\ Elements(a6 \o UserAuth) = Elements(a6) \cup Elements(UserAuth)
    BY <2>1, <2>2, <2>3, SchemaGrows
  <2>. QED  BY <1>6, <2>4
<1>8. IsSchema(a8, T8) /\ \E s \in Elements(a8) : s.do = "key"
  <2> DEFINE required == {"business_id", "name"}
             G == {"businesses"}
  <2>1. IsSchema(a7, T7) /\ "categories" \notin T7 /\ G \subseteq T7
    BY <1>7
  <2>2. KeysGo(Categories, "categories")
    BY DEF DroppedTables, KeysGo
  <2>3. HasPiece(Categories, "categories", required, G) /\ <<"categories", required>> \in RequiredTable
    BY CategoriesPiece, RequiredColumns
  <2> HIDE DEF required, G, T7, a7
  <2>4. /\ IsSchema(a7 \o Categories, T7 \cup {"categories"})
        /\ Elements(a7 \o Categories) = Elements(a7) \cup Elements(Categories)
    BY <2>1, <2>2, <2>3, SchemaGrows
  <2>. QED  BY <1>7, <2>4
<1>9. IsSchema(a9, T9) /\ \E s \in Elements(a9) : s.do = "key"
  <2> DEFINE required == {"business_id", "name", "images", "sku", "selling_price"}
             G == {"businesses", "categories"}
  <2>1. IsSchema(a8, T8) /\ "products" \notin T8 /\ G \subseteq T8
    BY <1>8
  <2>2. KeysGo(Products, "products")
    BY DEF DroppedTables, KeysGo
  <2>3. HasPiece(Products, "products", required, G) /\ <<"products", required>> \in RequiredTable
    BY ProductsPiece, RequiredColumns
  <2> HIDE DEF required, G, T8, a8
  <2>4. /\ IsSchema(a8 \o Products, T8 \cup {"products"})
        /\ Elements(a8 \o Products) = Elements(a8) \cup Elements(Products)
    BY <2>1, <2>2, <2>3, SchemaGrows
  <2>. QED  BY <1>8, <2>4
<1>10. IsSchema(a10, T10) /\ \E s \in Elements(a10) : s.do = "key"
  <2> DEFINE required == {"business_id", "name"}
             G == {"businesses"}
  <2>1. IsSchema(a9, T9) /\ "suppliers" \notin T9 /\ G \subseteq T9
    BY <1>9
  <2>2. KeysGo(Suppliers, "suppliers")
    BY DEF DroppedTables, KeysGo
  <2>3. HasPiece(Suppliers, "suppliers", required, G) /\ <<"suppliers", required>> \in RequiredTable
    BY SuppliersPiece, RequiredColumns
  <2> HIDE DEF required, G, T9, a9
  <2>4. /\ IsSchema(a9 \o Suppliers, T9 \cup {"suppliers"})
        /\ Elements(a9 \o Suppliers) = Elements(a9) \cup Elements(Suppliers)
    BY <2>1, <2>2, <2>3, SchemaGrows
  <2>. QED  BY <1>9, <2>4
<1>11. IsSchema(a11, T11) /\ \E s \in Elements(a11) : s.do = "key"
  <2> DEFINE required == {"business_id", "product_id", "supplier_id"}
             G == {"businesses", "products", "suppliers"}
  <2>1. IsSchema(a10, T10) /\ "product_sources" \notin T10 /\ G \subseteq T10
    BY <1>10
  <2>2. KeysGo(ProductSources, "product_sources")
    BY DEF DroppedTables, KeysGo
  <2>3. /\ HasPiece(ProductSources, "product_sources", required, G)
        /\ <<"product_sources", required>> \in RequiredTable
    BY ProductSourcesPiece, RequiredColumns
  <2> HIDE DEF required, G, T10, a10
  <2>4. /\ IsSchema(a10 \o ProductSources, T10 \cup {"product_sources"})
        /\ Elements(a10 \o ProductSources) = Elements(a10) \cup Elements(ProductSources)
    BY <2>1, <2>2, <2>3, SchemaGrows
  <2>. QED  BY <1>10, <2>4
<1>12. IsSchema(a12, T12) /\ \E s \in Elements(a12) : s.do = "key"
  <2> DEFINE required == {"product_id", "business_id", "store_id"}
             G == {"businesses", "products", "stores"}
  <2>1. IsSchema(a11, T11) /\ "stocks" \notin T11 /\ G \subseteq T11
    BY <1>11
  <2>2. KeysGo(Stocks, "stocks")
    BY DEF DroppedTables, KeysGo
  <2>3. HasPiece(Stocks, "stocks", required, G) /\ <<"stocks", required>> \in RequiredTable
    BY StocksPiece, RequiredColumns
  <2> HIDE DEF required, G, T11, a11
  <2>4. /\ IsSchema(a11 \o Stocks, T11 \cup {"stocks"})
        /\ Elements(a11 \o Stocks) = Elements(a11) \cup Elements(Stocks)
    BY <2>1, <2>2, <2>3, SchemaGrows
  <2>. QED  BY <1>11, <2>4
<1>13. IsSchema(a13, T13) /\ \E s \in Elements(a13) : s.do = "key"
  <2> DEFINE required == {"stock_id", "business_id", "type", "reason", "direction",
                          "quantity", "quantity_before", "quantity_after",
                          "unit_cost_price"}
             G == {"businesses", "stocks", "users"}
  <2>1. IsSchema(a12, T12) /\ "stock_movements" \notin T12 /\ G \subseteq T12
    BY <1>12
  <2>2. KeysGo(StockMovements, "stock_movements")
    BY DEF DroppedTables, KeysGo
  <2>3. /\ HasPiece(StockMovements, "stock_movements", required, G)
        /\ <<"stock_movements", required>> \in RequiredTable
    BY StockMovementsPiece, RequiredColumns
  <2> HIDE DEF required, G, T12, a12
  <2>4. /\ IsSchema(a12 \o StockMovements, T12 \cup {"stock_movements"})
        /\ Elements(a12 \o StockMovements) = Elements(a12) \cup Elements(StockMovements)
    BY <2>1, <2>2, <2>3, SchemaGrows
  <2>. QED  BY <1>12, <2>4
<1>14. IsSchema(a14, T14) /\ \E s \in Elements(a14) : s.do = "key"
  <2> DEFINE required == {"business_id", "store_id", "po_number", "supplier_id",
                          "created_by_id"}
             G == {"stores", "suppliers", "users"}
  <2>1. IsSchema(a13, T13) /\ "purchase_orders" \notin T13 /\ G \subseteq T13
    BY <1>13
  <2>2. KeysGo(PurchaseOrders, "purchase_orders")
    BY DEF DroppedTables, KeysGo
  <2>3. /\ HasPiece(PurchaseOrders, "purchase_orders", required, G)
        /\ <<"purchase_orders", required>> \in RequiredTable
    BY PurchaseOrdersPiece, RequiredColumns
  <2> HIDE DEF required, G, T13, a13
  <2>4. /\ IsSchema(a13 \o PurchaseOrders, T13 \cup {"purchase_orders"})
        /\ Elements(a13 \o PurchaseOrders) = Elements(a13) \cup Elements(PurchaseOrders)
    BY <2>1, <2>2, <2>3, SchemaGrows
  <2>. QED  BY <1>13, <2>4
<1>15. IsSchema(a15, T15) /\ \E s \in Elements(a15) : s.do = "key"
  <2> DEFINE required == {"purchase_order_id", "product_id", "quantity_requested",
                          "quantity_received", "estimated_unit_cost", "total_cost"}
             G == {"products", "purchase_orders"}
  <2>1. IsSchema(a14, T14) /\ "purchase_order_items" \notin T14 /\ G \subseteq T14
    BY <1>14
  <2>2. KeysGo(PurchaseOrderItems, "purchase_order_items")
    BY DEF DroppedTables, KeysGo
  <2>3. /\ HasPiece(PurchaseOrderItems, "purchase_order_items", required, G)
        /\ <<"purchase_order_items", required>> \in RequiredTable
    BY PurchaseOrderItemsPiece, RequiredColumns
  <2> HIDE DEF required, G, T14, a14
  <2>4. /\ IsSchema(a14 \o PurchaseOrderItems, T14 \cup {"purchase_order_items"})
        /\ Elements(a14 \o PurchaseOrderItems) = Elements(a14) \cup Elements(PurchaseOrderItems)
    BY <2>1, <2>2, <2>3, SchemaGrows
  <2>. QED  BY <1>14, <2>4
<1>16. IsSchema(a16, T16) /\ \E s \in Elements(a16) : s.do = "key"
  <2> DEFINE required == {"business_id", "action", "entity", "entity_id"}
             G == {"businesses", "stores", "users"}
  <2>1. IsSchema(a15, T15) /\ "audit_logs" \notin T15 /\ G \subseteq T15
    BY <1>15
  <2>2. KeysGo(AuditLogs, "audit_logs")
    BY DEF DroppedTables, KeysGo
  <2>3. HasPiece(AuditLogs, "audit_logs", required, G) /\ <<"audit_logs", required>> \in RequiredTable
    BY AuditLogsPiece, RequiredColumns
  <2> HIDE DEF required, G, T15, a15
  <2>4. /\ IsSchema(a15 \o AuditLogs, T15 \cup {"audit_logs"})
        /\ Elements(a15 \o AuditLogs) = Elements(a15) \cup Elements(AuditLogs)
    BY <2>1, <2>2, <2>3, SchemaGrows
  <2>. QED  BY <1>15, <2>4
<1>17. IsSchema(a17, T17) /\ \E s \in Elements(a17) : s.do = "key"
  <2> DEFINE required == {"event_type", "aggregate_id", "aggregate_type",
                          "business_id", "store_id", "available_at"}
             G == {}
  <2>1. IsSchema(a16, T16) /\ "outbox_events" \notin T16 /\ G \subseteq T16
    BY <1>16
  <2>2. KeysGo(OutboxEvents, "outbox_events")
    BY DEF OutboxEvents, TableWith, KeysGo
  <2>3. /\ HasPiece(OutboxEvents, "outbox_events", required, G)
        /\ <<"outbox_events", required>> \in RequiredTable
    BY OutboxEventsPiece, RequiredColumns
  <2> HIDE DEF required, G, T16, a16
  <2>4. /\ IsSchema(a16 \o OutboxEvents, T16 \cup {"outbox_events"})
        /\ Elements(a16 \o OutboxEvents) = Elements(a16) \cup Elements(OutboxEvents)
    BY <2>1, <2>2, <2>3, SchemaGrows
  <2>. QED  BY <1>16, <2>4
<1>18. IsSchema(a18, T18) /\ \E s \in Elements(a18) : s.do = "key"
  <2> DEFINE required == {"business_id", "recipient_id", "source_event_id", "type"}
             G == {}
  <2>1. IsSchema(a17, T17) /\ "notifications" \notin T17 /\ G \subseteq T17
    BY <1>17
  <2>2. KeysGo(Notifications, "notifications")
    BY DEF Notifications, TableWith, KeysGo
  <2>3. /\ HasPiece(Notifications, "notifications", required, G)
        /\ <<"notifications", required>> \in RequiredTable
    BY NotificationsPiece, RequiredColumns
  <2> HIDE DEF required, G, T17, a17
  <2>4. /\ IsSchema(a17 \o Notifications, T17 \cup {"notifications"})
        /\ Elements(a17 \o Notifications) = Elements(a17) \cup Elements(Notifications)
    BY <2>1, <2>2, <2>3, SchemaGrows
  <2>. QED  BY <1>17, <2>4
<1>19. T18 = SchemaTables
  BY DEF SchemaTables
<1>20. a18 = SchemaUp
  BY DEF SchemaUp
<1>. QED
  <2> HIDE DEF T18, a18
  <2>. QED  BY <1>18, <1>19, <1>20

-----------------------------------------------------------------------------
(* The tables of the sample data: their references, columns and keys.      *)

\* What the foreign keys of a table name.
LEMMA ReferencesFrom ==
    ASSUME NEW e \in ReferenceTable
    PROVE
    /\ e[1] # "businesses"
    /\ e[1] = "stores" =>
           \/ e[2] = "business_id" /\ e[3] = "businesses"
    /\ e[1] # "roles"
    /\ e[1] # "permissions"
    /\ e[1] = "role_permissions" =>
           \/ e[2] = "role_id" /\ e[3] = "roles"
           \/ e[2] = "permission_id" /\ e[3] = "permissions"
    /\ e[1] = "users" =>
           \/ e[2] = "business_id" /\ e[3] = "businesses"
           \/ e[2] = "store_id" /\ e[3] = "stores"
           \/ e[2] = "role_id" /\ e[3] = "roles"
    /\ e[1] = "user_auth" =>
           \/ e[2] = "user_id" /\ e[3] = "users"
    /\ e[1] = "categories" =>
           \/ e[2] = "business_id" /\ e[3] = "businesses"
    /\ e[1] = "products" =>
           \/ e[2] = "business_id" /\ e[3] = "businesses"
           \/ e[2] = "category_id" /\ e[3] = "categories"
    /\ e[1] = "suppliers" =>
           \/ e[2] = "business_id" /\ e[3] = "businesses"
    /\ e[1] = "product_sources" =>
           \/ e[2] = "business_id" /\ e[3] = "businesses"
           \/ e[2] = "product_id" /\ e[3] = "products"
           \/ e[2] = "supplier_id" /\ e[3] = "suppliers"
    /\ e[1] = "stocks" =>
           \/ e[2] = "product_id" /\ e[3] = "products"
           \/ e[2] = "business_id" /\ e[3] = "businesses"
           \/ e[2] = "store_id" /\ e[3] = "stores"
    /\ e[1] = "stock_movements" =>
           \/ e[2] = "stock_id" /\ e[3] = "stocks"
           \/ e[2] = "business_id" /\ e[3] = "businesses"
           \/ e[2] = "created_by_id" /\ e[3] = "users"
    /\ e[1] = "purchase_orders" =>
           \/ e[2] = "store_id" /\ e[3] = "stores"
           \/ e[2] = "supplier_id" /\ e[3] = "suppliers"
           \/ e[2] = "created_by_id" /\ e[3] = "users"
           \/ e[2] = "approved_by_id" /\ e[3] = "users"
    /\ e[1] = "purchase_order_items" =>
           \/ e[2] = "purchase_order_id" /\ e[3] = "purchase_orders"
           \/ e[2] = "product_id" /\ e[3] = "products"
    /\ e[1] = "audit_logs" =>
           \/ e[2] = "business_id" /\ e[3] = "businesses"
           \/ e[2] = "store_id" /\ e[3] = "stores"
           \/ e[2] = "user_id" /\ e[3] = "users"
  BY DEF ReferenceTable

LEMMA ColumnsOf ==
    ASSUME NEW e \in RequiredTable
    PROVE
    /\ e[1] = "businesses" => e[2] = {"legal_name", "display_name"}
    /\ e[1] = "stores" => e[2] = {"business_id", "name", "code"}
    /\ e[1] = "roles" => e[2] = {"name", "business_id"}
    /\ e[1] = "permissions" => e[2] = {"name"}
    /\ e[1] = "role_permissions" => e[2] = {"role_id", "permission_id"}
    /\ e[1] = "users" => e[2] = {"business_id", "first_name", "last_name",
                              "company_email", "role_id"}
    /\ e[1] = "user_auth" => e[2] = {"user_id"}
    /\ e[1] = "categories" => e[2] = {"business_id", "name"}
    /\ e[1] = "products" => e[2] = {"business_id", "name", "images", "sku",
                                 "selling_price"}
    /\ e[1] = "suppliers" => e[2] = {"business_id", "name"}
    /\ e[1] = "product_sources" => e[2] = {"business_id", "product_id", "supplier_id"}
    /\ e[1] = "stocks" => e[2] = {"product_id", "business_id", "store_id"}
    /\ e[1] = "stock_movements" => e[2] = {"stock_id", "business_id", "type",
                                        "reason", "direction", "quantity",
                                        "quantity_before", "quantity_after",
                                        "unit_cost_price"}
    /\ e[1] = "purchase_orders" => e[2] = {"business_id", "store_id", "po_number",
                                        "supplier_id", "created_by_id"}
    /\ e[1] = "purchase_order_items" => e[2] = {"purchase_order_id", "product_id",
                                             "quantity_requested",
                                             "quantity_received",
                                             "estimated_unit_cost", "total_cost"}
    /\ e[1] = "audit_logs" => e[2] = {"business_id", "action", "entity", "entity_id"}
  BY DEF RequiredTable

LEMMA UniqueColumns ==
    ASSUME NEW e \in UniqueTable
    PROVE
    /\ e[1] # "businesses"
    /\ e[1] = "stores" => e[2] = {"business_id", "code"}
    /\ e[1] = "roles" => e[2] = {"name", "business_id"}
    /\ e[1] = "permissions" => e[2] = {"name"}
    /\ e[1] # "role_permissions"
    /\ e[1] = "users" => e[2] = {"business_id", "company_email"}
    /\ e[1] = "user_auth" => e[2] = {"user_id"}
    /\ e[1] = "categories" => e[2] = {"business_id", "name"}
    /\ e[1] = "products" => e[2] = {"business_id", "sku"}
    /\ e[1] = "suppliers" => e[2] = {"business_id", "name"}
    /\ e[1] = "product_sources" => e[2] = {"product_id", "supplier_id"}
    /\ e[1] = "stocks" => e[2] = {"product_id", "store_id"}
    /\ e[1] # "stock_movements"
    /\ e[1] = "purchase_orders" => e[2] = {"store_id", "po_number"}
    /\ e[1] # "purchase_order_items"
    /\ e[1] # "audit_logs"
  BY DEF UniqueTable

\* A deletion blanks columns that are neither required nor the identifier.
LEMMA SetNullColumns ==
    ASSUME NEW e \in ReferenceTable, e[4] = SetNull,
           NEW f \in RequiredTable, f[1] = e[1]
    PROVE  e[2] \notin f[2] /\ e[2] # "id"
<1>1. SetNull # "CASCADE" /\ SetNull # "RESTRICT"
  BY Zenon DEF SetNull
<1>. QED  BY <1>1 DEF ReferenceTable, RequiredTable

-----------------------------------------------------------------------------
(* The rows of the sample data.                                            *)

\* The identifier of a row determines the columns of its unique keys.
Owner(x) == <<"businesses", x.id[2], x.id[3], 1>>
Numbered(x) == <<x.id[3], x.id[4]>>
WellKeyed(t, x) ==
    /\ x.id = <<t, x.id[2], x.id[3], x.id[4]>>
    /\ t = "stores" => x.business_id = Owner(x) /\ x.code = Numbered(x)
    /\ t = "roles" => x.business_id = Owner(x) /\ x.name = x.id[4]
    /\ t = "permissions" => x.id[2] = 0 /\ x.id[3] = NONE /\ x.name = x.id[4]
    /\ t = "users" => x.business_id = Owner(x) /\ x.company_email = Numbered(x)
    /\ t = "user_auth" => x.user_id = <<"users", x.id[2], x.id[3], x.id[4]>>
    /\ t = "categories" => x.business_id = Owner(x) /\ x.name = Numbered(x)
    /\ t = "products" => x.business_id = Owner(x) /\ x.sku = Numbered(x)
    /\ t = "suppliers" => x.business_id = Owner(x) /\ x.name = Numbered(x)
    /\ t = "product_sources" =>
           /\ x.id[4] = <<x.id[4][1], x.id[4][2]>>
           /\ x.product_id = <<"products", x.id[2], x.id[3], x.id[4][1]>>
           /\ x.supplier_id = <<"suppliers", x.id[2], x.id[3], x.id[4][2]>>
    /\ t = "stocks" =>
           /\ x.id[4] = <<x.id[4][1], x.id[4][2]>>
           /\ x.product_id = <<"products", x.id[2], x.id[3], x.id[4][2]>>
           /\ x.store_id = <<"stores", x.id[2], x.id[3], x.id[4][1]>>
    /\ t = "purchase_orders" =>
           /\ x.store_id = <<"stores", x.id[2], x.id[3], x.store_id[4]>>
           /\ x.po_number = Numbered(x)

\* A row with all that its table requires.
IsRow(t, x) ==
    /\ "id" \in DOMAIN x /\ WellKeyed(t, x)
    /\ \A e \in RequiredTable : e[1] = t => e[2] \subseteq DOMAIN x

\* Rows that agree in the columns of a unique key are the same row.
LEMMA KeysIdentify ==
    ASSUME NEW t \in DroppedTables, NEW x, NEW y, WellKeyed(t, x), WellKeyed(t, y),
           NEW cs, <<t, cs>> \in UniqueTable, \A c \in cs : x[c] = y[c]
    PROVE  x.id = y.id
<1>1. /\ t # "businesses" /\ t # "role_permissions" /\ t # "stock_movements"
      /\ t # "purchase_order_items" /\ t # "audit_logs"
  BY UniqueColumns
<1>2. CASE t = "stores"
  <2>1. cs = {"business_id", "code"}
    BY <1>2, UniqueColumns
  <2>2. x.business_id = y.business_id /\ x.code = y.code
    BY <2>1
  <2>. QED  BY <1>2, <2>2 DEF WellKeyed, Owner, Numbered
<1>3. CASE t = "roles"
  <2>1. cs = {"name", "business_id"}
    BY <1>3, UniqueColumns
  <2>2. x.business_id = y.business_id /\ x.name = y.name
    BY <2>1
  <2>. QED  BY <1>3, <2>2 DEF WellKeyed, Owner, Numbered
<1>4. CASE t = "permissions"
  <2>1. cs = {"name"}
    BY <1>4, UniqueColumns
  <2>2. x.name = y.name
    BY <2>1
  <2>. QED  BY <1>4, <2>2 DEF WellKeyed
<1>5. CASE t = "users"
  <2>1. cs = {"business_id", "company_email"}
    BY <1>5, UniqueColumns
  <2>2. x.business_id = y.business_id /\ x.company_email = y.company_email
    BY <2>1
  <2>. QED  BY <1>5, <2>2 DEF WellKeyed, Owner, Numbered
<1>6. CASE t = "user_auth"
  <2>1. cs = {"user_id"}
    BY <1>6, UniqueColumns
  <2>2. x.user_id = y.user_id
    BY <2>1
  <2>. QED  BY <1>6, <2>2 DEF WellKeyed
<1>7. CASE t \in {"categories", "suppliers"}
  <2>1. cs = {"business_id", "name"}
    BY <1>7, UniqueColumns
  <2>2. x.business_id = y.business_id /\ x.name = y.name
    BY <2>1
  <2>. QED  BY <1>7, <2>2 DEF WellKeyed, Owner, Numbered
<1>8. CASE t = "products"
  <2>1. cs = {"business_id", "sku"}
    BY <1>8, UniqueColumns
  <2>2. x.business_id = y.business_id /\ x.sku = y.sku
    BY <2>1
  <2>. QED  BY <1>8, <2>2 DEF WellKeyed, Owner, Numbered
<1>9. CASE t = "product_sources"
  <2>1. cs = {"product_id", "supplier_id"}
    BY <1>9, UniqueColumns
  <2>2. x.product_id = y.product_id /\ x.supplier_id = y.supplier_id
    BY <2>1
  <2>. QED  BY <1>9, <2>2 DEF WellKeyed
<1>10. CASE t = "stocks"
  <2>1. cs = {"product_id", "store_id"}
    BY <1>10, UniqueColumns
  <2>2. x.product_id = y.product_id /\ x.store_id = y.store_id
    BY <2>1
  <2>. QED  BY <1>10, <2>2 DEF WellKeyed
<1>11. CASE t = "purchase_orders"
  <2>1. cs = {"store_id", "po_number"}
    BY <1>11, UniqueColumns
  <2>2. x.store_id = y.store_id /\ x.po_number = y.po_number
    BY <2>1
  <2>. QED  BY <1>11, <2>2 DEF WellKeyed, Numbered
<1>. QED  BY <1>1, <1>2, <1>3, <1>4, <1>5, <1>6, <1>7, <1>8, <1>9, <1>10, <1>11
     DEF DroppedTables

\* A row whose optional columns are blanked is still one.
LEMMA BlankedRow ==
    ASSUME NEW t \in DroppedTables, NEW x, IsRow(t, x), NEW blank,
           \A c \in blank : c # "id" /\ \A e \in RequiredTable : e[1] = t => c \notin e[2]
    PROVE  LET y == [c \in DOMAIN x |-> IF c \in blank THEN NONE ELSE x[c]]
           IN  IsRow(t, y) /\ y.id = x.id
<1> DEFINE y == [c \in DOMAIN x |-> IF c \in blank THEN NONE ELSE x[c]]
<1>1. DOMAIN y = DOMAIN x /\ y.id = x.id
  BY DEF IsRow
<1>2. \A e \in RequiredTable : e[1] = t => \A c \in e[2] : y[c] = x[c]
  BY DEF IsRow
<1> HIDE DEF y
<1>3. WellKeyed(t, x)
  BY DEF IsRow
<1>4. /\ t = "stores" => y.business_id = x.business_id /\ y.code = x.code
      /\ t = "roles" => y.business_id = x.business_id /\ y.name = x.name
      /\ t = "permissions" => y.name = x.name
      /\ t = "users" => y.business_id = x.business_id /\ y.company_email = x.company_email
      /\ t = "user_auth" => y.user_id = x.user_id
      /\ t = "categories" => y.business_id = x.business_id /\ y.name = x.name
      /\ t = "suppliers" => y.business_id = x.business_id /\ y.name = x.name
      /\ t = "products" => y.business_id = x.business_id /\ y.sku = x.sku
      /\ t = "product_sources" => y.product_id = x.product_id /\ y.supplier_id = x.supplier_id
      /\ t = "stocks" => y.product_id = x.product_id /\ y.store_id = x.store_id
      /\ t = "purchase_orders" => y.store_id = x.store_id /\ y.po_number = x.po_number
  BY <1>2, RequiredColumns
<1>5. WellKeyed(t, y)
  BY <1>1, <1>3, <1>4 DEF WellKeyed, Owner, Numbered
<1>6. IsRow(t, y) /\ y.id = x.id
  BY <1>1, <1>5 DEF IsRow
<1>. QED  BY <1>6 DEF y

-----------------------------------------------------------------------------
(* The statements of the sample data.                                      *)

\* A row that execution r adds for tenant b, permissions being common to all.
SeededRow(t, x, r, b) ==
    /\ IsRow(t, x)
    /\ t # "permissions" => x.id[2] = r /\ x.id[3] = b
    /\ t = "businesses" =>
           x = [id |-> Uuid("businesses", r, b, 1), legal_name |-> b,
                display_name |-> b, registration_number |-> b]

IsSeed(s, r, b) ==
    /\ s.do = "insert" /\ s.table \in DroppedTables
    /\ s.table = "permissions" => s.missing
    /\ \A new \in s.alternatives :
           /\ \A x \in new : SeededRow(s.table, x, r, b)
           /\ \A x, y \in new : x.id = y.id => x = y

\* Statements for tenant b on tables of T: in order where G is given, they give V.
Seeds(p, r, b, T, G, V) ==
    /\ IsSequence(p) /\ InOrder(p, G)
    /\ \A s \in Elements(p) : IsSeed(s, r, b) /\ s.table \in T
    /\ \A w \in V : \E s \in Elements(p) : Gives(s, w)

LEMMA SeedsMake ==
    ASSUME NEW s, NEW r, NEW b, IsSeed(s, r, b), NEW w, Makes(s, w)
    PROVE  /\ w[1] = s.table
           /\ s.table # "permissions" => w[2][3] = b
<1>1. PICK new \in s.alternatives : \E x \in new : w = <<s.table, x.id>>
  BY DEF IsSeed, Makes
<1>2. PICK x \in new : w = <<s.table, x.id>>
  BY <1>1
<1>3. SeededRow(s.table, x, r, b)
  BY DEF IsSeed
<1>. QED  BY <1>2, <1>3 DEF SeededRow

LEMMA SeedsConcat ==
    ASSUME NEW r, NEW b, NEW p, NEW T, NEW G, NEW V, Seeds(p, r, b, T, G, V),
           NEW q, NEW U, NEW H, NEW W, Seeds(q, r, b, U, H, W),
           T \cap U = {}, H \subseteq G \cup V
    PROVE  Seeds(p \o q, r, b, T \cup U, G, V \cup W)
<1>1. /\ IsSequence(p) /\ InOrder(p, G) /\ IsSequence(q) /\ InOrder(q, H)
      /\ \A s \in Elements(p) : IsSeed(s, r, b) /\ s.table \in T
      /\ \A s \in Elements(q) : IsSeed(s, r, b) /\ s.table \in U
      /\ \A w \in V : \E s \in Elements(p) : Gives(s, w)
      /\ \A w \in W : \E s \in Elements(q) : Gives(s, w)
  BY DEF Seeds
<1>2. IsSequence(p \o q) /\ Elements(p \o q) = Elements(p) \cup Elements(q)
  BY <1>1, ConcatAt, ElementsConcat
<1>3. \A w \in H : w \in G \/ \E s \in Elements(p) : Gives(s, w)
  BY <1>1
<1>4. ASSUME NEW s \in Elements(p), NEW u \in Elements(q), NEW w
      PROVE  ~ (Makes(s, w) /\ Fresh(u, w))
  <2>1. IsSeed(s, r, b) /\ IsSeed(u, r, b) /\ s.table # u.table
    BY <1>1
  <2>. QED  BY <2>1, SeedsMake DEF Fresh
<1>5. InOrder(p \o q, G)
  BY <1>1, <1>3, <1>4, InOrderConcat
<1>6. \A s \in Elements(p \o q) : IsSeed(s, r, b) /\ s.table \in T \cup U
  BY <1>1, <1>2
<1>7. \A w \in V \cup W : \E s \in Elements(p \o q) : Gives(s, w)
  BY <1>1, <1>2
<1>. QED  BY <1>2, <1>5, <1>6, <1>7 DEF Seeds

\* What the iterations of a loop give.
AllOf(V, n) == UNION {V[i] : i \in 1..n}

\* Iterations that do not make anew what an earlier one may have made.
Apart(q, n) ==
    \A i \in 1..n : \A j \in 1..(i - 1) :
        \A s \in Elements(q[j]), t \in Elements(q[i]) :
            \A w : ~ (Makes(s, w) /\ Fresh(t, w))

LEMMA SeedsLoop ==
    ASSUME NEW n \in Nat \ {0}, NEW q, q = [i \in 1..n |-> q[i]],
           NEW r, NEW b, NEW T, NEW G, NEW V,
           \A i \in 1..n : Seeds(q[i], r, b, T, G, V[i]), Apart(q, n)
    PROVE  Seeds(FlattenSeq(q), r, b, T, G, AllOf(V, n))
<1> DEFINE p == FlattenSeq(q)
           all == UNION {V[i] : i \in 1..n}
<1>1. \A i \in 1..n : IsSequence(q[i]) /\ InOrder(q[i], G)
  BY DEF Seeds
<1>2. /\ IsSequence(p) /\ InOrder(p, G)
      /\ Elements(p) = UNION {Elements(q[i]) : i \in 1..n}
  BY <1>1, LoopInOrder DEF Apart
<1> HIDE DEF p
<1>3. ASSUME NEW s \in Elements(p) PROVE IsSeed(s, r, b) /\ s.table \in T
  <2>1. PICK i \in 1..n : s \in Elements(q[i])
    BY <1>2
  <2>. QED  BY <2>1 DEF Seeds
<1>4. ASSUME NEW w \in all PROVE \E s \in Elements(p) : Gives(s, w)
  <2>1. PICK i \in 1..n : w \in V[i]
    OBVIOUS
  <2>2. PICK s \in Elements(q[i]) : Gives(s, w)
    BY <2>1 DEF Seeds
  <2>3. s \in Elements(p)
    BY <1>2
  <2>. QED  BY <2>2, <2>3
<1> HIDE DEF all
<1>5. Seeds(p, r, b, T, G, all)
  BY <1>2, <1>3, <1>4 DEF Seeds
<1>. QED  BY <1>5 DEF p, all, AllOf

\* A row whose references are among G, and alternatives of such rows.
SeedingRow(t, x, r, b, G) ==
    /\ SeededRow(t, x, r, b)
    /\ \A e \in ReferenceTable :
           e[1] = t /\ e[2] \in DOMAIN x /\ x[e[2]] # NONE => <<e[3], x[e[2]]>> \in G

SeedingRows(t, alternatives, r, b, G, V) ==
    \A new \in alternatives :
        /\ \A x \in new : SeedingRow(t, x, r, b, G)
        /\ \A x, y \in new : x.id = y.id => x = y
        /\ \A w \in V : \E x \in new : w = <<t, x.id>>

\* One INSERT.
InsertStatement(t, alternatives, missing) ==
    [do |-> "insert", table |-> t, alternatives |-> alternatives, missing |-> missing]
InsertOf(t, alternatives, missing) == <<InsertStatement(t, alternatives, missing)>>

LEMMA SeedsInsert ==
    ASSUME NEW t \in DroppedTables, NEW alternatives, NEW missing, NEW r, NEW b, NEW G, NEW V,
           t = "permissions" => missing, SeedingRows(t, alternatives, r, b, G, V)
    PROVE  /\ Seeds(InsertOf(t, alternatives, missing), r, b, {t}, G, V)
           /\ Elements(InsertOf(t, alternatives, missing)) =
                  {InsertStatement(t, alternatives, missing)}
<1> DEFINE s == InsertStatement(t, alternatives, missing)
           p == <<s>>
<1>1. p[1] = s /\ Len(p) = 1 /\ p = [i \in 1..1 |-> p[i]]
  OBVIOUS
<1>2. /\ s.do = "insert" /\ s.table = t /\ s.alternatives = alternatives
      /\ s.missing = missing
  BY DEF InsertStatement
<1> HIDE DEF s
<1>3. Elements(p) = {s}
  BY <1>1 DEF Elements
<1> HIDE DEF p
<1>4. IsSequence(p)
  BY <1>1, FunctionIsSequence
<1>5. IsSeed(s, r, b)
  BY <1>2 DEF IsSeed, SeedingRows, SeedingRow
<1>6. ASSUME NEW w, Needs(s, w) PROVE w \in G
  <2>1. PICK new \in alternatives : \E x \in new : \E e \in ReferenceTable :
            /\ e[1] = t /\ e[2] \in DOMAIN x /\ x[e[2]] # NONE
            /\ w = <<e[3], x[e[2]]>>
    BY <1>2, <1>6 DEF Needs
  <2>. QED  BY <2>1 DEF SeedingRows, SeedingRow
<1>7. InOrder(p, G)
  BY <1>1, <1>6 DEF InOrder
<1>8. \A w \in V : Gives(s, w)
  BY <1>2 DEF Gives, SeedingRows
<1>9. Seeds(p, r, b, {t}, G, V)
  BY <1>2, <1>3, <1>4, <1>5, <1>7, <1>8 DEF Seeds
<1>. QED  BY <1>3, <1>9 DEF p, s, InsertOf

\* Loops of INSERTs into one table.
Inserts(t, A, missing, n) == [i \in 1..n |-> InsertOf(t, A[i], missing)]
InsertsOfOne(t, R, n) == [i \in 1..n |-> InsertOne(t, R[i])]
RowsOf(t, R, n) == {<<t, R[i].id>> : i \in 1..n}

LEMMA SeedsInsertLoop ==
    ASSUME NEW t \in DroppedTables, t # "permissions", NEW n \in Nat \ {0},
           NEW A, NEW missing, NEW r, NEW b, NEW G, NEW V,
           \A i \in 1..n : SeedingRows(t, A[i], r, b, G, V[i]),
           \A i \in 1..n : \A j \in 1..(i - 1) :
               \A old \in A[j], new \in A[i] : \A x \in old, y \in new : x.id # y.id
    PROVE  Seeds(FlattenSeq(Inserts(t, A, missing, n)), r, b, {t}, G, AllOf(V, n))
<1> DEFINE q == Inserts(t, A, missing, n)
           s(i) == InsertStatement(t, A[i], missing)
<1>1. ASSUME NEW i \in 1..n
      PROVE  Seeds(q[i], r, b, {t}, G, V[i]) /\ Elements(q[i]) = {s(i)}
  <2>1. /\ Seeds(InsertOf(t, A[i], missing), r, b, {t}, G, V[i])
        /\ Elements(InsertOf(t, A[i], missing)) = {s(i)}
    BY SeedsInsert
  <2>. QED  BY <2>1 DEF Inserts
<1>2. ASSUME NEW i \in 1..n, NEW j \in 1..(i - 1),
             NEW u \in Elements(q[j]), NEW v \in Elements(q[i]), NEW w
      PROVE  ~ (Makes(u, w) /\ Fresh(v, w))
  <2>1. j \in 1..n /\ u = s(j) /\ v = s(i)
    BY <1>1
  <2>2. /\ u.do = "insert" /\ u.table = t /\ u.alternatives = A[j]
        /\ v.do = "insert" /\ v.table = t /\ v.alternatives = A[i]
    BY <2>1 DEF s, InsertStatement
  <2>3. ASSUME Makes(u, w), Makes(v, w) PROVE FALSE
    <3>1. PICK old \in A[j] : \E x \in old : w = <<t, x.id>>
      BY <2>2, <2>3 DEF Makes
    <3>2. PICK new \in A[i] : \E y \in new : w = <<t, y.id>>
      BY <2>2, <2>3 DEF Makes
    <3>3. PICK x \in old : w = <<t, x.id>>
      BY <3>1
    <3>4. PICK y \in new : w = <<t, y.id>>
      BY <3>2
    <3>. QED  BY <3>3, <3>4
  <2>. QED  BY <2>3 DEF Fresh
<1>3. q = [i \in 1..n |-> q[i]]
  BY DEF Inserts
<1> HIDE DEF q, s
<1>4. Apart(q, n)
  BY <1>2 DEF Apart
<1>5. Seeds(FlattenSeq(q), r, b, {t}, G, AllOf(V, n))
  BY <1>1, <1>3, <1>4, SeedsLoop
<1>. QED  BY <1>5 DEF q

\* The INSERT of one row, and a loop of those.
LEMMA SeedsRow ==
    ASSUME NEW t \in DroppedTables, t # "permissions", NEW x, NEW r, NEW b, NEW G,
           SeedingRow(t, x, r, b, G)
    PROVE  /\ Seeds(InsertOne(t, x), r, b, {t}, G, {<<t, x.id>>})
           /\ Elements(InsertOne(t, x)) =
                  {InsertStatement(t, {{x}}, FALSE)}
<1>1. InsertOne(t, x) = InsertOf(t, {{x}}, FALSE)
  BY DEF InsertOne, Insert, InsertOf, InsertStatement
<1> DEFINE V == {<<t, x.id>>}
           A == {{x}}
<1>3. SeedingRows(t, A, r, b, G, V)
  BY DEF SeedingRows
<1> HIDE DEF V, A
<1>2. /\ Seeds(InsertOf(t, A, FALSE), r, b, {t}, G, V)
      /\ Elements(InsertOf(t, A, FALSE)) =
             {InsertStatement(t, A, FALSE)}
  BY <1>3, SeedsInsert
<1>. QED  BY <1>1, <1>2 DEF V, A

LEMMA SeedsRowLoop ==
    ASSUME NEW t \in DroppedTables, t # "permissions", NEW n \in Nat \ {0},
           NEW R, NEW r, NEW b, NEW G,
           \A i \in 1..n : SeedingRow(t, R[i], r, b, G),
           \A i \in 1..n : \A j \in 1..(i - 1) : R[j].id # R[i].id
    PROVE  Seeds(FlattenSeq(InsertsOfOne(t, R, n)), r, b, {t}, G, RowsOf(t, R, n))
<1> DEFINE A == [i \in 1..n |-> {{R[i]}}]
           V == [i \in 1..n |-> {<<t, R[i].id>>}]
<1>1. InsertsOfOne(t, R, n) = Inserts(t, A, FALSE, n)
  BY DEF InsertsOfOne, Inserts, InsertOne, Insert, InsertOf, InsertStatement
<1>2. RowsOf(t, R, n) = AllOf(V, n)
  BY DEF RowsOf, AllOf
<1>3. ASSUME NEW i \in 1..n PROVE SeedingRows(t, A[i], r, b, G, V[i])
  <2>1. A[i] = {{R[i]}} /\ V[i] = {<<t, R[i].id>>}
    OBVIOUS
  <2> HIDE DEF A, V
  <2>. QED  BY <2>1 DEF SeedingRows
<1>4. ASSUME NEW i \in 1..n, NEW j \in 1..(i - 1), NEW old \in A[j], NEW new \in A[i],
             NEW x \in old, NEW y \in new
      PROVE  x.id # y.id
  <2>1. j \in 1..n /\ x = R[j] /\ y = R[i]
    OBVIOUS
  <2>. QED  BY <2>1
<1> HIDE DEF A, V
<1>5. Seeds(FlattenSeq(Inserts(t, A, FALSE, n)), r, b, {t}, G, AllOf(V, n))
  BY <1>3, <1>4, SeedsInsertLoop
<1>. QED  BY <1>1, <1>2, <1>5

\* The rows of table t of tenant b, by their numbers.
Given(t, r, b, K) == {<<t, Uuid(t, r, b, k)>> : k \in K}
Own(r, b) == Given("businesses", r, b, {1})

LEMMA BusinessSeeds ==
    ASSUME NEW r, NEW b
    PROVE  Seeds(SeedBusiness(r, b), r, b, {"businesses"}, {}, Own(r, b))
<1> DEFINE x == [id |-> Uuid("businesses", r, b, 1), legal_name |-> b,
                 display_name |-> b, registration_number |-> b]
<1>1. SeedingRow("businesses", x, r, b, {})
  BY ColumnsOf, ReferencesFrom DEF SeedingRow, SeededRow, IsRow, WellKeyed, Uuid
<1>2. "businesses" \in DroppedTables
  BY DEF DroppedTables
<1>3. {<<"businesses", x.id>>} = Own(r, b) /\ SeedBusiness(r, b) = InsertOne("businesses", x)
  BY DEF Own, Given, SeedBusiness
<1> HIDE DEF x
<1>4. Seeds(InsertOne("businesses", x), r, b, {"businesses"}, {}, {<<"businesses", x.id>>})
  BY <1>1, <1>2, SeedsRow
<1>. QED  BY <1>3, <1>4

LEMMA StoresSeeds ==
    ASSUME NEW r, NEW b
    PROVE  Seeds(SeedStores(r, b), r, b, {"stores"}, Own(r, b),
                 Given("stores", r, b, 1..Scale.stores))
<1> DEFINE n == Scale.stores
           x(s) == [id |-> Uuid("stores", r, b, s), name |-> <<b, s>>,
                    code |-> <<b, s>>, business_id |-> Uuid("businesses", r, b, 1)]
           R == [s \in 1..n |-> x(s)]
<1>0. n \in Nat \ {0} /\ "stores" \in DroppedTables
  BY ScaleAssumption DEF ScaleFields, DroppedTables
<1>1. ASSUME NEW s PROVE SeededRow("stores", x(s), r, b) /\ x(s).id = Uuid("stores", r, b, s)
  BY ColumnsOf DEF SeededRow, IsRow, WellKeyed, Uuid, Owner, Numbered
<1>2. ASSUME NEW s PROVE SeedingRow("stores", x(s), r, b, Own(r, b))
  <2>1. ASSUME NEW e \in ReferenceTable, e[1] = "stores"
        PROVE  <<e[3], x(s)[e[2]]>> \in Own(r, b)
    BY <2>1, ReferencesFrom DEF Own, Given
  <2> HIDE DEF x
  <2>. QED  BY <1>1, <2>1 DEF SeedingRow
<1>3. SeedStores(r, b) = FlattenSeq(InsertsOfOne("stores", R, n))
  BY DEF SeedStores, Loop, InsertsOfOne
<1> HIDE DEF x, n
<1>4. \A s \in 1..n : R[s] = x(s)
  OBVIOUS
<1>5. \A i \in 1..n : \A j \in 1..(i - 1) : R[j].id # R[i].id
  <2>1. ASSUME NEW i \in 1..n, NEW j \in 1..(i - 1) PROVE R[j].id # R[i].id
    <3>1. j \in 1..n /\ j # i
      BY <1>0
    <3>2. R[j].id = Uuid("stores", r, b, j) /\ R[i].id = Uuid("stores", r, b, i)
      BY <1>1, <1>4, <3>1
    <3>. QED  BY <3>1, <3>2 DEF Uuid
  <2>. QED  BY <2>1
<1>6. RowsOf("stores", R, n) = Given("stores", r, b, 1..n)
  BY <1>1, <1>4 DEF Given, RowsOf
<1> HIDE DEF R
<1>7. Seeds(FlattenSeq(InsertsOfOne("stores", R, n)), r, b, {"stores"}, Own(r, b),
            RowsOf("stores", R, n))
  BY <1>0, <1>2, <1>4, <1>5, SeedsRowLoop
<1>. QED  BY <1>3, <1>6, <1>7 DEF n

LEMMA CategoriesSeeds ==
    ASSUME NEW r, NEW b
    PROVE  Seeds(SeedCategories(r, b), r, b, {"categories"}, Own(r, b),
                 Given("categories", r, b, 1..Scale.categories))
<1> DEFINE n == Scale.categories
           x(s) == [id |-> Uuid("categories", r, b, s), name |-> <<b, s>>,
                    business_id |-> Uuid("businesses", r, b, 1)]
           R == [s \in 1..n |-> x(s)]
<1>0. n \in Nat \ {0} /\ "categories" \in DroppedTables
  BY ScaleAssumption DEF ScaleFields, DroppedTables
<1>1. ASSUME NEW s PROVE SeededRow("categories", x(s), r, b) /\ x(s).id = Uuid("categories", r, b, s)
  BY ColumnsOf DEF SeededRow, IsRow, WellKeyed, Uuid, Owner, Numbered
<1>2. ASSUME NEW s PROVE SeedingRow("categories", x(s), r, b, Own(r, b))
  <2>1. ASSUME NEW e \in ReferenceTable, e[1] = "categories"
        PROVE  <<e[3], x(s)[e[2]]>> \in Own(r, b)
    BY <2>1, ReferencesFrom DEF Own, Given
  <2> HIDE DEF x
  <2>. QED  BY <1>1, <2>1 DEF SeedingRow
<1>3. SeedCategories(r, b) = FlattenSeq(InsertsOfOne("categories", R, n))
  BY DEF SeedCategories, Loop, InsertsOfOne
<1> HIDE DEF x, n
<1>4. \A s \in 1..n : R[s] = x(s)
  OBVIOUS
<1>5. \A i \in 1..n : \A j \in 1..(i - 1) : R[j].id # R[i].id
  <2>1. ASSUME NEW i \in 1..n, NEW j \in 1..(i - 1) PROVE R[j].id # R[i].id
    <3>1. j \in 1..n /\ j # i
      BY <1>0
    <3>2. R[j].id = Uuid("categories", r, b, j) /\ R[i].id = Uuid("categories", r, b, i)
      BY <1>1, <1>4, <3>1
    <3>. QED  BY <3>1, <3>2 DEF Uuid
  <2>. QED  BY <2>1
<1>6. RowsOf("categories", R, n) = Given("categories", r, b, 1..n)
  BY <1>1, <1>4 DEF Given, RowsOf
<1> HIDE DEF R
<1>7. Seeds(FlattenSeq(InsertsOfOne("categories", R, n)), r, b, {"categories"}, Own(r, b),
            RowsOf("categories", R, n))
  BY <1>0, <1>2, <1>4, <1>5, SeedsRowLoop
<1>. QED  BY <1>3, <1>6, <1>7 DEF n

LEMMA SuppliersSeeds ==
    ASSUME NEW r, NEW b
    PROVE  Seeds(SeedSuppliers(r, b), r, b, {"suppliers"}, Own(r, b),
                 Given("suppliers", r, b, 1..Scale.suppliers))
<1> DEFINE n == Scale.suppliers
           x(s) == [id |-> Uuid("suppliers", r, b, s), name |-> <<b, s>>,
                    business_id |-> Uuid("businesses", r, b, 1)]
           R == [s \in 1..n |-> x(s)]
<1>0. n \in Nat \ {0} /\ "suppliers" \in DroppedTables
  BY ScaleAssumption DEF ScaleFields, DroppedTables
<1>1. ASSUME NEW s PROVE SeededRow("suppliers", x(s), r, b) /\ x(s).id = Uuid("suppliers", r, b, s)
  BY ColumnsOf DEF SeededRow, IsRow, WellKeyed, Uuid, Owner, Numbered
<1>2. ASSUME NEW s PROVE SeedingRow("suppliers", x(s), r, b, Own(r, b))
  <2>1. ASSUME NEW e \in ReferenceTable, e[1] = "suppliers"
        PROVE  <<e[3], x(s)[e[2]]>> \in Own(r, b)
    BY <2>1, ReferencesFrom DEF Own, Given
  <2> HIDE DEF x
  <2>. QED  BY <1>1, <2>1 DEF SeedingRow
<1>3. SeedSuppliers(r, b) = FlattenSeq(InsertsOfOne("suppliers", R, n))
  BY DEF SeedSuppliers, Loop, InsertsOfOne
<1> HIDE DEF x, n
<1>4. \A s \in 1..n : R[s] = x(s)
  OBVIOUS
<1>5. \A i \in 1..n : \A j \in 1..(i - 1) : R[j].id # R[i].id
  <2>1. ASSUME NEW i \in 1..n, NEW j \in 1..(i - 1) PROVE R[j].id # R[i].id
    <3>1. j \in 1..n /\ j # i
      BY <1>0
    <3>2. R[j].id = Uuid("suppliers", r, b, j) /\ R[i].id = Uuid("suppliers", r, b, i)
      BY <1>1, <1>4, <3>1
    <3>. QED  BY <3>1, <3>2 DEF Uuid
  <2>. QED  BY <2>1
<1>6. RowsOf("suppliers", R, n) = Given("suppliers", r, b, 1..n)
  BY <1>1, <1>4 DEF Given, RowsOf
<1> HIDE DEF R
<1>7. Seeds(FlattenSeq(InsertsOfOne("suppliers", R, n)), r, b, {"suppliers"}, Own(r, b),
            RowsOf("suppliers", R, n))
  BY <1>0, <1>2, <1>4, <1>5, SeedsRowLoop
<1>. QED  BY <1>3, <1>6, <1>7 DEF n

\* A product is of some category.
LEMMA ProductsSeeds ==
    ASSUME NEW r, NEW b
    PROVE  Seeds(SeedProducts(r, b), r, b, {"products"},
                 Own(r, b) \cup Given("categories", r, b, 1..Scale.categories),
                 Given("products", r, b, 1..Scale.products))
<1> DEFINE n == Scale.products
           m == Scale.categories
           G == Own(r, b) \cup Given("categories", r, b, 1..m)
           x(p, c) == [id |-> Uuid("products", r, b, p), name |-> p, images |-> p,
                       sku |-> <<b, p>>, selling_price |-> p,
                       category_id |-> Uuid("categories", r, b, c),
                       business_id |-> Uuid("businesses", r, b, 1)]
           A == [p \in 1..n |-> {{x(p, c)} : c \in 1..m}]
           V == [p \in 1..n |-> {<<"products", Uuid("products", r, b, p)>>}]
<1>0. n \in Nat \ {0} /\ m \in Nat \ {0} /\ "products" \in DroppedTables
  BY ScaleAssumption DEF ScaleFields, DroppedTables
<1>1. ASSUME NEW p, NEW c
      PROVE  SeededRow("products", x(p, c), r, b) /\ x(p, c).id = Uuid("products", r, b, p)
  BY ColumnsOf DEF SeededRow, IsRow, WellKeyed, Uuid, Owner, Numbered
<1>2. ASSUME NEW p, NEW c \in 1..m PROVE SeedingRow("products", x(p, c), r, b, G)
  <2>1. ASSUME NEW e \in ReferenceTable, e[1] = "products"
        PROVE  <<e[3], x(p, c)[e[2]]>> \in G
    <3>1. /\ x(p, c).category_id = Uuid("categories", r, b, c)
          /\ x(p, c).business_id = Uuid("businesses", r, b, 1)
      OBVIOUS
    <3>2. \/ e[2] = "business_id" /\ e[3] = "businesses"
          \/ e[2] = "category_id" /\ e[3] = "categories"
      BY <2>1, ReferencesFrom
    <3> HIDE DEF x, m
    <3>. QED  BY <3>1, <3>2 DEF Own, Given
  <2> HIDE DEF x, G
  <2>. QED  BY <1>1, <2>1 DEF SeedingRow
<1>3. SeedProducts(r, b) = FlattenSeq(Inserts("products", A, FALSE, n))
  BY DEF SeedProducts, Loop, Inserts, InsertOf, InsertStatement, Insert
<1> HIDE DEF x, n, m, G
<1>4. ASSUME NEW p \in 1..n, NEW new \in A[p]
      PROVE  \E c \in 1..m : new = {x(p, c)}
  OBVIOUS
<1>5. ASSUME NEW p \in 1..n PROVE SeedingRows("products", A[p], r, b, G, V[p])
  <2>1. ASSUME NEW new \in A[p]
        PROVE  /\ \A y \in new : SeedingRow("products", y, r, b, G)
               /\ \A y, z \in new : y.id = z.id => y = z
               /\ \A w \in V[p] : \E y \in new : w = <<"products", y.id>>
    <3>1. PICK c \in 1..m : new = {x(p, c)}
      BY <1>4
    <3>. QED  BY <1>1, <1>2, <3>1
  <2> HIDE DEF A, V
  <2>. QED  BY <2>1 DEF SeedingRows
<1>6. \A i \in 1..n : \A j \in 1..(i - 1) :
          \A old \in A[j], new \in A[i] : \A y \in old, z \in new : y.id # z.id
  <2>1. ASSUME NEW i \in 1..n, NEW j \in 1..(i - 1),
               NEW old \in A[j], NEW new \in A[i], NEW y \in old, NEW z \in new
        PROVE  y.id # z.id
    <3>1. j \in 1..n /\ j # i
      BY <1>0
    <3>2. PICK c \in 1..m : old = {x(j, c)}
      BY <1>4, <3>1
    <3>3. PICK d \in 1..m : new = {x(i, d)}
      BY <1>4
    <3>4. y.id = Uuid("products", r, b, j) /\ z.id = Uuid("products", r, b, i)
      BY <1>1, <3>2, <3>3
    <3>. QED  BY <3>1, <3>4 DEF Uuid
  <2>. QED  BY <2>1
<1>7. AllOf(V, n) = Given("products", r, b, 1..n)
  BY DEF AllOf, Given
<1> HIDE DEF A, V
<1>8. Seeds(FlattenSeq(Inserts("products", A, FALSE, n)), r, b, {"products"}, G, AllOf(V, n))
  BY <1>0, <1>5, <1>6, SeedsInsertLoop
<1>. QED  BY <1>3, <1>7, <1>8 DEF n, m, G

\* The suppliers of a product.
LEMMA SourcesSeeds ==
    ASSUME NEW r, NEW b
    PROVE  Seeds(SeedSources(r, b), r, b, {"product_sources"},
                 Own(r, b) \cup Given("products", r, b, 1..Scale.products)
                     \cup Given("suppliers", r, b, 1..Scale.suppliers), {})
<1> DEFINE n == Scale.products
           m == Scale.suppliers
           G == Own(r, b) \cup Given("products", r, b, 1..n)
                    \cup Given("suppliers", r, b, 1..m)
           x(p, s) == [id |-> Uuid("product_sources", r, b, <<p, s>>),
                       product_id |-> Uuid("products", r, b, p),
                       supplier_id |-> Uuid("suppliers", r, b, s),
                       business_id |-> Uuid("businesses", r, b, 1)]
           choices == {y \in SUBSET (1..m) : Cardinality(y) \in 1..3}
           A == [p \in 1..n |-> {{x(p, s) : s \in chosen} : chosen \in choices}]
           V == [p \in 1..n |-> {}]
<1>0. n \in Nat \ {0} /\ m \in Nat \ {0} /\ "product_sources" \in DroppedTables
  BY ScaleAssumption DEF ScaleFields, DroppedTables
<1>1. ASSUME NEW p, NEW s
      PROVE  /\ SeededRow("product_sources", x(p, s), r, b)
             /\ x(p, s).id = Uuid("product_sources", r, b, <<p, s>>)
  BY ColumnsOf DEF SeededRow, IsRow, WellKeyed, Uuid
<1>2. ASSUME NEW p \in 1..n, NEW s \in 1..m
      PROVE  SeedingRow("product_sources", x(p, s), r, b, G)
  <2>1. ASSUME NEW e \in ReferenceTable, e[1] = "product_sources"
        PROVE  <<e[3], x(p, s)[e[2]]>> \in G
    <3>1. /\ x(p, s).product_id = Uuid("products", r, b, p)
          /\ x(p, s).supplier_id = Uuid("suppliers", r, b, s)
          /\ x(p, s).business_id = Uuid("businesses", r, b, 1)
      OBVIOUS
    <3>2. \/ e[2] = "business_id" /\ e[3] = "businesses"
          \/ e[2] = "product_id" /\ e[3] = "products"
          \/ e[2] = "supplier_id" /\ e[3] = "suppliers"
      BY <2>1, ReferencesFrom
    <3> HIDE DEF x, n, m
    <3>. QED  BY <3>1, <3>2 DEF Own, Given
  <2> HIDE DEF x, G
  <2>. QED  BY <1>1, <2>1 DEF SeedingRow
<1>3. SeedSources(r, b) = FlattenSeq(Inserts("product_sources", A, FALSE, n))
  BY DEF SeedSources, Loop, Inserts, InsertOf, InsertStatement, Insert
<1>4. ASSUME NEW chosen \in choices PROVE chosen \subseteq 1..m
  OBVIOUS
<1> HIDE DEF x, n, m, G, choices
<1>5. ASSUME NEW p \in 1..n, NEW new \in A[p], NEW y \in new
      PROVE  \E s \in 1..m : y = x(p, s)
  <2>1. PICK chosen \in choices : new = {x(p, s) : s \in chosen}
    OBVIOUS
  <2>. QED  BY <1>4, <2>1
<1>6. ASSUME NEW p \in 1..n PROVE SeedingRows("product_sources", A[p], r, b, G, V[p])
  <2>1. ASSUME NEW new \in A[p], NEW y \in new, NEW z \in new
        PROVE  SeedingRow("product_sources", y, r, b, G) /\ (y.id = z.id => y = z)
    <3>1. PICK s \in 1..m : y = x(p, s)
      BY <1>5
    <3>2. PICK u \in 1..m : z = x(p, u)
      BY <1>5
    <3>3. y.id = z.id => s = u
      BY <1>1, <3>1, <3>2 DEF Uuid
    <3>. QED  BY <1>2, <3>1, <3>2, <3>3
  <2>2. V[p] = {}
    OBVIOUS
  <2> HIDE DEF A, V
  <2>. QED  BY <2>1, <2>2 DEF SeedingRows
<1>7. \A i \in 1..n : \A j \in 1..(i - 1) :
          \A old \in A[j], new \in A[i] : \A y \in old, z \in new : y.id # z.id
  <2>1. ASSUME NEW i \in 1..n, NEW j \in 1..(i - 1),
               NEW old \in A[j], NEW new \in A[i], NEW y \in old, NEW z \in new
        PROVE  y.id # z.id
    <3>1. j \in 1..n /\ j # i
      BY <1>0
    <3>2. PICK c \in 1..m : y = x(j, c)
      BY <1>5, <3>1
    <3>3. PICK d \in 1..m : z = x(i, d)
      BY <1>5
    <3>. QED  BY <1>1, <3>1, <3>2, <3>3 DEF Uuid
  <2>. QED  BY <2>1
<1>8. AllOf(V, n) = {}
  BY DEF AllOf
<1> HIDE DEF A, V
<1>9. Seeds(FlattenSeq(Inserts("product_sources", A, FALSE, n)), r, b,
            {"product_sources"}, G, AllOf(V, n))
  BY <1>0, <1>6, <1>7, SeedsInsertLoop
<1>. QED  BY <1>3, <1>8, <1>9 DEF n, m, G

\* Permissions and roles that are not there yet.
LEMMA PermissionsAndRolesSeeds ==
    ASSUME NEW r, NEW b
    PROVE  Seeds(SeedPermissionsAndRoles(r, b), r, b,
                 {"permissions", "roles", "role_permissions"}, Own(r, b),
                 Given("roles", r, b, {RoleNames[i] : i \in 1..Len(RoleNames)}))
<1> DEFINE n == Len(RoleNames)
           names == {RoleNames[i] : i \in 1..n}
           P == Given("permissions", 0, NONE, PermissionNames)
           common == {[id |-> PermissionId(p), name |-> p] : p \in PermissionNames}
           first == InsertMissing("permissions", common)
           role(m) == [id |-> RoleId(r, b, m), name |-> m,
                       business_id |-> Uuid("businesses", r, b, 1)]
           mayDo(m, p) == [id |-> Uuid("role_permissions", r, b, <<m, p>>),
                           role_id |-> RoleId(r, b, m), permission_id |-> PermissionId(p)]
           permitted(m) == {mayDo(m, p) : p \in PermissionsOf[m]}
           body(m) == InsertMissing("roles", {role(m)}) \o
                      InsertMissing("role_permissions", permitted(m))
           q == [i \in 1..n |-> body(RoleNames[i])]
           R(m) == {<<"roles", Uuid("roles", r, b, m)>>}
           V == [i \in 1..n |-> R(RoleNames[i])]
           G == Own(r, b) \cup P
           T == {"roles", "role_permissions"}
<1>0. /\ n \in Nat \ {0} /\ T \subseteq DroppedTables /\ "permissions" \in DroppedTables
      /\ \A m \in names : PermissionsOf[m] \subseteq PermissionNames
  <2>1. Scale.users \in Nat \ {0} /\ n \in Nat /\ Scale.users <= n
    BY ScaleAssumption DEF ScaleFields
  <2>. QED  BY <2>1, ScaleAssumption DEF DroppedTables
<1>1. SeedPermissionsAndRoles(r, b) = first \o FlattenSeq(q)
  BY DEF SeedPermissionsAndRoles, Loop
<1>2. Seeds(first, r, b, {"permissions"}, Own(r, b), P)
  <2> DEFINE alternatives == {common}
  <2>1. SeedingRows("permissions", alternatives, r, b, Own(r, b), P)
    <3>1. ASSUME NEW x \in common
          PROVE  SeedingRow("permissions", x, r, b, Own(r, b))
      <4>1. PICK p \in PermissionNames : x = [id |-> PermissionId(p), name |-> p]
        OBVIOUS
      <4>. QED  BY <4>1, ColumnsOf, ReferencesFrom
           DEF SeedingRow, SeededRow, IsRow, WellKeyed, PermissionId, Uuid
    <3>2. ASSUME NEW x \in common, NEW y \in common, x.id = y.id PROVE x = y
      <4>1. PICK p \in PermissionNames : x = [id |-> PermissionId(p), name |-> p]
        OBVIOUS
      <4>2. PICK u \in PermissionNames : y = [id |-> PermissionId(u), name |-> u]
        OBVIOUS
      <4>3. x.id = PermissionId(p) /\ y.id = PermissionId(u)
        BY <4>1, <4>2
      <4>4. p = u
        <5>1. <<"permissions", 0, NONE, p>> = <<"permissions", 0, NONE, u>>
          BY <3>2, <4>3 DEF PermissionId, Uuid
        <5>. QED  BY <5>1
      <4>. QED  BY <4>1, <4>2, <4>4
    <3>3. ASSUME NEW w \in P PROVE \E x \in common : w = <<"permissions", x.id>>
      <4>1. PICK p \in PermissionNames : w = <<"permissions", PermissionId(p)>>
        BY DEF Given, PermissionId
      <4> DEFINE x == [id |-> PermissionId(p), name |-> p]
      <4>2. x \in common /\ x.id = PermissionId(p)
        OBVIOUS
      <4>. QED  BY <4>1, <4>2
    <3> HIDE DEF common, P
    <3>. QED  BY <3>1, <3>2, <3>3 DEF SeedingRows
  <2>2. first = InsertOf("permissions", alternatives, TRUE)
    BY DEF InsertMissing, InsertOf, InsertStatement
  <2> HIDE DEF first, alternatives, P
  <2>3. Seeds(InsertOf("permissions", alternatives, TRUE), r, b, {"permissions"}, Own(r, b), P)
    BY <1>0, <2>1, SeedsInsert
  <2>. QED  BY <2>2, <2>3
<1>3. ASSUME NEW m \in names
      PROVE  /\ Seeds(body(m), r, b, T, G, R(m))
             /\ \A s \in Elements(body(m)) : s.do = "insert" /\ s.missing
  <2> DEFINE A1 == {{role(m)}}
             A2 == {permitted(m)}
             p1 == InsertOf("roles", A1, TRUE)
             p2 == InsertOf("role_permissions", A2, TRUE)
             s1 == InsertStatement("roles", A1, TRUE)
             s2 == InsertStatement("role_permissions", A2, TRUE)
  <2>1. SeedingRows("roles", A1, r, b, G, R(m))
    <3>1. SeededRow("roles", role(m), r, b) /\ role(m).id = Uuid("roles", r, b, m)
      BY ColumnsOf DEF SeededRow, IsRow, WellKeyed, RoleId, Uuid, Owner
    <3>2. ASSUME NEW e \in ReferenceTable, e[1] = "roles", e[2] \in DOMAIN role(m)
          PROVE  FALSE
      BY <3>2, ReferencesFrom
    <3> HIDE DEF role
    <3>3. SeedingRow("roles", role(m), r, b, G)
      BY <3>1, <3>2 DEF SeedingRow
    <3>. QED  BY <3>1, <3>3 DEF SeedingRows
  <2>2. SeedingRows("role_permissions", A2, r, b, G \cup R(m), {})
    <3>1. ASSUME NEW p \in PermissionsOf[m]
          PROVE  /\ SeedingRow("role_permissions", mayDo(m, p), r, b, G \cup R(m))
                 /\ mayDo(m, p).id = Uuid("role_permissions", r, b, <<m, p>>)
      <4>1. /\ SeededRow("role_permissions", mayDo(m, p), r, b)
            /\ mayDo(m, p).id = Uuid("role_permissions", r, b, <<m, p>>)
        BY ColumnsOf DEF SeededRow, IsRow, WellKeyed, Uuid
      <4>2. ASSUME NEW e \in ReferenceTable, e[1] = "role_permissions"
            PROVE  <<e[3], mayDo(m, p)[e[2]]>> \in G \cup R(m)
        <5>1. /\ mayDo(m, p).role_id = Uuid("roles", r, b, m)
              /\ mayDo(m, p).permission_id = Uuid("permissions", 0, NONE, p)
          BY DEF RoleId, PermissionId
        <5>2. \/ e[2] = "role_id" /\ e[3] = "roles"
              \/ e[2] = "permission_id" /\ e[3] = "permissions"
          BY <4>2, ReferencesFrom
        <5>3. p \in PermissionNames
          BY <1>0
        <5> HIDE DEF mayDo
        <5>. QED  BY <5>1, <5>2, <5>3 DEF Given
      <4> HIDE DEF mayDo, G, R
      <4>. QED  BY <4>1, <4>2 DEF SeedingRow
    <3> HIDE DEF mayDo, G, R
    <3>2. ASSUME NEW x \in permitted(m), NEW y \in permitted(m)
          PROVE  /\ SeedingRow("role_permissions", x, r, b, G \cup R(m))
                 /\ x.id = y.id => x = y
      <4>1. PICK p \in PermissionsOf[m] : x = mayDo(m, p)
        OBVIOUS
      <4>2. PICK u \in PermissionsOf[m] : y = mayDo(m, u)
        OBVIOUS
      <4>3. x.id = y.id => p = u
        BY <3>1, <4>1, <4>2 DEF Uuid
      <4>. QED  BY <3>1, <4>1, <4>2, <4>3
    <3> HIDE DEF permitted
    <3>. QED  BY <3>2 DEF SeedingRows
  <2>3. body(m) = p1 \o p2
    BY DEF InsertMissing, InsertOf, InsertStatement
  <2> HIDE DEF A1, A2, G, R
  <2>4. Seeds(p1, r, b, {"roles"}, G, R(m)) /\ Elements(p1) = {s1}
    BY <1>0, <2>1, SeedsInsert
  <2>5. /\ Seeds(p2, r, b, {"role_permissions"}, G \cup R(m), {})
        /\ Elements(p2) = {s2}
    BY <1>0, <2>2, SeedsInsert
  <2>6. s1.do = "insert" /\ s1.missing /\ s2.do = "insert" /\ s2.missing
    BY DEF InsertStatement
  <2> HIDE DEF p1, p2, s1, s2, body
  <2>7. Elements(p1 \o p2) = {s1, s2}
    BY <2>4, <2>5, ElementsConcat DEF Seeds
  <2>8. Seeds(p1 \o p2, r, b, {"roles"} \cup {"role_permissions"}, G, R(m) \cup {})
    BY <2>4, <2>5, SeedsConcat
  <2>9. {"roles"} \cup {"role_permissions"} = T /\ R(m) \cup {} = R(m)
    OBVIOUS
  <2>. QED  BY <2>3, <2>6, <2>7, <2>8, <2>9
<1> HIDE DEF body, R, G, first
<1>4. Seeds(FlattenSeq(q), r, b, T, G, AllOf(V, n))
  <2>1. \A i \in 1..n : /\ q[i] = body(RoleNames[i]) /\ V[i] = R(RoleNames[i])
                       /\ RoleNames[i] \in names
    OBVIOUS
  <2>2. q = [i \in 1..n |-> q[i]]
    OBVIOUS
  <2> HIDE DEF q, V, names, T, n
  <2>3. ASSUME NEW i \in 1..n
        PROVE  /\ Seeds(q[i], r, b, T, G, V[i])
               /\ \A s \in Elements(q[i]) : s.do = "insert" /\ s.missing
    BY <1>3, <2>1
  <2>4. Apart(q, n)
    BY <2>3 DEF Apart, Fresh
  <2>. QED  BY <1>0, <2>2, <2>3, <2>4, SeedsLoop
<1>5. AllOf(V, n) = Given("roles", r, b, names)
  BY DEF AllOf, Given, R
<1> HIDE DEF q, V, n, names
<1>6. G \subseteq Own(r, b) \cup P /\ {"permissions"} \cap T = {}
  BY DEF G
<1> HIDE DEF P, T
<1>7. Seeds(first \o FlattenSeq(q), r, b, {"permissions"} \cup T, Own(r, b),
            P \cup AllOf(V, n))
  BY <1>2, <1>4, <1>6, SeedsConcat
<1>8. Seeds(first \o FlattenSeq(q), r, b, {"permissions"} \cup T, Own(r, b),
            Given("roles", r, b, names))
  BY <1>5, <1>7 DEF Seeds
<1>9. {"permissions"} \cup T = {"permissions", "roles", "role_permissions"}
  BY DEF T
<1>. QED  BY <1>1, <1>8, <1>9 DEF names, n

\* One user for each of the first roles.
LEMMA UsersSeeds ==
    ASSUME NEW r, NEW b
    PROVE  Seeds(SeedUsers(r, b), r, b, {"users", "user_auth"},
                 Own(r, b)
                     \cup Given("roles", r, b, {RoleNames[i] : i \in 1..Len(RoleNames)})
                     \cup Given("stores", r, b, 1..Scale.stores),
                 Given("users", r, b, 1..Scale.users))
<1> DEFINE n == Scale.users
           names == {RoleNames[i] : i \in 1..Len(RoleNames)}
           stores == 1..Scale.stores
           G == Own(r, b) \cup Given("roles", r, b, names) \cup Given("stores", r, b, stores)
           user(u) == [id |-> Uuid("users", r, b, u), first_name |-> u,
                       last_name |-> u, company_email |-> <<b, u>>,
                       role_id |-> RoleId(r, b, RoleNames[u]),
                       store_id |-> Uuid("stores", r, b, 1),
                       business_id |-> Uuid("businesses", r, b, 1)]
           auth(u) == [id |-> Uuid("user_auth", r, b, u),
                       user_id |-> Uuid("users", r, b, u)]
           q == [u \in 1..n |-> InsertOne("users", user(u)) \o InsertOne("user_auth", auth(u))]
           V == [u \in 1..n |-> {<<"users", Uuid("users", r, b, u)>>}]
           T == {"users", "user_auth"}
<1>0. /\ n \in Nat \ {0} /\ n <= Len(RoleNames) /\ Len(RoleNames) \in Nat /\ 1 \in stores
      /\ "users" \in DroppedTables /\ "user_auth" \in DroppedTables
  BY ScaleAssumption DEF ScaleFields, DroppedTables
<1>1. SeedUsers(r, b) = FlattenSeq(q)
  BY DEF SeedUsers, Loop
<1>2. ASSUME NEW u \in 1..n
      PROVE  /\ SeedingRow("users", user(u), r, b, G)
             /\ user(u).id = Uuid("users", r, b, u)
  <2>1. SeededRow("users", user(u), r, b) /\ user(u).id = Uuid("users", r, b, u)
    BY ColumnsOf DEF SeededRow, IsRow, WellKeyed, Uuid, Owner, Numbered
  <2>2. ASSUME NEW e \in ReferenceTable, e[1] = "users"
        PROVE  <<e[3], user(u)[e[2]]>> \in G
    <3>1. /\ user(u).role_id = Uuid("roles", r, b, RoleNames[u])
          /\ user(u).store_id = Uuid("stores", r, b, 1)
          /\ user(u).business_id = Uuid("businesses", r, b, 1)
      BY DEF RoleId
    <3>2. \/ e[2] = "business_id" /\ e[3] = "businesses"
          \/ e[2] = "store_id" /\ e[3] = "stores"
          \/ e[2] = "role_id" /\ e[3] = "roles"
      BY <2>2, ReferencesFrom
    <3>3. u \in 1..Len(RoleNames)
      BY <1>0
    <3>4. RoleNames[u] \in names
      BY <3>3
    <3> HIDE DEF user, names, stores
    <3>. QED  BY <1>0, <3>1, <3>2, <3>4 DEF Own, Given
  <2> HIDE DEF user, G
  <2>. QED  BY <2>1, <2>2 DEF SeedingRow
<1>3. ASSUME NEW u \in 1..n
      PROVE  /\ SeedingRow("user_auth", auth(u), r, b, G \cup V[u])
             /\ auth(u).id = Uuid("user_auth", r, b, u)
  <2>1. SeededRow("user_auth", auth(u), r, b) /\ auth(u).id = Uuid("user_auth", r, b, u)
    BY ColumnsOf DEF SeededRow, IsRow, WellKeyed, Uuid
  <2>2. ASSUME NEW e \in ReferenceTable, e[1] = "user_auth"
        PROVE  <<e[3], auth(u)[e[2]]>> \in V[u]
    BY <2>2, ReferencesFrom
  <2> HIDE DEF auth, G, V
  <2>. QED  BY <2>1, <2>2 DEF SeedingRow
<1> HIDE DEF user, auth, G, n
<1>4. ASSUME NEW u \in 1..n
      PROVE  /\ Seeds(q[u], r, b, T, G, V[u])
             /\ Elements(q[u]) = {InsertStatement("users", {{user(u)}}, FALSE),
                                  InsertStatement("user_auth", {{auth(u)}}, FALSE)}
  <2> DEFINE p1 == InsertOne("users", user(u))
             p2 == InsertOne("user_auth", auth(u))
             s1 == InsertStatement("users", {{user(u)}}, FALSE)
             s2 == InsertStatement("user_auth", {{auth(u)}}, FALSE)
  <2>1. /\ Seeds(p1, r, b, {"users"}, G, {<<"users", user(u).id>>})
        /\ Elements(p1) = {s1}
    BY <1>0, <1>2, SeedsRow
  <2>2. /\ Seeds(p2, r, b, {"user_auth"}, G \cup V[u], {<<"user_auth", auth(u).id>>})
        /\ Elements(p2) = {s2}
    <3> HIDE DEF V
    <3>. QED  BY <1>0, <1>3, SeedsRow
  <2>3. V[u] = {<<"users", user(u).id>>}
    BY <1>2
  <2>4. q[u] = p1 \o p2
    OBVIOUS
  <2> HIDE DEF p1, p2, s1, s2, q, V
  <2>5. Seeds(p1 \o p2, r, b, {"users"} \cup {"user_auth"}, G,
              V[u] \cup {<<"user_auth", auth(u).id>>})
    BY <2>1, <2>2, <2>3, SeedsConcat
  <2>6. Elements(p1 \o p2) = {s1, s2}
    BY <2>1, <2>2, ElementsConcat DEF Seeds
  <2>7. Seeds(p1 \o p2, r, b, T, G, V[u])
    BY <2>5 DEF Seeds
  <2>. QED  BY <2>4, <2>6, <2>7 DEF s1, s2
<1>5. q = [u \in 1..n |-> q[u]]
  OBVIOUS
<1>6. AllOf(V, n) = Given("users", r, b, 1..n)
  BY DEF AllOf, Given
<1> HIDE DEF q, V, T
<1>7. ASSUME NEW u \in 1..n, NEW s \in Elements(q[u]), NEW w, Makes(s, w)
      PROVE  w[2][4] = u
  <2>0. user(u).id = Uuid("users", r, b, u) /\ auth(u).id = Uuid("user_auth", r, b, u)
    BY <1>2, <1>3
  <2>1. CASE s = InsertStatement("users", {{user(u)}}, FALSE)
    <3>1. w = <<"users", user(u).id>>
      BY <1>7, <2>1 DEF Makes, InsertStatement
    <3>. QED  BY <2>0, <3>1 DEF Uuid
  <2>2. CASE s = InsertStatement("user_auth", {{auth(u)}}, FALSE)
    <3>1. w = <<"user_auth", auth(u).id>>
      BY <1>7, <2>2 DEF Makes, InsertStatement
    <3>. QED  BY <2>0, <3>1 DEF Uuid
  <2>. QED  BY <1>4, <2>1, <2>2
<1>8. Apart(q, n)
  <2>1. ASSUME NEW i \in 1..n, NEW j \in 1..(i - 1), NEW s \in Elements(q[j]),
               NEW t \in Elements(q[i]), NEW w
        PROVE  ~ (Makes(s, w) /\ Fresh(t, w))
    <3>1. j \in 1..n /\ j # i
      BY <1>0
    <3>. QED  BY <1>7, <3>1 DEF Fresh
  <2>. QED  BY <2>1 DEF Apart
<1>9. Seeds(FlattenSeq(q), r, b, T, G, AllOf(V, n))
  BY <1>0, <1>4, <1>5, <1>8, SeedsLoop
<1>. QED  BY <1>1, <1>6, <1>9 DEF n, names, stores, G, T

\* Audit entries, of some user and store.
LEMMA AuditLogsSeeds ==
    ASSUME NEW r, NEW b
    PROVE  Seeds(SeedAuditLogs(r, b), r, b, {"audit_logs"},
                 Own(r, b) \cup Given("users", r, b, 1..Scale.users)
                     \cup Given("stores", r, b, 1..Scale.stores), {})
<1> DEFINE users == 1..Scale.users
           stores == 1..Scale.stores
           G == Own(r, b) \cup Given("users", r, b, users) \cup Given("stores", r, b, stores)
           x(u, s) == [id |-> Uuid("audit_logs", r, b, 1), action |-> 1, entity |-> 1,
                       entity_id |-> 1, user_id |-> Uuid("users", r, b, u),
                       store_id |-> Uuid("stores", r, b, s),
                       business_id |-> Uuid("businesses", r, b, 1)]
           A == {{x(u, s)} : u \in users, s \in stores}
<1>1. ASSUME NEW u \in users, NEW s \in stores PROVE SeedingRow("audit_logs", x(u, s), r, b, G)
  <2>1. SeededRow("audit_logs", x(u, s), r, b)
    BY ColumnsOf DEF SeededRow, IsRow, WellKeyed, Uuid
  <2>2. ASSUME NEW e \in ReferenceTable, e[1] = "audit_logs"
        PROVE  <<e[3], x(u, s)[e[2]]>> \in G
    <3>1. /\ x(u, s).user_id = Uuid("users", r, b, u)
          /\ x(u, s).store_id = Uuid("stores", r, b, s)
          /\ x(u, s).business_id = Uuid("businesses", r, b, 1)
      OBVIOUS
    <3>2. \/ e[2] = "business_id" /\ e[3] = "businesses"
          \/ e[2] = "store_id" /\ e[3] = "stores"
          \/ e[2] = "user_id" /\ e[3] = "users"
      BY <2>2, ReferencesFrom
    <3> HIDE DEF x, users, stores
    <3>. QED  BY <3>1, <3>2 DEF Own, Given
  <2> HIDE DEF x, G, users, stores
  <2>. QED  BY <2>1, <2>2 DEF SeedingRow
<1>2. SeedAuditLogs(r, b) = InsertOf("audit_logs", A, FALSE)
  BY DEF SeedAuditLogs, InsertOf, InsertStatement, Insert
<1>3. "audit_logs" \in DroppedTables
  BY DEF DroppedTables
<1> HIDE DEF x, users, stores, G
<1>4. SeedingRows("audit_logs", A, r, b, G, {})
  <2>1. ASSUME NEW new \in A
        PROVE  /\ \A y \in new : SeedingRow("audit_logs", y, r, b, G)
               /\ \A y, z \in new : y.id = z.id => y = z
    <3>1. PICK u \in users : \E s \in stores : new = {x(u, s)}
      OBVIOUS
    <3>2. PICK s \in stores : new = {x(u, s)}
      BY <3>1
    <3>. QED  BY <1>1, <3>2
  <2> HIDE DEF A
  <2>. QED  BY <2>1 DEF SeedingRows
<1> HIDE DEF A
<1>5. Seeds(InsertOf("audit_logs", A, FALSE), r, b, {"audit_logs"}, G, {})
  BY <1>3, <1>4, SeedsInsert
<1>. QED  BY <1>2, <1>5 DEF G, users, stores

\* Nothing is made but what is in V.
Only(p, V) == \A s \in Elements(p) : \A w : Makes(s, w) => w \in V

LEMMA OneElement ==
    ASSUME NEW s
    PROVE  IsSequence(<<s>>) /\ Elements(<<s>>) = {s}
<1> DEFINE p == <<s>>
<1>1. p[1] = s /\ Len(p) = 1 /\ p = [i \in 1..1 |-> p[i]]
  OBVIOUS
<1> HIDE DEF p
<1>2. Elements(p) = {s}
  BY <1>1 DEF Elements
<1>3. IsSequence(p)
  BY <1>1, FunctionIsSequence
<1>. QED  BY <1>2, <1>3 DEF p

LEMMA OnlyInsert ==
    ASSUME NEW t, NEW A, NEW missing, NEW V,
           \A new \in A : \A x \in new : <<t, x.id>> \in V
    PROVE  Only(InsertOf(t, A, missing), V)
<1> DEFINE s == InsertStatement(t, A, missing)
<1>1. s.do = "insert" /\ s.table = t /\ s.alternatives = A
  BY DEF InsertStatement
<1>2. Elements(InsertOf(t, A, missing)) = {s}
  BY OneElement DEF InsertOf
<1> HIDE DEF s
<1>. QED  BY <1>1, <1>2 DEF Only, Makes

LEMMA OnlyRow ==
    ASSUME NEW t, NEW x
    PROVE  Only(InsertOne(t, x), {<<t, x.id>>})
<1>1. InsertOne(t, x) = InsertOf(t, {{x}}, FALSE)
  BY DEF InsertOne, Insert, InsertOf, InsertStatement
<1> DEFINE A == {{x}}
           V == {<<t, x.id>>}
<1>2. \A new \in A : \A y \in new : <<t, y.id>> \in V
  OBVIOUS
<1> HIDE DEF A, V
<1>3. Only(InsertOf(t, A, FALSE), V)
  BY <1>2, OnlyInsert
<1>. QED  BY <1>1, <1>3 DEF A, V

LEMMA OnlyConcat ==
    ASSUME NEW p, NEW q, IsSequence(p), IsSequence(q), NEW V, NEW W, Only(p, V), Only(q, W)
    PROVE  Only(p \o q, V \cup W)
<1>1. Elements(p \o q) = Elements(p) \cup Elements(q)
  BY ElementsConcat
<1>. QED  BY <1>1 DEF Only

\* Iterations that make different things are apart.
LEMMA ApartByWhatTheyMake ==
    ASSUME NEW n \in Nat, NEW q, NEW W, \A i \in 1..n : Only(q[i], W[i]),
           \A i \in 1..n : \A j \in 1..n : j # i => W[j] \cap W[i] = {}
    PROVE  Apart(q, n)
<1>1. ASSUME NEW i \in 1..n, NEW j \in 1..(i - 1), NEW s \in Elements(q[j]),
             NEW t \in Elements(q[i]), NEW w, Makes(s, w), Fresh(t, w)
      PROVE  FALSE
  <2>1. j \in 1..n /\ j # i
    OBVIOUS
  <2>2. w \in W[j]
    BY <1>1, <2>1 DEF Only
  <2>3. w \in W[i]
    BY <1>1 DEF Only, Fresh
  <2>. QED  BY <2>1, <2>2, <2>3
<1>. QED  BY <1>1 DEF Apart

\* A loop over iterations that make different things.
LEMMA SeedsOnlyLoop ==
    ASSUME NEW n \in Nat \ {0}, NEW q, q = [i \in 1..n |-> q[i]],
           NEW r, NEW b, NEW T, NEW G, NEW V, NEW W,
           \A i \in 1..n : Seeds(q[i], r, b, T, G, V[i]) /\ Only(q[i], W[i]),
           \A i \in 1..n : \A j \in 1..n : j # i => W[j] \cap W[i] = {}
    PROVE  /\ Seeds(FlattenSeq(q), r, b, T, G, AllOf(V, n))
           /\ Only(FlattenSeq(q), AllOf(W, n))
<1>1. Apart(q, n)
  BY ApartByWhatTheyMake
<1>2. Seeds(FlattenSeq(q), r, b, T, G, AllOf(V, n))
  BY <1>1, SeedsLoop
<1>3. \A i \in 1..n : IsSequence(q[i]) /\ InOrder(q[i], G)
  BY DEF Seeds
<1>4. Elements(FlattenSeq(q)) = UNION {Elements(q[i]) : i \in 1..n}
  BY <1>1, <1>3, LoopInOrder DEF Apart
<1> DEFINE p == FlattenSeq(q)
<1> HIDE DEF p
<1>5. ASSUME NEW s \in Elements(p), NEW w, Makes(s, w) PROVE w \in AllOf(W, n)
  <2>1. PICK i \in 1..n : s \in Elements(q[i])
    BY <1>4 DEF p
  <2>2. w \in W[i]
    BY <1>5, <2>1 DEF Only
  <2>. QED  BY <2>2 DEF AllOf
<1>6. Only(p, AllOf(W, n))
  BY <1>5 DEF Only
<1>. QED  BY <1>2, <1>6 DEF p

LEMMA SeedsOnlyRowLoop ==
    ASSUME NEW t \in DroppedTables, t # "permissions", NEW n \in Nat \ {0},
           NEW R, NEW r, NEW b, NEW G,
           \A i \in 1..n : SeedingRow(t, R[i], r, b, G),
           \A i \in 1..n : \A j \in 1..n : j # i => R[j].id # R[i].id
    PROVE  /\ Seeds(FlattenSeq(InsertsOfOne(t, R, n)), r, b, {t}, G, RowsOf(t, R, n))
           /\ Only(FlattenSeq(InsertsOfOne(t, R, n)), RowsOf(t, R, n))
<1> DEFINE q == InsertsOfOne(t, R, n)
           V == [i \in 1..n |-> {<<t, R[i].id>>}]
<1>1. /\ q = [i \in 1..n |-> q[i]]
      /\ \A i \in 1..n : q[i] = InsertOne(t, R[i]) /\ V[i] = {<<t, R[i].id>>}
  BY DEF InsertsOfOne
<1>2. RowsOf(t, R, n) = AllOf(V, n)
  BY DEF RowsOf, AllOf
<1> HIDE DEF q, V
<1>3. ASSUME NEW i \in 1..n PROVE Seeds(q[i], r, b, {t}, G, V[i]) /\ Only(q[i], V[i])
  <2> DEFINE x == R[i]
  <2>1. SeedingRow(t, x, r, b, G)
    OBVIOUS
  <2> HIDE DEF x
  <2>2. Seeds(InsertOne(t, x), r, b, {t}, G, {<<t, x.id>>})
    BY <2>1, SeedsRow
  <2>3. Only(InsertOne(t, x), {<<t, x.id>>})
    BY OnlyRow
  <2>. QED  BY <1>1, <2>2, <2>3 DEF x
<1>4. \A i \in 1..n : \A j \in 1..n : j # i => V[j] \cap V[i] = {}
  BY <1>1
<1>5. /\ Seeds(FlattenSeq(q), r, b, {t}, G, AllOf(V, n))
      /\ Only(FlattenSeq(q), AllOf(V, n))
  BY <1>1, <1>3, <1>4, SeedsOnlyLoop
<1>. QED  BY <1>2, <1>5 DEF q

\* Orders and their items, one of every product.
LEMMA OrdersSeeds ==
    ASSUME NEW r, NEW b
    PROVE  Seeds(SeedOrders(r, b), r, b, {"purchase_orders", "purchase_order_items"},
                 Own(r, b) \cup Given("suppliers", r, b, 1..Scale.suppliers)
                     \cup Given("stores", r, b, 1..Scale.stores)
                     \cup Given("users", r, b, 1..Scale.users)
                     \cup Given("products", r, b, 1..Scale.products), {})
<1> DEFINE n == Scale.orders
           m == Scale.products
           suppliers == 1..Scale.suppliers
           stores == 1..Scale.stores
           users == 1..Scale.users
           G == Own(r, b) \cup Given("suppliers", r, b, suppliers)
                    \cup Given("stores", r, b, stores) \cup Given("users", r, b, users)
                    \cup Given("products", r, b, 1..m)
           approvers == {NONE, Uuid("users", r, b, 1)}
           order(o, s, st, a) ==
               [id |-> Uuid("purchase_orders", r, b, o), po_number |-> <<b, o>>,
                supplier_id |-> Uuid("suppliers", r, b, s),
                store_id |-> Uuid("stores", r, b, st),
                created_by_id |-> Uuid("users", r, b, 1),
                approved_by_id |-> a,
                business_id |-> Uuid("businesses", r, b, 1)]
           item(o, p) ==
               [id |-> Uuid("purchase_order_items", r, b, <<o, p>>),
                purchase_order_id |-> Uuid("purchase_orders", r, b, o),
                product_id |-> Uuid("products", r, b, p),
                quantity_requested |-> p, quantity_received |-> p,
                estimated_unit_cost |-> p, total_cost |-> p]
           A(o) == {{order(o, s, st, a)} : s \in suppliers, st \in stores, a \in approvers}
           R(o) == [p \in 1..m |-> item(o, p)]
           header(o) == <<Insert("purchase_orders", A(o))>>
           items(o) == Loop(m, LAMBDA p : InsertOne("purchase_order_items", item(o, p)))
           q == [o \in 1..n |-> header(o) \o items(o)]
           H(o) == {<<"purchase_orders", Uuid("purchase_orders", r, b, o)>>}
           W == [o \in 1..n |-> H(o) \cup RowsOf("purchase_order_items", R(o), m)]
           V == [o \in 1..n |-> {}]
           T == {"purchase_orders", "purchase_order_items"}
<1>0. /\ n \in Nat \ {0} /\ m \in Nat \ {0} /\ 1 \in users
      /\ "purchase_orders" \in DroppedTables /\ "purchase_order_items" \in DroppedTables
  BY ScaleAssumption DEF ScaleFields, DroppedTables
<1>1. SeedOrders(r, b) = FlattenSeq(q)
  BY DEF SeedOrders, Loop
<1>2. ASSUME NEW o PROVE items(o) = FlattenSeq(InsertsOfOne("purchase_order_items", R(o), m))
  BY DEF Loop, InsertsOfOne
<1>3. ASSUME NEW o PROVE header(o) = InsertOf("purchase_orders", A(o), FALSE)
  BY DEF InsertOf, InsertStatement, Insert
<1> HIDE DEF header, items
<1>4. ASSUME NEW o, NEW s \in suppliers, NEW st \in stores, NEW a \in approvers
      PROVE  /\ SeedingRow("purchase_orders", order(o, s, st, a), r, b, G)
             /\ order(o, s, st, a).id = Uuid("purchase_orders", r, b, o)
  <2>1. /\ SeededRow("purchase_orders", order(o, s, st, a), r, b)
        /\ order(o, s, st, a).id = Uuid("purchase_orders", r, b, o)
    BY ColumnsOf DEF SeededRow, IsRow, WellKeyed, Uuid, Numbered
  <2>2. ASSUME NEW e \in ReferenceTable, e[1] = "purchase_orders",
               order(o, s, st, a)[e[2]] # NONE
        PROVE  <<e[3], order(o, s, st, a)[e[2]]>> \in G
    <3>1. /\ order(o, s, st, a).supplier_id = Uuid("suppliers", r, b, s)
          /\ order(o, s, st, a).store_id = Uuid("stores", r, b, st)
          /\ order(o, s, st, a).created_by_id = Uuid("users", r, b, 1)
          /\ order(o, s, st, a).approved_by_id = a
      OBVIOUS
    <3>2. \/ e[2] = "store_id" /\ e[3] = "stores"
          \/ e[2] = "supplier_id" /\ e[3] = "suppliers"
          \/ e[2] = "created_by_id" /\ e[3] = "users"
          \/ e[2] = "approved_by_id" /\ e[3] = "users"
      BY <2>2, ReferencesFrom
    <3>3. a = NONE \/ a = Uuid("users", r, b, 1)
      OBVIOUS
    <3> HIDE DEF order, suppliers, stores, users, m
    <3>. QED  BY <1>0, <2>2, <3>1, <3>2, <3>3 DEF Given
  <2> HIDE DEF order, G
  <2>. QED  BY <2>1, <2>2 DEF SeedingRow
<1>5. ASSUME NEW o, NEW p \in 1..m
      PROVE  /\ SeedingRow("purchase_order_items", item(o, p), r, b, G \cup H(o))
             /\ item(o, p).id = Uuid("purchase_order_items", r, b, <<o, p>>)
  <2>1. /\ SeededRow("purchase_order_items", item(o, p), r, b)
        /\ item(o, p).id = Uuid("purchase_order_items", r, b, <<o, p>>)
    BY ColumnsOf DEF SeededRow, IsRow, WellKeyed, Uuid
  <2>2. ASSUME NEW e \in ReferenceTable, e[1] = "purchase_order_items"
        PROVE  <<e[3], item(o, p)[e[2]]>> \in G \cup H(o)
    <3>1. /\ item(o, p).purchase_order_id = Uuid("purchase_orders", r, b, o)
          /\ item(o, p).product_id = Uuid("products", r, b, p)
      OBVIOUS
    <3>2. \/ e[2] = "purchase_order_id" /\ e[3] = "purchase_orders"
          \/ e[2] = "product_id" /\ e[3] = "products"
      BY <2>2, ReferencesFrom
    <3> HIDE DEF item, suppliers, stores, users, m
    <3>. QED  BY <3>1, <3>2 DEF Given
  <2> HIDE DEF item, G, H
  <2>. QED  BY <2>1, <2>2 DEF SeedingRow
<1> HIDE DEF order, item, suppliers, stores, users, approvers, G, m, n
<1>6. ASSUME NEW o, NEW p \in 1..m PROVE R(o)[p] = item(o, p)
  OBVIOUS
<1>7. ASSUME NEW o, NEW new \in A(o)
       PROVE  \E s \in suppliers, st \in stores, a \in approvers : new = {order(o, s, st, a)}
  OBVIOUS
<1> HIDE DEF R, A
<1>8. ASSUME NEW o
      PROVE  /\ Seeds(header(o), r, b, {"purchase_orders"}, G, H(o))
             /\ Only(header(o), H(o))
  <2> DEFINE B == A(o)
  <2>1. ASSUME NEW new \in B
        PROVE  \E s \in suppliers, st \in stores, a \in approvers : new = {order(o, s, st, a)}
    BY <1>7
  <2> HIDE DEF B
  <2>2. ASSUME NEW new \in B
        PROVE  /\ \A x \in new : SeedingRow("purchase_orders", x, r, b, G)
               /\ \A x, y \in new : x.id = y.id => x = y
               /\ \A w \in H(o) : \E x \in new : w = <<"purchase_orders", x.id>>
               /\ \A x \in new : <<"purchase_orders", x.id>> \in H(o)
    <3>1. PICK s \in suppliers, st \in stores, a \in approvers : new = {order(o, s, st, a)}
      BY <2>1
    <3>. QED  BY <1>4, <3>1
  <2>3. SeedingRows("purchase_orders", B, r, b, G, H(o))
    BY <2>2 DEF SeedingRows
  <2> HIDE DEF H
  <2>4. Seeds(InsertOf("purchase_orders", B, FALSE), r, b, {"purchase_orders"}, G, H(o))
    BY <1>0, <2>3, SeedsInsert
  <2>5. Only(InsertOf("purchase_orders", B, FALSE), H(o))
    BY <2>2, OnlyInsert
  <2>. QED  BY <1>3, <2>4, <2>5 DEF B
<1>9. ASSUME NEW o
      PROVE  /\ Seeds(items(o), r, b, {"purchase_order_items"}, G \cup H(o),
                      RowsOf("purchase_order_items", R(o), m))
             /\ Only(items(o), RowsOf("purchase_order_items", R(o), m))
  <2> DEFINE S == R(o)
             F == G \cup H(o)
  <2>1. ASSUME NEW p \in 1..m
        PROVE  /\ SeedingRow("purchase_order_items", S[p], r, b, F)
               /\ S[p].id = Uuid("purchase_order_items", r, b, <<o, p>>)
    BY <1>5, <1>6
  <2> HIDE DEF S, F
  <2>2. ASSUME NEW i \in 1..m, NEW j \in 1..m, j # i PROVE S[j].id # S[i].id
    BY <2>1, <2>2 DEF Uuid
  <2>3. /\ Seeds(FlattenSeq(InsertsOfOne("purchase_order_items", S, m)), r, b,
                 {"purchase_order_items"}, F, RowsOf("purchase_order_items", S, m))
        /\ Only(FlattenSeq(InsertsOfOne("purchase_order_items", S, m)),
                RowsOf("purchase_order_items", S, m))
    BY <1>0, <2>1, <2>2, SeedsOnlyRowLoop
  <2>. QED  BY <1>2, <2>3 DEF S, F
<1>10. q = [o \in 1..n |-> q[o]]
  OBVIOUS
<1>11. ASSUME NEW o \in 1..n
      PROVE  Seeds(q[o], r, b, T, G, V[o]) /\ Only(q[o], W[o])
  <2> DEFINE p1 == header(o)
             p2 == items(o)
             V1 == H(o)
             V2 == RowsOf("purchase_order_items", R(o), m)
  <2>1. /\ Seeds(p1, r, b, {"purchase_orders"}, G, V1) /\ Only(p1, V1)
        /\ Seeds(p2, r, b, {"purchase_order_items"}, G \cup V1, V2) /\ Only(p2, V2)
    BY <1>8, <1>9
  <2>2. /\ q[o] = p1 \o p2 /\ W[o] = V1 \cup V2 /\ V[o] = {}
        /\ T = {"purchase_orders"} \cup {"purchase_order_items"}
    OBVIOUS
  <2> HIDE DEF p1, p2, V1, V2, q, V, W, T
  <2>3. Seeds(p1 \o p2, r, b, {"purchase_orders"} \cup {"purchase_order_items"}, G, V1 \cup V2)
    BY <2>1, SeedsConcat
  <2>4. Only(p1 \o p2, V1 \cup V2)
    BY <2>1, OnlyConcat DEF Seeds
  <2>. QED  BY <2>2, <2>3, <2>4 DEF Seeds
<1>12. ASSUME NEW o \in 1..n, NEW w \in W[o]
      PROVE  \/ w[1] = "purchase_orders" /\ w[2][4] = o
             \/ w[1] = "purchase_order_items" /\ w[2][4][1] = o
  <2>1. CASE w \in H(o)
    BY <2>1 DEF Uuid
  <2>2. CASE w \in RowsOf("purchase_order_items", R(o), m)
    <3>1. PICK p \in 1..m : w = <<"purchase_order_items", R(o)[p].id>>
      BY <2>2 DEF RowsOf
    <3>2. R(o)[p].id = Uuid("purchase_order_items", r, b, <<o, p>>)
      BY <1>5, <1>6
    <3>. QED  BY <3>1, <3>2 DEF Uuid
  <2>. QED  BY <2>1, <2>2
<1>13. AllOf(V, n) = {}
  BY DEF AllOf
<1> HIDE DEF q, V, W, T
<1>14. ASSUME NEW i \in 1..n, NEW j \in 1..n, j # i PROVE W[j] \cap W[i] = {}
  BY <1>12, <1>14
<1>15. Seeds(FlattenSeq(q), r, b, T, G, AllOf(V, n))
  BY <1>0, <1>11, <1>10, <1>14, SeedsOnlyLoop
<1>. QED  BY <1>1, <1>13, <1>15 DEF m, suppliers, stores, users, G, T

\* The stock of every product in every store, with or without its movements.
LEMMA StocksSeeds ==
    ASSUME NEW r, NEW b
    PROVE  Seeds(SeedStocks(r, b), r, b, {"stocks", "stock_movements"},
                 Own(r, b) \cup Given("stores", r, b, 1..Scale.stores)
                     \cup Given("products", r, b, 1..Scale.products)
                     \cup Given("users", r, b, 1..Scale.users), {})
<1> DEFINE n == Scale.stores
           m == Scale.products
           users == 1..Scale.users
           G == Own(r, b) \cup Given("stores", r, b, 1..n)
                    \cup Given("products", r, b, 1..m) \cup Given("users", r, b, users)
           stock(s, p) == [id |-> Uuid("stocks", r, b, <<s, p>>),
                           product_id |-> Uuid("products", r, b, p),
                           store_id |-> Uuid("stores", r, b, s),
                           business_id |-> Uuid("businesses", r, b, 1)]
           movement(s, p) == MovementRow(r, b, <<s, p>>, Uuid("stocks", r, b, <<s, p>>))
           A(s, p) == {{}, {movement(s, p)}}
           first(s, p) == InsertOne("stocks", stock(s, p))
           second(s, p) == <<Insert("stock_movements", A(s, p))>>
           inner(s) == [p \in 1..m |-> first(s, p) \o second(s, p)]
           q == [s \in 1..n |-> FlattenSeq(inner(s))]
           H(s, p) == {<<"stocks", Uuid("stocks", r, b, <<s, p>>)>>}
           M(s, p) == {<<"stock_movements", Uuid("stock_movements", r, b, <<s, p>>)>>}
           T == {"stocks", "stock_movements"}
           W(s) == [p \in 1..m |-> H(s, p) \cup M(s, p)]
           U == [s \in 1..n |-> AllOf(W(s), m)]
           V == [p \in 1..m |-> {}]
           V2 == [s \in 1..n |-> {}]
<1>1. /\ n \in Nat \ {0} /\ m \in Nat \ {0} /\ 1 \in users
      /\ "stocks" \in DroppedTables /\ "stock_movements" \in DroppedTables
  BY ScaleAssumption DEF ScaleFields, DroppedTables
<1>2. SeedStocks(r, b) = FlattenSeq(q)
  BY DEF SeedStocks, Loop
<1>3. ASSUME NEW s, NEW p PROVE second(s, p) = InsertOf("stock_movements", A(s, p), FALSE)
  BY DEF InsertOf, InsertStatement, Insert
<1> HIDE DEF first, second
<1>4. ASSUME NEW s \in 1..n, NEW p \in 1..m
      PROVE  /\ SeedingRow("stocks", stock(s, p), r, b, G)
             /\ stock(s, p).id = Uuid("stocks", r, b, <<s, p>>)
  <2>1. /\ SeededRow("stocks", stock(s, p), r, b)
        /\ stock(s, p).id = Uuid("stocks", r, b, <<s, p>>)
    BY ColumnsOf DEF SeededRow, IsRow, WellKeyed, Uuid
  <2>2. ASSUME NEW e \in ReferenceTable, e[1] = "stocks"
        PROVE  <<e[3], stock(s, p)[e[2]]>> \in G
    <3>1. /\ stock(s, p).product_id = Uuid("products", r, b, p)
          /\ stock(s, p).store_id = Uuid("stores", r, b, s)
          /\ stock(s, p).business_id = Uuid("businesses", r, b, 1)
      OBVIOUS
    <3>2. \/ e[2] = "product_id" /\ e[3] = "products"
          \/ e[2] = "business_id" /\ e[3] = "businesses"
          \/ e[2] = "store_id" /\ e[3] = "stores"
      BY <2>2, ReferencesFrom
    <3> HIDE DEF stock, users, n, m
    <3>. QED  BY <3>1, <3>2 DEF Given, Own
  <2> HIDE DEF stock, G
  <2>. QED  BY <2>1, <2>2 DEF SeedingRow
<1>5. ASSUME NEW s, NEW p
      PROVE  /\ SeedingRow("stock_movements", movement(s, p), r, b, G \cup H(s, p))
             /\ movement(s, p).id = Uuid("stock_movements", r, b, <<s, p>>)
  <2>1. /\ SeededRow("stock_movements", movement(s, p), r, b)
        /\ movement(s, p).id = Uuid("stock_movements", r, b, <<s, p>>)
    BY ColumnsOf DEF SeededRow, IsRow, WellKeyed, Uuid, MovementRow
  <2>2. ASSUME NEW e \in ReferenceTable, e[1] = "stock_movements"
        PROVE  <<e[3], movement(s, p)[e[2]]>> \in G \cup H(s, p)
    <3>1. /\ movement(s, p).stock_id = Uuid("stocks", r, b, <<s, p>>)
          /\ movement(s, p).created_by_id = Uuid("users", r, b, 1)
          /\ movement(s, p).business_id = Uuid("businesses", r, b, 1)
      BY DEF MovementRow
    <3>2. \/ e[2] = "stock_id" /\ e[3] = "stocks"
          \/ e[2] = "business_id" /\ e[3] = "businesses"
          \/ e[2] = "created_by_id" /\ e[3] = "users"
      BY <2>2, ReferencesFrom
    <3> HIDE DEF movement, users, n, m
    <3>. QED  BY <1>1, <3>1, <3>2 DEF Given, Own
  <2> HIDE DEF movement, G, H
  <2>. QED  BY <2>1, <2>2 DEF SeedingRow
<1> HIDE DEF stock, movement, users, G, m, n
<1>6. ASSUME NEW s \in 1..n, NEW p \in 1..m
      PROVE  /\ Seeds(first(s, p), r, b, {"stocks"}, G, H(s, p))
             /\ Only(first(s, p), H(s, p))
  <2> DEFINE x == stock(s, p)
  <2>1. /\ Seeds(InsertOne("stocks", x), r, b, {"stocks"}, G, {<<"stocks", x.id>>})
        /\ Only(InsertOne("stocks", x), {<<"stocks", x.id>>})
    BY <1>1, <1>4, SeedsRow, OnlyRow
  <2>2. {<<"stocks", x.id>>} = H(s, p)
    BY <1>4
  <2> HIDE DEF H
  <2>. QED  BY <2>1, <2>2 DEF first
<1>7. ASSUME NEW s \in 1..n, NEW p \in 1..m
      PROVE  /\ Seeds(second(s, p), r, b, {"stock_movements"}, G \cup H(s, p), {})
             /\ Only(second(s, p), M(s, p))
  <2> DEFINE B == A(s, p)
             F == G \cup H(s, p)
  <2>1. ASSUME NEW new \in B
        PROVE  /\ \A x \in new : SeedingRow("stock_movements", x, r, b, F)
               /\ \A x, y \in new : x.id = y.id => x = y
               /\ \A x \in new : <<"stock_movements", x.id>> \in M(s, p)
    BY <1>5
  <2> HIDE DEF B, M, F
  <2>2. SeedingRows("stock_movements", B, r, b, F, {})
    BY <2>1 DEF SeedingRows
  <2>3. Seeds(InsertOf("stock_movements", B, FALSE), r, b, {"stock_movements"}, F, {})
    BY <1>1, <2>2, SeedsInsert
  <2>4. Only(InsertOf("stock_movements", B, FALSE), M(s, p))
    BY <2>1, OnlyInsert
  <2>5. second(s, p) = InsertOf("stock_movements", B, FALSE)
    BY <1>3 DEF B
  <2>. QED  BY <2>3, <2>4, <2>5 DEF F
<1> HIDE DEF A
<1>8. ASSUME NEW s \in 1..n, NEW p \in 1..m
      PROVE  LET c == first(s, p) \o second(s, p)
             IN  Seeds(c, r, b, T, G, {}) /\ Only(c, H(s, p) \cup M(s, p))
  <2> DEFINE p1 == first(s, p)
             p2 == second(s, p)
             V1 == H(s, p)
             W2 == M(s, p)
  <2>1. /\ Seeds(p1, r, b, {"stocks"}, G, V1) /\ Only(p1, V1)
        /\ Seeds(p2, r, b, {"stock_movements"}, G \cup V1, {}) /\ Only(p2, W2)
    BY <1>6, <1>7
  <2>2. T = {"stocks"} \cup {"stock_movements"}
    OBVIOUS
  <2> HIDE DEF p1, p2, V1, W2, T
  <2>3. Seeds(p1 \o p2, r, b, {"stocks"} \cup {"stock_movements"}, G, V1 \cup {})
    BY <2>1, SeedsConcat
  <2>4. Only(p1 \o p2, V1 \cup W2)
    BY <2>1, OnlyConcat DEF Seeds
  <2>5. Seeds(p1 \o p2, r, b, T, G, {}) /\ Only(p1 \o p2, V1 \cup W2)
    BY <2>2, <2>3, <2>4 DEF Seeds
  <2>. QED  BY <2>5 DEF p1, p2, V1, W2
<1>9. ASSUME NEW s \in 1..n
      PROVE  /\ Seeds(FlattenSeq(inner(s)), r, b, T, G, {})
             /\ Only(FlattenSeq(inner(s)), AllOf(W(s), m))
  <2> DEFINE I == inner(s)
             X == W(s)
  <2>1. /\ I = [p \in 1..m |-> I[p]]
        /\ \A p \in 1..m : /\ I[p] = first(s, p) \o second(s, p)
                           /\ X[p] = H(s, p) \cup M(s, p)
                           /\ V[p] = {}
    <3> HIDE DEF H, M
    <3>. QED  OBVIOUS
  <2>2. AllOf(V, m) = {}
    BY DEF AllOf
  <2>3. ASSUME NEW p \in 1..m, NEW w \in H(s, p) \cup M(s, p) PROVE w[2][4][2] = p
    BY DEF Uuid
  <2> HIDE DEF I, X, V, H, M, T
  <2>4. ASSUME NEW p \in 1..m PROVE Seeds(I[p], r, b, T, G, V[p]) /\ Only(I[p], X[p])
    BY <1>8, <2>1
  <2>5. ASSUME NEW i \in 1..m, NEW j \in 1..m, j # i PROVE X[j] \cap X[i] = {}
    <3>1. ASSUME NEW w \in X[j], w \in X[i] PROVE FALSE
      <4>1. w \in H(s, j) \cup M(s, j) /\ w \in H(s, i) \cup M(s, i)
        BY <2>1, <3>1
      <4>2. w[2][4][2] = j
        BY <2>3, <4>1
      <4>3. w[2][4][2] = i
        BY <2>3, <4>1
      <4>. QED  BY <2>5, <4>2, <4>3
    <3>. QED  BY <3>1
  <2>6. /\ Seeds(FlattenSeq(I), r, b, T, G, AllOf(V, m))
        /\ Only(FlattenSeq(I), AllOf(X, m))
    BY <1>1, <2>1, <2>4, <2>5, SeedsOnlyLoop
  <2>7. /\ Seeds(FlattenSeq(I), r, b, T, G, {}) /\ Only(FlattenSeq(I), AllOf(X, m))
    BY <2>2, <2>6
  <2>. QED  BY <2>7 DEF I, X
<1>10. ASSUME NEW s \in 1..n, NEW w \in AllOf(W(s), m) PROVE w[2][4][1] = s
  <2>1. PICK p \in 1..m : w \in W(s)[p]
    BY <1>10 DEF AllOf
  <2>2. w \in H(s, p) \cup M(s, p)
    BY <2>1
  <2>. QED  BY <2>2 DEF Uuid
<1> HIDE DEF inner, W, V, T
<1>11. /\ q = [s \in 1..n |-> q[s]]
       /\ \A s \in 1..n : /\ q[s] = FlattenSeq(inner(s)) /\ U[s] = AllOf(W(s), m)
                          /\ V2[s] = {}
  OBVIOUS
<1>12. AllOf(V2, n) = {}
  BY DEF AllOf
<1> HIDE DEF q, U, V2
<1>13. ASSUME NEW s \in 1..n PROVE Seeds(q[s], r, b, T, G, V2[s]) /\ Only(q[s], U[s])
  BY <1>9, <1>11
<1>14. ASSUME NEW i \in 1..n, NEW j \in 1..n, j # i PROVE U[j] \cap U[i] = {}
  BY <1>10, <1>11, <1>14
<1>15. Seeds(FlattenSeq(q), r, b, T, G, AllOf(V2, n))
  BY <1>1, <1>11, <1>13, <1>14, SeedsOnlyLoop
<1>. QED  BY <1>2, <1>12, <1>15 DEF m, n, users, G, T

\* Everything that belongs to a tenant comes in an order in which every reference
\* finds its row.
LEMMA TenantSeeds ==
    ASSUME NEW r, NEW b
    PROVE  Seeds(SeedTenant(r, b), r, b, DroppedTables, {}, {})
<1> DEFINE names == {RoleNames[i] : i \in 1..Len(RoleNames)}
           stores == Given("stores", r, b, 1..Scale.stores)
           categories == Given("categories", r, b, 1..Scale.categories)
           suppliers == Given("suppliers", r, b, 1..Scale.suppliers)
           products == Given("products", r, b, 1..Scale.products)
           roles == Given("roles", r, b, names)
           users == Given("users", r, b, 1..Scale.users)
           own == Own(r, b)
           T1 == {"businesses"}
           T2 == T1 \cup {"permissions", "roles", "role_permissions"}
           T3 == T2 \cup {"stores"}
           T4 == T3 \cup {"categories"}
           T5 == T4 \cup {"suppliers"}
           T6 == T5 \cup {"products"}
           T7 == T6 \cup {"product_sources"}
           T8 == T7 \cup {"users", "user_auth"}
           T9 == T8 \cup {"purchase_orders", "purchase_order_items"}
           T10 == T9 \cup {"stocks", "stock_movements"}
           T11 == T10 \cup {"audit_logs"}
           V1 == own
           V2 == V1 \cup roles
           V3 == V2 \cup stores
           V4 == V3 \cup categories
           V5 == V4 \cup suppliers
           V6 == V5 \cup products
           V7 == V6 \cup {}
           V8 == V7 \cup users
           V9 == V8 \cup {}
           V10 == V9 \cup {}
           p1 == SeedBusiness(r, b)
           p2 == p1 \o SeedPermissionsAndRoles(r, b)
           p3 == p2 \o SeedStores(r, b)
           p4 == p3 \o SeedCategories(r, b)
           p5 == p4 \o SeedSuppliers(r, b)
           p6 == p5 \o SeedProducts(r, b)
           p7 == p6 \o SeedSources(r, b)
           p8 == p7 \o SeedUsers(r, b)
           p9 == p8 \o SeedOrders(r, b)
           p10 == p9 \o SeedStocks(r, b)
           p11 == p10 \o SeedAuditLogs(r, b)
<1>1. Seeds(p1, r, b, T1, {}, V1)
  BY BusinessSeeds
<1>2. Seeds(p2, r, b, T2, {}, V2)
  <2> DEFINE U == {"permissions", "roles", "role_permissions"}
             H == own
             W == roles
             s == SeedPermissionsAndRoles(r, b)
  <2>1. Seeds(s, r, b, U, H, W)
    BY PermissionsAndRolesSeeds
  <2>2. T1 \cap U = {}
    OBVIOUS
  <2> HIDE DEF own, roles, stores, categories, suppliers, products, users
  <2>3. H \subseteq {} \cup V1
    OBVIOUS
  <2>4. T2 = T1 \cup U /\ V2 = V1 \cup W
    OBVIOUS
  <2>5. p2 = p1 \o s
    OBVIOUS
  <2> HIDE DEF U, H, W, s, T2, V2, T1, V1, p2, p1
  <2>. QED  BY <1>1, <2>1, <2>2, <2>3, <2>4, <2>5, SeedsConcat
<1>3. Seeds(p3, r, b, T3, {}, V3)
  <2> DEFINE U == {"stores"}
             H == own
             W == stores
             s == SeedStores(r, b)
  <2>1. Seeds(s, r, b, U, H, W)
    BY StoresSeeds
  <2>2. T2 \cap U = {}
    OBVIOUS
  <2> HIDE DEF own, roles, stores, categories, suppliers, products, users
  <2>3. H \subseteq {} \cup V2
    OBVIOUS
  <2>4. T3 = T2 \cup U /\ V3 = V2 \cup W
    OBVIOUS
  <2>5. p3 = p2 \o s
    OBVIOUS
  <2> HIDE DEF U, H, W, s, T3, V3, T2, V2, p3, p2
  <2>. QED  BY <1>2, <2>1, <2>2, <2>3, <2>4, <2>5, SeedsConcat
<1>4. Seeds(p4, r, b, T4, {}, V4)
  <2> DEFINE U == {"categories"}
             H == own
             W == categories
             s == SeedCategories(r, b)
  <2>1. Seeds(s, r, b, U, H, W)
    BY CategoriesSeeds
  <2>2. T3 \cap U = {}
    OBVIOUS
  <2> HIDE DEF own, roles, stores, categories, suppliers, products, users
  <2>3. H \subseteq {} \cup V3
    OBVIOUS
  <2>4. T4 = T3 \cup U /\ V4 = V3 \cup W
    OBVIOUS
  <2>5. p4 = p3 \o s
    OBVIOUS
  <2> HIDE DEF U, H, W, s, T4, V4, T3, V3, p4, p3
  <2>. QED  BY <1>3, <2>1, <2>2, <2>3, <2>4, <2>5, SeedsConcat
<1>5. Seeds(p5, r, b, T5, {}, V5)
  <2> DEFINE U == {"suppliers"}
             H == own
             W == suppliers
             s == SeedSuppliers(r, b)
  <2>1. Seeds(s, r, b, U, H, W)
    BY SuppliersSeeds
  <2>2. T4 \cap U = {}
    OBVIOUS
  <2> HIDE DEF own, roles, stores, categories, suppliers, products, users
  <2>3. H \subseteq {} \cup V4
    OBVIOUS
  <2>4. T5 = T4 \cup U /\ V5 = V4 \cup W
    OBVIOUS
  <2>5. p5 = p4 \o s
    OBVIOUS
  <2> HIDE DEF U, H, W, s, T5, V5, T4, V4, p5, p4
  <2>. QED  BY <1>4, <2>1, <2>2, <2>3, <2>4, <2>5, SeedsConcat
<1>6. Seeds(p6, r, b, T6, {}, V6)
  <2> DEFINE U == {"products"}
             H == own \cup categories
             W == products
             s == SeedProducts(r, b)
  <2>1. Seeds(s, r, b, U, H, W)
    BY ProductsSeeds
  <2>2. T5 \cap U = {}
    OBVIOUS
  <2> HIDE DEF own, roles, stores, categories, suppliers, products, users
  <2>3. H \subseteq {} \cup V5
    OBVIOUS
  <2>4. T6 = T5 \cup U /\ V6 = V5 \cup W
    OBVIOUS
  <2>5. p6 = p5 \o s
    OBVIOUS
  <2> HIDE DEF U, H, W, s, T6, V6, T5, V5, p6, p5
  <2>. QED  BY <1>5, <2>1, <2>2, <2>3, <2>4, <2>5, SeedsConcat
<1>7. Seeds(p7, r, b, T7, {}, V7)
  <2> DEFINE U == {"product_sources"}
             H == own \cup products \cup suppliers
             W == {}
             s == SeedSources(r, b)
  <2>1. Seeds(s, r, b, U, H, W)
    BY SourcesSeeds
  <2>2. T6 \cap U = {}
    OBVIOUS
  <2> HIDE DEF own, roles, stores, categories, suppliers, products, users
  <2>3. H \subseteq {} \cup V6
    OBVIOUS
  <2>4. T7 = T6 \cup U /\ V7 = V6 \cup W
    OBVIOUS
  <2>5. p7 = p6 \o s
    OBVIOUS
  <2> HIDE DEF U, H, W, s, T7, V7, T6, V6, p7, p6
  <2>. QED  BY <1>6, <2>1, <2>2, <2>3, <2>4, <2>5, SeedsConcat
<1>8. Seeds(p8, r, b, T8, {}, V8)
  <2> DEFINE U == {"users", "user_auth"}
             H == own \cup roles \cup stores
             W == users
             s == SeedUsers(r, b)
  <2>1. Seeds(s, r, b, U, H, W)
    BY UsersSeeds
  <2>2. T7 \cap U = {}
    OBVIOUS
  <2> HIDE DEF own, roles, stores, categories, suppliers, products, users
  <2>3. H \subseteq {} \cup V7
    OBVIOUS
  <2>4. T8 = T7 \cup U /\ V8 = V7 \cup W
    OBVIOUS
  <2>5. p8 = p7 \o s
    OBVIOUS
  <2> HIDE DEF U, H, W, s, T8, V8, T7, V7, p8, p7
  <2>. QED  BY <1>7, <2>1, <2>2, <2>3, <2>4, <2>5, SeedsConcat
<1>9. Seeds(p9, r, b, T9, {}, V9)
  <2> DEFINE U == {"purchase_orders", "purchase_order_items"}
             H == own \cup suppliers \cup stores \cup users \cup products
             W == {}
             s == SeedOrders(r, b)
  <2>1. Seeds(s, r, b, U, H, W)
    BY OrdersSeeds
  <2>2. T8 \cap U = {}
    OBVIOUS
  <2> HIDE DEF own, roles, stores, categories, suppliers, products, users
  <2>3. H \subseteq {} \cup V8
    OBVIOUS
  <2>4. T9 = T8 \cup U /\ V9 = V8 \cup W
    OBVIOUS
  <2>5. p9 = p8 \o s
    OBVIOUS
  <2> HIDE DEF U, H, W, s, T9, V9, T8, V8, p9, p8
  <2>. QED  BY <1>8, <2>1, <2>2, <2>3, <2>4, <2>5, SeedsConcat
<1>10. Seeds(p10, r, b, T10, {}, V10)
  <2> DEFINE U == {"stocks", "stock_movements"}
             H == own \cup stores \cup products \cup users
             W == {}
             s == SeedStocks(r, b)
  <2>1. Seeds(s, r, b, U, H, W)
    BY StocksSeeds
  <2>2. T9 \cap U = {}
    OBVIOUS
  <2> HIDE DEF own, roles, stores, categories, suppliers, products, users
  <2>3. H \subseteq {} \cup V9
    OBVIOUS
  <2>4. T10 = T9 \cup U /\ V10 = V9 \cup W
    OBVIOUS
  <2>5. p10 = p9 \o s
    OBVIOUS
  <2> HIDE DEF U, H, W, s, T10, V10, T9, V9, p10, p9
  <2>. QED  BY <1>9, <2>1, <2>2, <2>3, <2>4, <2>5, SeedsConcat
<1>11. Seeds(p11, r, b, T11, {}, V10 \cup {})
  <2> DEFINE U == {"audit_logs"}
             H == own \cup users \cup stores
             W == {}
             s == SeedAuditLogs(r, b)
  <2>1. Seeds(s, r, b, U, H, W)
    BY AuditLogsSeeds
  <2>2. T10 \cap U = {}
    OBVIOUS
  <2> HIDE DEF own, roles, stores, categories, suppliers, products, users
  <2>3. H \subseteq {} \cup V10
    OBVIOUS
  <2>4. T11 = T10 \cup U /\ V10 \cup {} = V10 \cup W
    OBVIOUS
  <2>5. p11 = p10 \o s
    OBVIOUS
  <2> HIDE DEF U, H, W, s, T11, V10, T10, V10, p11, p10
  <2>. QED  BY <1>10, <2>1, <2>2, <2>3, <2>4, <2>5, SeedsConcat
<1>12. T11 = DroppedTables
  BY DEF DroppedTables
<1>13. SeedTenant(r, b) = p11
  BY DEF SeedTenant
<1> HIDE DEF p11, T11, V10
<1>. QED  BY <1>11, <1>12, <1>13 DEF Seeds

\* The sample data of execution r.
IsSeeding(p, r) ==
    /\ IsSequence(p) /\ InOrder(p, {})
    /\ \A s \in Elements(p) : \E b : IsSeed(s, r, b)

LEMMA SeedingIsInOrder ==
    ASSUME NEW r
    PROVE  IsSeeding(SeedingUp(r), r)
<1> DEFINE n == Len(Blueprints)
           q == [i \in 1..n |-> SeedTenant(r, Blueprints[i])]
           p == FlattenSeq(q)
<1>1. n \in Nat /\ \A i, j \in 1..n : Blueprints[i] = Blueprints[j] => i = j
  BY TenantAssumption
<1>2. SeedingUp(r) = p
  BY DEF SeedingUp, Loop
<1>3. q = [i \in 1..n |-> q[i]] /\ \A i \in 1..n : q[i] = SeedTenant(r, Blueprints[i])
  OBVIOUS
<1>4. ASSUME NEW i \in 1..n PROVE Seeds(q[i], r, Blueprints[i], DroppedTables, {}, {})
  BY <1>3, TenantSeeds
<1> HIDE DEF n, q
<1>5. CASE n = 0
  <2>1. IsSequence(p) /\ Len(p) = 0
    BY <1>3, <1>5, NoIteration
  <2> HIDE DEF p
  <2>. QED  BY <1>2, <2>1 DEF IsSeeding, InOrder, Elements
<1>6. CASE n # 0
  <2>1. n \in Nat \ {0}
    BY <1>1, <1>6
  <2>2. ASSUME NEW i \in 1..n
        PROVE  /\ IsSequence(q[i]) /\ InOrder(q[i], {})
               /\ \A s \in Elements(q[i]) : IsSeed(s, r, Blueprints[i])
    BY <1>4 DEF Seeds
  <2>3. ASSUME NEW i \in 1..n, NEW j \in 1..(i - 1), NEW s \in Elements(q[j]),
               NEW t \in Elements(q[i]), NEW w, Makes(s, w), Fresh(t, w)
        PROVE  FALSE
    <3>1. j \in 1..n /\ j # i
      BY <1>1
    <3>2. IsSeed(s, r, Blueprints[j]) /\ IsSeed(t, r, Blueprints[i])
      BY <2>2, <3>1
    <3>3. Makes(t, w) /\ ~ (t.do = "insert" /\ t.missing)
      BY <2>3 DEF Fresh
    <3>4. t.table # "permissions"
      BY <3>2, <3>3 DEF IsSeed
    <3>5. w[1] = s.table /\ w[1] = t.table /\ w[2][3] = Blueprints[i]
      BY <2>3, <3>2, <3>3, <3>4, SeedsMake
    <3>6. w[2][3] = Blueprints[j]
      BY <2>3, <3>2, <3>4, <3>5, SeedsMake
    <3>. QED  BY <1>1, <3>1, <3>5, <3>6
  <2>4. \A i \in 1..n : \A j \in 1..(i - 1) :
            \A s \in Elements(q[j]), t \in Elements(q[i]) :
                \A w : ~ (Makes(s, w) /\ Fresh(t, w))
    BY <2>3
  <2>5. /\ IsSequence(p) /\ InOrder(p, {})
        /\ Elements(p) = UNION {Elements(q[i]) : i \in 1..n}
    BY <1>3, <2>1, <2>2, <2>4, LoopInOrder
  <2> HIDE DEF p
  <2>6. ASSUME NEW s \in Elements(p) PROVE \E b : IsSeed(s, r, b)
    <3>1. PICK i \in 1..n : s \in Elements(q[i])
      BY <2>5
    <3>. QED  BY <2>2, <3>1
  <2>. QED  BY <1>2, <2>5, <2>6 DEF IsSeeding
<1>. QED  BY <1>5, <1>6

-----------------------------------------------------------------------------
(* The schema as a whole: its tables and keys.                             *)

\* Its statements by their place.
LEMMA SchemaShape ==
    /\ Len(SchemaUp) \in Nat /\ InOrder(SchemaUp, {})
    /\ \A n \in 1..Len(SchemaUp) :
           SchemaUp[n].table \in SchemaTables /\ SchemaStatement(SchemaUp[n])
    /\ \A t \in SchemaTables : \E n \in 1..Len(SchemaUp) :
           SchemaUp[n].do = "table" /\ SchemaUp[n].table = t
<1>1. IsSchema(SchemaUp, SchemaTables)
  BY SchemaIsInOrder
<1>2. SchemaUp \in Seq(Elements(SchemaUp))
  BY <1>1 DEF IsSchema, IsSequence
<1>3. Len(SchemaUp) \in Nat
  BY <1>2
<1>. QED  BY <1>1, <1>3 DEF IsSchema, Elements

LEMMA TablesOfSchema == AllTables = SchemaTables /\ DroppedTables \subseteq AllTables
<1>1. AllTables = SchemaTables
  BY SchemaShape DEF AllTables
<1>2. DroppedTables \subseteq SchemaTables
  BY DEF DroppedTables, SchemaTables
<1>. QED  BY <1>1, <1>2

\* What belongs to a statement.
LEMMA KeysOfStatement ==
    ASSUME NEW s, SchemaStatement(s)
    PROVE  /\ s.do = "table" \/ s.do = "key"
           /\ s.do = "table" => KeysOf(s) = {<<s.table, k>> : k \in s.inline}
           /\ s.do = "key" => KeysOf(s) = {<<s.table, s.key>>}
           /\ \A x \in KeysOf(s) : x = <<s.table, x[2]>> /\ Makes(s, <<"key", x[1], x[2].name>>)
<1>1. s.do = "table" \/ s.do = "key"
  BY DEF SchemaStatement
<1>2. CASE s.do = "table"
  <2>1. KeysOf(s) = {<<s.table, k>> : k \in s.inline}
    BY <1>2 DEF KeysOf
  <2>2. ASSUME NEW x \in KeysOf(s)
        PROVE  x = <<s.table, x[2]>> /\ Makes(s, <<"key", x[1], x[2].name>>)
    <3>1. PICK k \in s.inline : x = <<s.table, k>>
      BY <2>1
    <3>. QED  BY <1>2, <3>1 DEF Makes
  <2>. QED  BY <1>2, <2>1, <2>2
<1>3. CASE s.do = "key"
  <2>1. KeysOf(s) = {<<s.table, s.key>>}
    BY <1>3 DEF KeysOf
  <2>. QED  BY <1>3, <2>1 DEF Makes
<1>. QED  BY <1>1, <1>2, <1>3

\* A key of the schema: what it refers to or keeps apart.
LEMMA KeysOfSchema ==
    ASSUME NEW x \in AllKeys
    PROVE  /\ \E n \in 1..Len(SchemaUp) : x \in KeysOf(SchemaUp[n])
           /\ x = <<x[1], x[2]>> /\ x[1] \in SchemaTables
           /\ x[2].kind = "reference" =>
                  <<x[1], x[2].column, x[2].to, x[2].onDelete>> \in ReferenceTable
           /\ x[2].kind = "unique" => <<x[1], x[2].columns>> \in UniqueTable
<1>1. PICK n \in 1..Len(SchemaUp) : x \in KeysOf(SchemaUp[n])
  BY DEF AllKeys
<1> DEFINE s == SchemaUp[n]
<1>2. s.table \in SchemaTables /\ SchemaStatement(s)
  BY SchemaShape
<1>3. x \in KeysOf(s)
  BY <1>1
<1> HIDE DEF s
<1>4. x = <<s.table, x[2]>>
  BY <1>2, <1>3, KeysOfStatement
<1>5. CASE s.do = "table"
  <2>1. PICK k \in s.inline : x = <<s.table, k>>
    BY <1>2, <1>3, <1>5, KeysOfStatement
  <2>2. IsIndex(k, s.table)
    BY <1>2, <1>5 DEF SchemaStatement
  <2>. QED  BY <1>1, <1>2, <2>1, <2>2 DEF IsIndex
<1>6. CASE s.do = "key"
  <2>1. x = <<s.table, s.key>>
    BY <1>2, <1>3, <1>6, KeysOfStatement
  <2>2. PICK G : IsKey(s, s.table, G)
    BY <1>2, <1>6 DEF SchemaStatement
  <2>. QED  BY <1>1, <1>2, <2>1, <2>2 DEF IsKey
<1>. QED  BY <1>2, <1>5, <1>6, KeysOfStatement

\* A table is created by one statement.
LEMMA OneTableOnce ==
    ASSUME NEW n \in 1..Len(SchemaUp), NEW m \in 1..Len(SchemaUp),
           SchemaUp[n].do = "table", SchemaUp[m].do = "table",
           SchemaUp[n].table = SchemaUp[m].table
    PROVE  n = m
<1> DEFINE t == SchemaUp[n].table
<1>1. Makes(SchemaUp[n], <<"table", t>>) /\ Fresh(SchemaUp[n], <<"table", t>>)
  BY DEF Makes, Fresh
<1>2. Makes(SchemaUp[m], <<"table", t>>) /\ Fresh(SchemaUp[m], <<"table", t>>)
  BY DEF Makes, Fresh
<1> HIDE DEF t
<1>3. ~ (m < n)
  BY <1>1, <1>2, SchemaShape DEF InOrder
<1>4. ~ (n < m)
  BY <1>1, <1>2, SchemaShape DEF InOrder
<1>. QED  BY <1>3, <1>4, SchemaShape

\* A key comes after its table and the table it refers to.
LEMMA KeyAfterTables ==
    ASSUME NEW n \in 1..Len(SchemaUp), SchemaUp[n].do = "key"
    PROVE  /\ \E m \in 1..(n - 1) : /\ SchemaUp[m].do = "table"
                                    /\ SchemaUp[m].table = SchemaUp[n].table
           /\ SchemaUp[n].key.kind = "reference" =>
                  \E m \in 1..(n - 1) : /\ SchemaUp[m].do = "table"
                                        /\ SchemaUp[m].table = SchemaUp[n].key.to
<1> DEFINE s == SchemaUp[n]
<1>1. \A w : Needs(s, w) => \E m \in 1..(n - 1) : Gives(SchemaUp[m], w)
  BY SchemaShape DEF InOrder
<1>2. ASSUME NEW u, \E m \in 1..(n - 1) : Gives(SchemaUp[m], <<"table", u>>)
      PROVE  \E m \in 1..(n - 1) : SchemaUp[m].do = "table" /\ SchemaUp[m].table = u
  <2>1. PICK m \in 1..(n - 1) : Gives(SchemaUp[m], <<"table", u>>)
    BY <1>2
  <2>2. m \in 1..Len(SchemaUp)
    BY SchemaShape
  <2>3. SchemaUp[m].do = "table" \/ SchemaUp[m].do = "key"
    BY <2>2, SchemaShape DEF SchemaStatement
  <2>. QED  BY <2>1, <2>3 DEF Gives
<1>3. Needs(s, <<"table", s.table>>)
  BY DEF Needs
<1>4. s.key.kind = "reference" => Needs(s, <<"table", s.key.to>>)
  BY DEF Needs
<1> HIDE DEF s
<1>5. \E m \in 1..(n - 1) : SchemaUp[m].do = "table" /\ SchemaUp[m].table = s.table
  BY <1>1, <1>2, <1>3
<1>6. s.key.kind = "reference" =>
          \E m \in 1..(n - 1) : SchemaUp[m].do = "table" /\ SchemaUp[m].table = s.key.to
  BY <1>1, <1>2, <1>4
<1>. QED  BY <1>5, <1>6 DEF s

\* Its name is new: what came before, or with the creation of a table, has others.
LEMMA KeyIsNew ==
    ASSUME NEW n \in 1..Len(SchemaUp), SchemaUp[n].do = "key",
           NEW m \in 1..Len(SchemaUp), m < n \/ SchemaUp[m].do = "table",
           NEW x \in KeysOf(SchemaUp[m]), x[1] = SchemaUp[n].table
    PROVE  x[2].name # SchemaUp[n].key.name
<1> DEFINE w == <<"key", x[1], x[2].name>>
<1>1. SchemaStatement(SchemaUp[m]) /\ SchemaStatement(SchemaUp[n])
  BY SchemaShape
<1>2. x = <<SchemaUp[m].table, x[2]>> /\ Makes(SchemaUp[m], w)
  BY <1>1, KeysOfStatement
<1>3. m < n
  <2>1. CASE SchemaUp[m].do = "table"
    <3>1. PICK c \in 1..(n - 1) : /\ SchemaUp[c].do = "table"
                                  /\ SchemaUp[c].table = SchemaUp[n].table
      BY KeyAfterTables
    <3>2. SchemaUp[m].table = SchemaUp[n].table
      BY <1>2
    <3>3. c \in 1..Len(SchemaUp)
      BY SchemaShape
    <3>4. c = m
      BY <2>1, <3>1, <3>2, <3>3, OneTableOnce
    <3>. QED  BY <3>1, <3>4, SchemaShape
  <2>. QED  BY <2>1
<1>4. ASSUME x[2].name = SchemaUp[n].key.name PROVE FALSE
  <2>1. Fresh(SchemaUp[n], w)
    BY <1>4 DEF Fresh, Makes
  <2>2. m \in 1..(n - 1)
    BY <1>3, SchemaShape
  <2> HIDE DEF w
  <2>. QED  BY <1>2, <2>1, <2>2, SchemaShape DEF InOrder
<1>. QED  BY <1>4

\* The required columns of a table.
LEMMA CreationRequires ==
    ASSUME NEW t \in SchemaTables
    PROVE  <<t, Creation(t).required>> \in RequiredTable
<1> DEFINE all == {SchemaUp[i] : i \in 1..Len(SchemaUp)}
           s == Creation(t)
<1>1. \E c \in all : c.do = "table" /\ c.table = t
  BY SchemaShape
<1>2. s \in all /\ s.do = "table" /\ s.table = t
  BY <1>1 DEF Creation
<1>3. SchemaStatement(s)
  BY <1>2, SchemaShape
<1> HIDE DEF s, all
<1>4. <<s.table, s.required>> \in RequiredTable
  BY <1>2, <1>3 DEF SchemaStatement
<1>. QED  BY <1>2, <1>4 DEF s

\* The first key, before which there are only tables.
LEMMA FirstKeyIs ==
    \E f \in 1..Len(SchemaUp) :
        /\ SchemaUp[f].do = "key"
        /\ \A j \in 1..(f - 1) : SchemaUp[j].do = "table"
        /\ FirstKey = <<SchemaUp[f].table, SchemaUp[f].key>>
<1> DEFINE n == Len(SchemaUp)
           KeyAt == {i \in 1..n : SchemaUp[i].do = "key"}
           first(i) == /\ SchemaUp[i].do = "key"
                       /\ \A j \in 1..(i - 1) : SchemaUp[j].do = "table"
           f == CHOOSE i \in 1..n : first(i)
<1>1. KeyAt \in SUBSET Nat /\ KeyAt # {}
  BY SchemaIsInOrder DEF Elements
<1>2. PICK i \in KeyAt : \A j \in KeyAt : i <= j
  <2> HIDE DEF KeyAt
  <2>. QED  BY <1>1, LeastNumber
<1>3. ASSUME NEW j \in 1..(i - 1) PROVE SchemaUp[j].do = "table"
  <2>1. j \in 1..n /\ j \notin KeyAt
    BY <1>2, SchemaShape
  <2>2. SchemaUp[j].do = "table" \/ SchemaUp[j].do = "key"
    BY <2>1, SchemaShape DEF SchemaStatement
  <2>. QED  BY <2>1, <2>2
<1>4. i \in 1..n /\ first(i)
  BY <1>2, <1>3
<1>5. f \in 1..n /\ first(f)
  <2> HIDE DEF first
  <2>. QED  BY <1>4
<1>6. KeysOf(SchemaUp[f]) = {<<SchemaUp[f].table, SchemaUp[f].key>>}
  BY <1>5 DEF KeysOf
<1>7. FirstKey = CHOOSE k \in KeysOf(SchemaUp[f]) : TRUE
  BY DEF FirstKey
<1> HIDE DEF f
<1>8. FirstKey = <<SchemaUp[f].table, SchemaUp[f].key>>
  BY <1>6, <1>7
<1>. QED  BY <1>5, <1>8

-----------------------------------------------------------------------------
(* What takes the schema and the sample data back.                         *)

\* The places of the tables in the two migrations.
DropAt ==
    [audit_logs |-> 1, purchase_order_items |-> 2, purchase_orders |-> 3,
     stock_movements |-> 4, stocks |-> 5, product_sources |-> 6, suppliers |-> 7,
     products |-> 8, categories |-> 9, user_auth |-> 10, users |-> 11,
     role_permissions |-> 12, permissions |-> 13, roles |-> 14, stores |-> 15,
     businesses |-> 16]

DeleteAt ==
    [audit_logs |-> 1, stock_movements |-> 2, stocks |-> 3,
     purchase_order_items |-> 4, purchase_orders |-> 5, product_sources |-> 6,
     user_auth |-> 7, users |-> 8, role_permissions |-> 9, roles |-> 10,
     permissions |-> 11, suppliers |-> 12, categories |-> 13, products |-> 14,
     stores |-> 15, businesses |-> 16]

LEMMA SchemaDownIs ==
    /\ Len(SchemaDown) = 16
    /\ \A n \in 1..16 : /\ SchemaDown[n].do = "drop"
                        /\ SchemaDown[n].table \in DroppedTables
                        /\ DropAt[SchemaDown[n].table] = n
    /\ \A t \in DroppedTables : DropAt[t] \in 1..16 /\ SchemaDown[DropAt[t]].table = t
<1> DEFINE dropped == <<"audit_logs", "purchase_order_items", "purchase_orders",
                        "stock_movements", "stocks", "product_sources",
                        "suppliers", "products", "categories", "user_auth",
                        "users", "role_permissions", "permissions", "roles",
                        "stores", "businesses">>
           p == [i \in 1..Len(dropped) |-> [do |-> "drop", table |-> dropped[i]]]
<1>1. SchemaDown = p
  BY DEF SchemaDown
<1>2. Len(dropped) = 16
  OBVIOUS
<1>3. /\ dropped[1] = "audit_logs" /\ dropped[2] = "purchase_order_items"
      /\ dropped[3] = "purchase_orders" /\ dropped[4] = "stock_movements"
      /\ dropped[5] = "stocks" /\ dropped[6] = "product_sources"
      /\ dropped[7] = "suppliers" /\ dropped[8] = "products"
      /\ dropped[9] = "categories" /\ dropped[10] = "user_auth"
      /\ dropped[11] = "users" /\ dropped[12] = "role_permissions"
      /\ dropped[13] = "permissions" /\ dropped[14] = "roles"
      /\ dropped[15] = "stores" /\ dropped[16] = "businesses"
  OBVIOUS
<1> HIDE DEF dropped
<1>4. Len(p) = 16 /\ \A n \in 1..16 : p[n].do = "drop" /\ p[n].table = dropped[n]
  BY <1>2
<1> HIDE DEF p
<1>5. ASSUME NEW n \in 1..16
      PROVE  dropped[n] \in DroppedTables /\ DropAt[dropped[n]] = n
  <2>1. \/ n = 1 \/ n = 2 \/ n = 3 \/ n = 4 \/ n = 5 \/ n = 6 \/ n = 7 \/ n = 8
        \/ n = 9 \/ n = 10 \/ n = 11 \/ n = 12 \/ n = 13 \/ n = 14 \/ n = 15 \/ n = 16
    OBVIOUS
  <2>. QED  BY <1>3, <2>1 DEF DropAt, DroppedTables
<1>6. ASSUME NEW t \in DroppedTables
      PROVE  DropAt[t] \in 1..16 /\ dropped[DropAt[t]] = t
  BY <1>3 DEF DropAt, DroppedTables
<1>. QED  BY <1>1, <1>4, <1>5, <1>6

\* A table goes after the ones that refer to it.
LEMMA DropOrder ==
    ASSUME NEW e \in ReferenceTable, NEW n \in 1..16, SchemaDown[n].table = e[3]
    PROVE  \E m \in 1..(n - 1) : SchemaDown[m].table = e[1]
<1>1. /\ e[1] \in DroppedTables /\ e[3] \in DroppedTables
      /\ DropAt[e[1]] < DropAt[e[3]]
  BY DEF ReferenceTable, DroppedTables, DropAt
<1>2. DropAt[e[3]] = n
  BY SchemaDownIs
<1>3. DropAt[e[1]] \in 1..(n - 1) /\ SchemaDown[DropAt[e[1]]].table = e[1]
  BY <1>1, <1>2, SchemaDownIs
<1>. QED  BY <1>3

LEMMA SeedingDownIs ==
    /\ Len(SeedingDown) = 16
    /\ \A n \in 1..16 : /\ SeedingDown[n].do = "delete"
                        /\ SeedingDown[n].table \in DroppedTables
                        /\ DeleteAt[SeedingDown[n].table] = n
    /\ \A t \in DroppedTables : DeleteAt[t] \in 1..16 /\ SeedingDown[DeleteAt[t]].table = t
<1> DEFINE emptied == <<"audit_logs", "stock_movements", "stocks",
                        "purchase_order_items", "purchase_orders",
                        "product_sources", "user_auth", "users",
                        "role_permissions", "roles", "permissions", "suppliers",
                        "categories", "products", "stores", "businesses">>
           p == [i \in 1..Len(emptied) |-> [do |-> "delete", table |-> emptied[i]]]
<1>1. SeedingDown = p
  BY DEF SeedingDown, Emptying
<1>2. Len(emptied) = 16
  OBVIOUS
<1>3. /\ emptied[1] = "audit_logs" /\ emptied[2] = "stock_movements"
      /\ emptied[3] = "stocks" /\ emptied[4] = "purchase_order_items"
      /\ emptied[5] = "purchase_orders" /\ emptied[6] = "product_sources"
      /\ emptied[7] = "user_auth" /\ emptied[8] = "users"
      /\ emptied[9] = "role_permissions" /\ emptied[10] = "roles"
      /\ emptied[11] = "permissions" /\ emptied[12] = "suppliers"
      /\ emptied[13] = "categories" /\ emptied[14] = "products"
      /\ emptied[15] = "stores" /\ emptied[16] = "businesses"
  OBVIOUS
<1> HIDE DEF emptied
<1>4. Len(p) = 16 /\ \A n \in 1..16 : p[n].do = "delete" /\ p[n].table = emptied[n]
  BY <1>2
<1> HIDE DEF p
<1>5. ASSUME NEW n \in 1..16
      PROVE  emptied[n] \in DroppedTables /\ DeleteAt[emptied[n]] = n
  <2>1. \/ n = 1 \/ n = 2 \/ n = 3 \/ n = 4 \/ n = 5 \/ n = 6 \/ n = 7 \/ n = 8
        \/ n = 9 \/ n = 10 \/ n = 11 \/ n = 12 \/ n = 13 \/ n = 14 \/ n = 15 \/ n = 16
    OBVIOUS
  <2>. QED  BY <1>3, <2>1 DEF DeleteAt, DroppedTables
<1>6. ASSUME NEW t \in DroppedTables
      PROVE  DeleteAt[t] \in 1..16 /\ emptied[DeleteAt[t]] = t
  BY <1>3 DEF DeleteAt, DroppedTables
<1>. QED  BY <1>1, <1>4, <1>5, <1>6

\* A table is emptied after the ones whose rows would hold it back.
LEMMA DeleteOrder ==
    ASSUME NEW e \in ReferenceTable, e[4] = "RESTRICT",
           NEW n \in 1..16, SeedingDown[n].table = e[3]
    PROVE  \E m \in 1..(n - 1) : SeedingDown[m].table = e[1]
<1>1. SetNull # "RESTRICT"
  BY Zenon DEF SetNull
<1>2. /\ e[1] \in DroppedTables /\ e[3] \in DroppedTables
      /\ DeleteAt[e[1]] < DeleteAt[e[3]]
  BY <1>1 DEF ReferenceTable, DroppedTables, DeleteAt
<1>3. DeleteAt[e[3]] = n
  BY SeedingDownIs
<1>4. DeleteAt[e[1]] \in 1..(n - 1) /\ SeedingDown[DeleteAt[e[1]]].table = e[1]
  BY <1>2, <1>3, SeedingDownIs
<1>. QED  BY <1>4

-----------------------------------------------------------------------------
(* The stages of the commands.                                             *)

Creating == command = "run" /\ executed = {}
Seeding == command = "run" /\ executed = {"InitialSchema"}
Dropping == command = "revert" /\ executed = {"InitialSchema"}
Removing == command = "revert" /\ executed = {"InitialSchema", "InitialSeeding"}
Starting == command = "start"

\* The migrations are executed in their order and reverted in the opposite one.
Recorded == {{}, {"InitialSchema"}, {"InitialSchema", "InitialSeeding"}}

\* Where the commands are: what is saved is what a rollback restores.
Progress ==
    /\ executed \in Recorded /\ saved.executed \in Recorded
    /\ command \in {"idle", "run", "revert", "start"}
    /\ command = "run" => /\ executed # {"InitialSchema", "InitialSeeding"}
                          /\ saved.executed \subseteq executed
    /\ command = "revert" => executed # {} /\ saved.executed = executed
    /\ command = "start" => ~ inTx
    /\ command \in {"run", "start"} => runs \in 1..MaxRuns
    /\ pc \in Nat \ {0} /\ runs \in 0..MaxRuns
    /\ inTx \in BOOLEAN /\ saved = [rows |-> saved.rows, executed |-> saved.executed]

LEMMA TwoMigrations ==
    /\ 1..Len(Migrations) = {1, 2}
    /\ Migrations[1] = "InitialSchema" /\ Migrations[2] = "InitialSeeding"
    /\ {Migrations[i] : i \in 1..Len(Migrations)} = {"InitialSchema", "InitialSeeding"}
<1>1. Len(Migrations) = 2 /\ Migrations[1] = "InitialSchema" /\ Migrations[2] = "InitialSeeding"
  BY DEF Migrations
<1>2. 1..2 = {1, 2}
  OBVIOUS
<1>. QED  BY <1>1, <1>2

LEMMA PendingIs ==
    /\ executed = {} => Pending = {1, 2}
    /\ executed = {"InitialSchema"} => Pending = {2}
    /\ executed = {"InitialSchema", "InitialSeeding"} => Pending = {}
  BY TwoMigrations DEF Pending

\* How much is left to run.
LEMMA PendingCount ==
    /\ executed = {} => Cardinality(Pending) > 1
    /\ executed = {"InitialSchema"} => ~ (Cardinality(Pending) > 1)
<1>1. Cardinality({2}) = 1 /\ IsFiniteSet({2})
  BY FS_Singleton
<1>2. Cardinality({2} \cup {1}) = 2
  BY <1>1, FS_AddElement
<1>3. {2} \cup {1} = {1, 2}
  OBVIOUS
<1>. QED  BY <1>1, <1>2, <1>3, PendingIs

LEMMA FirstAndLast ==
    /\ First({1, 2}) = 1 /\ First({2}) = 2
    /\ Last1({1, 2}) = 2 /\ Last1({1}) = 1
<1>1. First({1, 2}) \in {1, 2} /\ \A j \in {1, 2} : First({1, 2}) <= j
  <2>1. \E i \in {1, 2} : \A j \in {1, 2} : i <= j
    OBVIOUS
  <2>. QED  BY <2>1 DEF First
<1>2. Last1({1, 2}) \in {1, 2} /\ \A j \in {1, 2} : Last1({1, 2}) >= j
  <2>1. \E i \in {1, 2} : \A j \in {1, 2} : i >= j
    OBVIOUS
  <2>. QED  BY <2>1 DEF Last1
<1>3. First({2}) \in {2}
  BY DEF First
<1>4. Last1({1}) \in {1}
  BY DEF Last1
<1>. QED  BY <1>1, <1>2, <1>3, <1>4

\* What is at hand in each stage.
LEMMA StageOf ==
    ASSUME Progress
    PROVE  /\ command # "idle" => Creating \/ Seeding \/ Dropping \/ Removing \/ Starting
           /\ Creating => Current = "InitialSchema" /\ Program = SchemaUp
           /\ Seeding \/ Starting =>
                  /\ Current = "InitialSeeding" /\ Program = SeedingUp(runs)
                  /\ runs \in 1..MaxRuns
           /\ Dropping => Current = "InitialSchema" /\ Program = SchemaDown
           /\ Removing => Current = "InitialSeeding" /\ Program = SeedingDown
<1>1. command # "idle" => Creating \/ Seeding \/ Dropping \/ Removing \/ Starting
  BY DEF Progress, Recorded, Creating, Seeding, Dropping, Removing, Starting
<1>2. ASSUME runs \in 1..MaxRuns PROVE Seedings[runs] = SeedingUp(runs)
  BY <1>2 DEF Seedings
<1>3. ASSUME Creating PROVE Current = "InitialSchema" /\ Program = SchemaUp
  <2>1. command = "run" /\ Pending = {1, 2}
    BY <1>3, PendingIs DEF Creating
  <2>2. Current = "InitialSchema"
    BY <2>1, FirstAndLast, TwoMigrations DEF Current
  <2>. QED  BY <2>1, <2>2 DEF Program
<1>4. ASSUME Seeding
      PROVE  /\ Current = "InitialSeeding" /\ Program = SeedingUp(runs)
             /\ runs \in 1..MaxRuns
  <2>1. command = "run" /\ Pending = {2} /\ runs \in 1..MaxRuns
    BY <1>4, PendingIs DEF Seeding, Progress
  <2>2. Current = "InitialSeeding"
    BY <2>1, FirstAndLast, TwoMigrations DEF Current
  <2>. QED  BY <1>2, <2>1, <2>2 DEF Program
<1>5. ASSUME Starting
      PROVE  /\ Current = "InitialSeeding" /\ Program = SeedingUp(runs)
             /\ runs \in 1..MaxRuns
  <2>1. command = "start" /\ runs \in 1..MaxRuns
    BY <1>5 DEF Starting, Progress
  <2>2. Current = "InitialSeeding"
    BY <2>1 DEF Current
  <2>. QED  BY <1>2, <2>1, <2>2 DEF Program
<1>6. ASSUME Dropping PROVE Current = "InitialSchema" /\ Program = SchemaDown
  <2>1. command = "revert" /\ Pending = {2}
    BY <1>6, PendingIs DEF Dropping
  <2>2. (1..Len(Migrations)) \ Pending = {1}
    BY <2>1, TwoMigrations
  <2>3. Current = "InitialSchema"
    BY <2>1, <2>2, FirstAndLast, TwoMigrations DEF Current
  <2>. QED  BY <2>1, <2>3 DEF Program
<1>7. ASSUME Removing PROVE Current = "InitialSeeding" /\ Program = SeedingDown
  <2>1. command = "revert" /\ Pending = {}
    BY <1>7, PendingIs DEF Removing
  <2>2. (1..Len(Migrations)) \ Pending = {1, 2}
    BY <2>1, TwoMigrations
  <2>3. Current = "InitialSeeding"
    BY <2>1, <2>2, FirstAndLast, TwoMigrations DEF Current
  <2>. QED  BY <2>1, <2>3 DEF Program
<1>. QED  BY <1>1, <1>3, <1>4, <1>5, <1>6, <1>7

-----------------------------------------------------------------------------
(* One statement of each migration.                                        *)

CreateStep(s) ==
    \/ s.do = "table" /\ s.table \in tables /\ UNCHANGED database /\ (inTx' <=> inTx)
    \/ s.do = "table" /\ s.table \notin tables /\ Define(s) /\ ~ inTx'
    \/ s.do = "key" /\ KeyFits(s) /\ Define(s) /\ ~ inTx'
InsertStep(s) ==
    /\ \E new \in s.alternatives : InsertFits(s, new) /\ InsertRows(s, new)
    /\ inTx' <=> inTx
DropStep(s) ==
    \/ s.table \notin tables /\ UNCHANGED database /\ (inTx' <=> inTx)
    \/ s.table \in tables /\ DropFits(s) /\ Drop(s) /\ ~ inTx'
DeleteStep(s) == DeleteFits(s) /\ DeleteRows(s) /\ (inTx' <=> inTx)

\* The statements of the sample data, by their place.
LEMMA SeedingShape ==
    ASSUME NEW r
    PROVE  /\ Len(SeedingUp(r)) \in Nat /\ InOrder(SeedingUp(r), {})
           /\ \A n \in 1..Len(SeedingUp(r)) :
                  /\ \E b : IsSeed(SeedingUp(r)[n], r, b)
                  /\ SeedingUp(r)[n].do = "insert"
                  /\ SeedingUp(r)[n].table \in DroppedTables
<1> DEFINE p == SeedingUp(r)
<1>1. IsSeeding(p, r)
  BY SeedingIsInOrder
<1> HIDE DEF p
<1>2. p \in Seq(Elements(p))
  BY <1>1 DEF IsSeeding, IsSequence
<1>3. Len(p) \in Nat
  BY <1>2
<1>4. ASSUME NEW n \in 1..Len(p)
      PROVE  (\E b : IsSeed(p[n], r, b)) /\ p[n].do = "insert" /\ p[n].table \in DroppedTables
  <2>1. p[n] \in Elements(p)
    BY DEF Elements
  <2>2. PICK b : IsSeed(p[n], r, b)
    BY <1>1, <2>1 DEF IsSeeding
  <2>. QED  BY <2>2 DEF IsSeed
<1>. QED  BY <1>1, <1>3, <1>4 DEF IsSeeding, p

LEMMA ExecuteIs ==
    ASSUME Progress, Execute
    PROVE  /\ pc' = pc + 1
           /\ UNCHANGED <<executed, command, saved, runs, started, refused,
                          interrupted, faults>>
           /\ Creating => pc \in 1..Len(SchemaUp) /\ CreateStep(SchemaUp[pc])
           /\ Seeding \/ Starting =>
                  pc \in 1..Len(SeedingUp(runs)) /\ InsertStep(SeedingUp(runs)[pc])
           /\ Dropping => pc \in 1..16 /\ DropStep(SchemaDown[pc])
           /\ Removing => pc \in 1..16 /\ DeleteStep(SeedingDown[pc])
           /\ inTx' \in BOOLEAN /\ (inTx' => inTx)
<1>1. /\ pc' = pc + 1 /\ pc <= Len(Program) /\ pc \in Nat \ {0}
      /\ Apply(Program[pc])
      /\ inTx' <=> (inTx /\ ~ ChangesSchema(Program[pc]))
      /\ UNCHANGED <<executed, command, saved, runs, started, refused, interrupted,
                     faults>>
  BY Zenon DEF Execute, Progress
<1>2. inTx' \in BOOLEAN /\ (inTx' => inTx)
  BY Zenon DEF Execute
<1>3. ASSUME Creating PROVE pc \in 1..Len(SchemaUp) /\ CreateStep(SchemaUp[pc])
  <2> DEFINE s == SchemaUp[pc]
  <2>1. Program = SchemaUp /\ pc \in 1..Len(SchemaUp)
    BY <1>1, <1>3, SchemaShape, StageOf
  <2>2. SchemaStatement(s)
    BY <2>1, SchemaShape
  <2>3. Apply(s) /\ (inTx' <=> (inTx /\ ~ ChangesSchema(s)))
    BY <1>1, <2>1
  <2> HIDE DEF s
  <2>4. s.do = "table" \/ s.do = "key"
    BY <2>2 DEF SchemaStatement
  <2>5. CASE s.do = "table" /\ s.table \in tables
    <3>1. Skipped(s) /\ ~ ChangesSchema(s)
      BY <2>5 DEF Skipped, ChangesSchema
    <3>2. UNCHANGED database
      BY <2>3, <2>5, <3>1 DEF Apply
    <3>. QED  BY <2>1, <2>3, <2>5, <3>1, <3>2 DEF CreateStep, s
  <2>6. CASE s.do = "table" /\ s.table \notin tables
    <3>1. ~ Skipped(s)
      BY <2>6 DEF Skipped
    <3>2. ChangesSchema(s)
      BY <2>6, <3>1 DEF ChangesSchema
    <3>3. Define(s)
      BY <2>3, <2>6, <3>1 DEF Apply
    <3>. QED  BY <2>1, <2>3, <2>6, <3>2, <3>3 DEF CreateStep, s
  <2>7. CASE s.do = "key"
    <3>1. ~ Skipped(s)
      BY <2>7 DEF Skipped
    <3>2. ChangesSchema(s)
      BY <2>7, <3>1 DEF ChangesSchema
    <3>3. KeyFits(s) /\ Define(s)
      BY <2>3, <2>7, <3>1 DEF Apply
    <3>. QED  BY <2>1, <2>3, <2>7, <3>2, <3>3 DEF CreateStep, s
  <2>. QED  BY <2>4, <2>5, <2>6, <2>7
<1>4. ASSUME Seeding \/ Starting
      PROVE  pc \in 1..Len(SeedingUp(runs)) /\ InsertStep(SeedingUp(runs)[pc])
  <2> DEFINE s == SeedingUp(runs)[pc]
  <2>1. Program = SeedingUp(runs) /\ pc \in 1..Len(SeedingUp(runs))
    BY <1>1, <1>4, SeedingShape, StageOf
  <2>2. s.do = "insert"
    BY <2>1, SeedingShape
  <2>3. Apply(s) /\ (inTx' <=> (inTx /\ ~ ChangesSchema(s)))
    BY <1>1, <2>1
  <2> HIDE DEF s
  <2>4. ~ Skipped(s) /\ ~ ChangesSchema(s)
    BY <2>2 DEF Skipped, ChangesSchema
  <2>5. \E new \in s.alternatives : InsertFits(s, new) /\ InsertRows(s, new)
    BY <2>2, <2>3, <2>4 DEF Apply
  <2>. QED  BY <2>1, <2>3, <2>4, <2>5 DEF InsertStep, s
<1>5. ASSUME Dropping PROVE pc \in 1..16 /\ DropStep(SchemaDown[pc])
  <2> DEFINE s == SchemaDown[pc]
  <2>0. Program = SchemaDown /\ Len(SchemaDown) = 16
    BY <1>5, SchemaDownIs, StageOf
  <2>1. Program = SchemaDown /\ pc \in 1..16
    BY <1>1, <2>0
  <2>2. s.do = "drop"
    BY <2>1, SchemaDownIs
  <2>3. Apply(s) /\ (inTx' <=> (inTx /\ ~ ChangesSchema(s)))
    BY <1>1, <2>1
  <2> HIDE DEF s
  <2>4. CASE s.table \notin tables
    <3>1. Skipped(s) /\ ~ ChangesSchema(s)
      BY <2>2, <2>4 DEF Skipped, ChangesSchema
    <3>2. UNCHANGED database
      BY <2>2, <2>3, <3>1 DEF Apply
    <3>. QED  BY <2>1, <2>3, <2>4, <3>1, <3>2 DEF DropStep, s
  <2>5. CASE s.table \in tables
    <3>1. ~ Skipped(s)
      BY <2>2, <2>5 DEF Skipped
    <3>2. ChangesSchema(s)
      BY <2>2, <3>1 DEF ChangesSchema
    <3>3. DropFits(s) /\ Drop(s)
      BY <2>2, <2>3, <3>1 DEF Apply
    <3>. QED  BY <2>1, <2>3, <2>5, <3>2, <3>3 DEF DropStep, s
  <2>. QED  BY <2>4, <2>5
<1>6. ASSUME Removing PROVE pc \in 1..16 /\ DeleteStep(SeedingDown[pc])
  <2> DEFINE s == SeedingDown[pc]
  <2>0. Program = SeedingDown /\ Len(SeedingDown) = 16
    BY <1>6, SeedingDownIs, StageOf
  <2>1. Program = SeedingDown /\ pc \in 1..16
    BY <1>1, <2>0
  <2>2. s.do = "delete"
    BY <2>1, SeedingDownIs
  <2>3. Apply(s) /\ (inTx' <=> (inTx /\ ~ ChangesSchema(s)))
    BY <1>1, <2>1
  <2> HIDE DEF s
  <2>4. ~ Skipped(s) /\ ~ ChangesSchema(s)
    BY <2>2 DEF Skipped, ChangesSchema
  <2>5. DeleteFits(s) /\ DeleteRows(s)
    BY <2>2, <2>3, <2>4 DEF Apply
  <2>. QED  BY <2>1, <2>3, <2>4, <2>5 DEF DeleteStep, s
<1>. QED  BY <1>1, <1>2, <1>3, <1>4, <1>5, <1>6

\* Why a statement is refused.
LEMMA RefuseIs ==
    ASSUME Progress, Refuse
    PROVE  /\ Creating => /\ pc \in 1..Len(SchemaUp) /\ SchemaUp[pc].do = "key"
                          /\ ~ KeyFits(SchemaUp[pc])
           /\ Seeding => /\ pc \in 1..Len(SeedingUp(runs))
                         /\ \E new \in SeedingUp(runs)[pc].alternatives :
                                ~ InsertFits(SeedingUp(runs)[pc], new)
           /\ Dropping => pc \in 1..16 /\ ~ DropFits(SchemaDown[pc])
           /\ Removing => pc \in 1..16 /\ ~ DeleteFits(SeedingDown[pc])
<1>1. pc <= Len(Program) /\ pc \in Nat \ {0} /\ MayBeRefused(Program[pc])
  BY DEF Refuse, Progress
<1>2. ASSUME Creating
      PROVE  /\ pc \in 1..Len(SchemaUp) /\ SchemaUp[pc].do = "key"
             /\ ~ KeyFits(SchemaUp[pc])
  <2>1. Program = SchemaUp /\ pc \in 1..Len(SchemaUp)
    BY <1>1, <1>2, SchemaShape, StageOf
  <2>2. SchemaUp[pc].do = "table" \/ SchemaUp[pc].do = "key"
    BY <2>1, SchemaShape DEF SchemaStatement
  <2>. QED  BY <1>1, <2>1, <2>2 DEF MayBeRefused
<1>3. ASSUME Seeding
      PROVE  /\ pc \in 1..Len(SeedingUp(runs))
             /\ \E new \in SeedingUp(runs)[pc].alternatives :
                    ~ InsertFits(SeedingUp(runs)[pc], new)
  <2>1. Program = SeedingUp(runs) /\ pc \in 1..Len(SeedingUp(runs))
    BY <1>1, <1>3, SeedingShape, StageOf
  <2>2. SeedingUp(runs)[pc].do = "insert"
    BY <2>1, SeedingShape
  <2>. QED  BY <1>1, <2>1, <2>2 DEF MayBeRefused
<1>4. ASSUME Dropping PROVE pc \in 1..16 /\ ~ DropFits(SchemaDown[pc])
  <2>0. Program = SchemaDown /\ Len(SchemaDown) = 16
    BY <1>4, SchemaDownIs, StageOf
  <2>1. Program = SchemaDown /\ pc \in 1..16
    BY <1>1, <2>0
  <2>2. SchemaDown[pc].do = "drop"
    BY <2>1, SchemaDownIs
  <2>. QED  BY <1>1, <2>1, <2>2 DEF MayBeRefused
<1>5. ASSUME Removing PROVE pc \in 1..16 /\ ~ DeleteFits(SeedingDown[pc])
  <2>0. Program = SeedingDown /\ Len(SeedingDown) = 16
    BY <1>5, SeedingDownIs, StageOf
  <2>1. Program = SeedingDown /\ pc \in 1..16
    BY <1>1, <2>0
  <2>2. SeedingDown[pc].do = "delete"
    BY <2>1, SeedingDownIs
  <2>. QED  BY <1>1, <2>1, <2>2 DEF MayBeRefused
<1>. QED  BY <1>2, <1>3, <1>4, <1>5

-----------------------------------------------------------------------------
(* What the other actions do.                                              *)

LEMMA BeginIs ==
    ASSUME Run \/ Revert \/ StartInDevelopment
    PROVE  /\ UNCHANGED <<tables, keys, rows, executed, refused, interrupted, faults>>
           /\ command = "idle" /\ pc' = 1 /\ inTx' \in BOOLEAN
           /\ saved' = [rows |-> rows, executed |-> executed]
           /\ \/ /\ Run /\ command' = "run" /\ Pending # {} /\ runs < MaxRuns
                 /\ runs' = runs + 1 /\ started' = started /\ inTx'
              \/ /\ Revert /\ command' = "revert" /\ executed # {}
                 /\ runs' = runs /\ started' = started /\ inTx'
              \/ /\ StartInDevelopment /\ command' = "start" /\ runs < MaxRuns
                 /\ runs' = runs + 1 /\ started' = started \cup {runs'} /\ ~ inTx'
<1>1. CASE Run
  <2>1. Begin("run")
    BY <1>1 DEF Run
  <2>2. inTx' = TRUE
    BY <2>1 DEF Begin
  <2>. QED  BY <1>1, <2>1, <2>2 DEF Run, Begin, database
<1>2. CASE Revert
  <2>1. Begin("revert")
    BY <1>2 DEF Revert
  <2>2. inTx' = TRUE
    BY <2>1 DEF Begin
  <2>. QED  BY <1>2, <2>1, <2>2 DEF Revert, Begin, database
<1>3. CASE StartInDevelopment
  <2>1. Begin("start")
    BY <1>3 DEF StartInDevelopment
  <2>2. inTx' = FALSE
    BY <2>1 DEF Begin
  <2>. QED  BY <1>3, <2>1, <2>2 DEF StartInDevelopment, Begin, database
<1>. QED  BY <1>1, <1>2, <1>3

LEMMA FinishIs ==
    ASSUME Progress, Finish
    PROVE  /\ pc = Len(Program) + 1 /\ pc' = 1 /\ command # "idle"
           /\ UNCHANGED <<tables, keys, rows, inTx, saved, runs, started, refused,
                          interrupted, faults>>
           /\ Creating => executed' = {"InitialSchema"} /\ command' = "run"
           /\ Seeding => /\ executed' = {"InitialSchema", "InitialSeeding"}
                         /\ command' = "idle"
           /\ Dropping => executed' = {} /\ command' = "idle"
           /\ Removing => executed' = {"InitialSchema"} /\ command' = "idle"
           /\ Starting => executed' = executed /\ command' = "idle"
<1>1. /\ pc = Len(Program) + 1 /\ pc' = 1 /\ command # "idle"
      /\ UNCHANGED <<tables, keys, rows, inTx, saved, runs, started, refused,
                     interrupted, faults>>
      /\ executed' = CASE command = "run"    -> executed \cup {Current}
                       [] command = "revert" -> executed \ {Current}
                       [] command = "start"  -> executed
      /\ command' = IF command = "run" /\ Cardinality(Pending) > 1
                    THEN command ELSE "idle"
  BY DEF Finish, database
<1>2. ASSUME Creating PROVE executed' = {"InitialSchema"} /\ command' = "run"
  <2>1. command = "run" /\ executed = {} /\ Current = "InitialSchema"
    BY <1>2, StageOf DEF Creating
  <2>2. Cardinality(Pending) > 1
    BY <2>1, PendingCount
  <2>. QED  BY <1>1, <2>1, <2>2
<1>3. ASSUME Seeding
      PROVE  executed' = {"InitialSchema", "InitialSeeding"} /\ command' = "idle"
  <2>1. command = "run" /\ executed = {"InitialSchema"} /\ Current = "InitialSeeding"
    BY <1>3, StageOf DEF Seeding
  <2>2. ~ (Cardinality(Pending) > 1)
    BY <2>1, PendingCount
  <2>. QED  BY <1>1, <2>1, <2>2
<1>4. ASSUME Dropping PROVE executed' = {} /\ command' = "idle"
  <2>1. command = "revert" /\ executed = {"InitialSchema"} /\ Current = "InitialSchema"
    BY <1>4, StageOf DEF Dropping
  <2>. QED  BY <1>1, <2>1
<1>5. ASSUME Removing PROVE executed' = {"InitialSchema"} /\ command' = "idle"
  <2>1. /\ command = "revert" /\ executed = {"InitialSchema", "InitialSeeding"}
        /\ Current = "InitialSeeding"
    BY <1>5, StageOf DEF Removing
  <2>. QED  BY <1>1, <2>1
<1>6. ASSUME Starting PROVE executed' = executed /\ command' = "idle"
  BY <1>1, <1>6 DEF Starting
<1>. QED  BY <1>1, <1>2, <1>3, <1>4, <1>5, <1>6

LEMMA AbortIs ==
    ASSUME Refuse \/ Interrupt
    PROVE  /\ command # "idle" /\ command' = "idle" /\ pc' = 1
           /\ inTx' \in BOOLEAN /\ ~ inTx'
           /\ UNCHANGED <<tables, keys, saved, runs, started>>
           /\ inTx => rows' = saved.rows /\ executed' = saved.executed
           /\ ~ inTx => rows' = rows /\ executed' = executed
           /\ \/ /\ Refuse /\ UNCHANGED <<interrupted, faults>>
                 /\ refused' = (refused \/ command # "start")
              \/ /\ Interrupt /\ refused' = refused /\ faults < MaxFaults
                 /\ faults' = faults + 1
                 /\ interrupted' = interrupted \cup
                        {[migration |-> Current, command |-> command, inTx |-> inTx,
                          keyed |-> FirstKey \in keys]}
<1>1. Abort /\ command # "idle"
  BY DEF Refuse, Interrupt
<1>2. /\ command # "idle" /\ command' = "idle" /\ pc' = 1
      /\ UNCHANGED <<tables, keys, saved, runs, started>>
      /\ inTx => rows' = saved.rows /\ executed' = saved.executed
      /\ ~ inTx => rows' = rows /\ executed' = executed
  BY <1>1 DEF Abort
<1>5. inTx' \in BOOLEAN /\ ~ inTx'
  <2>1. inTx' = FALSE
    BY <1>1 DEF Abort
  <2>. QED  BY <2>1
<1>3. CASE Refuse
  <2>1. /\ Refuse /\ UNCHANGED <<interrupted, faults>>
        /\ refused' = (refused \/ command # "start")
    BY <1>3 DEF Refuse
  <2>. QED  BY <1>2, <1>5, <2>1
<1>4. CASE Interrupt
  <2>1. /\ Interrupt /\ refused' = refused /\ faults < MaxFaults
        /\ faults' = faults + 1
        /\ interrupted' = interrupted \cup
               {[migration |-> Current, command |-> command, inTx |-> inTx,
                 keyed |-> FirstKey \in keys]}
    BY <1>4 DEF Interrupt
  <2>. QED  BY <1>2, <1>5, <2>1
<1>. QED  BY <1>3, <1>4

LEMMA ProgressStep ==
    ASSUME Progress, [Next]_vars
    PROVE  Progress'
<1>1. CASE Run \/ Revert \/ StartInDevelopment
  <2>1. /\ UNCHANGED executed
        /\ command = "idle" /\ pc' = 1 /\ inTx' \in BOOLEAN
        /\ saved' = [rows |-> rows, executed |-> executed]
        /\ \/ /\ command' = "run" /\ Pending # {} /\ runs < MaxRuns
              /\ runs' = runs + 1
           \/ command' = "revert" /\ executed # {} /\ runs' = runs
           \/ command' = "start" /\ runs < MaxRuns /\ runs' = runs + 1 /\ ~ inTx'
    BY <1>1, BeginIs
  <2>2. saved'.executed = executed /\ saved'.rows = rows
    BY <2>1
  <2>3. runs \in 0..MaxRuns /\ MaxRuns \in Nat /\ executed \in Recorded
    BY BoundAssumption DEF Progress
  <2>4. command' = "run" => executed # {"InitialSchema", "InitialSeeding"}
    BY <2>1, PendingIs
  <2>. QED  BY <2>1, <2>2, <2>3, <2>4 DEF Progress
<1>2. CASE Execute
  BY <1>2, ExecuteIs DEF Progress
<1>3. CASE Finish
  <2>1. Creating \/ Seeding \/ Dropping \/ Removing \/ Starting
    BY <1>3, FinishIs, StageOf
  <2>2. pc' = 1 /\ UNCHANGED <<inTx, saved, runs>>
    BY <1>3, FinishIs
  <2>3. CASE Creating
    <3>1. executed' = {"InitialSchema"} /\ command' = "run"
      BY <1>3, <2>3, FinishIs
    <3>. QED  BY <2>2, <2>3, <3>1 DEF Progress, Recorded, Creating
  <2>4. CASE ~ Creating
    <3>1. command' = "idle" /\ executed' \in Recorded
      BY <1>3, <2>1, <2>4, FinishIs DEF Recorded, Progress
    <3>. QED  BY <2>2, <3>1 DEF Progress
  <2>. QED  BY <2>3, <2>4
<1>4. CASE Refuse \/ Interrupt
  <2>1. /\ command' = "idle" /\ pc' = 1 /\ inTx' \in BOOLEAN /\ ~ inTx'
        /\ UNCHANGED <<saved, runs>>
        /\ inTx => executed' = saved.executed
        /\ ~ inTx => executed' = executed
    BY <1>4, AbortIs
  <2>2. executed' \in Recorded
    BY <2>1 DEF Progress
  <2>4. /\ saved' = [rows |-> saved'.rows, executed |-> saved'.executed]
        /\ saved'.executed \in Recorded
    BY <2>1 DEF Progress
  <2>5. runs' \in 0..MaxRuns
    BY <2>1 DEF Progress
  <2>. QED  BY <2>1, <2>2, <2>4, <2>5 DEF Progress
<1>5. CASE UNCHANGED vars
  BY <1>5 DEF vars, Progress
<1>. QED  BY <1>1, <1>2, <1>3, <1>4, <1>5 DEF Next

-----------------------------------------------------------------------------
(* The schema: what is there and what is missing.                          *)

\* Keys belong to tables that exist, and so do rows.
DatabaseOK ==
    /\ tables \subseteq AllTables /\ keys \subseteq AllKeys
    /\ \A k \in keys : k[1] \in tables
    /\ DOMAIN rows = AllTables
    /\ \A t \in AllTables : rows[t] # {} => t \in tables

\* What a rollback brings back belongs to tables that exist.
SavedFits ==
    /\ DOMAIN saved.rows = AllTables
    /\ inTx => \A t \in AllTables : saved.rows[t] # {} => t \in tables

\* A table has the indexes that are created with it.
InlineThere ==
    \A n \in 1..Len(SchemaUp) :
        SchemaUp[n].do = "table" /\ SchemaUp[n].table \in tables =>
            KeysOf(SchemaUp[n]) \subseteq keys

\* The statements before the next one have done their work.
CreatedSoFar ==
    Creating => \A n \in 1..(pc - 1) :
        SchemaUp[n].table \in tables /\ KeysOf(SchemaUp[n]) \subseteq keys
DroppedSoFar == Dropping => \A n \in 1..(pc - 1) : SchemaDown[n].table \notin tables

\* After an interruption behind the first key nothing gets past it.
CreationInterrupted ==
    \E x \in interrupted : x.migration = "InitialSchema" /\ x.command = "run" /\ x.keyed
Stuck ==
    CreationInterrupted =>
        /\ executed = {} /\ FirstKey \in keys /\ command # "revert"
        /\ command = "run" => \A n \in 1..(pc - 1) : SchemaUp[n].do = "table"

\* What one statement does.
LEMMA CreateKeeps ==
    ASSUME DatabaseOK, InlineThere,
           NEW n \in 1..Len(SchemaUp), CreateStep(SchemaUp[n])
    PROVE  /\ DatabaseOK' /\ InlineThere'
           /\ SchemaUp[n].table \in tables' /\ KeysOf(SchemaUp[n]) \subseteq keys'
           /\ tables \subseteq tables' /\ keys \subseteq keys' /\ rows' = rows
           /\ keys' \subseteq keys \cup KeysOf(SchemaUp[n])
<1> DEFINE s == SchemaUp[n]
<1>1. /\ s.table \in AllTables /\ SchemaStatement(s) /\ KeysOf(s) \subseteq AllKeys
  BY SchemaShape, TablesOfSchema DEF AllKeys
<1>2. \A x \in KeysOf(s) : x[1] = s.table
  BY <1>1, KeysOfStatement
<1>3. CASE s.do = "table" /\ s.table \in tables /\ UNCHANGED database
  BY <1>3 DEF DatabaseOK, InlineThere, database
<1>4. CASE s.do = "table" /\ s.table \notin tables /\ Define(s)
  <2>1. /\ tables' = tables \cup {s.table} /\ keys' = keys \cup KeysOf(s) /\ rows' = rows
    BY <1>4 DEF Define
  <2>2. ASSUME NEW m \in 1..Len(SchemaUp), SchemaUp[m].do = "table",
               SchemaUp[m].table \in tables'
        PROVE  KeysOf(SchemaUp[m]) \subseteq keys'
    <3>1. CASE SchemaUp[m].table = s.table
      BY <1>4, <2>1, <2>2, <3>1, OneTableOnce
    <3>2. CASE SchemaUp[m].table # s.table
      BY <2>1, <2>2, <3>2 DEF InlineThere
    <3>. QED  BY <3>1, <3>2
  <2> HIDE DEF s
  <2>3. DatabaseOK'
    BY <1>1, <1>2, <2>1 DEF DatabaseOK
  <2>. QED  BY <2>1, <2>2, <2>3 DEF s, InlineThere
<1>5. CASE s.do = "key" /\ KeyFits(s) /\ Define(s)
  <2>1. /\ tables' = tables /\ keys' = keys \cup KeysOf(s) /\ rows' = rows
        /\ s.table \in tables
    BY <1>5 DEF Define, KeyFits
  <2> HIDE DEF s
  <2>3. DatabaseOK'
    BY <1>1, <1>2, <2>1 DEF DatabaseOK
  <2>4. InlineThere'
    BY <2>1 DEF InlineThere
  <2>. QED  BY <2>1, <2>3, <2>4 DEF s
<1>. QED  BY <1>3, <1>4, <1>5 DEF CreateStep

LEMMA InsertKeeps ==
    ASSUME DatabaseOK, NEW s, s.table \in DroppedTables, InsertStep(s)
    PROVE  DatabaseOK' /\ UNCHANGED <<tables, keys>>
<1>1. PICK new \in s.alternatives : InsertFits(s, new) /\ InsertRows(s, new)
  BY DEF InsertStep
<1>2. /\ s.table \in tables /\ UNCHANGED <<tables, keys>>
      /\ rows' = [rows EXCEPT ![s.table] = @ \cup Absent(s, new)]
  BY <1>1 DEF InsertFits, InsertRows
<1>3. DOMAIN rows' = DOMAIN rows /\ \A t \in AllTables : t # s.table => rows'[t] = rows[t]
  BY <1>2 DEF DatabaseOK
<1>. QED  BY <1>2, <1>3 DEF DatabaseOK

LEMMA DropKeeps ==
    ASSUME DatabaseOK, InlineThere, NEW s, s.table \in DroppedTables, DropStep(s)
    PROVE  /\ DatabaseOK' /\ InlineThere'
           /\ s.table \notin tables' /\ tables' \subseteq tables /\ keys' \subseteq keys
           /\ \A t \in AllTables : rows'[t] \subseteq rows[t]
<1>1. CASE s.table \notin tables /\ UNCHANGED database
  BY <1>1 DEF DatabaseOK, InlineThere, database
<1>2. CASE Drop(s)
  <2>1. /\ tables' = tables \ {s.table} /\ keys' = {k \in keys : k[1] # s.table}
        /\ rows' = [rows EXCEPT ![s.table] = {}]
    BY <1>2 DEF Drop
  <2>2. /\ DOMAIN rows' = DOMAIN rows
        /\ \A t \in AllTables : rows'[t] = IF t = s.table THEN {} ELSE rows[t]
    BY <2>1 DEF DatabaseOK
  <2>3. DatabaseOK'
    BY <2>1, <2>2 DEF DatabaseOK
  <2>4. ASSUME NEW m \in 1..Len(SchemaUp), SchemaUp[m].do = "table",
               SchemaUp[m].table \in tables'
        PROVE  KeysOf(SchemaUp[m]) \subseteq keys'
    <3> DEFINE u == SchemaUp[m]
    <3>1. SchemaStatement(u)
      BY SchemaShape
    <3>2. \A x \in KeysOf(u) : x[1] = u.table
      BY <3>1, KeysOfStatement
    <3>3. KeysOf(u) \subseteq keys /\ u.table # s.table
      BY <2>1, <2>4 DEF InlineThere
    <3>. QED  BY <2>1, <3>2, <3>3
  <2>. QED  BY <2>1, <2>2, <2>3, <2>4 DEF InlineThere
<1>. QED  BY <1>1, <1>2 DEF DropStep

LEMMA DeleteKeeps ==
    ASSUME DatabaseOK, NEW s, s.table \in DroppedTables, DeleteStep(s)
    PROVE  /\ DatabaseOK' /\ UNCHANGED <<tables, keys>>
           /\ \A t \in AllTables : rows[t] = {} => rows'[t] = {}
           /\ rows'[s.table] = {}
<1> DEFINE left(t) == rows[t] \ Naming(t, s.table, "CASCADE")
           blank(t) == {k.column : k \in {k \in References(t) :
                            k.to = s.table /\ k.onDelete = "SET NULL"}}
           R(t) == {[c \in DOMAIN x |-> IF c \in blank(t) THEN NONE ELSE x[c]] : x \in left(t)}
<1>1. /\ rows' = [t \in AllTables |-> IF t = s.table THEN {} ELSE R(t)]
      /\ UNCHANGED <<tables, keys>>
  BY Zenon DEF DeleteStep, DeleteRows
<1>2. ASSUME NEW t \in AllTables, rows[t] = {} PROVE R(t) = {}
  <2>1. left(t) = {}
    BY <1>2
  <2> HIDE DEF left, blank
  <2>. QED  BY <2>1
<1> HIDE DEF R
<1>3. s.table \in AllTables
  BY TablesOfSchema
<1>4. \A t \in AllTables : rows[t] = {} => rows'[t] = {}
  BY <1>1, <1>2
<1>5. DatabaseOK'
  BY <1>1, <1>4 DEF DatabaseOK
<1>. QED  BY <1>1, <1>3, <1>4, <1>5

\* What the histories range over.
History ==
    /\ started \subseteq 1..runs /\ faults \in 0..MaxFaults
    /\ refused \in BOOLEAN /\ interrupted \subseteq Interruptions

\* RecordedSchemaIsWhole, by stages.
WholeOK ==
    \/ "InitialSchema" \notin executed
    \/ Dropping
    \/ \E x \in interrupted : x.migration = "InitialSchema" /\ x.command = "revert"
    \/ tables = AllTables /\ keys = AllKeys

SchemaInv ==
    /\ Progress /\ History /\ DatabaseOK /\ SavedFits /\ InlineThere
    /\ CreatedSoFar /\ DroppedSoFar /\ WholeOK /\ Stuck

LEMMA WholeByStages == ASSUME Progress PROVE RecordedSchemaIsWhole <=> WholeOK
<1>1. (command = "revert" /\ Current = "InitialSchema") <=> Dropping
  <2>1. command = "revert" => Dropping \/ Removing
    BY StageOf DEF Creating, Seeding, Starting
  <2>2. Removing => Current # "InitialSchema"
    BY StageOf
  <2>. QED  BY <2>1, <2>2, StageOf DEF Dropping
<1>. QED  BY <1>1 DEF RecordedSchemaIsWhole, WholeOK

LEMMA SchemaInvMeans ==
    ASSUME SchemaInv
    PROVE  TypeOK /\ RecordedSchemaIsWhole /\ InterruptedSchemaNeedsRepair
<1>1. executed \subseteq {Migrations[i] : i \in 1..Len(Migrations)}
  BY TwoMigrations DEF SchemaInv, Progress, Recorded
<1>2. TypeOK
  BY <1>1 DEF SchemaInv, Progress, History, DatabaseOK, TypeOK
<1>3. RecordedSchemaIsWhole
  BY WholeByStages DEF SchemaInv
<1>4. InterruptedSchemaNeedsRepair
  BY DEF SchemaInv, Stuck, CreationInterrupted, InterruptedSchemaNeedsRepair
<1>. QED  BY <1>2, <1>3, <1>4

LEMMA SchemaInit == ASSUME Init PROVE SchemaInv
<1>1. /\ tables = {} /\ keys = {} /\ rows = [t \in AllTables |-> {}] /\ executed = {}
      /\ command = "idle" /\ pc = 1 /\ saved = [rows |-> rows, executed |-> executed]
      /\ runs = 0 /\ started = {} /\ interrupted = {} /\ faults = 0
  BY DEF Init
<1>2. inTx \in BOOLEAN /\ refused \in BOOLEAN
  BY DEF Init
<1>3. saved.rows = rows /\ saved.executed = executed
  BY <1>1
<1>4. MaxRuns \in Nat /\ MaxFaults \in Nat
  BY BoundAssumption
<1>5. Progress
  BY <1>1, <1>2, <1>3, <1>4 DEF Progress, Recorded
<1>6. History
  BY <1>1, <1>2, <1>4 DEF History
<1>7. DatabaseOK /\ SavedFits /\ InlineThere
  BY <1>1, <1>3 DEF DatabaseOK, SavedFits, InlineThere
<1>8. CreatedSoFar /\ DroppedSoFar /\ WholeOK /\ Stuck
  BY <1>1 DEF CreatedSoFar, DroppedSoFar, WholeOK, Stuck, CreationInterrupted,
              Creating, Dropping
<1>. QED  BY <1>5, <1>6, <1>7, <1>8 DEF SchemaInv

LEMMA SchemaBegins ==
    ASSUME SchemaInv, Run \/ Revert \/ StartInDevelopment
    PROVE  SchemaInv'
<1>1. Progress'
  BY ProgressStep DEF SchemaInv, Next
<1>2. /\ UNCHANGED <<tables, keys, rows, executed, refused, interrupted, faults>>
      /\ command = "idle" /\ pc' = 1
      /\ saved' = [rows |-> rows, executed |-> executed]
      /\ \/ command' = "run" /\ runs' = runs + 1 /\ started' = started
         \/ command' = "revert" /\ executed # {} /\ runs' = runs /\ started' = started
         \/ command' = "start" /\ runs' = runs + 1 /\ started' = started \cup {runs'}
  BY BeginIs
<1>3. History'
  <2>1. started \subseteq 1..runs /\ runs \in Nat /\ runs' \in Nat
    BY <1>2 DEF SchemaInv, History, Progress
  <2>2. started' \subseteq 1..runs'
    <3>1. \/ runs' = runs /\ started' = started
          \/ runs' = runs + 1 /\ started' = started
          \/ runs' = runs + 1 /\ started' = started \cup {runs + 1}
      BY <1>2
    <3>2. ASSUME NEW x \in started' PROVE x \in 1..runs'
      <4>1. x \in started \/ (x = runs + 1 /\ runs' = runs + 1)
        BY <3>1, <3>2
      <4>2. x \in 1..runs \/ x = runs + 1
        BY <2>1, <4>1
      <4>3. runs' = runs \/ runs' = runs + 1
        BY <3>1
      <4>4. x = runs + 1 => runs' = runs + 1
        BY <2>1, <4>1
      <4>. QED  BY <2>1, <4>2, <4>3, <4>4
    <3>. QED  BY <3>2
  <2>. QED  BY <1>2, <2>2 DEF SchemaInv, History
<1>4. DatabaseOK' /\ InlineThere'
  BY <1>2 DEF SchemaInv, DatabaseOK, InlineThere
<1>5. SavedFits'
  <2>1. saved'.rows = rows
    BY <1>2
  <2>. QED  BY <1>2, <2>1 DEF SchemaInv, DatabaseOK, SavedFits
<1>6. CreatedSoFar' /\ DroppedSoFar'
  BY <1>2 DEF CreatedSoFar, DroppedSoFar
<1>7. WholeOK'
  BY <1>2 DEF SchemaInv, WholeOK, Dropping
<1>8. Stuck'
  <2>1. CreationInterrupted' <=> CreationInterrupted
    BY <1>2 DEF CreationInterrupted
  <2>. QED  BY <1>2, <2>1 DEF SchemaInv, Stuck
<1>. QED  BY <1>1, <1>3, <1>4, <1>5, <1>6, <1>7, <1>8 DEF SchemaInv

\* What a statement of each stage leaves alone.
LEMMA SchemaExecutes ==
    ASSUME SchemaInv, Execute
    PROVE  SchemaInv'
<1>1. Progress' /\ Progress
  BY ProgressStep DEF SchemaInv, Next
<1>2. /\ pc' = pc + 1 /\ pc \in Nat \ {0}
      /\ UNCHANGED <<executed, command, saved, runs, started, refused, interrupted,
                     faults>>
      /\ inTx' => inTx
  BY <1>1, ExecuteIs DEF Progress
<1>3. History'
  BY <1>2 DEF SchemaInv, History
<1>4. /\ (Creating <=> Creating') /\ (Seeding <=> Seeding') /\ (Dropping <=> Dropping')
      /\ (CreationInterrupted <=> CreationInterrupted')
  BY <1>2 DEF Creating, Seeding, Dropping, CreationInterrupted
<1>5. CASE Creating
  <2> DEFINE s == SchemaUp[pc]
  <2>1. pc \in 1..Len(SchemaUp) /\ CreateStep(s)
    BY <1>1, <1>5, ExecuteIs
  <2>2. /\ DatabaseOK' /\ InlineThere'
        /\ s.table \in tables' /\ KeysOf(s) \subseteq keys'
        /\ tables \subseteq tables' /\ keys \subseteq keys'
    BY <2>1, CreateKeeps DEF SchemaInv
  <2>3. SavedFits'
    BY <1>2, <2>2 DEF SchemaInv, SavedFits
  <2>4. CreatedSoFar'
    <3>1. ASSUME NEW n \in 1..pc
          PROVE  SchemaUp[n].table \in tables' /\ KeysOf(SchemaUp[n]) \subseteq keys'
      <4>1. CASE n = pc
        BY <2>2, <4>1
      <4>2. CASE n # pc
        <5>1. n \in 1..(pc - 1)
          BY <1>2, <4>2
        <5>. QED  BY <1>5, <2>2, <5>1 DEF SchemaInv, CreatedSoFar
      <4>. QED  BY <4>1, <4>2
    <3>2. (pc + 1) - 1 = pc
      BY <1>2
    <3>. QED  BY <1>2, <3>1, <3>2 DEF CreatedSoFar
  <2>5. DroppedSoFar' /\ WholeOK'
    BY <1>2, <1>5 DEF DroppedSoFar, WholeOK, Creating, Dropping
  <2>6. Stuck'
    <3>1. SUFFICES ASSUME CreationInterrupted
                   PROVE  /\ executed = {} /\ FirstKey \in keys' /\ command # "revert"
                          /\ \A n \in 1..pc : SchemaUp[n].do = "table"
      BY <1>2, <1>4 DEF Stuck
    <3>2. /\ executed = {} /\ FirstKey \in keys /\ command # "revert"
          /\ \A n \in 1..(pc - 1) : SchemaUp[n].do = "table"
      BY <1>5, <3>1 DEF SchemaInv, Stuck, Creating
    <3>3. s.do = "table"
      <4>1. SUFFICES ASSUME s.do = "key", KeyFits(s) PROVE FALSE
        BY <2>1 DEF CreateStep
      <4>2. PICK f \in 1..Len(SchemaUp) :
                /\ SchemaUp[f].do = "key"
                /\ \A j \in 1..(f - 1) : SchemaUp[j].do = "table"
                /\ FirstKey = <<SchemaUp[f].table, SchemaUp[f].key>>
        BY FirstKeyIs
      <4>3. ~ (f < pc) /\ ~ (pc < f)
        BY <2>1, <3>2, <4>1, <4>2, SchemaShape
      <4>4. FirstKey = <<s.table, s.key>>
        BY <2>1, <4>2, <4>3, SchemaShape
      <4>. QED  BY <3>2, <4>1, <4>4 DEF KeyFits
    <3>4. \A n \in 1..pc : n = pc \/ n \in 1..(pc - 1)
      BY <1>2
    <3>. QED  BY <2>2, <3>2, <3>3, <3>4
  <2>. QED  BY <1>1, <1>3, <2>2, <2>3, <2>4, <2>5, <2>6 DEF SchemaInv
<1>6. CASE Seeding \/ Starting
  <2> DEFINE s == SeedingUp(runs)[pc]
  <2>1. s.table \in DroppedTables /\ InsertStep(s)
    BY <1>1, <1>6, ExecuteIs, SeedingShape
  <2>2. DatabaseOK' /\ UNCHANGED <<tables, keys>>
    BY <2>1, InsertKeeps DEF SchemaInv
  <2>3. SavedFits' /\ InlineThere' /\ CreatedSoFar' /\ DroppedSoFar'
    BY <1>2, <1>6, <2>2 DEF SchemaInv, SavedFits, InlineThere, CreatedSoFar, DroppedSoFar,
                            Creating, Dropping, Seeding, Starting
  <2>4. WholeOK'
    BY <1>2, <1>4, <2>2 DEF SchemaInv, WholeOK
  <2>5. Stuck'
    BY <1>2, <1>4, <1>6, <2>2 DEF SchemaInv, Stuck, Seeding, Starting
  <2>. QED  BY <1>1, <1>3, <2>2, <2>3, <2>4, <2>5 DEF SchemaInv
<1>7. CASE Dropping
  <2> DEFINE s == SchemaDown[pc]
  <2>1. pc \in 1..16 /\ DropStep(s)
    BY <1>1, <1>7, ExecuteIs
  <2>2. s.table \in DroppedTables
    BY <2>1, SchemaDownIs
  <2>3. /\ DatabaseOK' /\ InlineThere'
        /\ s.table \notin tables' /\ tables' \subseteq tables /\ keys' \subseteq keys
    BY <2>1, <2>2, DropKeeps DEF SchemaInv
  <2>4. SavedFits'
    <3>1. CASE UNCHANGED database
      BY <1>2, <3>1 DEF SchemaInv, SavedFits, database
    <3>2. CASE ~ inTx'
      BY <1>2, <3>2 DEF SchemaInv, SavedFits
    <3>. QED  BY <2>1, <3>1, <3>2 DEF DropStep
  <2>5. DroppedSoFar'
    <3>1. ASSUME NEW n \in 1..pc PROVE SchemaDown[n].table \notin tables'
      <4>1. n = pc \/ n \in 1..(pc - 1)
        BY <1>2
      <4>. QED  BY <1>7, <2>3, <4>1 DEF SchemaInv, DroppedSoFar
    <3>2. (pc + 1) - 1 = pc
      BY <1>2
    <3>. QED  BY <1>2, <3>1, <3>2 DEF DroppedSoFar
  <2>6. CreatedSoFar' /\ WholeOK' /\ Stuck'
    BY <1>2, <1>4, <1>7 DEF SchemaInv, CreatedSoFar, WholeOK, Stuck, Dropping, Creating
  <2>. QED  BY <1>1, <1>3, <2>3, <2>4, <2>5, <2>6 DEF SchemaInv
<1>8. CASE Removing
  <2> DEFINE s == SeedingDown[pc]
  <2>1. pc \in 1..16 /\ DeleteStep(s)
    BY <1>1, <1>8, ExecuteIs
  <2>2. s.table \in DroppedTables
    BY <2>1, SeedingDownIs
  <2>3. DatabaseOK' /\ UNCHANGED <<tables, keys>>
    BY <2>1, <2>2, DeleteKeeps DEF SchemaInv
  <2>4. SavedFits' /\ InlineThere' /\ CreatedSoFar'
    BY <1>2, <1>8, <2>3 DEF SchemaInv, SavedFits, InlineThere, CreatedSoFar,
                            Creating, Removing
  <2>5. DroppedSoFar'
    <3>1. ~ Dropping'
      BY <1>2, <1>8 DEF Dropping, Removing
    <3>. QED  BY <3>1 DEF DroppedSoFar
  <2>6. WholeOK' /\ Stuck'
    BY <1>2, <1>4, <1>8, <2>3 DEF SchemaInv, WholeOK, Stuck, Removing
  <2>. QED  BY <1>1, <1>3, <2>3, <2>4, <2>5, <2>6 DEF SchemaInv
<1>9. command # "idle"
  BY DEF Execute
<1>. QED  BY <1>1, <1>5, <1>6, <1>7, <1>8, <1>9, StageOf

\* No key refers to the table that is next to be dropped.
LEMMA DropFitsAlways ==
    ASSUME SchemaInv, Dropping, pc \in 1..16
    PROVE  DropFits(SchemaDown[pc])
<1> DEFINE s == SchemaDown[pc]
<1>1. ASSUME NEW k \in keys, k[2].kind = "reference", k[2].to = s.table
      PROVE  FALSE
  <2> DEFINE e == <<k[1], k[2].column, k[2].to, k[2].onDelete>>
  <2>1. k \in AllKeys /\ k[1] \in tables
    BY DEF SchemaInv, DatabaseOK
  <2>2. e \in ReferenceTable
    BY <1>1, <2>1, KeysOfSchema
  <2>3. e[1] = k[1] /\ e[3] = s.table
    BY <1>1
  <2> HIDE DEF e
  <2>4. PICK m \in 1..(pc - 1) : SchemaDown[m].table = e[1]
    BY <2>2, <2>3, DropOrder
  <2>. QED  BY <2>1, <2>3, <2>4 DEF SchemaInv, DroppedSoFar
<1>. QED  BY <1>1 DEF DropFits

\* After the last statement of its creation the schema is whole.
LEMMA CreatedAll ==
    ASSUME SchemaInv, Creating, pc = Len(Program) + 1
    PROVE  tables = AllTables /\ keys = AllKeys
<1>1. Progress
  BY DEF SchemaInv
<1>2. pc = Len(SchemaUp) + 1 /\ Len(SchemaUp) \in Nat
  BY <1>1, StageOf, SchemaShape
<1>3. \A n \in 1..Len(SchemaUp) : n \in 1..(pc - 1)
  BY <1>2
<1>4. \A n \in 1..Len(SchemaUp) :
          SchemaUp[n].table \in tables /\ KeysOf(SchemaUp[n]) \subseteq keys
  BY <1>3 DEF SchemaInv, CreatedSoFar
<1>. QED  BY <1>4 DEF SchemaInv, DatabaseOK, AllTables, AllKeys

LEMMA SchemaFinishes ==
    ASSUME SchemaInv, Finish
    PROVE  SchemaInv'
<1>1. Progress' /\ Progress
  BY ProgressStep DEF SchemaInv, Next
<1>2. /\ pc = Len(Program) + 1 /\ command # "idle" /\ pc' = 1
      /\ UNCHANGED <<tables, keys, rows, inTx, saved, runs, started, refused,
                     interrupted, faults>>
  BY <1>1, FinishIs
<1>3. History' /\ DatabaseOK' /\ SavedFits' /\ InlineThere'
  BY <1>2 DEF SchemaInv, History, DatabaseOK, SavedFits, InlineThere
<1>4. CreatedSoFar' /\ DroppedSoFar'
  BY <1>2 DEF CreatedSoFar, DroppedSoFar
<1>5. CreationInterrupted' <=> CreationInterrupted
  BY <1>2 DEF CreationInterrupted
<1>6. CASE Creating
  <2>1. executed' = {"InitialSchema"} /\ pc = Len(SchemaUp) + 1 /\ Len(SchemaUp) \in Nat
    BY <1>1, <1>2, <1>6, FinishIs, StageOf, SchemaShape
  <2>2. \A n \in 1..Len(SchemaUp) : n \in 1..(pc - 1)
    BY <2>1
  <2>4. tables = AllTables /\ keys = AllKeys
    BY <1>2, <1>6, CreatedAll
  <2>5. ~ CreationInterrupted
    BY <1>6, <2>2, FirstKeyIs DEF SchemaInv, Stuck, Creating
  <2>6. WholeOK' /\ Stuck'
    BY <1>2, <1>5, <2>4, <2>5 DEF WholeOK, Stuck
  <2>. QED  BY <1>1, <1>3, <1>4, <2>6 DEF SchemaInv
<1>7. CASE ~ Creating
  <2>1. Seeding \/ Dropping \/ Removing \/ Starting
    BY <1>1, <1>2, <1>7, StageOf
  <2>2. command' = "idle" /\ (executed = {} => executed' = {})
    BY <1>1, <2>1, FinishIs DEF Seeding, Dropping, Removing
  <2>3. Stuck'
    BY <1>2, <1>5, <2>2 DEF SchemaInv, Stuck
  <2>4. WholeOK'
    <3>1. CASE Dropping
      BY <1>1, <3>1, FinishIs DEF WholeOK
    <3>2. CASE ~ Dropping
      <4>1. "InitialSchema" \in executed' => "InitialSchema" \in executed
        BY <1>1, <2>1, <3>2, FinishIs DEF Seeding, Removing
      <4>. QED  BY <1>2, <3>2, <4>1 DEF SchemaInv, WholeOK
    <3>. QED  BY <3>1, <3>2
  <2>. QED  BY <1>1, <1>3, <1>4, <2>3, <2>4 DEF SchemaInv
<1>. QED  BY <1>6, <1>7

LEMMA SchemaAborts ==
    ASSUME SchemaInv, Refuse \/ Interrupt
    PROVE  SchemaInv'
<1>1. Progress' /\ Progress
  BY ProgressStep DEF SchemaInv, Next
<1>2. /\ command # "idle" /\ command' = "idle" /\ pc' = 1
      /\ inTx' \in BOOLEAN /\ ~ inTx'
      /\ UNCHANGED <<tables, keys, saved, runs, started>>
      /\ inTx => rows' = saved.rows /\ executed' = saved.executed
      /\ ~ inTx => rows' = rows /\ executed' = executed
  BY AbortIs
<1> DEFINE x == [migration |-> Current, command |-> command, inTx |-> inTx,
                 keyed |-> FirstKey \in keys]
<1>3. \/ /\ Refuse /\ UNCHANGED <<interrupted, faults>>
         /\ refused' = (refused \/ command # "start")
      \/ /\ Interrupt /\ refused' = refused /\ faults < MaxFaults
         /\ faults' = faults + 1 /\ interrupted' = interrupted \cup {x}
  BY AbortIs
<1>4. executed' \subseteq executed
  BY <1>1, <1>2 DEF Progress
<1>5. /\ x.migration = Current /\ x.command = command
      /\ x.keyed <=> FirstKey \in keys
  OBVIOUS
<1>6. x \in Interruptions
  <2>1. Current \in {Migrations[i] : i \in 1..Len(Migrations)}
    BY <1>1, <1>2, StageOf, TwoMigrations
  <2>2. command \in {"run", "revert", "start"} /\ inTx \in BOOLEAN
    BY <1>1, <1>2 DEF Progress
  <2>. QED  BY <2>1, <2>2 DEF Interruptions
<1> HIDE DEF x
<1>7. History'
  <2>1. refused' \in BOOLEAN
    BY <1>3 DEF SchemaInv, History
  <2>2. faults' \in 0..MaxFaults
    BY <1>3, BoundAssumption DEF SchemaInv, History
  <2>. QED  BY <1>2, <1>3, <1>6, <2>1, <2>2 DEF SchemaInv, History
<1>8. DatabaseOK' /\ SavedFits' /\ InlineThere'
  BY <1>1, <1>2 DEF SchemaInv, DatabaseOK, SavedFits, InlineThere, Progress
<1>9. CreatedSoFar' /\ DroppedSoFar'
  BY <1>2 DEF CreatedSoFar, DroppedSoFar, Creating, Dropping
<1>10. interrupted \subseteq interrupted'
  BY <1>3
<1>11. WholeOK'
  <2>1. SUFFICES ASSUME "InitialSchema" \in executed' PROVE WholeOK'
    BY DEF WholeOK
  <2>2. "InitialSchema" \in executed
    BY <1>4, <2>1
  <2>3. CASE Dropping
    <3>1. ~ Refuse
      BY <1>1, <2>3, RefuseIs, DropFitsAlways
    <3>2. x \in interrupted' /\ x.migration = "InitialSchema" /\ x.command = "revert"
      BY <1>1, <1>3, <1>5, <2>3, <3>1, StageOf DEF Dropping
    <3>. QED  BY <3>2 DEF WholeOK
  <2>4. CASE ~ Dropping
    BY <1>2, <1>10, <2>2, <2>4 DEF SchemaInv, WholeOK
  <2>. QED  BY <2>3, <2>4
<1>12. Stuck'
  <2>1. SUFFICES ASSUME CreationInterrupted' PROVE executed = {} /\ FirstKey \in keys
    BY <1>2, <1>4 DEF Stuck
  <2>2. CASE CreationInterrupted
    BY <2>2 DEF SchemaInv, Stuck
  <2>3. CASE ~ CreationInterrupted
    <3>1. PICK y \in interrupted' :
              y.migration = "InitialSchema" /\ y.command = "run" /\ y.keyed
      BY <2>1 DEF CreationInterrupted
    <3>2. y \notin interrupted
      BY <2>3, <3>1 DEF CreationInterrupted
    <3>3. y = x
      BY <1>3, <3>1, <3>2
    <3>4. Current = "InitialSchema" /\ command = "run" /\ FirstKey \in keys
      BY <1>5, <3>1, <3>3
    <3>5. Creating
      BY <1>1, <3>4, StageOf DEF Dropping, Removing
    <3>. QED  BY <3>4, <3>5 DEF Creating
  <2>. QED  BY <2>2, <2>3
<1>. QED  BY <1>1, <1>7, <1>8, <1>9, <1>11, <1>12 DEF SchemaInv

LEMMA SchemaStep == ASSUME SchemaInv, [Next]_vars PROVE SchemaInv'
<1>1. CASE Run \/ Revert \/ StartInDevelopment
  BY <1>1, SchemaBegins
<1>2. CASE Execute
  BY <1>2, SchemaExecutes
<1>3. CASE Finish
  BY <1>3, SchemaFinishes
<1>4. CASE Refuse \/ Interrupt
  BY <1>4, SchemaAborts
<1>5. CASE UNCHANGED vars
  <2>1. (Creating <=> Creating') /\ (Dropping <=> Dropping')
        /\ (CreationInterrupted <=> CreationInterrupted')
    BY <1>5 DEF vars, Creating, Dropping, CreationInterrupted
  <2>2. Progress' /\ History' /\ DatabaseOK' /\ SavedFits' /\ InlineThere'
    BY <1>5 DEF SchemaInv, vars, Progress, History, DatabaseOK, SavedFits, InlineThere
  <2>3. CreatedSoFar' /\ DroppedSoFar' /\ WholeOK' /\ Stuck'
    BY <1>5, <2>1 DEF SchemaInv, vars, CreatedSoFar, DroppedSoFar, WholeOK, Stuck
  <2>. QED  BY <2>2, <2>3 DEF SchemaInv
<1>. QED  BY <1>1, <1>2, <1>3, <1>4, <1>5 DEF Next

LEMMA SchemaAlways == Spec => []SchemaInv
  BY SchemaInit, SchemaStep, PTL DEF Spec

\* Every key belongs to a table that exists and is one of the migration, every
\* row to a table that exists; after any sequence of migration:run,
\* migration:revert, starts in development and interruptions.
THEOREM DeploymentTypes == Spec => []TypeOK
  BY SchemaAlways, SchemaInvMeans, PTL

\* A schema that TypeORM has recorded as executed has every table and every key
\* of the migration, unless a revert of it is under way or was interrupted.
THEOREM RecordedSchemasAreWhole == Spec => []RecordedSchemaIsWhole
  BY SchemaAlways, SchemaInvMeans, PTL

\* Once the creation of the schema was interrupted behind its first key, the
\* schema is never recorded again: each further migration:run skips the tables
\* that are there and is refused at that key.
THEOREM InterruptedSchemasNeedRepair == Spec => []InterruptedSchemaNeedsRepair
  BY SchemaAlways, SchemaInvMeans, PTL

-----------------------------------------------------------------------------
(* The rows: where they come from and what they refer to.                  *)

\* A tenant, told by the execution that added it and its legal name.
IsTenant(x, b) ==
    x = [id |-> Uuid("businesses", x.id[2], b, 1), legal_name |-> b,
         display_name |-> b, registration_number |-> b]
KnownRow(t, x, n) ==
    /\ t \in DroppedTables /\ IsRow(t, x) /\ x.id[2] \in 0..n
    /\ t = "businesses" => \E b : IsTenant(x, b)
KnownRows(rs, n) == \A t \in AllTables : \A x \in rs[t] : KnownRow(t, x, n)

\* A command that creates the schema has seeded nothing yet.
NothingSeededYet == Creating => \A t \in AllTables : \A x \in rows[t] : x.id[2] # runs

\* The rows of this execution come from the statements before the next one, and
\* what those give is there.
SeededSoFar ==
    Seeding =>
        /\ \A t \in AllTables : \A x \in rows[t] :
               x.id[2] = runs =>
                   \E m \in 1..(pc - 1) : Makes(SeedingUp(runs)[m], <<t, x.id>>)
        /\ \A m \in 1..(pc - 1) : \A w :
               Gives(SeedingUp(runs)[m], w) =>
                   w[1] \in AllTables /\ \E y \in rows[w[1]] : y.id = w[2]

DeletedSoFar == Removing => \A m \in 1..(pc - 1) : rows[SeedingDown[m].table] = {}

\* Once the transaction is lost the tables are all there: they were created by
\* the same command.
WholeOrSaved == Seeding /\ ~ inTx => tables = AllTables

\* Without an interruption a schema that is not recorded has only the keys that
\* are created with a table or by the command at hand.
KeysSoFar ==
    interrupted = {} /\ executed = {} =>
        \A k \in keys : \E m \in 1..Len(SchemaUp) :
            /\ k \in KeysOf(SchemaUp[m])
            /\ SchemaUp[m].do = "table" \/ (command = "run" /\ m < pc)

RowsInv ==
    /\ SchemaInv /\ KnownRows(rows, runs) /\ KnownRows(saved.rows, runs)
    /\ NothingSeededYet /\ SeededSoFar /\ DeletedSoFar /\ WholeOrSaved /\ KeysSoFar
    /\ RunIsNotRefused

-----------------------------------------------------------------------------
(* What is never refused.                                                  *)

\* A seeded row fits a schema that is whole.
LEMMA SeedFits ==
    ASSUME SchemaInv, KnownRows(rows, runs), SeededSoFar, Seeding, tables = AllTables,
           pc \in 1..Len(SeedingUp(runs)), NEW new \in SeedingUp(runs)[pc].alternatives
    PROVE  InsertFits(SeedingUp(runs)[pc], new)
<1> DEFINE p == SeedingUp(runs)
           s == p[pc]
           t == s.table
<1>1. PICK b : IsSeed(s, runs, b)
  BY SeedingShape
<1>2. /\ InOrder(p, {}) /\ s.do = "insert" /\ t \in DroppedTables /\ t \in AllTables
      /\ new \in s.alternatives
  BY <1>1, SeedingShape, TablesOfSchema DEF IsSeed
<1>3. runs \in 1..MaxRuns /\ keys \subseteq AllKeys
  BY StageOf DEF SchemaInv, DatabaseOK
<1>4. /\ \A y \in rows[t] : KnownRow(t, y, runs)
      /\ \A y \in rows[t] : y.id[2] = runs =>
             \E m \in 1..(pc - 1) : Makes(p[m], <<t, y.id>>)
      /\ \A m \in 1..(pc - 1) : \A w : Gives(p[m], w) => \E y \in rows[w[1]] : y.id = w[2]
  BY <1>2 DEF KnownRows, SeededSoFar
<1>5. /\ \A w : Needs(s, w) => \E m \in 1..(pc - 1) : Gives(p[m], w)
      /\ \A m \in 1..(pc - 1) : \A w : ~ (Makes(p[m], w) /\ Fresh(s, w))
  BY <1>2 DEF InOrder
<1> HIDE DEF p, s
<1>6. ASSUME NEW x \in Absent(s, new) PROVE RowFits(t, x, Absent(s, new))
  <2>1. /\ x \in new /\ SeededRow(t, x, runs, b)
        /\ s.missing => \A y \in rows[t] : y.id # x.id
    BY <1>1, <1>2 DEF Absent, IsSeed
  <2>2. Creation(t).required \subseteq DOMAIN x
    <3>1. <<t, Creation(t).required>> \in RequiredTable
      BY <1>2, TablesOfSchema, CreationRequires
    <3>. QED  BY <2>1, <3>1 DEF SeededRow, IsRow
  <2>3. ASSUME NEW k \in References(t), Names(x, k)
        PROVE  \E y \in rows[k.to] : y.id = x[k.column]
    <3>1. PICK z \in keys : z[1] = t /\ z[2].kind = "reference" /\ k = z[2]
      BY DEF References
    <3> DEFINE e == <<t, k.column, k.to, k.onDelete>>
               w == <<k.to, x[k.column]>>
    <3>2. e \in ReferenceTable
      BY <1>3, <3>1, KeysOfSchema
    <3>3. e[1] = t /\ e[2] = k.column /\ e[3] = k.to
      OBVIOUS
    <3> HIDE DEF e
    <3>4. Needs(s, w)
      BY <1>2, <2>1, <2>3, <3>2, <3>3 DEF Needs, Names
    <3>5. PICK m \in 1..(pc - 1) : Gives(p[m], w)
      BY <1>5, <3>4
    <3>6. \E y \in rows[w[1]] : y.id = w[2]
      BY <1>4, <3>5
    <3>. QED  BY <3>6
  <2>4. ASSUME NEW k \in UniqueKeys(t), NEW y \in rows[t] \cup (Absent(s, new) \ {x}),
               SameKey(y, x, k)
        PROVE  FALSE
    <3>1. PICK z \in keys : z[1] = t /\ z[2].kind = "unique" /\ k = z[2]
      BY DEF UniqueKeys
    <3>2. <<t, k.columns>> \in UniqueTable
      BY <1>3, <3>1, KeysOfSchema
    <3>3. \A c \in k.columns : y[c] = x[c]
      BY <2>4 DEF SameKey
    <3>4. WellKeyed(t, x)
      BY <2>1 DEF SeededRow, IsRow
    <3>5. CASE y \in Absent(s, new) \ {x}
      <4>1. y \in new /\ SeededRow(t, y, runs, b) /\ y # x
        BY <1>1, <1>2, <3>5 DEF Absent, IsSeed
      <4>2. WellKeyed(t, y)
        BY <4>1 DEF SeededRow, IsRow
      <4>3. y.id = x.id
        BY <1>2, <3>2, <3>3, <3>4, <4>2, KeysIdentify
      <4>. QED  BY <1>1, <1>2, <2>1, <4>1, <4>3 DEF IsSeed
    <3>6. CASE y \in rows[t]
      <4>1. WellKeyed(t, y)
        BY <1>4, <3>6 DEF KnownRow, IsRow
      <4>2. y.id = x.id
        BY <1>2, <3>2, <3>3, <3>4, <4>1, KeysIdentify
      <4>3. ~ s.missing
        BY <2>1, <3>6, <4>2
      <4>4. t # "permissions"
        BY <1>1, <4>3 DEF IsSeed
      <4>5. y.id[2] = runs
        BY <2>1, <4>2, <4>4 DEF SeededRow
      <4>6. PICK m \in 1..(pc - 1) : Makes(p[m], <<t, y.id>>)
        BY <1>4, <3>6, <4>5
      <4>7. Fresh(s, <<t, y.id>>)
        BY <1>2, <2>1, <4>2, <4>3 DEF Fresh, Makes
      <4>. QED  BY <1>5, <4>6, <4>7
    <3>. QED  BY <2>4, <3>5, <3>6
  <2>. QED  BY <2>2, <2>3, <2>4 DEF RowFits
<1>7. t \in tables
  BY <1>2
<1>. QED  BY <1>6, <1>7 DEF InsertFits, s, p

LEMMA KeyAlwaysFits ==
    ASSUME SchemaInv, KeysSoFar, Creating, interrupted = {},
           pc \in 1..Len(SchemaUp), SchemaUp[pc].do = "key"
    PROVE  KeyFits(SchemaUp[pc])
<1> DEFINE s == SchemaUp[pc]
<1>1. /\ \A m \in 1..(pc - 1) : SchemaUp[m].table \in tables
      /\ command = "run" /\ executed = {}
  BY DEF SchemaInv, CreatedSoFar, Creating
<1>2. s.table \in tables
  BY <1>1, KeyAfterTables
<1>3. s.key.kind = "reference" => s.key.to \in tables
  BY <1>1, KeyAfterTables
<1>4. ASSUME NEW k \in keys, k[1] = s.table PROVE k[2].name # s.key.name
  <2>1. PICK m \in 1..Len(SchemaUp) :
            k \in KeysOf(SchemaUp[m]) /\ (SchemaUp[m].do = "table" \/ m < pc)
    BY <1>1 DEF KeysSoFar
  <2>. QED  BY <1>4, <2>1, KeyIsNew
<1>. QED  BY <1>2, <1>3, <1>4 DEF KeyFits

LEMMA DeleteAlwaysFits ==
    ASSUME SchemaInv, DeletedSoFar, Removing, interrupted = {}, pc \in 1..16
    PROVE  DeleteFits(SeedingDown[pc])
<1> DEFINE s == SeedingDown[pc]
<1>1. tables = AllTables
  BY DEF SchemaInv, WholeOK, Removing, Dropping
<1>2. s.table \in tables
  BY <1>1, SeedingDownIs, TablesOfSchema
<1>3. ASSUME NEW t \in AllTables, NEW x \in Naming(t, s.table, "RESTRICT") PROVE FALSE
  <2>1. PICK k \in References(t) : k.to = s.table /\ k.onDelete = "RESTRICT"
    BY <1>3 DEF Naming
  <2>2. x \in rows[t]
    BY <1>3 DEF Naming
  <2>3. PICK z \in keys : z[1] = t /\ z[2].kind = "reference" /\ k = z[2]
    BY DEF References
  <2> DEFINE e == <<t, k.column, k.to, k.onDelete>>
  <2>4. e \in ReferenceTable
    BY <2>3, KeysOfSchema DEF SchemaInv, DatabaseOK
  <2>5. e[1] = t /\ e[3] = s.table /\ e[4] = "RESTRICT"
    BY <2>1
  <2> HIDE DEF e
  <2>6. PICK m \in 1..(pc - 1) : SeedingDown[m].table = e[1]
    BY <2>4, <2>5, DeleteOrder
  <2>. QED  BY <2>2, <2>5, <2>6 DEF DeletedSoFar
<1>. QED  BY <1>2, <1>3 DEF DeleteFits

\* Without an interruption only the seeding of a start in development may be.
LEMMA OnlyStartsAreRefused ==
    ASSUME RowsInv, Refuse, interrupted = {}
    PROVE  Starting
<1>1. Progress /\ command # "idle"
  BY DEF RowsInv, SchemaInv, Refuse
<1>2. ~ Creating
  BY <1>1, RefuseIs, KeyAlwaysFits DEF RowsInv
<1>3. ~ Seeding
  <2>1. Seeding => tables = AllTables
    BY DEF RowsInv, SchemaInv, WholeOK, Seeding, Dropping
  <2>. QED  BY <1>1, <2>1, RefuseIs, SeedFits DEF RowsInv
<1>4. ~ Dropping
  BY <1>1, RefuseIs, DropFitsAlways DEF RowsInv
<1>5. ~ Removing
  BY <1>1, RefuseIs, DeleteAlwaysFits DEF RowsInv
<1>. QED  BY <1>1, <1>2, <1>3, <1>4, <1>5, StageOf

-----------------------------------------------------------------------------
(* What the statements do to the rows.                                     *)

LEMMA KnownLonger ==
    ASSUME NEW rs, NEW n \in Nat, NEW m \in Nat, n <= m, KnownRows(rs, n)
    PROVE  KnownRows(rs, m)
<1>1. ASSUME NEW i \in 0..n PROVE i \in 0..m
  OBVIOUS
<1>. QED  BY <1>1 DEF KnownRows, KnownRow

LEMMA InsertKnown ==
    ASSUME DatabaseOK, KnownRows(rows, runs), runs \in Nat,
           NEW s, NEW b, IsSeed(s, runs, b), InsertStep(s)
    PROVE  /\ KnownRows(rows', runs)
           /\ \A t \in AllTables : rows[t] \subseteq rows'[t]
           /\ \A t \in AllTables : \A x \in rows'[t] :
                  \/ x \in rows[t]
                  \/ /\ Makes(s, <<t, x.id>>)
                     /\ t # "permissions" => x.id[2] = runs
           /\ \A w : Gives(s, w) => w[1] \in AllTables /\ \E y \in rows'[w[1]] : y.id = w[2]
<1>1. PICK new \in s.alternatives : InsertRows(s, new)
  BY DEF InsertStep
<1>2. s.do = "insert" /\ s.table \in DroppedTables /\ s.table \in AllTables
  BY TablesOfSchema DEF IsSeed
<1>3. rows' = [rows EXCEPT ![s.table] = @ \cup Absent(s, new)]
  BY <1>1 DEF InsertRows
<1>4. /\ \A t \in AllTables : t # s.table => rows'[t] = rows[t]
      /\ rows'[s.table] = rows[s.table] \cup Absent(s, new)
  BY <1>2, <1>3 DEF DatabaseOK
<1>5. /\ Absent(s, new) \subseteq new
      /\ \A x \in new : x \in Absent(s, new) \/ \E y \in rows[s.table] : y.id = x.id
  BY DEF Absent
<1>6. ASSUME NEW x \in new
      PROVE  /\ KnownRow(s.table, x, runs) /\ Makes(s, <<s.table, x.id>>)
             /\ s.table # "permissions" => x.id[2] = runs
  <2>1. SeededRow(s.table, x, runs, b)
    BY <1>1 DEF IsSeed
  <2>2. s.table # "permissions" => x.id[2] = runs
    BY <2>1 DEF SeededRow
  <2>3. s.table = "permissions" => x.id[2] = 0
    BY <2>1 DEF SeededRow, IsRow, WellKeyed
  <2>4. x.id[2] \in 0..runs
    BY <2>2, <2>3
  <2>5. s.table = "businesses" => IsTenant(x, b)
    BY <2>1, <2>2 DEF SeededRow, IsTenant
  <2>6. KnownRow(s.table, x, runs)
    BY <1>2, <2>1, <2>4, <2>5 DEF KnownRow, SeededRow
  <2>7. Makes(s, <<s.table, x.id>>)
    BY <1>1, <1>2 DEF Makes
  <2>. QED  BY <2>2, <2>6, <2>7
<1>7. ASSUME NEW t \in AllTables, NEW x \in rows'[t]
      PROVE  \/ x \in rows[t]
             \/ x \in new /\ t = s.table
  BY <1>4, <1>5
<1>8. KnownRows(rows', runs)
  BY <1>6, <1>7 DEF KnownRows
<1>9. ASSUME NEW w, Gives(s, w) PROVE w[1] \in AllTables /\ \E y \in rows'[w[1]] : y.id = w[2]
  <2>1. PICK x \in new : w = <<s.table, x.id>>
    BY <1>1, <1>2, <1>9 DEF Gives
  <2>2. \E y \in rows'[s.table] : y.id = x.id
    BY <1>4, <1>5
  <2>. QED  BY <1>2, <2>1, <2>2
<1>. QED  BY <1>4, <1>6, <1>7, <1>8, <1>9

LEMMA DeleteKnown ==
    ASSUME DatabaseOK, NEW n, KnownRows(rows, n), NEW s, DeleteStep(s)
    PROVE  /\ KnownRows(rows', n)
           /\ \A x \in rows'["businesses"] : x \in rows["businesses"]
<1> DEFINE left(t) == rows[t] \ Naming(t, s.table, "CASCADE")
           blank(t) == {k.column : k \in {k \in References(t) :
                            k.to = s.table /\ k.onDelete = "SET NULL"}}
           Blanked(t, x) == [c \in DOMAIN x |-> IF c \in blank(t) THEN NONE ELSE x[c]]
           R(t) == {Blanked(t, x) : x \in left(t)}
<1>1. rows' = [t \in AllTables |-> IF t = s.table THEN {} ELSE R(t)]
  BY Zenon DEF DeleteStep, DeleteRows
<1>2. ASSUME NEW t, NEW c \in blank(t)
      PROVE  \E e \in ReferenceTable : e[1] = t /\ e[2] = c /\ e[4] = SetNull
  <2>1. PICK k \in References(t) : k.onDelete = SetNull /\ k.column = c
    BY Zenon, <1>2 DEF SetNull
  <2>2. PICK z \in keys : z[1] = t /\ z[2].kind = "reference" /\ k = z[2]
    BY DEF References
  <2> DEFINE e == <<t, k.column, k.to, k.onDelete>>
  <2>3. e \in ReferenceTable
    BY <2>2, KeysOfSchema DEF DatabaseOK
  <2>4. e[1] = t /\ e[2] = c /\ e[4] = SetNull
    BY <2>1
  <2>. QED  BY <2>3, <2>4
<1>3. ASSUME NEW t \in AllTables, NEW y \in R(t)
      PROVE  \E x \in rows[t] : y = Blanked(t, x)
  OBVIOUS
<1> HIDE DEF R, blank
<1>4. ASSUME NEW t \in AllTables, NEW y \in R(t)
      PROVE  KnownRow(t, y, n) /\ (t = "businesses" => y \in rows[t])
  <2>1. PICK x \in rows[t] : y = Blanked(t, x)
    BY <1>3
  <2>2. KnownRow(t, x, n)
    BY DEF KnownRows
  <2>3. \A c \in blank(t) : c # "id" /\ \A e \in RequiredTable : e[1] = t => c \notin e[2]
    <3>1. ASSUME NEW c \in blank(t), NEW f \in RequiredTable, f[1] = t
          PROVE  c # "id" /\ c \notin f[2]
      BY <1>2, <3>1, SetNullColumns
    <3>2. \E f \in RequiredTable : f[1] = t
      BY <2>2, RequiredColumns DEF KnownRow, DroppedTables
    <3>. QED  BY <3>1, <3>2
  <2>4. IsRow(t, Blanked(t, x)) /\ Blanked(t, x).id = x.id
    BY <2>2, <2>3, BlankedRow DEF KnownRow
  <2>5. t = "businesses" => y = x
    <3>1. SUFFICES ASSUME t = "businesses" PROVE y = x
      OBVIOUS
    <3>2. blank(t) = {}
      BY <1>2, <3>1, ReferencesFrom
    <3>3. PICK b : IsTenant(x, b)
      BY <2>2, <3>1 DEF KnownRow
    <3>4. x = [c \in DOMAIN x |-> x[c]]
      BY <3>3 DEF IsTenant
    <3>. QED  BY <2>1, <3>2, <3>4
  <2>. QED  BY <2>1, <2>2, <2>4, <2>5 DEF KnownRow
<1>5. ASSUME NEW t \in AllTables, NEW y \in rows'[t] PROVE y \in R(t)
  BY <1>1, <1>5
<1>6. "businesses" \in AllTables
  BY TablesOfSchema DEF SchemaTables
<1>. QED  BY <1>4, <1>5, <1>6 DEF KnownRows

-----------------------------------------------------------------------------
(* Commands and rows.                                                      *)

LEMMA RowsInit == ASSUME Init PROVE RowsInv
<1>1. SchemaInv
  BY SchemaInit
<1>2. /\ rows = [t \in AllTables |-> {}] /\ keys = {} /\ command = "idle"
      /\ saved = [rows |-> rows, executed |-> executed] /\ ~ refused
  BY DEF Init
<1>3. saved.rows = rows /\ \A t \in AllTables : rows[t] = {}
  BY <1>2
<1>4. KnownRows(rows, runs) /\ KnownRows(saved.rows, runs)
  BY <1>3 DEF KnownRows
<1>5. NothingSeededYet /\ SeededSoFar /\ DeletedSoFar /\ WholeOrSaved /\ KeysSoFar
  BY <1>2 DEF NothingSeededYet, SeededSoFar, DeletedSoFar, WholeOrSaved, KeysSoFar,
              Creating, Seeding, Removing
<1>6. RunIsNotRefused
  BY <1>2 DEF RunIsNotRefused
<1>. QED  BY <1>1, <1>4, <1>5, <1>6 DEF RowsInv

LEMMA RowsBegin ==
    ASSUME RowsInv, Run \/ Revert \/ StartInDevelopment
    PROVE  RowsInv'
<1>1. SchemaInv'
  BY SchemaBegins DEF RowsInv
<1>2. /\ UNCHANGED <<tables, keys, rows, executed, refused, interrupted, faults>>
      /\ command = "idle" /\ pc' = 1
      /\ saved' = [rows |-> rows, executed |-> executed]
      /\ runs' = runs \/ runs' = runs + 1
      /\ command' = "run" => runs' = runs + 1 /\ inTx'
  BY BeginIs
<1>3. runs \in Nat /\ runs' \in Nat /\ runs <= runs' /\ saved'.rows = rows
  <2>1. runs \in Nat
    BY BoundAssumption DEF RowsInv, SchemaInv, Progress
  <2>2. saved'.rows = rows
    BY <1>2
  <2>. QED  BY <1>2, <2>1, <2>2
<1>4. KnownRows(rows, runs')
  BY <1>3, KnownLonger DEF RowsInv
<1>5. KnownRows(rows', runs') /\ KnownRows(saved'.rows, runs')
  BY <1>2, <1>3, <1>4
<1>6. ASSUME command' = "run", NEW t \in AllTables, NEW x \in rows[t]
      PROVE  x.id[2] # runs'
  <2>1. x.id[2] \in 0..runs /\ runs' = runs + 1
    BY <1>2, <1>6 DEF RowsInv, KnownRows, KnownRow
  <2>. QED  BY <1>3, <2>1
<1>7. NothingSeededYet'
  BY <1>2, <1>6 DEF NothingSeededYet, Creating
<1>8. SeededSoFar' /\ DeletedSoFar'
  BY <1>2, <1>6 DEF SeededSoFar, DeletedSoFar, Seeding
<1>9. WholeOrSaved'
  BY <1>2 DEF WholeOrSaved, Seeding
<1>10. KeysSoFar'
  BY <1>2 DEF RowsInv, KeysSoFar
<1>11. RunIsNotRefused'
  BY <1>2 DEF RowsInv, RunIsNotRefused
<1>. QED  BY <1>1, <1>5, <1>7, <1>8, <1>9, <1>10, <1>11 DEF RowsInv

LEMMA RowsExecute ==
    ASSUME RowsInv, Execute
    PROVE  RowsInv'
<1>1. SchemaInv' /\ SchemaInv /\ Progress
  BY SchemaExecutes DEF RowsInv, SchemaInv
<1>2. /\ pc' = pc + 1 /\ pc \in Nat \ {0} /\ command # "idle" /\ runs \in Nat
      /\ UNCHANGED <<executed, command, saved, runs, started, refused, interrupted,
                     faults>>
  BY <1>1, ExecuteIs, BoundAssumption DEF Execute, Progress
<1>3. /\ (Creating <=> Creating') /\ (Seeding <=> Seeding') /\ (Dropping <=> Dropping')
      /\ (Removing <=> Removing')
  BY <1>2 DEF Creating, Seeding, Dropping, Removing
<1>4. RunIsNotRefused' /\ KnownRows(saved'.rows, runs')
  BY <1>2 DEF RowsInv, RunIsNotRefused
<1>5. pc' - 1 = pc /\ \A m \in 1..pc : m = pc \/ m \in 1..(pc - 1)
  BY <1>2
<1>6. CASE Creating
  <2> DEFINE s == SchemaUp[pc]
  <2>1. pc \in 1..Len(SchemaUp) /\ CreateStep(s)
    BY <1>1, <1>6, ExecuteIs
  <2>2. rows' = rows /\ keys' \subseteq keys \cup KeysOf(s)
    BY <1>1, <2>1, CreateKeeps DEF SchemaInv
  <2>3. KnownRows(rows', runs') /\ NothingSeededYet'
    BY <1>2, <1>3, <2>2 DEF RowsInv, NothingSeededYet
  <2>4. ~ Seeding /\ ~ Removing /\ command = "run" /\ executed = {}
    BY <1>6 DEF Creating, Seeding, Removing
  <2>5. SeededSoFar' /\ DeletedSoFar' /\ WholeOrSaved'
    BY <1>3, <2>4 DEF SeededSoFar, DeletedSoFar, WholeOrSaved
  <2>6. KeysSoFar'
    <3>1. ASSUME interrupted = {}, NEW k \in keys'
          PROVE  \E m \in 1..Len(SchemaUp) :
                     /\ k \in KeysOf(SchemaUp[m])
                     /\ SchemaUp[m].do = "table" \/ m < pc'
      <4>1. CASE k \in keys
        <5>1. PICK m \in 1..Len(SchemaUp) :
                  k \in KeysOf(SchemaUp[m]) /\ (SchemaUp[m].do = "table" \/ m < pc)
          BY <2>4, <3>1, <4>1 DEF RowsInv, KeysSoFar
        <5>2. m < pc => m < pc'
          BY <1>2, SchemaShape
        <5>. QED  BY <5>1, <5>2
      <4>2. CASE k \notin keys
        <5>1. k \in KeysOf(s)
          BY <2>2, <3>1, <4>2
        <5>2. pc < pc'
          BY <1>2
        <5>. QED  BY <2>1, <5>1, <5>2
      <4>. QED  BY <4>1, <4>2
    <3>. QED  BY <1>2, <2>4, <3>1 DEF KeysSoFar
  <2>. QED  BY <1>1, <1>4, <2>3, <2>5, <2>6 DEF RowsInv
<1>7. CASE Seeding \/ Starting
  <2> DEFINE s == SeedingUp(runs)[pc]
  <2>1. pc \in 1..Len(SeedingUp(runs)) /\ InsertStep(s)
    BY <1>1, <1>7, ExecuteIs
  <2>2. PICK b : IsSeed(s, runs, b)
    BY <2>1, SeedingShape
  <2>3. /\ KnownRows(rows', runs)
        /\ \A t \in AllTables : rows[t] \subseteq rows'[t]
        /\ \A t \in AllTables : \A x \in rows'[t] :
               x \in rows[t] \/ Makes(s, <<t, x.id>>)
        /\ \A w : Gives(s, w) => w[1] \in AllTables /\ \E y \in rows'[w[1]] : y.id = w[2]
    BY <1>1, <1>2, <2>1, <2>2, InsertKnown DEF RowsInv, SchemaInv
  <2>4. UNCHANGED <<tables, keys>> /\ (inTx' <=> inTx)
    BY <1>1, <2>1, <2>2, InsertKeeps DEF SchemaInv, IsSeed, InsertStep
  <2>5. ~ Creating /\ ~ Removing
    BY <1>7 DEF Creating, Seeding, Starting, Removing
  <2>6. NothingSeededYet' /\ DeletedSoFar'
    BY <1>3, <2>5 DEF NothingSeededYet, DeletedSoFar
  <2>7. WholeOrSaved'
    BY <1>3, <2>4 DEF RowsInv, WholeOrSaved
  <2>8. KeysSoFar'
    <3>1. command = "run" => executed # {}
      BY <1>7 DEF Seeding, Starting
    <3>. QED  BY <1>2, <2>4, <3>1 DEF RowsInv, KeysSoFar
  <2> HIDE DEF s
  <2>9. SeededSoFar'
    <3>1. SUFFICES ASSUME Seeding PROVE SeededSoFar'
      BY <1>3 DEF SeededSoFar
    <3>2. ASSUME NEW t \in AllTables, NEW x \in rows'[t], x.id[2] = runs
          PROVE  \E m \in 1..pc : Makes(SeedingUp(runs)[m], <<t, x.id>>)
      <4>1. CASE x \in rows[t]
        <5>1. \E m \in 1..(pc - 1) : Makes(SeedingUp(runs)[m], <<t, x.id>>)
          BY <3>1, <3>2, <4>1 DEF RowsInv, SeededSoFar
        <5>2. \A m \in 1..(pc - 1) : m \in 1..pc
          BY <1>2
        <5>. QED  BY <5>1, <5>2
      <4>2. CASE x \notin rows[t]
        <5>1. Makes(SeedingUp(runs)[pc], <<t, x.id>>)
          BY <2>3, <3>2, <4>2 DEF s
        <5>2. pc \in 1..pc
          BY <1>2
        <5>. QED  BY <5>1, <5>2
      <4>. QED  BY <4>1, <4>2
    <3>3. ASSUME NEW m \in 1..pc, NEW w, Gives(SeedingUp(runs)[m], w)
          PROVE  w[1] \in AllTables /\ \E y \in rows'[w[1]] : y.id = w[2]
      <4>1. CASE m = pc
        BY <2>3, <3>3, <4>1 DEF s
      <4>2. CASE m # pc
        <5>1. w[1] \in AllTables /\ \E y \in rows[w[1]] : y.id = w[2]
          BY <1>5, <3>1, <3>3, <4>2 DEF RowsInv, SeededSoFar
        <5>. QED  BY <2>3, <5>1
      <4>. QED  BY <4>1, <4>2
    <3>. QED  BY <1>2, <1>5, <3>2, <3>3 DEF SeededSoFar
  <2>. QED  BY <1>1, <1>2, <1>4, <2>3, <2>6, <2>7, <2>8, <2>9 DEF RowsInv
<1>8. CASE Dropping
  <2> DEFINE s == SchemaDown[pc]
  <2>1. pc \in 1..16 /\ DropStep(s) /\ s.table \in DroppedTables
    BY <1>1, <1>8, ExecuteIs, SchemaDownIs
  <2>2. \A t \in AllTables : rows'[t] \subseteq rows[t]
    BY <1>1, <2>1, DropKeeps DEF SchemaInv
  <2>3. KnownRows(rows', runs')
    BY <1>2, <2>2 DEF RowsInv, KnownRows
  <2>4. ~ Creating /\ ~ Seeding /\ ~ Removing /\ executed # {}
    BY <1>8 DEF Creating, Seeding, Removing, Dropping
  <2>5. NothingSeededYet' /\ SeededSoFar' /\ DeletedSoFar' /\ WholeOrSaved' /\ KeysSoFar'
    BY <1>2, <1>3, <2>4 DEF NothingSeededYet, SeededSoFar, DeletedSoFar, WholeOrSaved, KeysSoFar
  <2>. QED  BY <1>1, <1>4, <2>3, <2>5 DEF RowsInv
<1>9. CASE Removing
  <2> DEFINE s == SeedingDown[pc]
  <2>1. pc \in 1..16 /\ DeleteStep(s) /\ s.table \in DroppedTables
    BY <1>1, <1>9, ExecuteIs, SeedingDownIs
  <2>2. (\A t \in AllTables : rows[t] = {} => rows'[t] = {}) /\ rows'[s.table] = {}
    BY <1>1, <2>1, DeleteKeeps DEF SchemaInv
  <2>3. KnownRows(rows', runs')
    BY <1>1, <1>2, <2>1, DeleteKnown DEF RowsInv, SchemaInv
  <2>4. ~ Creating /\ ~ Seeding /\ executed # {}
    BY <1>9 DEF Creating, Seeding, Removing
  <2>5. NothingSeededYet' /\ SeededSoFar' /\ WholeOrSaved' /\ KeysSoFar'
    BY <1>2, <1>3, <2>4 DEF NothingSeededYet, SeededSoFar, WholeOrSaved, KeysSoFar
  <2>6. DeletedSoFar'
    <3>1. ASSUME NEW m \in 1..pc PROVE rows'[SeedingDown[m].table] = {}
      <4>1. CASE m = pc
        BY <2>2, <4>1
      <4>2. CASE m # pc
        <5>1. m \in 1..(pc - 1) /\ m \in 1..16
          BY <1>5, <2>1, <4>2
        <5>2. SeedingDown[m].table \in AllTables
          BY <5>1, SeedingDownIs, TablesOfSchema
        <5>. QED  BY <1>9, <2>2, <5>1, <5>2 DEF RowsInv, DeletedSoFar
      <4>. QED  BY <4>1, <4>2
    <3>. QED  BY <1>5, <3>1 DEF DeletedSoFar
  <2>. QED  BY <1>1, <1>4, <2>3, <2>5, <2>6 DEF RowsInv
<1>. QED  BY <1>1, <1>2, <1>6, <1>7, <1>8, <1>9, StageOf

LEMMA RowsFinish ==
    ASSUME RowsInv, Finish
    PROVE  RowsInv'
<1>1. SchemaInv' /\ SchemaInv /\ Progress /\ Progress'
  BY SchemaFinishes DEF RowsInv, SchemaInv
<1>2. /\ pc = Len(Program) + 1 /\ pc' = 1 /\ command # "idle"
      /\ UNCHANGED <<tables, keys, rows, inTx, saved, runs, started, refused,
                     interrupted, faults>>
  BY <1>1, FinishIs
<1>3. KnownRows(rows', runs') /\ KnownRows(saved'.rows, runs') /\ RunIsNotRefused'
  BY <1>2 DEF RowsInv, RunIsNotRefused
<1>4. CASE Creating
  <2>1. executed' = {"InitialSchema"} /\ command' = "run"
    BY <1>1, <1>4, FinishIs
  <2>2. NothingSeededYet' /\ DeletedSoFar' /\ KeysSoFar'
    BY <2>1 DEF NothingSeededYet, DeletedSoFar, KeysSoFar, Creating, Removing
  <2>3. SeededSoFar'
    BY <1>2, <1>4 DEF RowsInv, NothingSeededYet, SeededSoFar
  <2>4. WholeOrSaved'
    <3>1. tables' = AllTables
      BY <1>1, <1>2, <1>4, CreatedAll
    <3>. QED  BY <3>1 DEF WholeOrSaved
  <2>. QED  BY <1>1, <1>3, <2>2, <2>3, <2>4 DEF RowsInv
<1>5. CASE ~ Creating
  <2>1. Seeding \/ Dropping \/ Removing \/ Starting
    BY <1>1, <1>2, <1>5, StageOf
  <2>2. command' = "idle"
    BY <1>1, <2>1, FinishIs
  <2>3. NothingSeededYet' /\ SeededSoFar' /\ DeletedSoFar' /\ WholeOrSaved'
    BY <2>2 DEF NothingSeededYet, SeededSoFar, DeletedSoFar, WholeOrSaved,
                Creating, Seeding, Removing
  <2>4. KeysSoFar'
    <3>1. CASE Starting
      BY <1>1, <1>2, <3>1, FinishIs DEF RowsInv, KeysSoFar, Starting
    <3>2. CASE Dropping
      <4>1. pc = 17
        <5>1. pc = Len(SchemaDown) + 1
          BY <1>1, <1>2, <3>2, StageOf
        <5>. QED  BY <5>1, SchemaDownIs
      <4>2. \A t \in DroppedTables : t \notin tables
        BY <3>2, <4>1, SchemaDownIs DEF SchemaInv, RowsInv, DroppedSoFar
      <4>3. ASSUME NEW k \in keys
            PROVE  \E m \in 1..Len(SchemaUp) :
                       k \in KeysOf(SchemaUp[m]) /\ SchemaUp[m].do = "table"
        <5>1. k \in AllKeys /\ k[1] \in tables
          BY <1>1 DEF SchemaInv, DatabaseOK
        <5>2. PICK m \in 1..Len(SchemaUp) : k \in KeysOf(SchemaUp[m])
          BY <5>1, KeysOfSchema
        <5>3. SchemaStatement(SchemaUp[m])
          BY SchemaShape
        <5>4. k[1] = SchemaUp[m].table
          BY <5>2, <5>3, KeysOfStatement
        <5>5. SchemaUp[m].table \notin DroppedTables
          BY <4>2, <5>1, <5>4
        <5>. QED  BY <5>2, <5>3, <5>5 DEF SchemaStatement
      <4>. QED  BY <1>2, <4>3 DEF KeysSoFar
    <3>3. CASE Seeding \/ Removing
      <4>1. executed' # {}
        BY <1>1, <3>3, FinishIs
      <4>. QED  BY <4>1 DEF KeysSoFar
    <3>. QED  BY <2>1, <3>1, <3>2, <3>3
  <2>. QED  BY <1>1, <1>3, <2>3, <2>4 DEF RowsInv
<1>. QED  BY <1>4, <1>5

LEMMA RowsAbort ==
    ASSUME RowsInv, Refuse \/ Interrupt
    PROVE  RowsInv'
<1>1. SchemaInv' /\ SchemaInv /\ Progress
  BY SchemaAborts DEF RowsInv, SchemaInv
<1>2. /\ command # "idle" /\ command' = "idle"
      /\ UNCHANGED <<tables, keys, saved, runs, started>>
      /\ inTx => rows' = saved.rows /\ executed' = saved.executed
      /\ ~ inTx => rows' = rows /\ executed' = executed
  BY AbortIs
<1>3. inTx \in BOOLEAN
  BY <1>1 DEF Progress
<1>4. KnownRows(rows', runs') /\ KnownRows(saved'.rows, runs')
  BY <1>2, <1>3 DEF RowsInv
<1>5. NothingSeededYet' /\ SeededSoFar' /\ DeletedSoFar' /\ WholeOrSaved'
  BY <1>2 DEF NothingSeededYet, SeededSoFar, DeletedSoFar, WholeOrSaved,
              Creating, Seeding, Removing
<1>6. CASE Interrupt
  <2>1. interrupted' # {}
    BY <1>6 DEF Interrupt
  <2>. QED  BY <1>1, <1>4, <1>5, <2>1 DEF RowsInv, KeysSoFar, RunIsNotRefused
<1>7. CASE Refuse
  <2>1. interrupted' = interrupted /\ refused' = (refused \/ command # "start")
    BY <1>7 DEF Refuse
  <2>2. CASE interrupted # {}
    BY <1>1, <1>4, <1>5, <2>1, <2>2 DEF RowsInv, KeysSoFar, RunIsNotRefused
  <2>3. CASE interrupted = {}
    <3>1. command = "start" /\ ~ inTx
      BY <1>1, <1>7, <2>3, OnlyStartsAreRefused DEF Starting, Progress
    <3>2. ~ refused
      BY <2>3 DEF RowsInv, RunIsNotRefused
    <3>3. RunIsNotRefused'
      BY <2>1, <3>1, <3>2 DEF RunIsNotRefused
    <3>4. KeysSoFar'
      BY <1>2, <2>1, <3>1 DEF RowsInv, KeysSoFar
    <3>. QED  BY <1>1, <1>4, <1>5, <3>3, <3>4 DEF RowsInv
  <2>. QED  BY <2>2, <2>3
<1>. QED  BY <1>6, <1>7

LEMMA RowsStep == ASSUME RowsInv, [Next]_vars PROVE RowsInv'
<1>1. CASE Run \/ Revert \/ StartInDevelopment
  BY <1>1, RowsBegin
<1>2. CASE Execute
  BY <1>2, RowsExecute
<1>3. CASE Finish
  BY <1>3, RowsFinish
<1>4. CASE Refuse \/ Interrupt
  BY <1>4, RowsAbort
<1>5. CASE UNCHANGED vars
  <2>1. SchemaInv'
    BY <1>5, SchemaStep DEF RowsInv
  <2>2. /\ (Creating <=> Creating') /\ (Seeding <=> Seeding') /\ (Removing <=> Removing')
        /\ (interrupted' = interrupted) /\ (refused' = refused)
    BY <1>5 DEF vars, Creating, Seeding, Removing
  <2>3. /\ KnownRows(rows', runs') /\ KnownRows(saved'.rows, runs')
        /\ NothingSeededYet' /\ SeededSoFar' /\ DeletedSoFar' /\ WholeOrSaved'
    BY <1>5, <2>2 DEF vars, RowsInv, NothingSeededYet, SeededSoFar, DeletedSoFar, WholeOrSaved
  <2>4. KeysSoFar' /\ RunIsNotRefused'
    BY <1>5, <2>2 DEF vars, RowsInv, KeysSoFar, RunIsNotRefused
  <2>. QED  BY <2>1, <2>3, <2>4 DEF RowsInv
<1>. QED  BY <1>1, <1>2, <1>3, <1>4, <1>5 DEF Next

LEMMA RowsAlways == Spec => []RowsInv
  BY RowsInit, RowsStep, PTL DEF Spec

\* As long as no command was interrupted the database refuses no statement of
\* migration:run or migration:revert, in whatever order the commands and the
\* starts in development follow each other, with any number of tenants and rows.
THEOREM RunsAreNotRefused == Spec => []RunIsNotRefused
<1>1. RowsInv => RunIsNotRefused
  BY DEF RowsInv
<1>. QED  BY <1>1, RowsAlways, PTL

-----------------------------------------------------------------------------
(* Tenants.                                                                *)

\* The tenants that a migration seeded.
Migrated(rs) == {z \in rs["businesses"] : z.id[2] \notin started}
OfOneRun(S) == \A x, y \in S : x.id[2] = y.id[2]

Excused ==
    \E x \in interrupted :
        x.migration = "InitialSeeding" /\ x.command = "run" /\ ~ x.inTx

\* All tenants there are come from one execution, and none is left when the
\* seeding is not recorded; the same holds of what a rollback restores.
TenantsOK ==
    /\ Seeding => \A z \in Migrated(rows) : z.id[2] = runs
    /\ "InitialSeeding" \notin executed /\ ~ Seeding => Migrated(rows) = {}
    /\ "InitialSeeding" \in executed => OfOneRun(Migrated(rows))
    /\ inTx => /\ "InitialSeeding" \notin saved.executed => Migrated(saved.rows) = {}
               /\ OfOneRun(Migrated(saved.rows))

TenantsInv ==
    /\ RowsInv
    /\ Starting => runs \in started
    /\ Excused \/ TenantsOK

LEMMA TenantsInit == ASSUME Init PROVE TenantsInv
<1>1. RowsInv
  BY RowsInit
<1>2. rows = [t \in AllTables |-> {}] /\ command = "idle" /\ executed = {} /\ ~ inTx
  BY DEF Init
<1>3. Migrated(rows) = {}
  BY <1>2, TablesOfSchema DEF Migrated, SchemaTables
<1>. QED  BY <1>1, <1>2, <1>3 DEF TenantsInv, TenantsOK, Seeding, Starting

LEMMA TenantsMean == ASSUME TenantsInv PROVE NoTenantTwice
<1>1. SUFFICES ASSUME ~ Excused,
                      NEW x \in Migrated(rows), NEW y \in Migrated(rows),
                      x.legal_name = y.legal_name
               PROVE  x = y
  BY DEF NoTenantTwice, Excused, Migrated
<1>2. x.id[2] = y.id[2]
  BY <1>1 DEF TenantsInv, TenantsOK, OfOneRun
<1>3. /\ x \in rows["businesses"] /\ y \in rows["businesses"]
      /\ "businesses" \in AllTables
  BY <1>1, TablesOfSchema DEF Migrated, SchemaTables
<1>4. (\E b : IsTenant(x, b)) /\ (\E b : IsTenant(y, b))
  BY <1>3 DEF TenantsInv, RowsInv, KnownRows, KnownRow
<1>5. PICK b : IsTenant(x, b)
  BY <1>4
<1>6. PICK c : IsTenant(y, c)
  BY <1>4
<1>7. x.legal_name = b /\ y.legal_name = c
  BY <1>5, <1>6 DEF IsTenant
<1>. QED  BY <1>1, <1>2, <1>5, <1>6, <1>7 DEF IsTenant

LEMMA TenantsBegin ==
    ASSUME TenantsInv, Run \/ Revert \/ StartInDevelopment
    PROVE  TenantsInv'
<1>1. RowsInv'
  BY RowsBegin DEF TenantsInv
<1>2. /\ UNCHANGED <<rows, executed, interrupted>> /\ command = "idle"
      /\ saved' = [rows |-> rows, executed |-> executed]
      /\ \/ command' = "run" /\ started' = started
         \/ command' = "revert" /\ started' = started
         \/ command' = "start" /\ started' = started \cup {runs'} /\ ~ inTx'
  BY BeginIs
<1>3. saved'.rows = rows /\ saved'.executed = executed
  BY <1>2
<1>4. Starting' => runs' \in started'
  BY <1>2 DEF Starting
<1>5. CASE Excused
  BY <1>1, <1>2, <1>4, <1>5 DEF TenantsInv, Excused
<1>6. CASE TenantsOK
  <2>1. /\ "InitialSeeding" \notin executed => Migrated(rows) = {}
        /\ "InitialSeeding" \in executed => OfOneRun(Migrated(rows))
    BY <1>2, <1>6 DEF TenantsOK, Seeding
  <2>2. OfOneRun(Migrated(rows))
    BY <2>1 DEF OfOneRun
  <2>3. Migrated(rows)' \subseteq Migrated(rows)
    BY <1>2 DEF Migrated
  <2>4. /\ "InitialSeeding" \notin executed => Migrated(rows)' = {}
        /\ OfOneRun(Migrated(rows)')
    BY <2>1, <2>2, <2>3 DEF OfOneRun
  <2>5. Seeding' => "InitialSeeding" \notin executed
    BY <1>2 DEF Seeding
  <2>6. Migrated(saved.rows)' = Migrated(rows)'
    BY <1>2, <1>3 DEF Migrated
  <2>7. OfOneRun(Migrated(rows))' /\ OfOneRun(Migrated(saved.rows))'
    BY <2>4, <2>6 DEF OfOneRun
  <2>8. TenantsOK'
    BY <1>2, <1>3, <2>4, <2>5, <2>6, <2>7 DEF TenantsOK
  <2>. QED  BY <1>1, <1>4, <2>8 DEF TenantsInv
<1>. QED  BY <1>5, <1>6 DEF TenantsInv

\* What a statement adds to the tenants.
LEMMA TenantsGrow ==
    ASSUME TenantsInv, Execute
    PROVE  \A z \in rows'["businesses"] :
               z \in rows["businesses"] \/ ((Seeding \/ Starting) /\ z.id[2] = runs)
<1>1. /\ SchemaInv /\ Progress /\ command # "idle" /\ "businesses" \in AllTables
      /\ KnownRows(rows, runs) /\ runs \in Nat
  BY TablesOfSchema, BoundAssumption
     DEF TenantsInv, RowsInv, SchemaInv, Progress, Execute, SchemaTables
<1>2. CASE Creating
  <2>1. pc \in 1..Len(SchemaUp) /\ CreateStep(SchemaUp[pc])
    BY <1>1, <1>2, ExecuteIs
  <2>. QED  BY <1>1, <2>1, CreateKeeps DEF SchemaInv
<1>3. CASE Seeding \/ Starting
  <2> DEFINE s == SeedingUp(runs)[pc]
  <2>1. pc \in 1..Len(SeedingUp(runs)) /\ InsertStep(s)
    BY <1>1, <1>3, ExecuteIs
  <2>2. PICK b : IsSeed(s, runs, b)
    BY <2>1, SeedingShape
  <2>3. \A t \in AllTables : \A x \in rows'[t] :
            x \in rows[t] \/ (t # "permissions" => x.id[2] = runs)
    BY <1>1, <2>1, <2>2, InsertKnown DEF SchemaInv
  <2>. QED  BY <1>1, <1>3, <2>3
<1>4. CASE Dropping
  <2>1. pc \in 1..16 /\ DropStep(SchemaDown[pc]) /\ SchemaDown[pc].table \in DroppedTables
    BY <1>1, <1>4, ExecuteIs, SchemaDownIs
  <2>2. rows'["businesses"] \subseteq rows["businesses"]
    BY <1>1, <2>1, DropKeeps DEF SchemaInv
  <2>. QED  BY <2>2
<1>5. CASE Removing
  <2>1. pc \in 1..16 /\ DeleteStep(SeedingDown[pc])
    BY <1>1, <1>5, ExecuteIs
  <2>. QED  BY <1>1, <2>1, DeleteKnown DEF SchemaInv
<1>. QED  BY <1>1, <1>2, <1>3, <1>4, <1>5, StageOf

LEMMA TenantsExecute ==
    ASSUME TenantsInv, Execute
    PROVE  TenantsInv'
<1>1. RowsInv' /\ Progress
  BY RowsExecute DEF TenantsInv, RowsInv, SchemaInv
<1>2. /\ UNCHANGED <<executed, command, saved, runs, started, interrupted>>
      /\ inTx' => inTx
  BY <1>1, ExecuteIs
<1>3. (Seeding <=> Seeding') /\ (Starting <=> Starting')
  BY <1>2 DEF Seeding, Starting
<1>4. Starting => runs \in started
  BY DEF TenantsInv
<1>5. CASE Excused
  BY <1>1, <1>2, <1>3, <1>5 DEF TenantsInv, Excused
<1>6. CASE TenantsOK
  <2>1. ASSUME NEW z \in Migrated(rows)'
        PROVE  z \in Migrated(rows) \/ (Seeding /\ z.id[2] = runs)
    <3>1. z \in rows'["businesses"] /\ z.id[2] \notin started
      BY <1>2, <2>1 DEF Migrated
    <3>. QED  BY <1>4, <3>1, TenantsGrow DEF Migrated
  <2>2. Migrated(saved.rows)' = Migrated(saved.rows)
    BY <1>2 DEF Migrated
  <2>3. Seeding => "InitialSeeding" \notin executed
    BY DEF Seeding
  <2>4. OfOneRun(Migrated(saved.rows)) => OfOneRun(Migrated(saved.rows))'
    BY <2>2 DEF OfOneRun
  <2>5. "InitialSeeding" \in executed => OfOneRun(Migrated(rows))'
    BY <1>6, <2>1, <2>3 DEF TenantsOK, OfOneRun
  <2>6. TenantsOK'
    BY <1>2, <1>3, <1>6, <2>1, <2>2, <2>4, <2>5 DEF TenantsOK
  <2>. QED  BY <1>1, <1>2, <1>3, <2>6 DEF TenantsInv
<1>. QED  BY <1>5, <1>6 DEF TenantsInv

LEMMA TenantsFinish ==
    ASSUME TenantsInv, Finish
    PROVE  TenantsInv'
<1>1. RowsInv' /\ RowsInv /\ Progress
  BY RowsFinish DEF TenantsInv, RowsInv, SchemaInv
<1>2. /\ pc = Len(Program) + 1 /\ command # "idle"
      /\ UNCHANGED <<rows, inTx, saved, runs, started, interrupted>>
  BY <1>1, FinishIs
<1>3. Creating \/ Seeding \/ Dropping \/ Removing \/ Starting
  BY <1>1, <1>2, StageOf
<1>4. ~ (Starting')
  BY <1>1, <1>3, FinishIs DEF Starting
<1>5. CASE Excused
  BY <1>1, <1>2, <1>4, <1>5 DEF TenantsInv, Excused
<1>6. CASE TenantsOK
  <2>1. /\ Migrated(rows)' = Migrated(rows) /\ Migrated(saved.rows)' = Migrated(saved.rows)
    BY <1>2 DEF Migrated
  <2>2. /\ OfOneRun(Migrated(rows)) <=> OfOneRun(Migrated(rows))'
        /\ OfOneRun(Migrated(saved.rows)) <=> OfOneRun(Migrated(saved.rows))'
    BY <2>1 DEF OfOneRun
  <2>3. inTx' => /\ "InitialSeeding" \notin saved'.executed => Migrated(saved.rows)' = {}
                 /\ OfOneRun(Migrated(saved.rows))'
    BY <1>2, <1>6, <2>1, <2>2 DEF TenantsOK
  <2>4. CASE Creating
    <3>1. executed' = {"InitialSchema"} /\ command' = "run"
      BY <1>1, <2>4, FinishIs
    <3>2. Migrated(rows) = {}
      BY <1>6, <2>4 DEF TenantsOK, Creating, Seeding
    <3>. QED  BY <1>1, <1>4, <2>1, <2>3, <3>1, <3>2 DEF TenantsInv, TenantsOK
  <2>5. CASE Seeding
    <3>1. executed' = {"InitialSchema", "InitialSeeding"} /\ command' = "idle"
      BY <1>1, <2>5, FinishIs
    <3>2. OfOneRun(Migrated(rows))
      BY <1>6, <2>5 DEF TenantsOK, OfOneRun
    <3>3. ~ (Seeding')
      BY <3>1 DEF Seeding
    <3>. QED  BY <1>1, <1>4, <2>2, <2>3, <3>1, <3>2, <3>3 DEF TenantsInv, TenantsOK
  <2>6. CASE Removing
    <3>1. executed' = {"InitialSchema"} /\ command' = "idle"
      BY <1>1, <2>6, FinishIs
    <3>2. Migrated(rows) = {}
      <4>1. pc = Len(SeedingDown) + 1
        BY <1>1, <1>2, <2>6, StageOf
      <4>2. pc = 17
        BY <4>1, SeedingDownIs
      <4>3. "businesses" \in DroppedTables
        BY DEF DroppedTables
      <4>4. DeleteAt["businesses"] \in 1..(pc - 1)
        BY <4>2, <4>3, SeedingDownIs
      <4>5. rows["businesses"] = {}
        BY <1>1, <2>6, <4>3, <4>4, SeedingDownIs DEF RowsInv, DeletedSoFar
      <4>. QED  BY <4>5 DEF Migrated
    <3>3. ~ (Seeding')
      BY <3>1 DEF Seeding
    <3>. QED  BY <1>1, <1>4, <2>1, <2>3, <3>1, <3>2, <3>3 DEF TenantsInv, TenantsOK
  <2>7. CASE Dropping \/ Starting
    <3>1. /\ command' = "idle"
          /\ "InitialSeeding" \in executed' <=> "InitialSeeding" \in executed
      BY <1>1, <2>7, FinishIs DEF Dropping
    <3>2. ~ Seeding /\ ~ (Seeding')
      BY <2>7, <3>1 DEF Seeding, Dropping, Starting
    <3>. QED  BY <1>1, <1>4, <1>6, <2>1, <2>2, <2>3, <3>1, <3>2 DEF TenantsInv, TenantsOK
  <2>. QED  BY <1>3, <2>4, <2>5, <2>6, <2>7
<1>. QED  BY <1>5, <1>6 DEF TenantsInv

LEMMA TenantsAbort ==
    ASSUME TenantsInv, Refuse \/ Interrupt
    PROVE  TenantsInv'
<1>1. RowsInv' /\ RowsInv /\ Progress
  BY RowsAbort DEF TenantsInv, RowsInv, SchemaInv
<1> DEFINE x == [migration |-> Current, command |-> command, inTx |-> inTx,
                 keyed |-> FirstKey \in keys]
<1>2. /\ command # "idle" /\ command' = "idle" /\ ~ inTx'
      /\ UNCHANGED <<saved, started>> /\ interrupted \subseteq interrupted'
      /\ inTx => rows' = saved.rows /\ executed' = saved.executed
      /\ ~ inTx => rows' = rows /\ executed' = executed
      /\ Refuse \/ (Interrupt /\ x \in interrupted')
  BY AbortIs
<1>3. ~ (Starting') /\ ~ (Seeding')
  BY <1>2 DEF Starting, Seeding
<1>4. CASE Excused
  BY <1>1, <1>2, <1>3, <1>4 DEF TenantsInv, Excused
<1>5. CASE TenantsOK /\ inTx
  <2>1. Migrated(rows)' = Migrated(saved.rows)
    BY <1>2, <1>5 DEF Migrated
  <2>2. OfOneRun(Migrated(saved.rows)) => OfOneRun(Migrated(rows))'
    BY <2>1 DEF OfOneRun
  <2>3. TenantsOK'
    BY <1>2, <1>3, <1>5, <2>1, <2>2 DEF TenantsOK
  <2>. QED  BY <1>1, <1>3, <2>3 DEF TenantsInv
<1>6. CASE TenantsOK /\ ~ inTx /\ ~ Seeding
  <2>1. Migrated(rows)' = Migrated(rows)
    BY <1>2, <1>6 DEF Migrated
  <2>2. OfOneRun(Migrated(rows)) => OfOneRun(Migrated(rows))'
    BY <2>1 DEF OfOneRun
  <2>3. TenantsOK'
    BY <1>2, <1>3, <1>6, <2>1, <2>2 DEF TenantsOK
  <2>. QED  BY <1>1, <1>3, <2>3 DEF TenantsInv
<1>7. CASE ~ inTx /\ Seeding
  <2>1. ~ Refuse
    <3>1. tables = AllTables
      BY <1>1, <1>7 DEF RowsInv, WholeOrSaved
    <3>. QED  BY <1>1, <1>7, <3>1, RefuseIs, SeedFits DEF RowsInv
  <2>2. x \in interrupted'
    BY <1>2, <2>1
  <2>3. /\ x.migration = "InitialSeeding" /\ x.command = "run"
        /\ x.inTx <=> inTx
    BY <1>1, <1>7, StageOf DEF Seeding
  <2> HIDE DEF x
  <2>4. Excused'
    BY <1>7, <2>2, <2>3 DEF Excused
  <2>. QED  BY <1>1, <1>3, <2>4 DEF TenantsInv
<1>. QED  BY <1>4, <1>5, <1>6, <1>7 DEF TenantsInv

LEMMA TenantsStep == ASSUME TenantsInv, [Next]_vars PROVE TenantsInv'
<1>1. CASE Run \/ Revert \/ StartInDevelopment
  BY <1>1, TenantsBegin
<1>2. CASE Execute
  BY <1>2, TenantsExecute
<1>3. CASE Finish
  BY <1>3, TenantsFinish
<1>4. CASE Refuse \/ Interrupt
  BY <1>4, TenantsAbort
<1>5. CASE UNCHANGED vars
  <2>1. RowsInv'
    BY <1>5, RowsStep DEF TenantsInv
  <2>2. (Starting <=> Starting') /\ (Seeding <=> Seeding') /\ (Excused <=> Excused')
    BY <1>5 DEF vars, Starting, Seeding, Excused
  <2>3. Migrated(rows)' = Migrated(rows) /\ Migrated(saved.rows)' = Migrated(saved.rows)
    BY <1>5 DEF vars, Migrated
  <2>4. /\ OfOneRun(Migrated(rows)) => OfOneRun(Migrated(rows))'
        /\ OfOneRun(Migrated(saved.rows)) => OfOneRun(Migrated(saved.rows))'
    BY <2>3 DEF OfOneRun
  <2>5. TenantsOK => TenantsOK'
    BY <1>5, <2>2, <2>3, <2>4 DEF vars, TenantsOK
  <2>. QED  BY <1>5, <2>1, <2>2, <2>5 DEF vars, TenantsInv
<1>. QED  BY <1>1, <1>2, <1>3, <1>4, <1>5 DEF Next

\* The migrations never leave two copies of a tenant, after any sequence of runs,
\* reverts, starts and interruptions, except where the seeding that follows the
\* creation of the schema in one command was interrupted: nothing takes back
\* what that one inserted.
THEOREM NoTenantIsSeededTwice == Spec => []NoTenantTwice
<1>1. Init => TenantsInv
  BY TenantsInit
<1>2. TenantsInv /\ [Next]_vars => TenantsInv'
  BY TenantsStep
<1>3. TenantsInv => NoTenantTwice
  BY TenantsMean
<1>. QED  BY <1>1, <1>2, <1>3, PTL DEF Spec

=============================================================================
