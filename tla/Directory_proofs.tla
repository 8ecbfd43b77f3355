--------------------------- MODULE Directory_proofs ---------------------------
(***************************************************************************)
(* Proofs about Directory: what the rows of a business promise although    *)
(* transactions are left open on pooled connections, for any number of     *)
(* calls, connections and rows.                                            *)
(***************************************************************************)
EXTENDS Directory, TLAPS

-----------------------------------------------------------------------------
(* Rows and changes.                                                       *)

DirectoryRows == [Ids -> Entries \cup {NIL}]
AllChanges == UNION {[set -> Entries \cup {NIL}] : set \in SUBSET Ids}
Holdings == [by : Requests \cup {NIL}, open : BOOLEAN, opener : Requests \cup {NIL},
             view : AllChanges, writes : AllChanges]

LEMMA ChangesAreRows == ASSUME NEW rows PROVE RowsOfIds(rows) <=> rows \in AllChanges
BY DEF RowsOfIds, AllChanges

LEMMA PoolTyped ==
    ASSUME NEW p
    PROVE  p \in [Connections -> Holdings] <=>
               /\ p \in [Connections -> [by : Requests \cup {NIL}, open : BOOLEAN,
                                         opener : Requests \cup {NIL},
                                         view : {p[k].view : k \in Connections},
                                         writes : {p[k].writes : k \in Connections}]]
               /\ \A k \in Connections : RowsOfIds(p[k].view) /\ RowsOfIds(p[k].writes)
<1> DEFINE own == [by : Requests \cup {NIL}, open : BOOLEAN, opener : Requests \cup {NIL},
                   view : {p[k].view : k \in Connections},
                   writes : {p[k].writes : k \in Connections}]
<1>1. ASSUME p \in [Connections -> Holdings]
      PROVE  /\ p \in [Connections -> own]
             /\ \A k \in Connections : RowsOfIds(p[k].view) /\ RowsOfIds(p[k].writes)
  <2>1. \A k \in Connections : p[k] \in Holdings
      BY <1>1
  <2>2. \A k \in Connections : RowsOfIds(p[k].view) /\ RowsOfIds(p[k].writes)
      BY <2>1, ChangesAreRows DEF Holdings
  <2>3. \A k \in Connections : p[k] \in own
      BY <2>1 DEF Holdings
  <2> QED
      BY <1>1, <2>2, <2>3
<1>2. ASSUME p \in [Connections -> own],
             \A k \in Connections : RowsOfIds(p[k].view) /\ RowsOfIds(p[k].writes)
      PROVE  p \in [Connections -> Holdings]
  <2>1. \A k \in Connections : p[k] \in own
      BY <1>2
  <2>2. \A k \in Connections : p[k].view \in AllChanges /\ p[k].writes \in AllChanges
      BY <1>2, ChangesAreRows
  <2>3. \A k \in Connections : p[k] \in Holdings
      BY <2>1, <2>2 DEF Holdings
  <2> QED
      BY <1>2, <2>3
<1> QED
    BY <1>1, <1>2

LEMMA ChangeFacts ==
    ASSUME NEW i \in Ids, NEW row \in Entries \cup {NIL}
    PROVE  /\ RowsOfIds(Change(i, row)) /\ DOMAIN Change(i, row) = {i}
           /\ Change(i, row)[i] = row
BY DEF RowsOfIds, Change

LEMMA NoChangeFacts == RowsOfIds(NoChange) /\ DOMAIN NoChange = {}
BY DEF RowsOfIds, NoChange

LEMMA OverRows ==
    ASSUME NEW changes, RowsOfIds(changes), NEW rows \in DirectoryRows
    PROVE  /\ Over(changes, rows) \in DirectoryRows
           /\ \A i \in Ids : Over(changes, rows)[i] =
                  IF i \in DOMAIN changes THEN changes[i] ELSE rows[i]
<1>1. DOMAIN changes \cup DOMAIN rows = Ids
    BY DEF RowsOfIds, DirectoryRows
<1>2. Over(changes, rows) =
          [i \in Ids |-> IF i \in DOMAIN changes THEN changes[i] ELSE rows[i]]
    BY <1>1 DEF Over
<1> QED
    BY <1>2 DEF RowsOfIds, DirectoryRows

LEMMA OverChanges ==
    ASSUME NEW changes, RowsOfIds(changes), NEW rows, RowsOfIds(rows)
    PROVE  /\ RowsOfIds(Over(changes, rows))
           /\ DOMAIN Over(changes, rows) = DOMAIN changes \cup DOMAIN rows
           /\ \A i \in DOMAIN changes \cup DOMAIN rows : Over(changes, rows)[i] =
                  IF i \in DOMAIN changes THEN changes[i] ELSE rows[i]
BY DEF RowsOfIds, Over

\* The latest rows of a connection, and those it sees.
LEMMA LatestRows ==
    ASSUME DirectoryTypeOK, NEW k \in Connections
    PROVE  /\ Latest(k) \in DirectoryRows /\ entries \in DirectoryRows
           /\ RowsOfIds(pool[k].writes) /\ Pending(k) \subseteq Ids
           /\ \A i \in Ids : Latest(k)[i] =
                  IF i \in Pending(k) THEN pool[k].writes[i] ELSE entries[i]
<1>1. RowsOfIds(pool[k].writes) /\ entries \in DirectoryRows
    BY DEF DirectoryTypeOK, DirectoryRows
<1> QED
    BY <1>1, OverRows DEF Latest, Pending, RowsOfIds

LEMMA SeenRows ==
    ASSUME DirectoryTypeOK, NEW k \in Connections, ConnectionFits(k)
    PROVE  /\ Seen(k) \in DirectoryRows
           /\ \A i \in Ids : Seen(k)[i] =
                  IF ~ pool[k].open THEN entries[i]
                  ELSE IF i \in Pending(k) THEN pool[k].writes[i] ELSE pool[k].view[i]
<1>1. RowsOfIds(pool[k].writes) /\ RowsOfIds(pool[k].view) /\ entries \in DirectoryRows
    BY DEF DirectoryTypeOK, DirectoryRows
<1>2. CASE pool[k].open
  <2>1. pool[k].view \in DirectoryRows
      BY <1>1, <1>2 DEF ConnectionFits, RowsOfIds, DirectoryRows
  <2> QED
      BY <1>1, <1>2, <2>1, OverRows DEF Seen, Pending
<1>3. CASE ~ pool[k].open
    BY <1>1, <1>3 DEF Seen
<1> QED
    BY <1>2, <1>3

\* Without a transaction they are the committed ones.
LEMMA LatestIsCommitted ==
    ASSUME DirectoryTypeOK, NEW k \in Connections, Pending(k) = {}
    PROVE  Latest(k) = entries
BY LatestRows DEF DirectoryRows

-----------------------------------------------------------------------------
(* The steps of one call, and what they change.                            *)

\* What calls, rows and connections have to do with each other.
Base ==
    /\ DirectoryTypeOK /\ Fitting(entries)
    /\ \A c \in Requests : JobFits(c) /\ RowMade(c)
    /\ \A k \in Connections : ConnectionFits(k)
    /\ OpenersDiffer

\* Call c goes on with connection k: it asks once, for a row of its own or for one
\* that it sees, and writes to that row only.
Goes(c, k) ==
    /\ step[c] # "end" /\ step'[c] # "new"
    /\ step[c] = "readBack" => step'[c] = "end"
    /\ \A d \in Requests : d # c =>
           job'[d] = job[d] /\ step'[d] = step[d] /\ answer'[d] = answer[d]
    /\ step[c] # "new" => job'[c] = job[c]
    /\ step[c] = "new" => \/ job'[c].op = "create" /\ job'[c].id = c
                          \/ job'[c].id \in Live(Seen(k))
    /\ \A i \in Ids : /\ writers[i] \subseteq writers'[i]
                      /\ writers'[i] \subseteq writers[i] \cup {c}
                      /\ writers'[i] # writers[i] =>
                           /\ step[c] # "new" /\ i = job[c].id
                           /\ step'[c] \in {"readBack", "end"}
    /\ step'[c] \in {"name", "code", "save"} =>
           \/ step[c] \in {"name", "code", "save"} /\ entries' = entries
           \/ job'[c].id \in Live(entries)' \/ c \in overtaken'
    /\ contested \subseteq contested' /\ overtaken \subseteq overtaken'
    /\ closed \subseteq closed' /\ retired \subseteq retired'

\* The statements of a call: the row that it creates, the row as it saves it, the
\* row as removed, or the supplier and its sources as deleted.
Creates(c, ch) ==
    /\ step[c] \in {"insert", "source", "order"} /\ c \in writers'[c]
    /\ ch = Change(c, job[c].row)

Saves(c, k, ch) ==
    /\ step[c] = "save" /\ step'[c] = "end" /\ answer'[c] = "ok"
    /\ c \in writers'[job[c].id] /\ Free(k)
    /\ \A l \in Connections : l # k => job[c].id \notin Pending(l)
    /\ LET base == Seen(k)[job[c].id]
           now == Latest(k)[job[c].id]
       IN  \E row \in Entries :
               /\ ch = Change(job[c].id, row)
               /\ row.table = job[c].row.table
               /\ \/ row.supplier = job[c].row.supplier
                  \/ now # NIL /\ row.supplier = now.supplier
               /\ base = NIL \/ base = now => row = job[c].row

SoftDeletes(c, k, ch) ==
    /\ step[c] = "softDelete" /\ answer'[c] = "ok" /\ c \in writers'[job[c].id]
    /\ ch = Change(job[c].id, [Latest(k)[job[c].id] EXCEPT !.removed = TRUE])

Deletes(c, k, ch) ==
    /\ step[c] = "delete" /\ answer'[c] = "ok" /\ c \in writers'[job[c].id]
    /\ ch = [j \in Using(Latest(k), "source", job[c].id) \cup {job[c].id} |-> NIL]

Statement(c, k, ch) ==
    \/ ch = NoChange
    \/ Creates(c, ch)
    \/ Saves(c, k, ch)
    \/ SoftDeletes(c, k, ch)
    \/ Deletes(c, k, ch)

\* What connection k has open is committed, and then the statement.
Commits(k, ch) ==
    /\ Free(k) \/ Pending(k) = {}
    /\ entries' = Over(ch, Latest(k))
    /\ Pending(k)' = {}
    /\ \A l \in Connections : l # k => pool'[l] = pool[l]
    /\ \A i \in Live(entries) \ (Live(Latest(k)) \cap Live(entries)') :
           i \in retired' /\ \A c \in Going : job[c].id = i => c \in overtaken'
    /\ retired \subseteq retired' /\ retired' \subseteq retired \cup Live(entries)

\* The statement joins what connection k has open.
Defers(k, ch) ==
    /\ pool[k].open /\ pool'[k].open
    /\ pool'[k].opener = pool[k].opener /\ pool'[k].by = NIL
    /\ pool'[k].view = pool[k].view
    /\ pool'[k].writes = Over(ch, pool[k].writes)
    /\ \A l \in Connections : l # k => pool'[l] = pool[l]
    /\ entries' = entries /\ retired' = retired

\* No row changes, and connections go on or become idle.
Drops ==
    /\ entries' = entries /\ retired' = retired
    /\ \A l \in Connections :
           pool'[l] = pool[l] \/ (pool'[l] = Idle /\ Pending(l) \subseteq closed')

-----------------------------------------------------------------------------
(* What the base gives for each of them.                                   *)

LEMMA BaseParts ==
    ASSUME Base
    PROVE  /\ DirectoryTypeOK /\ Fitting(entries) /\ OpenersDiffer
           /\ \A c \in Requests : JobFits(c) /\ RowMade(c) /\ job[c] \in Jobs
           /\ \A k \in Connections : ConnectionFits(k) /\ pool[k] \in Holdings
           /\ \A i \in Ids : entries[i] \in Entries \cup {NIL} /\ writers[i] \in SUBSET Requests
<1>1. DirectoryTypeOK
    BY DEF Base
<1>2. pool \in [Connections -> Holdings]
    BY <1>1, PoolTyped DEF DirectoryTypeOK
<1> QED
    BY <1>1, <1>2 DEF Base, DirectoryTypeOK

\* A call holds the connection of its transaction and no other.
LEMMA HolderIs ==
    ASSUME Base, NEW c \in Requests, NEW k \in Connections, pool[k].by = c
    PROVE  /\ step[c] \in {"source", "order", "readBack"} /\ Pending(k) = {}
           /\ step[c] # "readBack" => pool[k].open /\ \A l \in Connections : pool[l].by = c => l = k
<1>1. c # NIL
    BY DirectoryAssumption DEF Ids
<1>2. \A l \in Connections : pool[l].by = c =>
          /\ Pending(l) = {}
          /\ pool[l].open => pool[l].opener = c /\ step[c] \in {"source", "order"}
          /\ ~ pool[l].open => step[c] = "readBack"
    BY <1>1, BaseParts DEF ConnectionFits
<1>3. \A l \in Connections : pool[l].open \in BOOLEAN
    BY BaseParts DEF Holdings
<1> QED
    BY <1>1, <1>2, <1>3, BaseParts DEF OpenersDiffer

\* The table of a row that is there, or will be, does not change.
LEMMA TablesStay ==
    ASSUME Base, NEW c \in Requests, NEW k \in Connections, Goes(c, k)
    PROVE  /\ \A i \in Ids : i # c => TableOf(i)' = TableOf(i)
           /\ step[c] # "new" => \A i \in Ids : TableOf(i)' = TableOf(i)
           /\ step[c] = "new" =>
                /\ writers[c] = {} /\ entries[c] = NIL /\ c \notin retired
                /\ \A l \in Connections :
                     /\ c \notin Pending(l)
                     /\ c \in DOMAIN pool[l].view => pool[l].view[c] = NIL
                     /\ pool[l].by # c /\ pool[l].opener # c
<1>1. \A i \in Ids \ DOMAIN Initial : i \in Requests
    BY DEF Ids
<1>2. \A i \in Ids : i # c \/ step[c] # "new" => TableOf(i)' = TableOf(i)
    BY <1>1 DEF TableOf, Goes
<1>3. c \in Ids /\ c # NIL
    BY DirectoryAssumption DEF Ids
<1>4. step[c] = "new" => writers[c] = {}
    BY <1>3, BaseParts DEF RowMade
<1>5. step[c] = "new" => \A l \in Connections : pool[l].by # c /\ pool[l].opener # c
  <2> SUFFICES ASSUME step[c] = "new", NEW l \in Connections
               PROVE  pool[l].by # c /\ pool[l].opener # c
      OBVIOUS
  <2>1. ConnectionFits(l) /\ pool[l].open \in BOOLEAN
      BY BaseParts DEF Holdings
  <2>2. pool[l].by # c
      BY HolderIs
  <2>3. pool[l].open => pool[l].opener # c
      BY <2>1, <2>2, <1>3 DEF ConnectionFits
  <2>4. ~ pool[l].open => pool[l].opener # c
      BY <2>1, <1>3 DEF ConnectionFits
  <2> QED
      BY <2>2, <2>3, <2>4
<1> QED
    BY <1>2, <1>4, <1>5, BaseParts DEF RowMade

\* What a connection sees and writes are rows of their tables that calls have made.
LEMMA RowsFit ==
    ASSUME Base, NEW k \in Connections, NEW i \in Ids
    PROVE  /\ Latest(k)[i] \in Entries \cup {NIL} /\ Seen(k)[i] \in Entries \cup {NIL}
           /\ Latest(k)[i] # NIL => Latest(k)[i].table = TableOf(i)
           /\ Seen(k)[i] # NIL => Seen(k)[i].table = TableOf(i)
           /\ i \in Requests /\ writers[i] = {} => Latest(k)[i] = NIL /\ Seen(k)[i] = NIL
<1>1. /\ DirectoryTypeOK /\ Fitting(entries) /\ ConnectionFits(k)
      /\ i \in Requests => RowMade(i)
    BY BaseParts
<1>2. /\ Fitting(pool[k].view) /\ Fitting(pool[k].writes)
      /\ pool[k].open => DOMAIN pool[k].view = Ids
    BY <1>1 DEF ConnectionFits
<1>3. /\ Latest(k) \in DirectoryRows /\ Seen(k) \in DirectoryRows /\ entries \in DirectoryRows
      /\ Latest(k)[i] = IF i \in Pending(k) THEN pool[k].writes[i] ELSE entries[i]
      /\ Seen(k)[i] = IF ~ pool[k].open THEN entries[i]
                      ELSE IF i \in Pending(k) THEN pool[k].writes[i] ELSE pool[k].view[i]
    BY <1>1, LatestRows, SeenRows
<1>4. Latest(k)[i] \in Entries \cup {NIL} /\ Seen(k)[i] \in Entries \cup {NIL}
    BY <1>3 DEF DirectoryRows
<1>5. /\ entries[i] # NIL => entries[i].table = TableOf(i)
      /\ i \in Pending(k) /\ pool[k].writes[i] # NIL => pool[k].writes[i].table = TableOf(i)
      /\ pool[k].open /\ pool[k].view[i] # NIL => pool[k].view[i].table = TableOf(i)
    BY <1>1, <1>2, <1>3 DEF Fitting, Pending, DirectoryRows
<1>6. i \in Requests /\ writers[i] = {} =>
          /\ entries[i] = NIL /\ i \notin Pending(k)
          /\ pool[k].open => pool[k].view[i] = NIL
    BY <1>1, <1>2 DEF RowMade
<1> QED
    BY <1>3, <1>4, <1>5, <1>6

\* A removed store stays a store.
LEMMA SoftDeleteRow ==
    ASSUME Base, NEW c \in Requests, NEW k \in Connections, NEW ch, SoftDeletes(c, k, ch)
    PROVE  /\ job[c].id \in Ids /\ step[c] # "new" /\ TableOf(job[c].id) = "store"
           /\ RowsOfIds(ch) /\ DOMAIN ch = {job[c].id}
           /\ ch[job[c].id] \in Entries /\ ch[job[c].id] # NIL
           /\ ch[job[c].id].table = "store" /\ ch[job[c].id].removed = TRUE
<1> DEFINE i == job[c].id
           row == [Latest(k)[i] EXCEPT !.removed = TRUE]
<1>1. /\ i \in Ids /\ step[c] # "new" /\ TableOf(i) = "store" /\ entries[i] # NIL
  <2>1. JobFits(c) /\ job[c] \in Jobs
      BY BaseParts
  <2> QED
      BY <2>1 DEF SoftDeletes, JobFits, Jobs
<1>2. Latest(k)[i] # NIL
  <2>1. ConnectionFits(k) /\ Latest(k)[i] = IF i \in Pending(k) THEN pool[k].writes[i] ELSE entries[i]
      BY <1>1, BaseParts, LatestRows
  <2> QED
      BY <1>1, <2>1 DEF ConnectionFits
<1>3. Latest(k)[i] \in Entries /\ Latest(k)[i].table = "store"
    BY <1>1, <1>2, RowsFit
<1>4. row \in Entries /\ row.table = "store" /\ row.removed = TRUE
    BY <1>3 DEF Entries
<1>5. RowsOfIds(ch) /\ DOMAIN ch = {i} /\ ch[i] = row
    BY <1>1, <1>4, ChangeFacts DEF SoftDeletes
<1>6. row # NIL
    BY <1>4, DirectoryAssumption
<1> HIDE DEF row
<1> QED
    BY <1>1, <1>4, <1>5, <1>6

\* The rows that a statement writes.
LEMMA StatementRows ==
    ASSUME Base, NEW c \in Requests, NEW k \in Connections, Goes(c, k),
           NEW ch, Statement(c, k, ch)
    PROVE  /\ RowsOfIds(ch) /\ (DOMAIN ch # {} => step[c] # "new")
           /\ \A i \in DOMAIN ch :
                /\ i \in Ids /\ ch[i] \in Entries \cup {NIL}
                /\ ch[i] # NIL => ch[i].table = TableOf(i)
                /\ ch[i] = NIL => TableOf(i) \in {"supplier", "source"}
                /\ i \in Requests => writers'[i] # {}
                /\ ch[i] # NIL /\ ~ ch[i].removed => \A l \in Connections : l # k => i \notin Pending(l)
<1>1. DirectoryTypeOK /\ JobFits(c) /\ RowMade(c) /\ job[c] \in Jobs
    BY BaseParts
<1>2. c \in Ids
    BY DEF Ids
<1>3. CASE ch = NoChange
    BY <1>3, NoChangeFacts
<1>4. CASE Creates(c, ch)
  <2>1. /\ job[c].row \in Entries /\ job[c].op = "create" /\ step[c] # "new"
        /\ step[c] # "readBack" /\ step[c] # "end"
      BY <1>1, <1>4 DEF Creates, JobFits, Jobs
  <2>2. RowsOfIds(ch) /\ DOMAIN ch = {c} /\ ch[c] = job[c].row
      BY <1>2, <1>4, <2>1, ChangeFacts DEF Creates
  <2>3. TableOf(c) = job[c].row.table
      BY DirectoryAssumption DEF TableOf
  <2>4. \A l \in Connections : c \notin Pending(l)
      BY <1>1, <2>1 DEF RowMade
  <2>5. ch[c] # NIL
      BY <2>1, <2>2, DirectoryAssumption
  <2> QED
      BY <1>2, <1>4, <2>1, <2>2, <2>3, <2>4, <2>5 DEF Creates
<1>5. CASE Saves(c, k, ch)
  <2>1. /\ job[c].op = "update" /\ step[c] # "new" /\ job[c].id \in Ids
        /\ job[c].row.table = TableOf(job[c].id)
      BY <1>1, <1>5 DEF Saves, JobFits, Jobs
  <2>2. PICK row \in Entries : ch = Change(job[c].id, row) /\ row.table = job[c].row.table
      BY <1>5 DEF Saves
  <2>3. RowsOfIds(ch) /\ DOMAIN ch = {job[c].id} /\ ch[job[c].id] = row
      BY <2>1, <2>2, ChangeFacts
  <2>4. row # NIL
      BY DirectoryAssumption
  <2> QED
      BY <1>5, <2>1, <2>2, <2>3, <2>4 DEF Saves
<1>6. CASE SoftDeletes(c, k, ch)
  <2>1. c \in writers'[job[c].id]
      BY <1>6 DEF SoftDeletes
  <2> QED
      BY <1>6, <2>1, SoftDeleteRow
<1>7. CASE Deletes(c, k, ch)
  <2> DEFINE i == job[c].id
  <2>1. i \in Ids /\ step[c] # "new" /\ TableOf(i) = "supplier"
      BY <1>1, <1>7 DEF Deletes, JobFits, RemovesSupplier, Jobs
  <2>2. DOMAIN ch = Using(Latest(k), "source", i) \cup {i} /\ \A j \in DOMAIN ch : ch[j] = NIL
      BY <1>7 DEF Deletes
  <2>3. \A j \in Using(Latest(k), "source", i) :
            j \in Ids /\ Latest(k)[j] # NIL /\ Latest(k)[j].table = "source"
      BY DEF Using, LiveIn, Live, Present
  <2>4. \A j \in DOMAIN ch : j \in Ids /\ TableOf(j) \in {"supplier", "source"}
      BY <2>1, <2>2, <2>3, RowsFit
  <2>5. RowsOfIds(ch)
    <3>1. ch = [j \in DOMAIN ch |-> ch[j]]
        BY <1>7 DEF Deletes
    <3> QED
        BY <2>2, <2>4, <3>1 DEF RowsOfIds
  <2>6. \A j \in DOMAIN ch : j \in Requests => writers'[j] # {}
    <3>1. writers'[i] # {}
        BY <1>7 DEF Deletes
    <3>2. \A j \in Using(Latest(k), "source", i) : j \in Requests => writers'[j] # {}
        BY <2>3, RowsFit DEF Goes
    <3> QED
        BY <2>2, <3>1, <3>2
  <2> QED
      BY <2>1, <2>2, <2>4, <2>5, <2>6
<1> QED
    BY <1>3, <1>4, <1>5, <1>6, <1>7 DEF Statement

\* The rows after a commit: those of the statement, then what was open, then the rest.
LEMMA CommitRows ==
    ASSUME Base, NEW k \in Connections, NEW ch, RowsOfIds(ch), Commits(k, ch)
    PROVE  /\ entries' \in DirectoryRows
           /\ \A i \in Ids : entries'[i] =
                  IF i \in DOMAIN ch THEN ch[i]
                  ELSE IF i \in Pending(k) THEN pool[k].writes[i] ELSE entries[i]
<1>1. Latest(k) \in DirectoryRows /\ \A i \in Ids : Latest(k)[i] =
                  IF i \in Pending(k) THEN pool[k].writes[i] ELSE entries[i]
    BY BaseParts, LatestRows
<1> QED
    BY <1>1, OverRows DEF Commits

\* Only rows of suppliers and sources ever go; a row that waits in another connection
\* as the source of its call is still not there.
LEMMA CommitKeeps ==
    ASSUME Base, NEW c \in Requests, NEW k \in Connections, Goes(c, k),
           NEW ch, Statement(c, k, ch), Commits(k, ch), NEW i \in Ids
    PROVE  /\ entries'[i] # NIL => entries'[i].table = TableOf(i)
           /\ entries'[i] # NIL => ~ (i = c /\ step[c] = "new")
           /\ i \in Requests /\ writers'[i] = {} => entries'[i] = NIL /\ i \notin retired'
           /\ entries[i] # NIL /\ entries'[i] = NIL => TableOf(i) \in {"supplier", "source"}
           /\ \A l \in Connections \ {k} :
                 i \in Pending(l) /\ pool[l].writes[i] # NIL /\ ~ pool[l].writes[i].removed =>
                    entries'[i] = NIL /\ i \notin retired'
<1>1. /\ RowsOfIds(ch) /\ (DOMAIN ch # {} => step[c] # "new")
      /\ i \in DOMAIN ch =>
           /\ ch[i] # NIL => ch[i].table = TableOf(i)
           /\ ch[i] = NIL => TableOf(i) \in {"supplier", "source"}
           /\ i \in Requests => writers'[i] # {}
           /\ ch[i] # NIL /\ ~ ch[i].removed => \A l \in Connections : l # k => i \notin Pending(l)
           /\ ch[i] \in Entries \cup {NIL}
    BY StatementRows
<1>2. entries'[i] = IF i \in DOMAIN ch THEN ch[i]
                    ELSE IF i \in Pending(k) THEN pool[k].writes[i] ELSE entries[i]
    BY <1>1, CommitRows
<1>3. /\ DirectoryTypeOK /\ Fitting(entries) /\ OpenersDiffer
      /\ \A l \in Connections : ConnectionFits(l) /\ Fitting(pool[l].writes)
      /\ i \in Requests => RowMade(i)
    BY BaseParts DEF ConnectionFits
<1>4. entries[i] # NIL => entries[i].table = TableOf(i)
    BY <1>3 DEF Fitting, DirectoryTypeOK
<1>5. \A l \in Connections : i \in Pending(l) /\ pool[l].writes[i] # NIL =>
          pool[l].writes[i].table = TableOf(i)
    BY <1>3 DEF Fitting, Pending
<1>6. writers[i] \subseteq writers'[i] /\ retired' \subseteq retired \cup Live(entries)
    BY DEF Goes, Commits
<1>7. i \in Requests /\ writers[i] = {} =>
          entries[i] = NIL /\ i \notin retired /\ \A l \in Connections : i \notin Pending(l)
    BY <1>3 DEF RowMade
<1>8. i \in Live(entries) => entries[i] # NIL
    BY DEF Live, Present
<1>9. i \in Requests /\ writers'[i] = {} => entries'[i] = NIL /\ i \notin retired'
    BY <1>1, <1>2, <1>6, <1>7, <1>8
<1>10. entries'[i] # NIL => ~ (i = c /\ step[c] = "new")
  <2> SUFFICES ASSUME i = c, step[c] = "new" PROVE entries'[i] = NIL
      OBVIOUS
  <2>1. writers'[c] = {}
      BY <1>3, BaseParts, TablesStay DEF Goes
  <2> QED
      BY <2>1, <1>9
<1>11. entries[i] # NIL /\ entries'[i] = NIL => TableOf(i) \in {"supplier", "source"}
    BY <1>1, <1>2, <1>3 DEF ConnectionFits
<1>12. ASSUME NEW l \in Connections \ {k},
              i \in Pending(l), pool[l].writes[i] # NIL, ~ pool[l].writes[i].removed
       PROVE  entries'[i] = NIL /\ i \notin retired'
  <2>1. i = pool[l].opener /\ entries[i] = NIL /\ i \notin retired /\ pool[l].open
        /\ i # NIL /\ pool[l].by \in Requests \cup {NIL} /\ pool[l].open \in BOOLEAN
      BY <1>3, <1>12, BaseParts, DirectoryAssumption DEF ConnectionFits, Holdings
  <2>2. Free(l) /\ TableOf(i) = "source"
    <3>1. Free(l)
        BY <2>1, <1>3, <1>12 DEF ConnectionFits, Free
    <3>2. job[i].row.table = "source" /\ i \in Requests
        BY <2>1, <3>1, <1>3, BaseParts DEF ConnectionFits, Free, Holdings
    <3>3. i \notin DOMAIN Initial
        BY <3>2, DirectoryAssumption
    <3> QED
        BY <3>1, <3>2, <3>3 DEF TableOf
  <2>3. i \notin retired'
      BY <2>1, <1>6, <1>8
  <2>4. CASE i \in DOMAIN ch
    <3>1. ch[i] # NIL => ch[i].removed
        BY <2>4, <1>1, <1>12
    <3>2. ch[i] # NIL => SoftDeletes(c, k, ch) \/ Saves(c, k, ch)
      <4>1. ASSUME Deletes(c, k, ch) PROVE ch[i] = NIL
          BY <2>4, <4>1 DEF Deletes
      <4>2. ASSUME Creates(c, ch) PROVE ~ ch[i].removed
        <5>1. ch[i] = job[c].row /\ ~ job[c].row.removed
          <6>1. JobFits(c) /\ job[c] \in Jobs /\ c \in Ids
              BY BaseParts DEF Ids
          <6>2. job[c].op = "create"
              BY <6>1, <4>2 DEF Creates, JobFits
          <6>3. DOMAIN ch = {c} /\ ch[c] = job[c].row
              BY <6>1, <4>2, ChangeFacts DEF Creates, Jobs
          <6> QED
              BY <6>1, <6>2, <6>3, <2>4 DEF JobFits
        <5> QED
            BY <5>1
      <4>3. ch # NoChange
          BY <2>4, NoChangeFacts
      <4> QED
          BY <3>1, <4>1, <4>2, <4>3 DEF Statement
    <3>3. Saves(c, k, ch) => i \notin Pending(l)
      <4>1. ASSUME Saves(c, k, ch) PROVE DOMAIN ch = {job[c].id}
          BY <4>1 DEF Saves, Change
      <4> QED
          BY <4>1, <2>4 DEF Saves
    <3>4. SoftDeletes(c, k, ch) => TableOf(i) = "store"
      <4>1. ASSUME SoftDeletes(c, k, ch) PROVE DOMAIN ch = {job[c].id}
          BY <4>1 DEF SoftDeletes, Change
      <4> QED
          BY <4>1, <2>4, BaseParts DEF SoftDeletes, JobFits
    <3> QED
        BY <2>2, <2>3, <2>4, <3>2, <3>3, <3>4, <1>2, <1>12
  <2>5. CASE i \notin DOMAIN ch /\ i \in Pending(k)
    <3>1. ConnectionFits(k) /\ pool[k].opener # pool[l].opener
        BY <2>1, <1>3 DEF OpenersDiffer
    <3>2. pool[k].writes[i] # NIL => TableOf(i) = "store"
        BY <2>1, <2>5, <3>1 DEF ConnectionFits
    <3> QED
        BY <2>2, <2>3, <2>5, <3>2, <1>2
  <2>6. CASE i \notin DOMAIN ch /\ i \notin Pending(k)
      BY <2>1, <2>3, <2>6, <1>2
  <2> QED
      BY <2>4, <2>5, <2>6
<1>13. entries'[i] # NIL => entries'[i].table = TableOf(i)
    BY <1>1, <1>2, <1>4, <1>5
<1> QED
    BY <1>9, <1>10, <1>11, <1>12, <1>13

\* Calls and connections that a step is not about go on as they were.
LEMMA OtherJobs ==
    ASSUME Base, NEW c \in Requests, NEW k \in Connections, Goes(c, k),
           NEW d \in Requests, d # c,
           \A i \in Ids : entries[i] # NIL /\ entries'[i] = NIL =>
               TableOf(i) \in {"supplier", "source"}
    PROVE  JobFits(d)'
<1>1. JobFits(d) /\ job[d] \in Jobs /\ d \in Ids /\ c \in Ids
    BY BaseParts DEF Ids
<1>2. job'[d] = job[d] /\ step'[d] = step[d] /\ answer'[d] = answer[d]
    BY DEF Goes
<1>3. job[d].op # "none" => job[d].id \in Ids /\ TableOf(job[d].id)' = TableOf(job[d].id)
  <2>1. job[d].op # "none" => job[d].id \in Ids
      BY <1>1 DEF JobFits, Jobs
  <2>2. step[c] = "new" => job[d].id # c
      BY TablesStay, BaseParts DEF RowMade
  <2>3. \A i \in Ids : i = job[d].id => TableOf(i)' = TableOf(i)
      BY <2>2, TablesStay
  <2>4. \A i \in Ids : i = job[d].id => TableOf(job[d].id)' = TableOf(i)'
      BY <1>2 DEF TableOf
  <2> QED
      BY <2>1, <2>3, <2>4
<1>4. TableOf(d) = job[d].row.table
    BY DirectoryAssumption DEF TableOf
<1>5. step[d] = "readBack" => entries'[d] # NIL
    BY <1>1, <1>4 DEF JobFits
<1>6. step[d] = "softDelete" => entries'[job[d].id] # NIL
    BY <1>1, <1>3 DEF JobFits
<1>7. step[d] = "new" => \A i \in Ids : d \notin writers'[i]
    BY <1>1 DEF JobFits, Goes
<1> QED
    BY <1>1, <1>2, <1>3, <1>5, <1>6, <1>7 DEF JobFits

LEMMA OtherConnections ==
    ASSUME Base, NEW c \in Requests, NEW k \in Connections, Goes(c, k),
           NEW l \in Connections, pool'[l] = pool[l], pool[l].by # c,
           \A i \in Ids :
               /\ entries[i] # NIL /\ entries'[i] = NIL => TableOf(i) \in {"supplier", "source"}
               /\ i \in Pending(l) /\ pool[l].writes[i] # NIL /\ ~ pool[l].writes[i].removed =>
                      entries'[i] = NIL /\ i \notin retired'
    PROVE  ConnectionFits(l)'
<1>1. ConnectionFits(l) /\ pool[l] \in Holdings /\ Pending(l) \subseteq Ids
    BY BaseParts, LatestRows
<1>2. Pending(l)' = Pending(l) /\ DOMAIN pool[l].view \subseteq Ids
    BY BaseParts DEF Pending, DirectoryTypeOK, RowsOfIds
<1>3. \A i \in Ids : i \in Pending(l) \/ (i \in DOMAIN pool[l].view /\ pool[l].view[i] # NIL)
          => TableOf(i)' = TableOf(i)
    BY TablesStay
<1>4. pool[l].by # NIL => step'[pool[l].by] = step[pool[l].by]
    BY <1>1 DEF Goes, Holdings
<1>5. pool[l].by = NIL /\ pool[l].open =>
          step'[pool[l].opener] = step[pool[l].opener] /\ job'[pool[l].opener] = job[pool[l].opener]
    BY <1>1 DEF Goes, Holdings, ConnectionFits
<1>6. Fitting(pool[l].view)' /\ Fitting(pool[l].writes)'
    BY <1>1, <1>2, <1>3 DEF ConnectionFits, Fitting, Pending
<1>7. ASSUME NEW i \in DOMAIN pool[l].view, pool[l].view[i] # NIL, pool[l].view[i].table = "store"
      PROVE  entries'[i] # NIL
  <2>1. TableOf(i) = "store" /\ entries[i] # NIL /\ i \in Ids
      BY <1>1, <1>2, <1>7 DEF ConnectionFits, Fitting
  <2> QED
      BY <2>1
<1>8. \A i \in Pending(l) :
          /\ pool[l].writes[i] # NIL /\ ~ pool[l].writes[i].removed =>
                 i = pool[l].opener /\ entries'[i] = NIL /\ i \notin retired'
          /\ pool[l].writes[i] # NIL /\ pool[l].writes[i].removed => TableOf(i)' = "store"
          /\ pool[l].writes[i] = NIL => TableOf(i)' \in {"supplier", "source"}
    BY <1>1, <1>3 DEF ConnectionFits
<1> QED
    BY <1>1, <1>2, <1>4, <1>5, <1>6, <1>7, <1>8 DEF ConnectionFits

LEMMA RowsMade ==
    ASSUME Base, DirectoryTypeOK', NEW c \in Requests, NEW k \in Connections, Goes(c, k),
           JobFits(c)',
           \A i \in Ids : i \in Requests /\ writers'[i] = {} => entries'[i] = NIL /\ i \notin retired',
           \A l \in Connections : \A i \in Pending(l)' \cap Requests :
               writers'[i] = {} => i \in Pending(l),
           \A l \in Connections : pool'[l].view \in {NoChange, pool[l].view, Latest(l)},
           NEW d \in Requests
    PROVE  RowMade(d)'
<1>1. RowMade(d) /\ JobFits(d) /\ JobFits(c) /\ RowMade(c) /\ d \in Ids
    BY BaseParts DEF Ids
<1>2. CASE writers'[d] = {}
  <2>1. writers[d] = {}
      BY <1>1, <1>2 DEF Goes
  <2>2. \A l \in Connections : d \notin Pending(l)'
      BY <2>1, <1>1, <1>2 DEF RowMade
  <2>3. \A l \in Connections : d \in DOMAIN pool'[l].view => pool'[l].view[d] = NIL
      BY <2>1, <1>1, NoChangeFacts, RowsFit DEF RowMade
  <2>4. \A e \in Requests : job'[e].id = d => e = d
    <3> SUFFICES ASSUME NEW e \in Requests, job'[e].id = d PROVE e = d
        OBVIOUS
    <3>1. CASE step[c] = "new" /\ e = c
      <4>1. d \in Live(Seen(k)) => Seen(k)[d] # NIL
          BY DEF Live, Present
      <4>2. d \notin Live(Seen(k))
          BY <1>1, <2>1, <4>1, RowsFit
      <4> QED
          BY <3>1, <4>2 DEF Goes
    <3>2. CASE ~ (step[c] = "new" /\ e = c)
        BY <3>2, <2>1, <1>1 DEF Goes, RowMade
    <3> QED
        BY <3>1, <3>2
  <2> QED
      BY <1>1, <1>2, <2>2, <2>3, <2>4 DEF RowMade
<1>3. CASE writers'[d] # {}
  <2>1. CASE writers[d] # {}
    <3>1. job[d].op = "create" /\ step[d] \in {"readBack", "end"}
        BY <2>1, <1>1 DEF RowMade
    <3>2. CASE d # c
        BY <3>1, <3>2, <1>3 DEF RowMade, Goes
    <3>3. CASE d = c
      <4>1. step[c] = "readBack" /\ job'[c] = job[c]
          BY <3>1, <3>3 DEF Goes
      <4> QED
          BY <3>1, <3>3, <4>1, <1>3 DEF RowMade, Goes
    <3> QED
        BY <3>2, <3>3
  <2>2. CASE writers[d] = {}
    <3>1. step[c] # "new" /\ d = job[c].id /\ step'[c] \in {"readBack", "end"}
        BY <1>1, <1>3, <2>2 DEF Goes
    <3>2. c = d
        BY <3>1, <2>2, <1>1 DEF RowMade
    <3>3. job[c].op = "create" /\ job'[c] = job[c]
        BY <3>1, <3>2, <1>1 DEF JobFits, Goes
    <3> QED
        BY <3>1, <3>2, <3>3, <1>3 DEF RowMade
  <2> QED
      BY <2>1, <2>2
<1> QED
    BY <1>2, <1>3

\* The type invariant, of calls and of rows.
CallTypes ==
    /\ job \in [Requests -> Jobs] /\ step \in [Requests -> Steps]
    /\ answer \in [Requests -> {"none", "ok", "refused"}]
    /\ contested \subseteq Requests /\ writers \in [Ids -> SUBSET Requests]
RowTypes ==
    /\ entries \in DirectoryRows /\ pool \in [Connections -> Holdings]
    /\ overtaken \subseteq Requests /\ retired \subseteq Ids /\ closed \subseteq Ids

LEMMA TypesAre == DirectoryTypeOK <=> CallTypes /\ RowTypes
BY PoolTyped DEF DirectoryTypeOK, CallTypes, RowTypes, DirectoryRows

LEMMA TypesWillBe == DirectoryTypeOK' <=> CallTypes' /\ RowTypes'
BY TypesAre, PTL

\* A call that commits keeps its connection only to go on with it.
KeepsOn(c, k) ==
    \/ pool'[k] = Idle
    \/ pool'[k] = pool[k] /\ Free(k) /\ Pending(k) = {}
    \/ /\ pool'[k] = [Idle EXCEPT !.by = c] /\ step'[c] = "readBack"
    \/ /\ step[c] = "new" /\ step'[c] \in {"source", "order"}
       /\ pool'[k] = [by |-> c, open |-> TRUE, opener |-> c,
                      view |-> Latest(k), writes |-> NoChange]

LEMMA IdleFits ==
    ASSUME NEW k \in Connections, pool'[k] = Idle
    PROVE  ConnectionFits(k)' /\ Pending(k)' = {}
<1>1. /\ pool'[k].open = FALSE /\ pool'[k].by = NIL /\ pool'[k].opener = NIL
      /\ pool'[k].view = NoChange /\ pool'[k].writes = NoChange
    BY DEF Idle
<1>2. Pending(k)' = {} /\ DOMAIN pool'[k].view = {}
    BY <1>1, NoChangeFacts DEF Pending
<1>3. Fitting(pool[k].view)' /\ Fitting(pool[k].writes)'
    BY <1>2 DEF Fitting, Pending
<1> QED
    BY <1>1, <1>2, <1>3 DEF ConnectionFits

LEMMA BaseCommits ==
    ASSUME Base, DirectoryTypeOK', NEW c \in Requests, NEW k \in Connections, Goes(c, k),
           NEW ch, Statement(c, k, ch), Commits(k, ch), KeepsOn(c, k), JobFits(c)',
           \A l \in Connections \ {k} : pool[l].by # c
    PROVE  Base'
<1>1. /\ DirectoryTypeOK /\ OpenersDiffer /\ RowsOfIds(ch) /\ c \in Ids /\ c # NIL
      /\ DOMAIN ch # {} => step[c] # "new"
    BY BaseParts, StatementRows, DirectoryAssumption DEF Ids
<1>2. \A i \in Ids :
          /\ entries'[i] # NIL => entries'[i].table = TableOf(i)
          /\ entries'[i] # NIL => ~ (i = c /\ step[c] = "new")
          /\ i \in Requests /\ writers'[i] = {} => entries'[i] = NIL /\ i \notin retired'
          /\ entries[i] # NIL /\ entries'[i] = NIL => TableOf(i) \in {"supplier", "source"}
          /\ \A l \in Connections \ {k} :
                i \in Pending(l) /\ pool[l].writes[i] # NIL /\ ~ pool[l].writes[i].removed =>
                   entries'[i] = NIL /\ i \notin retired'
    BY CommitKeeps
<1>3. Fitting(entries)'
  <2>1. \A i \in Ids : entries'[i] # NIL => entries'[i].table = TableOf(i)'
      BY <1>2, TablesStay
  <2> QED
      BY <2>1 DEF Fitting, DirectoryTypeOK
<1>4. \A d \in Requests : JobFits(d)'
    BY <1>2, OtherJobs
<1>5. /\ Pending(k)' = {} /\ \A l \in Connections \ {k} : pool'[l] = pool[l] /\ Pending(l)' = Pending(l)
      /\ pool'[k].view \in {NoChange, pool[k].view, Latest(k)}
    BY DEF Commits, KeepsOn, Idle, Pending
<1>6. \A d \in Requests : RowMade(d)'
  <2>1. \A l \in Connections : pool'[l].view \in {NoChange, pool[l].view, Latest(l)}
      BY <1>5
  <2>2. \A l \in Connections : \A i \in Pending(l)' \cap Requests :
               writers'[i] = {} => i \in Pending(l)
      BY <1>5
  <2> QED
      BY <1>2, <2>1, <2>2, RowsMade
<1>7. \A l \in Connections \ {k} : ConnectionFits(l)'
    BY <1>2, <1>5, OtherConnections
<1>8. ConnectionFits(k)'
  <2>1. CASE pool'[k] = Idle
      BY <2>1, IdleFits
  <2>2. CASE pool'[k] = [Idle EXCEPT !.by = c] /\ step'[c] = "readBack"
    <3>1. /\ pool'[k].open = FALSE /\ pool'[k].by = c /\ pool'[k].opener = NIL
          /\ pool'[k].view = NoChange /\ pool'[k].writes = NoChange
        BY <2>2 DEF Idle
    <3>2. Pending(k)' = {} /\ DOMAIN pool'[k].view = {}
        BY <3>1, <1>5, NoChangeFacts
    <3>3. Fitting(pool[k].view)' /\ Fitting(pool[k].writes)'
        BY <3>2 DEF Fitting, Pending
    <3> QED
        BY <2>2, <3>1, <3>2, <3>3 DEF ConnectionFits
  <2>3. CASE /\ step[c] = "new" /\ step'[c] \in {"source", "order"}
             /\ pool'[k] = [by |-> c, open |-> TRUE, opener |-> c,
                            view |-> Latest(k), writes |-> NoChange]
    <3>1. /\ pool'[k].open = TRUE /\ pool'[k].by = c /\ pool'[k].opener = c
          /\ pool'[k].view = Latest(k) /\ pool'[k].writes = NoChange
        BY <2>3
    <3>2. Latest(k) \in DirectoryRows /\ DOMAIN Latest(k) = Ids
        BY <1>1, LatestRows DEF DirectoryRows
    <3>3. \A i \in Ids : Latest(k)[i] # NIL =>
              /\ Latest(k)[i].table = TableOf(i)'
              /\ entries'[i] = Latest(k)[i]
      <4>1. DOMAIN ch = {}
          BY <1>1, <2>3
      <4>2. \A i \in Ids : entries'[i] = Latest(k)[i]
          BY <4>1, <1>1, <3>2, OverRows DEF Commits
      <4> QED
          BY <4>2, <1>2, RowsFit, TablesStay
    <3>4. Fitting(pool[k].view)' /\ Fitting(pool[k].writes)'
        BY <3>1, <3>2, <3>3, NoChangeFacts DEF Fitting
    <3> QED
        BY <2>3, <3>1, <3>2, <3>3, <3>4, <1>1, <1>5 DEF ConnectionFits
  <2>4. CASE pool'[k] = pool[k] /\ Free(k) /\ Pending(k) = {}
      BY <2>4, <1>1, <1>2, OtherConnections DEF Free
  <2> QED
      BY <2>1, <2>2, <2>3, <2>4 DEF KeepsOn
<1>9. OpenersDiffer'
  <2>1. \/ pool'[k].opener = NIL
        \/ pool'[k].opener = pool[k].opener
        \/ pool'[k].opener = c /\ \A l \in Connections : pool[l].opener # c
    <3>1. step[c] = "new" => \A l \in Connections : pool[l].opener # c
        BY TablesStay
    <3> QED
        BY <3>1 DEF KeepsOn, Idle
  <2> QED
      BY <1>1, <1>5, <2>1 DEF OpenersDiffer
<1> QED
    BY <1>3, <1>4, <1>6, <1>7, <1>8, <1>9 DEF Base

LEMMA BaseDefers ==
    ASSUME Base, DirectoryTypeOK', NEW c \in Requests, NEW k \in Connections, Goes(c, k),
           NEW ch, Statement(c, k, ch), ~ Saves(c, k, ch), Defers(k, ch), JobFits(c)',
           \/ Free(k) /\ ~ Creates(c, ch)
           \/ pool[k].by = c /\ step[c] = "source" /\ step'[c] = "end",
           \A l \in Connections \ {k} : pool[l].by # c
    PROVE  Base'
<1>1. /\ DirectoryTypeOK /\ OpenersDiffer /\ RowsOfIds(ch) /\ c \in Ids /\ c # NIL
      /\ ConnectionFits(k) /\ JobFits(c) /\ RowMade(c) /\ Fitting(entries)
      /\ pool[k] \in Holdings /\ RowsOfIds(pool[k].writes) /\ entries \in DirectoryRows
    BY BaseParts, StatementRows, LatestRows, DirectoryAssumption DEF Ids
<1>2. /\ entries' = entries /\ retired' = retired
      /\ \A l \in Connections \ {k} : pool'[l] = pool[l] /\ Pending(l)' = Pending(l)
      /\ pool'[k].view = pool[k].view /\ pool'[k].opener = pool[k].opener /\ pool'[k].by = NIL
      /\ pool[k].open /\ pool'[k].open
    BY DEF Defers, Pending
<1>3. /\ Pending(k)' = DOMAIN ch \cup Pending(k)
      /\ \A i \in Pending(k)' : pool'[k].writes[i] = IF i \in DOMAIN ch THEN ch[i] ELSE pool[k].writes[i]
  <2>1. pool'[k].writes = Over(ch, pool[k].writes)
      BY DEF Defers
  <2>2. /\ DOMAIN Over(ch, pool[k].writes) = DOMAIN ch \cup DOMAIN pool[k].writes
        /\ \A i \in DOMAIN ch \cup DOMAIN pool[k].writes : Over(ch, pool[k].writes)[i] =
               IF i \in DOMAIN ch THEN ch[i] ELSE pool[k].writes[i]
      BY DEF Over
  <2> QED
      BY <2>1, <2>2 DEF Pending
<1>4. \A i \in DOMAIN ch :
          /\ i \in Ids /\ TableOf(i)' = TableOf(i)
          /\ ch[i] # NIL => ch[i].table = TableOf(i)
          /\ ch[i] = NIL => TableOf(i) \in {"supplier", "source"}
          /\ i \in Requests => writers'[i] # {}
    BY TablesStay, StatementRows
<1>5. \A i \in Ids : i \in Pending(k) \/ (i \in DOMAIN pool[k].view /\ pool[k].view[i] # NIL)
          => TableOf(i)' = TableOf(i)
    BY TablesStay
<1>6. Fitting(entries)'
  <2>1. \A i \in Ids : entries[i] # NIL => TableOf(i)' = TableOf(i)
      BY TablesStay
  <2> QED
      BY <1>1, <1>2, <2>1 DEF Fitting, DirectoryRows
<1>7. \A d \in Requests : JobFits(d)'
    BY <1>2, OtherJobs
<1>8. \A d \in Requests : RowMade(d)'
  <2>1. \A l \in Connections : pool'[l].view \in {NoChange, pool[l].view, Latest(l)}
      BY <1>2
  <2>2. \A l \in Connections : \A i \in Pending(l)' \cap Requests :
               writers'[i] = {} => i \in Pending(l)
      BY <1>2, <1>3, <1>4
  <2>3. \A i \in Requests : writers'[i] = {} => entries'[i] = NIL /\ i \notin retired'
    <3>1. \A i \in Requests : i \in Ids /\ (writers[i] = {} => entries[i] = NIL /\ i \notin retired)
        BY BaseParts DEF RowMade, Ids
    <3> QED
        BY <1>2, <3>1 DEF Goes
  <2> QED
      BY <2>1, <2>2, <2>3, RowsMade
<1>9. \A l \in Connections \ {k} : ConnectionFits(l)'
  <2> SUFFICES ASSUME NEW l \in Connections \ {k} PROVE ConnectionFits(l)'
      OBVIOUS
  <2>1. ConnectionFits(l)
      BY BaseParts
  <2>2. \A i \in Ids :
               /\ entries[i] # NIL /\ entries'[i] = NIL => TableOf(i) \in {"supplier", "source"}
               /\ i \in Pending(l) /\ pool[l].writes[i] # NIL /\ ~ pool[l].writes[i].removed =>
                      entries'[i] = NIL /\ i \notin retired'
      BY <1>2, <2>1 DEF ConnectionFits
  <2> QED
      BY <1>2, <2>2, OtherConnections
<1>10. ConnectionFits(k)'
  <2>1. step'[pool[k].opener] = "end" /\ job'[pool[k].opener].op = "create"
        /\ job'[pool[k].opener].row.table = "source" /\ pool[k].opener # NIL
    <3>1. CASE Free(k)
      <4>1. pool[k].opener # NIL /\ pool[k].opener \in Requests /\ step[pool[k].opener] = "end"
            /\ job[pool[k].opener].op = "create" /\ job[pool[k].opener].row.table = "source"
          BY <1>1, <1>2, <3>1 DEF ConnectionFits, Free, Holdings
      <4> QED
          BY <4>1 DEF Goes
    <3>2. CASE pool[k].by = c /\ step[c] = "source" /\ step'[c] = "end"
      <4>1. pool[k].opener = c /\ job'[c] = job[c]
          BY <1>1, <1>2, <3>2 DEF ConnectionFits, Goes
      <4> QED
          BY <4>1, <3>2, <1>1 DEF JobFits
    <3> QED
        BY <3>1, <3>2
  <2>2. \A i \in DOMAIN ch :
            /\ ch[i] # NIL /\ ~ ch[i].removed =>
                   i = pool[k].opener /\ entries[i] = NIL /\ i \notin retired
            /\ ch[i] # NIL /\ ch[i].removed => TableOf(i) = "store"
    <3>1. CASE Creates(c, ch)
      <4>1. DOMAIN ch = {c} /\ ch[c] = job[c].row /\ ~ job[c].row.removed
          BY <3>1, <1>1 DEF Creates, Change, JobFits
      <4>2. writers[c] = {} /\ pool[k].opener = c
          BY <3>1, <1>1, <1>2 DEF Creates, RowMade, ConnectionFits
      <4> QED
          BY <4>1, <4>2, <1>1 DEF RowMade
    <3>2. CASE SoftDeletes(c, k, ch)
        BY <3>2, SoftDeleteRow
    <3>3. CASE Deletes(c, k, ch)
        BY <3>3 DEF Deletes
    <3>4. CASE ch = NoChange
        BY <3>4, NoChangeFacts
    <3> QED
        BY <3>1, <3>2, <3>3, <3>4 DEF Statement
  <2>3. Fitting(pool[k].view)' /\ Fitting(pool[k].writes)'
    <3>1. Fitting(pool[k].view) /\ Fitting(pool[k].writes)
          /\ DOMAIN pool[k].view \subseteq Ids /\ Pending(k) \subseteq Ids
        BY <1>1, LatestRows DEF ConnectionFits, DirectoryTypeOK, RowsOfIds
    <3>2. \A i \in DOMAIN pool'[k].view : pool'[k].view[i] # NIL => pool'[k].view[i].table = TableOf(i)'
        BY <3>1, <1>2, <1>5 DEF Fitting
    <3>3. \A i \in Pending(k)' : pool'[k].writes[i] # NIL => pool'[k].writes[i].table = TableOf(i)'
        BY <3>1, <1>3, <1>4, <1>5 DEF Fitting, Pending
    <3> QED
        BY <3>2, <3>3 DEF Fitting, Pending
  <2>4. \A i \in Pending(k)' :
           /\ pool'[k].writes[i] # NIL /\ ~ pool'[k].writes[i].removed =>
                  i = pool'[k].opener /\ entries'[i] = NIL /\ i \notin retired'
           /\ pool'[k].writes[i] # NIL /\ pool'[k].writes[i].removed => TableOf(i)' = "store"
           /\ pool'[k].writes[i] = NIL => TableOf(i)' \in {"supplier", "source"}
      BY <1>1, <1>2, <1>3, <1>4, <1>5, <2>2, LatestRows DEF ConnectionFits
  <2> QED
      BY <1>1, <1>2, <2>1, <2>3, <2>4 DEF ConnectionFits
<1>11. OpenersDiffer'
    BY <1>1, <1>2 DEF OpenersDiffer
<1> QED
    BY <1>6, <1>7, <1>8, <1>9, <1>10, <1>11 DEF Base

LEMMA BaseDrops ==
    ASSUME Base, DirectoryTypeOK', NEW c \in Requests, NEW k \in Connections, Goes(c, k),
           Drops, JobFits(c)',
           \A l \in Connections : pool'[l] = pool[l] => pool[l].by # c
    PROVE  Base'
<1>1. DirectoryTypeOK /\ OpenersDiffer /\ Fitting(entries) /\ entries \in DirectoryRows
    BY BaseParts, LatestRows
<1>2. /\ entries' = entries /\ retired' = retired
      /\ \A l \in Connections : pool'[l] = pool[l] \/ pool'[l] = Idle
    BY DEF Drops
<1>3. Fitting(entries)'
  <2>1. \A i \in Ids : entries[i] # NIL => TableOf(i)' = TableOf(i)
      BY TablesStay
  <2> QED
      BY <1>1, <1>2, <2>1 DEF Fitting, DirectoryRows
<1>4. \A d \in Requests : JobFits(d)'
    BY <1>2, OtherJobs
<1>5. \A l \in Connections : pool'[l].view \in {NoChange, pool[l].view, Latest(l)}
    BY <1>2 DEF Idle
<1>6. \A l \in Connections : Pending(l)' \subseteq Pending(l)
    BY <1>2, IdleFits DEF Pending
<1>7. \A d \in Requests : RowMade(d)'
  <2>1. \A i \in Requests : writers'[i] = {} => entries'[i] = NIL /\ i \notin retired'
    <3>1. \A i \in Requests : i \in Ids /\ (writers[i] = {} => entries[i] = NIL /\ i \notin retired)
        BY BaseParts DEF RowMade, Ids
    <3> QED
        BY <1>2, <3>1 DEF Goes
  <2> QED
      BY <1>5, <1>6, <2>1, RowsMade
<1>8. ASSUME NEW l \in Connections PROVE ConnectionFits(l)'
  <2>1. CASE pool'[l] = Idle
      BY <2>1, IdleFits
  <2>2. CASE pool'[l] = pool[l]
    <3>1. ConnectionFits(l)
        BY BaseParts
    <3>2. \A i \in Ids :
               /\ entries[i] # NIL /\ entries'[i] = NIL => TableOf(i) \in {"supplier", "source"}
               /\ i \in Pending(l) /\ pool[l].writes[i] # NIL /\ ~ pool[l].writes[i].removed =>
                      entries'[i] = NIL /\ i \notin retired'
        BY <1>2, <3>1 DEF ConnectionFits
    <3> QED
        BY <2>2, <3>2, OtherConnections
  <2> QED
      BY <2>1, <2>2, <1>2
<1>9. OpenersDiffer'
  <2>1. \A l \in Connections : pool'[l].opener \in {NIL, pool[l].opener}
      BY <1>2 DEF Idle
  <2> QED
      BY <1>1, <2>1 DEF OpenersDiffer
<1> QED
    BY <1>3, <1>4, <1>7, <1>8, <1>9 DEF Base

LEMMA BaseCloses ==
    ASSUME Base, NEW k \in Connections, CloseConnection(k)
    PROVE  Base' /\ Drops
<1>1. /\ UNCHANGED <<entries, overtaken, retired, job, step, answer, contested, writers>>
      /\ pool' = [pool EXCEPT ![k] = Idle] /\ closed' = closed \cup Pending(k)
    BY DEF CloseConnection, unchangedRows
<1>2. /\ DirectoryTypeOK /\ pool \in [Connections -> Holdings] /\ Pending(k) \subseteq Ids
      /\ CallTypes /\ RowTypes
    BY BaseParts, TypesAre, LatestRows DEF RowTypes
<1>3. Idle \in Holdings
    BY NoChangeFacts, ChangesAreRows DEF Idle, Holdings
<1>4. DirectoryTypeOK'
    BY <1>1, <1>2, <1>3, TypesWillBe DEF CallTypes, RowTypes
<1>5. \A l \in Connections : pool'[l] = IF l = k THEN Idle ELSE pool[l]
    BY <1>1, <1>2
<1>6. \A i \in Ids : TableOf(i)' = TableOf(i)
    BY <1>1 DEF TableOf
<1>7. Fitting(entries)'
    BY <1>1, <1>2, <1>6, BaseParts DEF Fitting, DirectoryTypeOK
<1>8. ASSUME NEW c \in Requests PROVE JobFits(c)' /\ RowMade(c)'
  <2>1. JobFits(c) /\ RowMade(c) /\ job[c] \in Jobs
      BY BaseParts
  <2>2. JobFits(c)'
      BY <2>1, <1>1, <1>6 DEF JobFits, TableOf
  <2>3. \A l \in Connections : Pending(l)' \subseteq Pending(l) /\ pool'[l].view \in {NoChange, pool[l].view}
      BY <1>5, NoChangeFacts DEF Pending, Idle
  <2>4. RowMade(c)'
      BY <2>1, <2>3, <1>1, NoChangeFacts DEF RowMade
  <2> QED
      BY <2>2, <2>4
<1>9. ASSUME NEW l \in Connections PROVE ConnectionFits(l)'
  <2>1. CASE l = k
      BY <2>1, <1>5, IdleFits
  <2>2. CASE l # k
    <3>1. ConnectionFits(l) /\ pool'[l] = pool[l] /\ Pending(l)' = Pending(l)
        BY <2>2, <1>5, BaseParts DEF Pending
    <3>2. /\ \A i \in DOMAIN pool[l].view : TableOf(i)' = TableOf(i)
          /\ \A i \in Pending(l) : TableOf(i)' = TableOf(i)
        BY <1>2, <1>6, LatestRows DEF DirectoryTypeOK, RowsOfIds
    <3>3. Fitting(pool[l].view)' /\ Fitting(pool[l].writes)'
        BY <3>1, <3>2 DEF ConnectionFits, Fitting, Pending
    <3> QED
        BY <3>1, <3>2, <3>3, <1>1 DEF ConnectionFits
  <2> QED
      BY <2>1, <2>2
<1>10. OpenersDiffer'
    BY <1>5, BaseParts DEF OpenersDiffer, Idle
<1>11. Drops
    BY <1>1, <1>5 DEF Drops
<1> QED
    BY <1>4, <1>7, <1>8, <1>9, <1>10, <1>11 DEF Base

-----------------------------------------------------------------------------
(* Every step has one of the three forms.                                  *)

LEMMA InstallFacts ==
    ASSUME Base, NEW first, NEW rows \in DirectoryRows, Install(first, rows)
    PROVE  /\ entries' = rows /\ retired \subseteq retired' /\ overtaken \subseteq overtaken'
           /\ retired' \subseteq Ids /\ overtaken' \subseteq Requests
           /\ retired' \subseteq retired \cup Live(entries)
           /\ \A i \in Live(entries) \ (Live(first) \cap Live(rows)) :
                  i \in retired' /\ \A c \in Going : job[c].id = i => c \in overtaken'
<1>1. Live(entries) \subseteq Ids /\ Going \subseteq Requests
    BY DEF Live, Going
<1>2. retired \subseteq Ids /\ overtaken \subseteq Requests
    BY BaseParts DEF DirectoryTypeOK
<1> QED
    BY <1>1, <1>2 DEF Install

LEMMA Transacts ==
    ASSUME Base, NEW c \in Requests, NEW k \in Connections, NEW ch, RowsOfIds(ch),
           Free(k), Transaction(k, ch), closed' = closed
    PROVE  RowTypes' /\ Commits(k, ch) /\ KeepsOn(c, k)
           /\ retired \subseteq retired' /\ overtaken \subseteq overtaken'
<1>1. Latest(k) \in DirectoryRows /\ Over(ch, Latest(k)) \in DirectoryRows
    BY BaseParts, LatestRows, OverRows
<1>2. Install(Latest(k), Over(ch, Latest(k))) /\ pool' = [pool EXCEPT ![k] = Idle]
    BY DEF Transaction
<1>3. pool \in [Connections -> Holdings] /\ closed \subseteq Ids
    BY BaseParts, TypesAre DEF RowTypes
<1>4. pool' \in [Connections -> Holdings]
  <2>1. Idle \in Holdings
      BY NoChangeFacts, ChangesAreRows DEF Idle, Holdings
  <2> QED
      BY <1>2, <1>3, <2>1
<1>5. pool'[k] = Idle /\ \A l \in Connections : l # k => pool'[l] = pool[l]
    BY <1>2, <1>3
<1>6. /\ entries' = Over(ch, Latest(k)) /\ retired \subseteq retired' /\ overtaken \subseteq overtaken'
      /\ retired' \subseteq Ids /\ overtaken' \subseteq Requests
      /\ retired' \subseteq retired \cup Live(entries)
      /\ \A i \in Live(entries) \ (Live(Latest(k)) \cap Live(entries)') :
             i \in retired' /\ \A d \in Going : job[d].id = i => d \in overtaken'
    BY <1>1, <1>2, InstallFacts DEF Live
<1>7. Pending(k)' = {}
    BY <1>5, IdleFits
<1> QED
    BY <1>1, <1>3, <1>4, <1>5, <1>6, <1>7 DEF RowTypes, Commits, KeepsOn

LEMMA Executes ==
    ASSUME Base, NEW c \in Requests, NEW k \in Connections, NEW ch, RowsOfIds(ch),
           Free(k), Execute(k, ch), closed' = closed
    PROVE  /\ RowTypes' /\ retired \subseteq retired' /\ overtaken \subseteq overtaken'
           /\ pool[k].open => Defers(k, ch)
           /\ ~ pool[k].open => Commits(k, ch) /\ KeepsOn(c, k)
<1>1. /\ pool \in [Connections -> Holdings] /\ closed \subseteq Ids /\ entries \in DirectoryRows
      /\ RowTypes /\ ConnectionFits(k) /\ RowsOfIds(pool[k].writes)
    BY BaseParts, TypesAre, LatestRows DEF RowTypes
<1>2. CASE pool[k].open
  <2>1. pool' = [pool EXCEPT ![k].writes = Over(ch, @)] /\ UNCHANGED <<entries, overtaken, retired>>
      BY <1>2 DEF Execute, unchangedRows
  <2>2. Over(ch, pool[k].writes) \in AllChanges
      BY <1>1, OverChanges, ChangesAreRows
  <2>3. pool' \in [Connections -> Holdings]
      BY <1>1, <2>1, <2>2 DEF Holdings
  <2>4. /\ pool'[k].open = pool[k].open /\ pool'[k].opener = pool[k].opener
        /\ pool'[k].by = pool[k].by /\ pool'[k].view = pool[k].view
        /\ pool'[k].writes = Over(ch, pool[k].writes)
        /\ \A l \in Connections : l # k => pool'[l] = pool[l]
      BY <1>1, <2>1 DEF Holdings
  <2> QED
      BY <1>1, <1>2, <2>1, <2>3, <2>4 DEF RowTypes, Defers, Free
<1>3. CASE ~ pool[k].open
  <2>1. Install(entries, Over(ch, entries)) /\ pool' = pool
      BY <1>3 DEF Execute
  <2>2. Pending(k) = {} /\ Latest(k) = entries
      BY <1>1, <1>3, BaseParts, LatestIsCommitted DEF ConnectionFits
  <2>3. Over(ch, entries) \in DirectoryRows
      BY <1>1, OverRows
  <2>4. /\ entries' = Over(ch, Latest(k)) /\ retired \subseteq retired' /\ overtaken \subseteq overtaken'
        /\ retired' \subseteq Ids /\ overtaken' \subseteq Requests
        /\ retired' \subseteq retired \cup Live(entries)
        /\ \A i \in Live(entries) \ (Live(Latest(k)) \cap Live(entries)') :
               i \in retired' /\ \A d \in Going : job[d].id = i => d \in overtaken'
      BY <2>1, <2>2, <2>3, InstallFacts DEF Live
  <2>5. Pending(k)' = {}
      BY <2>1, <2>2 DEF Pending
  <2> QED
      BY <1>1, <1>3, <2>1, <2>2, <2>3, <2>4, <2>5 DEF RowTypes, Commits, KeepsOn
<1> QED
    BY <1>2, <1>3

LEMMA Stays ==
    ASSUME Base, UNCHANGED <<unchangedRows, pool, closed>>
    PROVE  RowTypes' /\ Drops /\ retired \subseteq retired' /\ overtaken \subseteq overtaken'
BY BaseParts, TypesAre DEF unchangedRows, RowTypes, Drops

\* What a call has become, and what others are.
LEMMA CallGoesOn ==
    ASSUME Base, NEW c \in Requests, NEW j \in Jobs, NEW s \in Steps,
           NEW a \in {"none", "ok", "refused"},
           job' = [job EXCEPT ![c] = j] \/ (job' = job /\ j = job[c]),
           step' = [step EXCEPT ![c] = s],
           answer' = [answer EXCEPT ![c] = a] \/ (answer' = answer /\ a = answer[c])
    PROVE  /\ job'[c] = j /\ step'[c] = s /\ answer'[c] = a
           /\ \A d \in Requests : d # c =>
                  job'[d] = job[d] /\ step'[d] = step[d] /\ answer'[d] = answer[d]
           /\ job' \in [Requests -> Jobs] /\ step' \in [Requests -> Steps]
           /\ answer' \in [Requests -> {"none", "ok", "refused"}]
<1>1. CallTypes
    BY BaseParts, TypesAre
<1> QED
    BY <1>1 DEF CallTypes

LEMMA CallMeets ==
    ASSUME Base, NEW c \in Requests, NEW k \in Connections, Contest(c, k)
    PROVE  contested \subseteq contested' /\ contested' \subseteq Requests
BY BaseParts DEF Contest, Going, DirectoryTypeOK

LEMMA CallWrites ==
    ASSUME Base, NEW c \in Requests, NEW n \in Ids, Wrote(c, n) \/ writers' = writers
    PROVE  /\ writers' \in [Ids -> SUBSET Requests]
           /\ \A i \in Ids : writers[i] \subseteq writers'[i] /\ writers'[i] \subseteq writers[i] \cup {c}
           /\ \A i \in Ids : writers'[i] # writers[i] => Wrote(c, n) /\ i = n
           /\ Wrote(c, n) => c \in writers'[n]
<1>1. writers \in [Ids -> SUBSET Requests]
    BY BaseParts DEF DirectoryTypeOK
<1>2. CASE Wrote(c, n)
    BY <1>1, <1>2 DEF Wrote
<1>3. CASE writers' = writers
    BY <1>1, <1>3 DEF Wrote
<1> QED
    BY <1>2, <1>3

\* A connection that nobody uses is not one of the call's own.
LEMMA OwnNone ==
    ASSUME Base, NEW c \in Requests, step[c] \notin {"source", "order", "readBack"},
           NEW l \in Connections
    PROVE  pool[l].by # c
BY HolderIs

\* A call that is under way goes on with what it was asked.
LEMMA GoesOn ==
    ASSUME Base, NEW c \in Requests, NEW k \in Connections,
           NEW s \in Steps, NEW a \in {"none", "ok", "refused"},
           step[c] \notin {"new", "end"}, job' = job,
           step' = [step EXCEPT ![c] = s],
           answer' = [answer EXCEPT ![c] = a] \/ (answer' = answer /\ a = answer[c]),
           writers' = writers \/ (Wrote(c, job[c].id) /\ s \in {"readBack", "end"}),
           contested \subseteq contested', contested' \subseteq Requests,
           RowTypes', retired \subseteq retired', overtaken \subseteq overtaken', closed \subseteq closed',
           \/ s = "end" /\ a \in {"ok", "refused"} /\ (a = "ok" /\ job[c].op = "remove" =>
                  step[c] \in {"softDelete", "delete"})
           \/ /\ answer' = answer /\ entries' = entries
              /\ \/ step[c] \in {"name", "code", "save"} /\ s \in {"code", "save"}
                 \/ step[c] \in RemovesSupplier /\ s \in RemovesSupplier
           \/ answer' = answer /\ step[c] = "order" /\ s = "readBack" /\ entries'[c] # NIL
    PROVE  /\ Goes(c, k) /\ DirectoryTypeOK' /\ JobFits(c)'
           /\ job'[c] = job[c] /\ step'[c] = s /\ answer'[c] = a
           /\ Wrote(c, job[c].id) => c \in writers'[job[c].id]
<1>1. JobFits(c) /\ job[c] \in Jobs /\ CallTypes
    BY BaseParts, TypesAre
<1>2. job[c].id \in Ids
    BY <1>1 DEF JobFits, Jobs
<1>3. /\ job'[c] = job[c] /\ step'[c] = s /\ answer'[c] = a
      /\ \A d \in Requests : d # c =>
             job'[d] = job[d] /\ step'[d] = step[d] /\ answer'[d] = answer[d]
      /\ job' \in [Requests -> Jobs] /\ step' \in [Requests -> Steps]
      /\ answer' \in [Requests -> {"none", "ok", "refused"}]
    BY <1>1, CallGoesOn
<1>4. /\ writers' \in [Ids -> SUBSET Requests]
      /\ \A i \in Ids : writers[i] \subseteq writers'[i] /\ writers'[i] \subseteq writers[i] \cup {c}
      /\ \A i \in Ids : writers'[i] # writers[i] => Wrote(c, job[c].id) /\ i = job[c].id
      /\ Wrote(c, job[c].id) => c \in writers'[job[c].id]
    BY <1>2, CallWrites
<1>5. DirectoryTypeOK'
    BY <1>3, <1>4, TypesWillBe DEF CallTypes
<1>6. Goes(c, k)
  <2>1. s # "new" /\ (step[c] = "readBack" => s = "end")
      BY DEF RemovesSupplier
  <2>2. s \in {"name", "code", "save"} => step[c] \in {"name", "code", "save"} /\ entries' = entries
      BY DEF RemovesSupplier
  <2>3. \A i \in Ids : writers'[i] # writers[i] => i = job[c].id /\ s \in {"readBack", "end"}
      BY <1>4
  <2> QED
      BY <1>3, <1>4, <2>1, <2>2, <2>3 DEF Goes
<1>7. JobFits(c)'
  <2>1. TableOf(job[c].id)' = TableOf(job[c].id)
      BY <1>3 DEF TableOf
  <2>2. CASE s = "end" /\ a \in {"ok", "refused"} /\ (a = "ok" /\ job[c].op = "remove" =>
                  step[c] \in {"softDelete", "delete"})
      BY <1>1, <1>3, <2>1, <2>2 DEF JobFits, RemovesSupplier
  <2>3. CASE /\ answer' = answer
             /\ \/ step[c] \in {"name", "code", "save"} /\ s \in {"code", "save"}
                \/ step[c] \in RemovesSupplier /\ s \in RemovesSupplier
      BY <1>1, <1>3, <2>1, <2>3 DEF JobFits, RemovesSupplier
  <2>4. CASE answer' = answer /\ step[c] = "order" /\ s = "readBack" /\ entries'[c] # NIL
      BY <1>1, <1>3, <2>1, <2>4 DEF JobFits, RemovesSupplier
  <2> QED
      BY <2>2, <2>3, <2>4
<1> QED
    BY <1>3, <1>4, <1>5, <1>6, <1>7

\* What a new call can be asked for.
Asks(c, k, j, s, a) ==
    \/ /\ j.op = "create" /\ j.id = c /\ j.row # NIL /\ ~ j.row.removed
       /\ \/ s = "end" /\ a = "refused"
          \/ answer' = answer /\ s = "insert" /\ j.row.table \in {"store", "category", "supplier"}
          \/ answer' = answer /\ s \in {"source", "order"} /\ j.row.table = s
    \/ /\ j.op = "update" /\ j.id \in Live(Seen(k)) /\ answer' = answer
       /\ j.row # NIL /\ ~ j.row.removed /\ j.row.table = TableOf(j.id)
       /\ j.memory # NIL /\ ~ j.memory.removed /\ j.memory.table = TableOf(j.id)
       /\ s \in {"name", "code", "save"}
       /\ j.id \in Live(entries)' \/ c \in overtaken'
    \/ /\ j.op = "remove" /\ j.id \in Live(Seen(k)) /\ answer' = answer
       /\ \/ s = "softDelete" /\ TableOf(j.id) = "store" /\ entries'[j.id] # NIL
          \/ s = "counts" /\ TableOf(j.id) = "supplier"
          \/ s = "softRemove"

\* A new call is asked for something.
LEMMA Begins ==
    ASSUME Base, NEW c \in Requests, NEW k \in Connections,
           NEW j \in Jobs, NEW s \in Steps, NEW a \in {"none", "ok", "refused"},
           step[c] = "new", job' = [job EXCEPT ![c] = j],
           step' = [step EXCEPT ![c] = s],
           answer' = [answer EXCEPT ![c] = a] \/ (answer' = answer /\ a = answer[c]),
           writers' = writers, contested \subseteq contested', contested' \subseteq Requests,
           RowTypes', retired \subseteq retired', overtaken \subseteq overtaken', closed \subseteq closed',
           Asks(c, k, j, s, a)
    PROVE  /\ Goes(c, k) /\ DirectoryTypeOK' /\ JobFits(c)'
           /\ job'[c] = j /\ step'[c] = s /\ answer'[c] = a
<1> USE DEF Asks
<1>1. JobFits(c) /\ RowMade(c) /\ job[c] \in Jobs /\ CallTypes /\ c \in Ids /\ c # NIL
    BY BaseParts, TypesAre, DirectoryAssumption DEF Ids
<1>2. /\ job'[c] = j /\ step'[c] = s /\ answer'[c] = a
      /\ \A d \in Requests : d # c =>
             job'[d] = job[d] /\ step'[d] = step[d] /\ answer'[d] = answer[d]
      /\ job' \in [Requests -> Jobs] /\ step' \in [Requests -> Steps]
      /\ answer' \in [Requests -> {"none", "ok", "refused"}]
    BY <1>1, CallGoesOn
<1>3. DirectoryTypeOK'
    BY <1>1, <1>2, TypesWillBe DEF CallTypes
<1>4. Live(Seen(k)) \subseteq Ids \ {c, NIL}
  <2>1. c \notin Live(Seen(k))
    <3>1. writers[c] = {}
        BY <1>1 DEF RowMade
    <3>2. Seen(k)[c] = NIL
        BY <1>1, <3>1, RowsFit
    <3> QED
        BY <3>2 DEF Live, Present
  <2> QED
      BY <2>1, DirectoryAssumption DEF Live
<1>5. Goes(c, k)
  <2>1. s # "new"
      OBVIOUS
  <2>2. s \in {"name", "code", "save"} => j.id \in Live(entries)' \/ c \in overtaken'
      OBVIOUS
  <2>3. \/ j.op = "create" /\ j.id = c
        \/ j.id \in Live(Seen(k))
      OBVIOUS
  <2>4. job'[c].id = j.id /\ (j.id \in Live(entries)' <=> job'[c].id \in Live(entries)')
      BY <1>2
  <2> QED
      BY <1>2, <2>1, <2>2, <2>3, <2>4 DEF Goes
<1>6. TableOf(j.id)' = IF j.op = "create" THEN j.row.table ELSE TableOf(j.id)
  <2>1. CASE j.op = "create"
    <3>1. j.id = c /\ c \notin DOMAIN Initial
        BY <2>1, DirectoryAssumption
    <3> QED
        BY <2>1, <3>1, <1>2 DEF TableOf
  <2>2. CASE j.op # "create"
    <3>1. j.id \in Ids \ {c, NIL}
        BY <2>2, <1>4
    <3> QED
        BY <2>2, <3>1, <1>2 DEF TableOf, Ids
  <2> QED
      BY <2>1, <2>2
<1>7. JobFits(c)'
  <2>1. CASE j.op = "create"
      BY <1>1, <1>2, <1>6, <2>1 DEF JobFits, RemovesSupplier
  <2>2. CASE j.op = "update"
      BY <1>1, <1>2, <1>4, <1>6, <2>2 DEF JobFits, RemovesSupplier
  <2>3. CASE j.op = "remove"
      BY <1>1, <1>2, <1>4, <1>6, <2>3 DEF JobFits, RemovesSupplier
  <2> QED
      BY <2>1, <2>2, <2>3
<1> QED
    BY <1>2, <1>3, <1>5, <1>7

\* What a step that answers a creation or a removal has done.
Answers(c, k, ch) ==
    answer'[c] = "ok" /\ job'[c].op # "update" =>
        Creates(c, ch) \/ SoftDeletes(c, k, ch) \/ Deletes(c, k, ch)

Committing(c, k, ch) ==
    /\ Statement(c, k, ch) /\ Commits(k, ch) /\ KeepsOn(c, k) /\ Answers(c, k, ch)
    /\ \A l \in Connections \ {k} : pool[l].by # c

Deferring(c, k, ch) ==
    /\ Statement(c, k, ch) /\ ~ Saves(c, k, ch) /\ Defers(k, ch) /\ Answers(c, k, ch)
    /\ \/ Free(k) /\ ~ Creates(c, ch)
       \/ pool[k].by = c /\ step[c] = "source" /\ step'[c] = "end"
    /\ \A l \in Connections \ {k} : pool[l].by # c

Dropping(c) ==
    /\ Drops /\ \A l \in Connections : pool'[l] = pool[l] => pool[l].by # c
    /\ answer'[c] = "ok" /\ job'[c].op # "update" => job'[c].op = "create" /\ entries[c] # NIL

Moves(c, k) ==
    /\ Goes(c, k) /\ DirectoryTypeOK' /\ JobFits(c)'
    /\ \/ \E ch : Committing(c, k, ch)
       \/ \E ch : Deferring(c, k, ch)
       \/ Dropping(c)

LEMMA MoveKeepsBase ==
    ASSUME Base, NEW c \in Requests, NEW k \in Connections, Moves(c, k)
    PROVE  Base'
<1>1. Goes(c, k) /\ DirectoryTypeOK' /\ JobFits(c)'
    BY DEF Moves
<1>2. CASE \E ch : Committing(c, k, ch)
    BY <1>1, <1>2, BaseCommits DEF Committing
<1>3. CASE \E ch : Deferring(c, k, ch)
    BY <1>1, <1>3, BaseDefers DEF Deferring
<1>4. CASE Dropping(c)
    BY <1>1, <1>4, BaseDrops DEF Dropping
<1> QED
    BY <1>2, <1>3, <1>4 DEF Moves

\* A call that only reads.
LEMMA ReadMoves ==
    ASSUME Base, NEW c \in Requests, NEW k \in Connections,
           CheckNew(c, k) \/ CheckName(c, k) \/ CheckCode(c, k)
             \/ CountSources(c, k) \/ CountOrders(c, k) \/ CountLast(c, k)
    PROVE  Moves(c, k)
<1>1. /\ contested \subseteq contested' /\ contested' \subseteq Requests /\ closed \subseteq closed'
      /\ writers' = writers /\ RowTypes' /\ Drops
      /\ retired \subseteq retired' /\ overtaken \subseteq overtaken'
      /\ step[c] \notin {"source", "order", "readBack"} /\ entries' = entries
  <2>1. Contest(c, k) /\ UNCHANGED <<unchangedRows, pool, closed>> /\ writers' = writers
        /\ step[c] \notin {"source", "order", "readBack"}
      BY DEF CheckNew, CheckName, CheckCode, CountSources, CountOrders, CountUses, CountLast
  <2> QED
      BY <2>1, Stays, CallMeets DEF unchangedRows
<1>2. \A l \in Connections : pool[l].by # c
    BY <1>1, OwnNone
<1>3. JobFits(c) /\ job[c] \in Jobs
    BY BaseParts
<1>4. CASE CheckNew(c, k)
  <2>1. step[c] = "new"
      BY <1>4 DEF CheckNew
  <2>2. PICK t \in {"store", "category", "supplier"}, l \in Labels :
            /\ Ask(c, "create", c, Entry(t, l, NIL), NIL)
            /\ Reply(c, "refused") \/ Continue(c, "insert")
      BY <1>4 DEF CheckNew
  <2> DEFINE row == Entry(t, l, NIL)
             j == Asked("create", c, row, NIL)
  <2>3. row \in Entries /\ row.table = t /\ ~ row.removed
      BY DEF Entries, Entry, Titles, Codes, Tables
  <2>4. row # NIL
      BY <2>3, DirectoryAssumption
  <2> HIDE DEF row
  <2>5. j \in Jobs /\ j.op = "create" /\ j.id = c /\ j.row = row
      BY <2>3 DEF Jobs, Asked, Ids
  <2>6. job' = [job EXCEPT ![c] = j]
      BY <2>2 DEF Ask, row
  <2> HIDE DEF j
  <2>7. CASE Reply(c, "refused")
    <3>0. Asks(c, k, j, "end", "refused")
        BY <2>3, <2>4, <2>5 DEF Asks
    <3>1. Goes(c, k) /\ DirectoryTypeOK' /\ JobFits(c)' /\ answer'[c] = "refused"
        BY <3>0, <1>1, <2>1, <2>5, <2>6, <2>7, Begins DEF Reply, Steps
    <3> QED
        BY <3>1, <1>1, <1>2 DEF Moves, Dropping
  <2>8. CASE Continue(c, "insert")
    <3>1. answer[c] = "none"
        BY <1>3, <2>1 DEF JobFits
    <3>2. Goes(c, k) /\ DirectoryTypeOK' /\ JobFits(c)' /\ answer'[c] = "none"
      <4>2. /\ step' = [step EXCEPT ![c] = "insert"] /\ answer' = answer
            /\ "insert" \in Steps
          BY <2>8 DEF Continue, Steps
      <4>3. Asks(c, k, j, "insert", "none")
          BY <2>3, <2>4, <2>5, <4>2 DEF Asks
      <4> QED
          BY <4>2, <4>3, <3>1, <1>1, <2>1, <2>5, <2>6, Begins
    <3> QED
        BY <3>1, <3>2, <1>1, <1>2 DEF Moves, Dropping
  <2> QED
      BY <2>2, <2>7, <2>8
<1>5. CASE ~ CheckNew(c, k)
  <2>1. /\ job' = job
        /\ \/ Reply(c, "refused")
           \/ step[c] \in {"name", "code"} /\ (Continue(c, "code") \/ Continue(c, "save"))
           \/ /\ step[c] \in RemovesSupplier
              /\ \E s \in {"sources", "orders", "used", "delete"} : Continue(c, s)
        /\ step[c] \in {"name", "code", "counts", "sources", "orders", "used"}
      BY <1>5 DEF CheckName, CheckCode, CountSources, CountOrders, CountUses, CountLast,
         RemovesSupplier
  <2>2. CASE Reply(c, "refused")
    <3>1. Goes(c, k) /\ DirectoryTypeOK' /\ JobFits(c)' /\ answer'[c] = "refused"
        BY <1>1, <2>1, <2>2, GoesOn DEF Reply, Steps
    <3> QED
        BY <3>1, <1>1, <1>2 DEF Moves, Dropping
  <2>3. ASSUME NEW s \in {"code", "save", "sources", "orders", "used", "delete"}, Continue(c, s),
               \/ step[c] \in {"name", "code"} /\ s \in {"code", "save"}
               \/ step[c] \in RemovesSupplier /\ s \in RemovesSupplier
        PROVE  Moves(c, k)
    <3>1. answer[c] \in {"none", "ok", "refused"} /\ answer[c] # "ok"
        BY <1>3, <2>1, BaseParts DEF JobFits, DirectoryTypeOK
    <3>2. Goes(c, k) /\ DirectoryTypeOK' /\ JobFits(c)' /\ answer'[c] = answer[c]
      <4>1. /\ s \in Steps /\ answer[c] \in {"none", "ok", "refused"}
            /\ step[c] \notin {"new", "end"} /\ job' = job
          BY <3>1, <2>1, <2>3 DEF Steps
      <4>2. /\ step' = [step EXCEPT ![c] = s]
            /\ answer' = answer /\ answer[c] = answer[c]
          BY <2>3 DEF Continue
      <4>3. \/ step[c] \in {"name", "code", "save"} /\ s \in {"code", "save"}
            \/ step[c] \in RemovesSupplier /\ s \in RemovesSupplier
          BY <2>3
      <4> QED
          BY <4>1, <4>2, <4>3, <1>1, GoesOn
    <3> QED
        BY <3>1, <3>2, <1>1, <1>2 DEF Moves, Dropping
  <2> QED
      BY <2>1, <2>2, <2>3 DEF RemovesSupplier
<1> QED
    BY <1>4, <1>5

LEMMA LoadMoves ==
    ASSUME Base, NEW c \in Requests, NEW k \in Connections, Load(c, k)
    PROVE  Moves(c, k)
<1>1. /\ step[c] = "new" /\ Contest(c, k)
      /\ UNCHANGED <<entries, pool, writers, retired, closed>>
    BY DEF Load
<1>2. PICK t \in Tables \ {"order"} : \E n \in Findable(Seen(k), t), l \in Labels :
        \E s \in IF t = "source" THEN LiveIn(Latest(k), "supplier") ELSE {NIL} :
           /\ Ask(c, "update", n, Entry(t, l, s), Seen(k)[n])
           /\ Continue(c, IF Entry(t, l, s).name # Seen(k)[n].name THEN "name"
                          ELSE IF Entry(t, l, s).code # Seen(k)[n].code THEN "code"
                          ELSE "save")
           /\ overtaken' = IF pool[k].open /\ n \notin Live(entries)
                           THEN overtaken \cup {c} ELSE overtaken
    BY DEF Load
<1>3. PICK n \in Findable(Seen(k), t), l \in Labels :
        \E s \in IF t = "source" THEN LiveIn(Latest(k), "supplier") ELSE {NIL} :
           /\ Ask(c, "update", n, Entry(t, l, s), Seen(k)[n])
           /\ Continue(c, IF Entry(t, l, s).name # Seen(k)[n].name THEN "name"
                          ELSE IF Entry(t, l, s).code # Seen(k)[n].code THEN "code"
                          ELSE "save")
           /\ overtaken' = IF pool[k].open /\ n \notin Live(entries)
                           THEN overtaken \cup {c} ELSE overtaken
    BY <1>2
<1>4. PICK s \in Ids \cup {NIL} :
           /\ Ask(c, "update", n, Entry(t, l, s), Seen(k)[n])
           /\ Continue(c, IF Entry(t, l, s).name # Seen(k)[n].name THEN "name"
                          ELSE IF Entry(t, l, s).code # Seen(k)[n].code THEN "code"
                          ELSE "save")
           /\ overtaken' = IF pool[k].open /\ n \notin Live(entries)
                           THEN overtaken \cup {c} ELSE overtaken
    BY <1>3 DEF LiveIn, Live
<1>5. /\ n \in Ids /\ n \in Live(Seen(k)) /\ Seen(k)[n] \in Entries /\ ~ Seen(k)[n].removed
      /\ Seen(k)[n].table = t /\ Seen(k)[n].table = TableOf(n) /\ Seen(k)[n] # NIL
  <2>1. n \in Ids /\ n \in Live(Seen(k)) /\ Seen(k)[n] # NIL /\ ~ Seen(k)[n].removed
        /\ Seen(k)[n].table = t
      BY DEF Findable, LiveIn, Live, Present
  <2> QED
      BY <2>1, RowsFit
<1> DEFINE row == Entry(t, l, s)
<1>6. row \in Entries /\ row.table = t /\ ~ row.removed
    BY DEF Entries, Entry, Titles, Codes, Tables
<1>7. row # NIL
    BY <1>6, DirectoryAssumption
<1>8. PICK v \in {"name", "code", "save"} : Continue(c, v)
    BY <1>4
<1>9. JobFits(c) /\ job[c] \in Jobs /\ answer[c] = "none" /\ entries \in DirectoryRows
    BY <1>1, BaseParts, LatestRows DEF JobFits
<1>10. PICK mem \in Entries : mem = Seen(k)[n]
    BY <1>5
<1> HIDE DEF row
<1> DEFINE j == Asked("update", n, row, mem)
<1>11. j \in Jobs /\ j.op = "update" /\ j.id = n /\ j.row = row /\ j.memory = mem
    BY <1>5, <1>6 DEF Jobs, Asked
<1>12. job' = [job EXCEPT ![c] = j]
    BY <1>4, <1>10 DEF Ask, row
<1> HIDE DEF j
<1>13. overtaken \subseteq overtaken' /\ overtaken' \subseteq Requests
       /\ (n \in Live(entries) \/ c \in overtaken')
  <2>1. overtaken \subseteq Requests /\ (~ pool[k].open => Seen(k) = entries)
      BY BaseParts DEF DirectoryTypeOK, Seen
  <2> QED
      BY <1>4, <1>5, <2>1
<1>14. RowTypes' /\ Drops
    BY <1>1, <1>13, BaseParts, TypesAre DEF RowTypes, Drops
<1>15. Live(entries)' = Live(entries)
    BY <1>1 DEF Live, Present
<1>16. Asks(c, k, j, v, "none")
    BY <1>5, <1>6, <1>7, <1>8, <1>10, <1>11, <1>13, <1>15 DEF Asks, Continue
<1>17. contested \subseteq contested' /\ contested' \subseteq Requests
    BY <1>1, CallMeets
<1>18. Goes(c, k) /\ DirectoryTypeOK' /\ JobFits(c)' /\ answer'[c] = "none"
  <2>1. step' = [step EXCEPT ![c] = v] /\ answer' = answer /\ v \in Steps
      BY <1>8 DEF Continue, Steps
  <2> QED
      BY <2>1, <1>1, <1>9, <1>11, <1>12, <1>13, <1>14, <1>16, <1>17, Begins
<1> QED
    BY <1>1, <1>14, <1>18, OwnNone DEF Moves, Dropping

LEMMA RemoveMoves ==
    ASSUME Base, NEW c \in Requests, NEW k \in Connections, LoadToRemove(c, k)
    PROVE  Moves(c, k)
<1>1. /\ step[c] = "new" /\ Contest(c, k)
      /\ UNCHANGED <<unchangedRows, pool, writers, closed>>
    BY DEF LoadToRemove
<1>2. PICK t \in Tables \ {"category"} : \E n \in LiveIn(Seen(k), t) :
           /\ Ask(c, "remove", n, NIL, NIL)
           /\ Continue(c, CASE t = "store"    -> "softDelete"
                            [] t = "supplier" -> "counts"
                            [] OTHER          -> "softRemove")
    BY DEF LoadToRemove
<1>3. PICK n \in LiveIn(Seen(k), t) :
           /\ Ask(c, "remove", n, NIL, NIL)
           /\ Continue(c, CASE t = "store"    -> "softDelete"
                            [] t = "supplier" -> "counts"
                            [] OTHER          -> "softRemove")
    BY <1>2
<1>4. /\ n \in Ids /\ n \in Live(Seen(k)) /\ Seen(k)[n] # NIL /\ ~ Seen(k)[n].removed
      /\ t = TableOf(n)
  <2>1. n \in Ids /\ n \in Live(Seen(k)) /\ Seen(k)[n] # NIL /\ ~ Seen(k)[n].removed
        /\ Seen(k)[n].table = t
      BY DEF LiveIn, Live, Present
  <2> QED
      BY <2>1, RowsFit
<1>5. t = "store" => entries[n] # NIL
  <2>1. ConnectionFits(k) /\ Seen(k)[n] = IF ~ pool[k].open THEN entries[n]
                  ELSE IF n \in Pending(k) THEN pool[k].writes[n] ELSE pool[k].view[n]
      BY <1>4, BaseParts, SeenRows
  <2>2. Seen(k)[n].table = TableOf(n) /\ pool[k].open \in BOOLEAN
      BY <1>4, RowsFit, BaseParts DEF Holdings
  <2>3. ASSUME t = "store", pool[k].open, n \in Pending(k) PROVE FALSE
    <3>1. n = pool[k].opener /\ entries[n] = NIL
        BY <2>1, <2>3, <1>4 DEF ConnectionFits
    <3>2. n \in Requests /\ job[n].row.table = "source" /\ n \notin DOMAIN Initial
      <4>1. pool[k].by = NIL
          BY <1>1, <2>1, <2>3 DEF ConnectionFits
      <4>2. pool[k].opener # NIL /\ pool[k].opener \in Requests
          BY <4>1, <2>1, <2>3, BaseParts DEF ConnectionFits, Holdings
      <4> QED
          BY <4>1, <4>2, <3>1, <2>1, <2>3, DirectoryAssumption DEF ConnectionFits
    <3> QED
        BY <3>2, <2>3, <1>4 DEF TableOf
  <2>4. ASSUME t = "store", pool[k].open, n \notin Pending(k) PROVE entries[n] # NIL
      BY <2>1, <2>2, <2>4, <1>4 DEF ConnectionFits
  <2> QED
      BY <2>1, <2>2, <2>3, <2>4, <1>4
<1> DEFINE j == Asked("remove", n, NIL, NIL)
<1>6. j \in Jobs /\ j.op = "remove" /\ j.id = n
    BY <1>4 DEF Jobs, Asked
<1>7. job' = [job EXCEPT ![c] = j]
    BY <1>3 DEF Ask
<1> HIDE DEF j
<1>8. JobFits(c) /\ answer[c] = "none"
    BY <1>1, BaseParts DEF JobFits
<1>9. /\ RowTypes' /\ Drops /\ retired \subseteq retired' /\ overtaken \subseteq overtaken'
      /\ contested \subseteq contested' /\ contested' \subseteq Requests /\ entries' = entries
    BY <1>1, Stays, CallMeets DEF unchangedRows
<1>10. PICK v \in {"softDelete", "counts", "softRemove"} :
          /\ Continue(c, v) /\ (v = "softDelete" => t = "store") /\ (v = "counts" => t = "supplier")
    BY <1>3
<1>11. Asks(c, k, j, v, "none")
    BY <1>4, <1>5, <1>6, <1>9, <1>10 DEF Asks, Continue
<1>12. Goes(c, k) /\ DirectoryTypeOK' /\ JobFits(c)' /\ answer'[c] = "none"
  <2>1. step' = [step EXCEPT ![c] = v] /\ answer' = answer /\ v \in Steps
      BY <1>10 DEF Continue, Steps
  <2> QED
      BY <2>1, <1>1, <1>6, <1>7, <1>8, <1>9, <1>11, Begins
<1> QED
    BY <1>1, <1>9, <1>12, OwnNone DEF Moves, Dropping

\* A statement that ends its call, in a transaction of its own or not.
LEMMA EndsWith ==
    ASSUME Base, NEW c \in Requests, NEW k \in Connections, NEW ch, RowsOfIds(ch),
           NEW a \in {"ok", "refused"}, Free(k), Reply(c, a), Contest(c, k),
           step[c] \notin {"new", "end", "source", "order", "readBack"},
           job' = job, closed' = closed, writers' = writers \/ Wrote(c, job[c].id),
           a = "ok" /\ job[c].op = "remove" => step[c] \in {"softDelete", "delete"},
           Transaction(k, ch) \/ Execute(k, ch)
    PROVE  /\ Goes(c, k) /\ DirectoryTypeOK' /\ JobFits(c)'
           /\ job'[c] = job[c] /\ step'[c] = "end" /\ answer'[c] = a
           /\ Wrote(c, job[c].id) => c \in writers'[job[c].id]
           /\ \A l \in Connections \ {k} : pool[l].by # c
           /\ Transaction(k, ch) \/ ~ pool[k].open => Commits(k, ch) /\ KeepsOn(c, k)
           /\ Execute(k, ch) /\ pool[k].open => Defers(k, ch)
<1>1. RowTypes' /\ retired \subseteq retired' /\ overtaken \subseteq overtaken'
      /\ (Transaction(k, ch) \/ ~ pool[k].open => Commits(k, ch) /\ KeepsOn(c, k))
      /\ (Execute(k, ch) /\ pool[k].open => Defers(k, ch))
    BY Transacts, Executes
<1>2. contested \subseteq contested' /\ contested' \subseteq Requests
    BY CallMeets
<1>3. step' = [step EXCEPT ![c] = "end"] /\ answer' = [answer EXCEPT ![c] = a] /\ "end" \in Steps
    BY DEF Reply, Steps
<1>4. /\ Goes(c, k) /\ DirectoryTypeOK' /\ JobFits(c)' /\ job'[c] = job[c] /\ step'[c] = "end"
      /\ answer'[c] = a
      /\ (Wrote(c, job[c].id) => c \in writers'[job[c].id])
    BY <1>1, <1>2, <1>3, GoesOn
<1>5. \A l \in Connections : pool[l].by # c
    BY OwnNone
<1> QED
    BY <1>1, <1>4, <1>5

LEMMA InsertNewMoves ==
    ASSUME Base, NEW c \in Requests, NEW k \in Connections, InsertNew(c, k)
    PROVE  Moves(c, k)
<1> DEFINE row == job[c].row
<1>1. /\ step[c] = "insert" /\ Free(k) /\ Contest(c, k) /\ job' = job /\ closed' = closed
      /\ \/ Transaction(k, Change(c, row)) /\ Reply(c, "ok") /\ Wrote(c, c)
         \/ Transaction(k, NoChange) /\ Reply(c, "refused") /\ writers' = writers
    BY DEF InsertNew
<1>2. row \in Entries /\ job[c].op = "create" /\ job[c].id = c /\ c \in Ids
    BY <1>1, BaseParts DEF JobFits, Jobs, Ids
<1>3. RowsOfIds(NoChange) /\ RowsOfIds(Change(c, row))
    BY <1>2, NoChangeFacts, ChangeFacts
<1>4. CASE Transaction(k, Change(c, row)) /\ Reply(c, "ok") /\ Wrote(c, c)
  <2>1. /\ Goes(c, k) /\ DirectoryTypeOK' /\ JobFits(c)' /\ c \in writers'[c]
        /\ \A l \in Connections \ {k} : pool[l].by # c
        /\ Commits(k, Change(c, row)) /\ KeepsOn(c, k)
      BY <1>1, <1>2, <1>3, <1>4, EndsWith
  <2>2. Creates(c, Change(c, row))
      BY <1>1, <2>1 DEF Creates
  <2>3. Committing(c, k, Change(c, row))
      BY <2>1, <2>2 DEF Committing, Statement, Answers
  <2> QED
      BY <2>1, <2>3 DEF Moves
<1>5. CASE Transaction(k, NoChange) /\ Reply(c, "refused") /\ writers' = writers
  <2>1. /\ Goes(c, k) /\ DirectoryTypeOK' /\ JobFits(c)' /\ answer'[c] = "refused"
        /\ \A l \in Connections \ {k} : pool[l].by # c
        /\ Commits(k, NoChange) /\ KeepsOn(c, k)
      BY <1>1, <1>2, <1>3, <1>5, EndsWith
  <2>2. Committing(c, k, NoChange)
      BY <2>1 DEF Committing, Statement, Answers
  <2> QED
      BY <2>1, <2>2 DEF Moves
<1> QED
    BY <1>1, <1>4, <1>5

LEMMA SoftRemoveMoves ==
    ASSUME Base, NEW c \in Requests, NEW k \in Connections, SoftRemove(c, k)
    PROVE  Moves(c, k)
<1>1. /\ step[c] = "softRemove" /\ Free(k) /\ Contest(c, k) /\ job' = job /\ closed' = closed
      /\ Transaction(k, NoChange) /\ Reply(c, "refused") /\ writers' = writers
    BY DEF SoftRemove
<1>2. /\ Goes(c, k) /\ DirectoryTypeOK' /\ JobFits(c)' /\ answer'[c] = "refused"
      /\ \A l \in Connections \ {k} : pool[l].by # c
      /\ Commits(k, NoChange) /\ KeepsOn(c, k)
    BY <1>1, NoChangeFacts, EndsWith
<1>3. Committing(c, k, NoChange)
    BY <1>2 DEF Committing, Statement, Answers
<1> QED
    BY <1>2, <1>3 DEF Moves

\* The columns that save() writes.
LEMMA MergedRows ==
    ASSUME NEW wanted \in Entries, NEW base \in Entries, NEW now \in Entries,
           NEW row, row = [f \in DOMAIN wanted |->
                              IF wanted[f] # base[f] THEN wanted[f] ELSE now[f]]
    PROVE  /\ row \in Entries
           /\ row.table \in {wanted.table, now.table}
           /\ row.supplier \in {wanted.supplier, now.supplier}
           /\ base = now => row = wanted
<1>1. DOMAIN wanted = {"table", "name", "code", "supplier", "removed"}
    BY DEF Entries
<1>2. /\ row.table \in {wanted.table, now.table} /\ row.name \in {wanted.name, now.name}
      /\ row.code \in {wanted.code, now.code} /\ row.supplier \in {wanted.supplier, now.supplier}
      /\ row.removed \in {wanted.removed, now.removed}
    BY <1>1
<1>3. row = [table |-> row.table, name |-> row.name, code |-> row.code,
             supplier |-> row.supplier, removed |-> row.removed]
    BY <1>1
<1>4. row \in Entries
    BY <1>2, <1>3 DEF Entries
<1>5. ASSUME base = now PROVE row = wanted
  <2>1. \A f \in DOMAIN wanted : row[f] = wanted[f]
      BY <1>5
  <2>2. wanted = [f \in DOMAIN wanted |-> wanted[f]]
      BY DEF Entries
  <2>3. row = [f \in DOMAIN wanted |-> wanted[f]]
      BY <2>1
  <2> QED
      BY <2>2, <2>3
<1> QED
    BY <1>2, <1>4, <1>5

LEMMA SaveMoves ==
    ASSUME Base, NEW c \in Requests, NEW k \in Connections, Save(c, k)
    PROVE  Moves(c, k)
<1> DEFINE n == job[c].id
           wanted == job[c].row
           base == Seen(k)[n]
           now == Latest(k)[n]
           row == IF base = NIL THEN wanted
                  ELSE IF now = NIL THEN NIL
                  ELSE [f \in DOMAIN wanted |->
                           IF wanted[f] # base[f] THEN wanted[f] ELSE now[f]]
<1>1. /\ step[c] = "save" /\ Free(k) /\ ~ Waits(k, n, row) /\ Contest(c, k)
      /\ job' = job /\ closed' = closed
      /\ \/ Reply(c, "ok") /\ UNCHANGED <<unchangedRows, pool, writers>>
         \/ Transaction(k, NoChange) /\ Reply(c, "ok") /\ writers' = writers
         \/ /\ row # NIL /\ (base = NIL => now = NIL)
            /\ Transaction(k, Change(n, row)) /\ Reply(c, "ok") /\ Wrote(c, n)
         \/ Transaction(k, NoChange) /\ Reply(c, "refused") /\ writers' = writers
    BY DEF Save
<1>2. /\ n \in Ids /\ job[c].op = "update" /\ wanted \in Entries /\ wanted.table = TableOf(n)
      /\ JobFits(c) /\ job[c] \in Jobs
    BY <1>1, BaseParts DEF JobFits, Jobs
<1>3. base \in Entries \cup {NIL} /\ now \in Entries \cup {NIL}
      /\ (now # NIL => now.table = TableOf(n))
    BY <1>2, RowsFit
<1>4. CASE Reply(c, "ok") /\ UNCHANGED <<unchangedRows, pool, writers>>
  <2>1. RowTypes' /\ Drops /\ retired \subseteq retired' /\ overtaken \subseteq overtaken'
        /\ contested \subseteq contested' /\ contested' \subseteq Requests
      BY <1>1, <1>4, Stays, CallMeets
  <2>2. step' = [step EXCEPT ![c] = "end"] /\ answer' = [answer EXCEPT ![c] = "ok"] /\ "end" \in Steps
      BY <1>4 DEF Reply, Steps
  <2>3. Goes(c, k) /\ DirectoryTypeOK' /\ JobFits(c)' /\ job'[c] = job[c]
      BY <1>1, <1>2, <1>4, <2>1, <2>2, GoesOn
  <2> QED
      BY <1>1, <1>2, <2>1, <2>3, OwnNone DEF Moves, Dropping
<1>5. ASSUME NEW a \in {"ok", "refused"}, Transaction(k, NoChange), Reply(c, a), writers' = writers
      PROVE  Moves(c, k)
  <2>1. /\ Goes(c, k) /\ DirectoryTypeOK' /\ JobFits(c)' /\ job'[c] = job[c]
        /\ \A l \in Connections \ {k} : pool[l].by # c
        /\ Commits(k, NoChange) /\ KeepsOn(c, k)
      BY <1>1, <1>2, <1>5, NoChangeFacts, EndsWith
  <2>2. Committing(c, k, NoChange)
      BY <2>1, <1>2 DEF Committing, Statement, Answers
  <2> QED
      BY <2>1, <2>2 DEF Moves
<1>6. CASE /\ row # NIL /\ (base = NIL => now = NIL)
           /\ Transaction(k, Change(n, row)) /\ Reply(c, "ok") /\ Wrote(c, n)
  <2>1. /\ row \in Entries /\ row.table = wanted.table
        /\ (row.supplier = wanted.supplier \/ (now # NIL /\ row.supplier = now.supplier))
        /\ (base = NIL \/ base = now => row = wanted)
    <3>1. CASE base = NIL
        BY <3>1, <1>2
    <3>2. CASE base # NIL
      <4>1. base \in Entries /\ now \in Entries /\ now # NIL
          BY <1>3, <1>6, <3>2
      <4>2. row = [f \in DOMAIN wanted |-> IF wanted[f] # base[f] THEN wanted[f] ELSE now[f]]
          BY <4>1, <3>2
      <4> HIDE DEF row, wanted, base, now
      <4>3. /\ row \in Entries
            /\ row.table \in {wanted.table, now.table}
            /\ row.supplier \in {wanted.supplier, now.supplier}
            /\ base = now => row = wanted
          BY <4>1, <4>2, <1>2, MergedRows
      <4> QED
          BY <4>1, <4>3, <1>2, <1>3, <3>2
    <3> QED
        BY <3>1, <3>2
  <2>2. RowsOfIds(Change(n, row))
    <3> HIDE DEF row
    <3> QED
      BY <1>2, <2>1, ChangeFacts
  <2>3. \A l \in Connections : l # k => n \notin Pending(l)
      BY <1>1 DEF Waits
  <2> HIDE DEF row
  <2>4. /\ Goes(c, k) /\ DirectoryTypeOK' /\ JobFits(c)' /\ job'[c] = job[c]
        /\ step'[c] = "end" /\ answer'[c] = "ok" /\ c \in writers'[n]
        /\ \A l \in Connections \ {k} : pool[l].by # c
        /\ Commits(k, Change(n, row)) /\ KeepsOn(c, k)
      BY <1>1, <1>2, <1>6, <2>2, EndsWith
  <2>5. Saves(c, k, Change(n, row))
      BY <1>1, <2>1, <2>3, <2>4 DEF Saves
  <2>6. Committing(c, k, Change(n, row))
      BY <2>4, <2>5, <1>2 DEF Committing, Statement, Answers
  <2> QED
      BY <2>4, <2>6 DEF Moves
<1> QED
    BY <1>1, <1>4, <1>5, <1>6

LEMMA SoftDeleteMoves ==
    ASSUME Base, NEW c \in Requests, NEW k \in Connections, SoftDelete(c, k)
    PROVE  Moves(c, k)
<1> DEFINE n == job[c].id
           ch == Change(n, [Latest(k)[n] EXCEPT !.removed = TRUE])
<1>1. /\ step[c] = "softDelete" /\ Free(k) /\ Contest(c, k) /\ job' = job /\ closed' = closed
      /\ Execute(k, ch) /\ Wrote(c, n) /\ Reply(c, "ok")
    BY DEF SoftDelete
<1>2. n \in Ids
    BY <1>1, BaseParts DEF JobFits, Jobs
<1>3. SoftDeletes(c, k, ch)
  <2>1. c \in writers'[n]
      BY <1>1, <1>2, CallWrites
  <2>2. answer'[c] = "ok"
      BY <1>1, BaseParts, TypesAre DEF Reply, CallTypes
  <2> QED
      BY <1>1, <2>1, <2>2 DEF SoftDeletes
<1> HIDE DEF ch
<1>4. RowsOfIds(ch)
    BY <1>3, SoftDeleteRow
<1>5. /\ Goes(c, k) /\ DirectoryTypeOK' /\ JobFits(c)'
      /\ \A l \in Connections \ {k} : pool[l].by # c
      /\ ~ pool[k].open => Commits(k, ch) /\ KeepsOn(c, k)
      /\ pool[k].open => Defers(k, ch)
    BY <1>1, <1>4, EndsWith
<1>6. ~ Saves(c, k, ch) /\ ~ Creates(c, ch)
    BY <1>1 DEF Saves, Creates
<1>7. CASE pool[k].open
    BY <1>1, <1>3, <1>5, <1>6, <1>7 DEF Moves, Deferring, Statement, Answers
<1>8. CASE ~ pool[k].open
    BY <1>3, <1>5, <1>8 DEF Moves, Committing, Statement, Answers
<1> QED
    BY <1>7, <1>8

LEMMA DeleteMoves ==
    ASSUME Base, NEW c \in Requests, NEW k \in Connections, DeleteSupplier(c, k)
    PROVE  Moves(c, k)
<1> DEFINE n == job[c].id
           gone == Using(Latest(k), "source", n) \cup {n}
           ch == [j \in gone |-> NIL]
<1>1. /\ step[c] = "delete" /\ Free(k) /\ Contest(c, k) /\ job' = job /\ closed' = closed
      /\ \/ Reply(c, "refused") /\ UNCHANGED <<unchangedRows, pool, writers>>
         \/ Execute(k, ch) /\ Reply(c, "ok") /\ Wrote(c, n)
    BY DEF DeleteSupplier
<1>2. n \in Ids
    BY <1>1, BaseParts DEF JobFits, Jobs
<1>3. CASE Reply(c, "refused") /\ UNCHANGED <<unchangedRows, pool, writers>>
  <2>1. RowTypes' /\ Drops /\ retired \subseteq retired' /\ overtaken \subseteq overtaken'
        /\ contested \subseteq contested' /\ contested' \subseteq Requests
      BY <1>1, <1>3, Stays, CallMeets
  <2>2. /\ step' = [step EXCEPT ![c] = "end"] /\ answer' = [answer EXCEPT ![c] = "refused"]
        /\ "end" \in Steps
      BY <1>3 DEF Reply, Steps
  <2>3. Goes(c, k) /\ DirectoryTypeOK' /\ JobFits(c)' /\ answer'[c] = "refused"
      BY <1>1, <1>3, <2>1, <2>2, GoesOn
  <2> QED
      BY <1>1, <2>1, <2>3, OwnNone DEF Moves, Dropping
<1>4. CASE Execute(k, ch) /\ Reply(c, "ok") /\ Wrote(c, n)
  <2>1. Deletes(c, k, ch)
    <3>1. c \in writers'[n]
        BY <1>4, <1>2, CallWrites
    <3>2. answer'[c] = "ok"
        BY <1>4, BaseParts, TypesAre DEF Reply, CallTypes
    <3> QED
        BY <1>1, <3>1, <3>2 DEF Deletes
  <2>2. RowsOfIds(ch)
    <3>1. gone \subseteq Ids
        BY <1>2 DEF Using, LiveIn, Live
    <3> QED
        BY <3>1 DEF RowsOfIds
  <2> HIDE DEF ch
  <2>3. /\ Goes(c, k) /\ DirectoryTypeOK' /\ JobFits(c)'
        /\ \A l \in Connections \ {k} : pool[l].by # c
        /\ ~ pool[k].open => Commits(k, ch) /\ KeepsOn(c, k)
        /\ pool[k].open => Defers(k, ch)
      BY <1>1, <1>4, <2>2, EndsWith
  <2>4. ~ Saves(c, k, ch) /\ ~ Creates(c, ch)
      BY <1>1 DEF Saves, Creates
  <2>5. CASE pool[k].open
      BY <1>1, <2>1, <2>3, <2>4, <2>5 DEF Moves, Deferring, Statement, Answers
  <2>6. CASE ~ pool[k].open
      BY <2>1, <2>3, <2>6 DEF Moves, Committing, Statement, Answers
  <2> QED
      BY <2>5, <2>6
<1> QED
    BY <1>1, <1>3, <1>4

LEMMA StartMoves ==
    ASSUME Base, NEW c \in Requests, NEW k \in Connections, NEW t \in {"source", "order"},
           Start(c, k, t)
    PROVE  Moves(c, k)
<1>1. /\ step[c] = "new" /\ Free(k) /\ Install(entries, Latest(k)) /\ Contest(c, k)
      /\ writers' = writers /\ closed' = closed
    BY DEF Start
<1>2. PICK s \in Ids :
          /\ Ask(c, "create", c, [Entry(t, NIL, s) EXCEPT !.supplier = s], NIL)
          /\ \/ Reply(c, "refused") /\ pool' = [pool EXCEPT ![k] = Idle]
             \/ /\ Continue(c, t)
                /\ pool' = [pool EXCEPT ![k] =
                       [by |-> c, open |-> TRUE, opener |-> c,
                        view |-> Latest(k), writes |-> NoChange]]
    BY DEF Start, LiveIn, Live
<1> DEFINE row == [Entry(t, NIL, s) EXCEPT !.supplier = s]
           j == Asked("create", c, row, NIL)
           held == [by |-> c, open |-> TRUE, opener |-> c,
                    view |-> Latest(k), writes |-> NoChange]
<1>3. row \in Entries /\ row.table = t /\ ~ row.removed
    BY DEF Entries, Entry, Titles, Codes, Tables
<1>4. row # NIL
    BY <1>3, DirectoryAssumption
<1>5. job' = [job EXCEPT ![c] = j]
    BY <1>2 DEF Ask
<1> HIDE DEF row
<1>6. j \in Jobs /\ j.op = "create" /\ j.id = c /\ j.row = row
    BY <1>3 DEF Jobs, Asked, Ids
<1> HIDE DEF j
<1>7. JobFits(c) /\ answer[c] = "none" /\ RowTypes /\ Latest(k) \in DirectoryRows
    BY <1>1, BaseParts, TypesAre, LatestRows DEF JobFits
<1>8. /\ entries' = Latest(k) /\ retired \subseteq retired' /\ overtaken \subseteq overtaken'
      /\ retired' \subseteq Ids /\ overtaken' \subseteq Requests
      /\ retired' \subseteq retired \cup Live(entries)
      /\ \A i \in Live(entries) \ (Live(entries) \cap Live(Latest(k))) :
             i \in retired' /\ \A d \in Going : job[d].id = i => d \in overtaken'
    BY <1>1, <1>7, InstallFacts
<1>9. entries' = Over(NoChange, Latest(k))
  <2>1. /\ Over(NoChange, Latest(k)) \in DirectoryRows
        /\ \A i \in Ids : Over(NoChange, Latest(k))[i] = Latest(k)[i]
      BY <1>7, NoChangeFacts, OverRows
  <2> QED
      BY <1>7, <1>8, <2>1 DEF DirectoryRows
<1>10. Idle \in Holdings /\ held \in Holdings
  <2>1. RowsOfIds(Latest(k)) /\ RowsOfIds(NoChange)
      BY <1>7, NoChangeFacts DEF DirectoryRows, RowsOfIds
  <2> QED
      BY <2>1, ChangesAreRows DEF Idle, Holdings
<1>11. pool' \in [Connections -> Holdings] /\ pool'[k] \in {Idle, held}
       /\ \A l \in Connections : l # k => pool'[l] = pool[l]
    BY <1>2, <1>7, <1>10 DEF RowTypes
<1>12. RowTypes'
    BY <1>1, <1>7, <1>8, <1>11 DEF RowTypes
<1>13. Pending(k)' = {}
    BY <1>11, NoChangeFacts DEF Pending, Idle
<1>14. Commits(k, NoChange)
  <2>1. Live(Latest(k)) = Live(entries)'
      BY <1>8 DEF Live, Present
  <2> QED
      BY <1>1, <1>8, <1>9, <1>11, <1>13, <2>1 DEF Commits
<1>15. contested \subseteq contested' /\ contested' \subseteq Requests
    BY <1>1, CallMeets
<1>16. \A l \in Connections : pool[l].by # c
    BY <1>1, OwnNone
<1>17. CASE Reply(c, "refused") /\ pool' = [pool EXCEPT ![k] = Idle]
  <2>1. /\ step' = [step EXCEPT ![c] = "end"] /\ answer' = [answer EXCEPT ![c] = "refused"]
        /\ "end" \in Steps
      BY <1>17 DEF Reply, Steps
  <2>2. Asks(c, k, j, "end", "refused")
      BY <1>3, <1>4, <1>6 DEF Asks
  <2>3. Goes(c, k) /\ DirectoryTypeOK' /\ JobFits(c)' /\ answer'[c] = "refused"
      BY <1>1, <1>5, <1>6, <1>8, <1>12, <1>15, <2>1, <2>2, Begins
  <2>4. KeepsOn(c, k)
      BY <1>7, <1>17 DEF KeepsOn, RowTypes
  <2>5. Committing(c, k, NoChange)
      BY <1>14, <1>16, <2>3, <2>4 DEF Committing, Statement, Answers
  <2> QED
      BY <2>3, <2>5 DEF Moves
<1>18. CASE Continue(c, t) /\ pool' = [pool EXCEPT ![k] = held]
  <2>1. step' = [step EXCEPT ![c] = t] /\ answer' = answer /\ t \in Steps
      BY <1>18 DEF Continue, Steps
  <2>2. Asks(c, k, j, t, "none")
      BY <1>3, <1>4, <1>6, <2>1 DEF Asks
  <2>3. Goes(c, k) /\ DirectoryTypeOK' /\ JobFits(c)' /\ answer'[c] = "none" /\ step'[c] = t
      BY <1>1, <1>5, <1>6, <1>7, <1>8, <1>12, <1>15, <2>1, <2>2, Begins
  <2>4. KeepsOn(c, k)
      BY <1>1, <1>7, <1>18, <2>3 DEF KeepsOn, RowTypes
  <2>5. Committing(c, k, NoChange)
      BY <1>14, <1>16, <2>3, <2>4 DEF Committing, Statement, Answers
  <2> QED
      BY <2>3, <2>5 DEF Moves
<1> QED
    BY <1>2, <1>17, <1>18

\* A call that gives back what it holds, and ends, without having written.
LEMMA ReleaseMoves ==
    ASSUME Base, NEW c \in Requests, NEW k \in Connections, NEW a \in {"ok", "refused"},
           step[c] \notin {"new", "end"}, Reply(c, a), UNCHANGED <<unchangedRows, job, writers, closed>>,
           contested \subseteq contested', contested' \subseteq Requests,
           pool' = [l \in Connections |-> IF pool[l].by = c THEN Idle ELSE pool[l]],
           a = "ok" => step[c] = "readBack"
    PROVE  Moves(c, k)
<1>1. RowTypes /\ JobFits(c)
    BY BaseParts, TypesAre
<1>2. Idle \in Holdings
    BY NoChangeFacts, ChangesAreRows DEF Idle, Holdings
<1>3. RowTypes'
    BY <1>1, <1>2 DEF RowTypes, unchangedRows
<1>4. Drops
    BY HolderIs DEF Drops, unchangedRows
<1>5. \A l \in Connections : pool'[l] = pool[l] => pool[l].by # c
    BY DirectoryAssumption DEF Idle, Ids
<1>6. step' = [step EXCEPT ![c] = "end"] /\ answer' = [answer EXCEPT ![c] = a] /\ "end" \in Steps
    BY DEF Reply, Steps
<1>7. a = "ok" => job[c].op = "create" /\ entries[c] # NIL
    BY <1>1 DEF JobFits
<1>8. Goes(c, k) /\ DirectoryTypeOK' /\ JobFits(c)' /\ job'[c] = job[c] /\ answer'[c] = a
  <2>1. job' = job /\ writers' = writers /\ retired \subseteq retired' /\ overtaken \subseteq overtaken'
        /\ closed \subseteq closed'
      BY DEF unchangedRows
  <2>2. a = "ok" /\ job[c].op = "remove" => step[c] \in {"softDelete", "delete"}
      BY <1>7
  <2> QED
      BY <2>1, <2>2, <1>3, <1>6, GoesOn
<1> QED
    BY <1>4, <1>5, <1>7, <1>8 DEF Moves, Dropping

LEMMA ReadBackMoves ==
    ASSUME Base, NEW c \in Requests, NEW k \in Connections, ReadBack(c, k)
    PROVE  Moves(c, k)
<1>1. /\ step[c] = "readBack" /\ Contest(c, k) /\ UNCHANGED <<unchangedRows, job, writers, closed>>
      /\ pool' = [l \in Connections |-> IF pool[l].by = c THEN Idle ELSE pool[l]]
    BY DEF ReadBack
<1>2. PICK a \in {"ok", "refused"} : Reply(c, a)
    BY DEF ReadBack
<1> QED
    BY <1>1, <1>2, CallMeets, ReleaseMoves

LEMMA FailMoves ==
    ASSUME Base, NEW c \in Requests, NEW k \in Connections, RequestFails(c)
    PROVE  Moves(c, k)
<1>1. /\ step[c] \notin {"new", "end"} /\ UNCHANGED <<unchangedRows, job, writers, closed>>
      /\ contested' = contested /\ Reply(c, "refused")
      /\ pool' = [l \in Connections |-> IF pool[l].by = c THEN Idle ELSE pool[l]]
    BY DEF RequestFails, Going
<1>2. contested \subseteq contested' /\ contested' \subseteq Requests
    BY <1>1, BaseParts DEF DirectoryTypeOK
<1> QED
    BY <1>1, <1>2, ReleaseMoves

\* The connection that a call holds is the only one.
LEMMA HeldAlone ==
    ASSUME Base, NEW c \in Requests, NEW k \in Connections, pool[k].by = c,
           step[c] \in {"source", "order"}
    PROVE  /\ pool[k].open /\ Pending(k) = {} /\ Latest(k) = entries
           /\ \A l \in Connections \ {k} : pool[l].by # c
           /\ [pool EXCEPT ![k] = Idle] = [l \in Connections |-> IF pool[l].by = c THEN Idle ELSE pool[l]]
<1>1. /\ pool[k].open /\ Pending(k) = {}
      /\ \A l \in Connections \ {k} : pool[l].by # c
    BY HolderIs
<1>2. pool \in [Connections -> Holdings]
    BY BaseParts, TypesAre DEF RowTypes
<1> QED
    BY <1>1, <1>2, BaseParts, LatestIsCommitted

LEMMA InsertSourceMoves ==
    ASSUME Base, NEW c \in Requests, NEW k \in Connections, InsertSource(c, k)
    PROVE  Moves(c, k)
<1> DEFINE row == job[c].row
           ch == Change(c, row)
<1>1. /\ step[c] = "source" /\ pool[k].by = c /\ Contest(c, k)
      /\ UNCHANGED <<unchangedRows, job, closed>>
      /\ \/ /\ pool' = [pool EXCEPT ![k].by = NIL, ![k].writes = ch]
            /\ Reply(c, "ok") /\ Wrote(c, c)
         \/ /\ pool' = [pool EXCEPT ![k] = Idle]
            /\ Reply(c, "refused") /\ writers' = writers
    BY DEF InsertSource
<1>2. /\ row \in Entries /\ job[c].op = "create" /\ job[c].id = c /\ c \in Ids
      /\ RowTypes /\ RowsOfIds(pool[k].writes)
    BY <1>1, BaseParts, TypesAre, LatestRows DEF JobFits, Jobs, Ids
<1>3. RowsOfIds(ch)
    BY <1>2, ChangeFacts
<1>4. /\ pool[k].open /\ Pending(k) = {}
      /\ \A l \in Connections \ {k} : pool[l].by # c
      /\ [pool EXCEPT ![k] = Idle] = [l \in Connections |-> IF pool[l].by = c THEN Idle ELSE pool[l]]
    BY <1>1, HeldAlone
<1>5. contested \subseteq contested' /\ contested' \subseteq Requests
    BY <1>1, CallMeets
<1>6. CASE /\ pool' = [pool EXCEPT ![k] = Idle]
           /\ Reply(c, "refused") /\ writers' = writers
    BY <1>1, <1>4, <1>5, <1>6, ReleaseMoves
<1>7. CASE /\ pool' = [pool EXCEPT ![k].by = NIL, ![k].writes = ch]
           /\ Reply(c, "ok") /\ Wrote(c, c)
  <2>1. ch \in AllChanges
      BY <1>3, ChangesAreRows
  <2>2. pool' \in [Connections -> Holdings]
      BY <2>1, <1>2, <1>7 DEF RowTypes, Holdings
  <2>3. /\ pool'[k].open = pool[k].open /\ pool'[k].opener = pool[k].opener
        /\ pool'[k].by = NIL /\ pool'[k].view = pool[k].view /\ pool'[k].writes = ch
        /\ \A l \in Connections : l # k => pool'[l] = pool[l]
      BY <1>2, <1>7 DEF RowTypes, Holdings
  <2>4. ch = Over(ch, pool[k].writes)
      BY <1>4 DEF Over, Pending, Change
  <2>5. Defers(k, ch)
      BY <1>1, <1>4, <2>3, <2>4 DEF Defers, unchangedRows
  <2>6. RowTypes'
      BY <1>1, <1>2, <2>2 DEF RowTypes, unchangedRows
  <2>7. step' = [step EXCEPT ![c] = "end"] /\ answer' = [answer EXCEPT ![c] = "ok"] /\ "end" \in Steps
      BY <1>7 DEF Reply, Steps
  <2>8. Goes(c, k) /\ DirectoryTypeOK' /\ JobFits(c)' /\ step'[c] = "end" /\ c \in writers'[c]
    <3>1. job' = job /\ retired \subseteq retired' /\ overtaken \subseteq overtaken'
          /\ closed \subseteq closed'
        BY <1>1 DEF unchangedRows
    <3> QED
        BY <3>1, <1>1, <1>2, <1>5, <1>7, <2>6, <2>7, GoesOn
  <2>9. Creates(c, ch) /\ ~ Saves(c, k, ch)
      BY <1>1, <2>8 DEF Creates, Saves
  <2>10. Deferring(c, k, ch)
      BY <1>1, <1>4, <2>5, <2>8, <2>9 DEF Deferring, Statement, Answers
  <2> QED
      BY <2>8, <2>10 DEF Moves
<1> QED
    BY <1>1, <1>6, <1>7

LEMMA InsertOrderMoves ==
    ASSUME Base, NEW c \in Requests, NEW k \in Connections, InsertOrder(c, k)
    PROVE  Moves(c, k)
<1> DEFINE row == job[c].row
           ch == Change(c, row)
<1>1. /\ step[c] = "order" /\ pool[k].by = c /\ Contest(c, k)
      /\ job' = job /\ closed' = closed
      /\ \/ /\ Install(entries, Over(ch, entries))
            /\ pool' = [pool EXCEPT ![k] = [Idle EXCEPT !.by = c]]
            /\ Continue(c, "readBack") /\ Wrote(c, c)
         \/ /\ pool' = [pool EXCEPT ![k] = Idle]
            /\ Reply(c, "refused") /\ UNCHANGED <<unchangedRows, writers>>
    BY DEF InsertOrder
<1>2. /\ row \in Entries /\ row # NIL /\ job[c].op = "create" /\ job[c].id = c /\ c \in Ids
      /\ RowTypes /\ entries \in DirectoryRows /\ job[c] \in Jobs /\ answer[c] = "none"
    BY <1>1, BaseParts, TypesAre DEF JobFits, Jobs, Ids, RowTypes
<1>3. RowsOfIds(ch) /\ DOMAIN ch = {c} /\ ch[c] = row
    BY <1>2, ChangeFacts
<1>4. /\ pool[k].open /\ Pending(k) = {} /\ Latest(k) = entries
      /\ \A l \in Connections \ {k} : pool[l].by # c
      /\ [pool EXCEPT ![k] = Idle] = [l \in Connections |-> IF pool[l].by = c THEN Idle ELSE pool[l]]
    BY <1>1, HeldAlone
<1>5. contested \subseteq contested' /\ contested' \subseteq Requests
    BY <1>1, CallMeets
<1>6. CASE /\ pool' = [pool EXCEPT ![k] = Idle]
           /\ Reply(c, "refused") /\ UNCHANGED <<unchangedRows, writers>>
    BY <1>1, <1>4, <1>5, <1>6, ReleaseMoves
<1>7. CASE /\ Install(entries, Over(ch, entries))
           /\ pool' = [pool EXCEPT ![k] = [Idle EXCEPT !.by = c]]
           /\ Continue(c, "readBack") /\ Wrote(c, c)
  <2>1. Over(ch, entries) \in DirectoryRows /\ Over(ch, entries)[c] = row
      BY <1>2, <1>3, OverRows
  <2>2. /\ entries' = Over(ch, Latest(k)) /\ retired \subseteq retired' /\ overtaken \subseteq overtaken'
        /\ retired' \subseteq Ids /\ overtaken' \subseteq Requests
        /\ retired' \subseteq retired \cup Live(entries)
        /\ \A i \in Live(entries) \ (Live(Latest(k)) \cap Live(entries)') :
               i \in retired' /\ \A d \in Going : job[d].id = i => d \in overtaken'
      BY <1>4, <1>7, <2>1, InstallFacts DEF Live
  <2>3. [Idle EXCEPT !.by = c] \in Holdings
      BY NoChangeFacts, ChangesAreRows DEF Idle, Holdings
  <2>4. pool' \in [Connections -> Holdings] /\ pool'[k] = [Idle EXCEPT !.by = c]
        /\ \A l \in Connections : l # k => pool'[l] = pool[l]
      BY <1>2, <1>7, <2>3 DEF RowTypes
  <2>5. Pending(k)' = {}
      BY <2>4, NoChangeFacts DEF Pending, Idle
  <2>6. Commits(k, ch)
      BY <1>4, <2>2, <2>4, <2>5 DEF Commits
  <2>7. RowTypes'
      BY <1>1, <1>2, <1>4, <2>1, <2>2, <2>4 DEF RowTypes
  <2>8. step' = [step EXCEPT ![c] = "readBack"] /\ answer' = answer /\ "readBack" \in Steps
      BY <1>7 DEF Continue, Steps
  <2>9. entries'[c] # NIL
      BY <1>2, <1>4, <2>1, <2>2
  <2>10. Goes(c, k) /\ DirectoryTypeOK' /\ JobFits(c)' /\ step'[c] = "readBack" /\ c \in writers'[c]
         /\ answer'[c] = "none"
      BY <1>1, <1>2, <1>5, <1>7, <2>2, <2>7, <2>8, <2>9, GoesOn
  <2>11. Creates(c, ch)
      BY <1>1, <2>10 DEF Creates
  <2>12. KeepsOn(c, k)
      BY <2>4, <2>10 DEF KeepsOn
  <2>13. Committing(c, k, ch)
      BY <1>4, <2>6, <2>10, <2>11, <2>12 DEF Committing, Statement, Answers
  <2> QED
      BY <2>10, <2>13 DEF Moves
<1> QED
    BY <1>1, <1>6, <1>7

\* Every step of a call has one of the three forms, and meets the calls under way.
LEMMA CallStepMoves ==
    ASSUME Base, NEW c \in Requests, NEW k \in Connections,
           \/ CheckNew(c, k) \/ InsertNew(c, k)
           \/ Load(c, k) \/ CheckName(c, k) \/ CheckCode(c, k) \/ Save(c, k)
           \/ LoadToRemove(c, k) \/ SoftDelete(c, k) \/ SoftRemove(c, k)
           \/ CountSources(c, k) \/ CountOrders(c, k) \/ CountLast(c, k)
           \/ DeleteSupplier(c, k)
           \/ Start(c, k, "source") \/ InsertSource(c, k)
           \/ Start(c, k, "order") \/ InsertOrder(c, k) \/ ReadBack(c, k)
    PROVE  Moves(c, k) /\ Contest(c, k)
<1>1. Moves(c, k)
    BY ReadMoves, InsertNewMoves, LoadMoves, SaveMoves, RemoveMoves, SoftDeleteMoves,
       SoftRemoveMoves, DeleteMoves, StartMoves, InsertSourceMoves, InsertOrderMoves, ReadBackMoves
<1>2. Contest(c, k)
  <2>1. CheckNew(c, k) \/ InsertNew(c, k) \/ Load(c, k) \/ CheckName(c, k) \/ CheckCode(c, k)
            \/ Save(c, k) => Contest(c, k)
      BY DEF CheckNew, InsertNew, Load, CheckName, CheckCode, Save
  <2>2. LoadToRemove(c, k) \/ SoftDelete(c, k) \/ SoftRemove(c, k) \/ CountSources(c, k)
            \/ CountOrders(c, k) \/ CountLast(c, k) \/ DeleteSupplier(c, k) => Contest(c, k)
      BY DEF LoadToRemove, SoftDelete, SoftRemove, CountSources, CountOrders, CountUses,
         CountLast, DeleteSupplier
  <2>3. Start(c, k, "source") \/ Start(c, k, "order") \/ InsertSource(c, k) \/ InsertOrder(c, k)
            \/ ReadBack(c, k) => Contest(c, k)
      BY DEF Start, InsertSource, InsertOrder, ReadBack
  <2> QED
      BY <2>1, <2>2, <2>3
<1> QED
    BY <1>1, <1>2

LEMMA StepMoves ==
    ASSUME Base, DirectoryNext
    PROVE  \/ \E c \in Requests, k \in Connections : Moves(c, k)
           \/ \E k \in Connections : CloseConnection(k)
<1>1. ASSUME NEW c \in Requests, RequestFails(c)
      PROVE  \E k \in Connections : Moves(c, k)
    BY <1>1, FailMoves, DirectoryAssumption
<1> QED
    BY <1>1, CallStepMoves DEF DirectoryNext

-----------------------------------------------------------------------------
(* The base is an invariant.                                               *)

LEMMA BaseInit == DirectoryInit => Base
<1> SUFFICES ASSUME DirectoryInit PROVE Base
    OBVIOUS
<1>1. /\ entries = [i \in Ids |-> IF i \in DOMAIN Initial THEN Initial[i] ELSE NIL]
      /\ pool = [k \in Connections |-> Idle]
      /\ job = [c \in Requests |-> Nothing]
      /\ step = [c \in Requests |-> "new"]
      /\ answer = [c \in Requests |-> "none"]
      /\ contested = {} /\ overtaken = {} /\ retired = {} /\ closed = {}
      /\ writers = [i \in Ids |-> {}]
    BY DEF DirectoryInit
<1>2. DirectoryTypeOK
  <2>1. Nothing \in Jobs /\ "new" \in Steps
      BY DEF Nothing, Asked, Jobs, Steps
  <2>2. CallTypes
      BY <1>1, <2>1 DEF CallTypes
  <2>3. Idle \in Holdings
      BY NoChangeFacts, ChangesAreRows DEF Idle, Holdings
  <2>4. entries \in DirectoryRows
      BY <1>1, DirectoryAssumption DEF DirectoryRows
  <2>5. RowTypes
      BY <1>1, <2>3, <2>4 DEF RowTypes
  <2> QED
      BY <2>2, <2>5, TypesAre
<1>3. Fitting(entries)
    BY <1>1, DirectoryAssumption DEF Fitting, TableOf
<1>4. ASSUME NEW c \in Requests PROVE JobFits(c) /\ RowMade(c)
  <2>1. /\ c \in Ids /\ c # NIL /\ c \notin DOMAIN Initial
      BY DirectoryAssumption DEF Ids
  <2>2. /\ job[c].op = "none" /\ job[c].id = NIL
      BY <1>1 DEF Nothing, Asked
  <2>3. JobFits(c)
      BY <1>1, <2>1, <2>2 DEF JobFits, RemovesSupplier
  <2>4. \A d \in Requests : job[d].id # c
      BY <1>1, <2>1 DEF Nothing, Asked
  <2>5. \A k \in Connections : Pending(k) = {} /\ DOMAIN pool[k].view = {}
      BY <1>1, NoChangeFacts DEF Pending, Idle
  <2>6. writers[c] = {} /\ entries[c] = NIL /\ retired = {}
      BY <1>1, <2>1
  <2> QED
      BY <2>3, <2>4, <2>5, <2>6 DEF RowMade
<1>5. ASSUME NEW k \in Connections PROVE ConnectionFits(k)
  <2>1. /\ pool[k].open = FALSE /\ pool[k].by = NIL /\ pool[k].opener = NIL
        /\ DOMAIN pool[k].view = {} /\ Pending(k) = {}
      BY <1>1, NoChangeFacts DEF Idle, Pending
  <2> QED
      BY <2>1 DEF ConnectionFits, Fitting, Pending
<1>6. OpenersDiffer
    BY <1>1 DEF OpenersDiffer, Idle
<1> QED
    BY <1>2, <1>3, <1>4, <1>5, <1>6 DEF Base

LEMMA BaseNext == ASSUME Base, DirectoryNext PROVE Base'
BY StepMoves, MoveKeepsBase, BaseCloses

LEMMA BaseStutters == ASSUME Base, UNCHANGED directoryVars PROVE Base'
<1> USE DEF directoryVars
<1>1. DirectoryTypeOK'
    BY BaseParts, TypesAre, TypesWillBe DEF CallTypes, RowTypes
<1>2. Fitting(entries)'
    BY BaseParts DEF Fitting, TableOf
<1>3. \A c \in Requests : JobFits(c)'
    BY BaseParts DEF JobFits, TableOf
<1>4. \A c \in Requests : RowMade(c)'
    BY BaseParts DEF RowMade, Pending
<1>5. \A k \in Connections : ConnectionFits(k)'
    BY BaseParts DEF ConnectionFits, Fitting, Pending, TableOf
<1>6. OpenersDiffer'
    BY BaseParts DEF OpenersDiffer
<1> QED
    BY <1>1, <1>2, <1>3, <1>4, <1>5, <1>6 DEF Base

\* Calls, rows and connections always fit: in particular the transaction that a
\* source creation leaves open on a released connection holds that source, and
\* otherwise only removals.
THEOREM RowsAndConnectionsFit == DirectorySpec => []Base
<1>1. DirectoryInit => Base
    BY BaseInit
<1>2. Base /\ [DirectoryNext]_directoryVars => Base'
    BY BaseNext, BaseStutters
<1> QED
    BY <1>1, <1>2, PTL DEF DirectorySpec

\* The variables of stores, categories, suppliers, sources and orders keep their types.
THEOREM DirectoryTypes == DirectorySpec => []DirectoryTypeOK
<1>1. Base => DirectoryTypeOK
    BY DEF Base
<1> QED
    BY <1>1, RowsAndConnectionsFit, PTL

-----------------------------------------------------------------------------
(* A removed row comes back only by an update that was overtaken.          *)

\* A live row that a step has put into the database without being asked for it there
\* was saved, was created or waited as a source that nothing had.
LEMMA NewlyLive ==
    ASSUME Base, NEW c \in Requests, NEW k \in Connections, Moves(c, k),
           NEW i \in Ids, i \notin Live(entries), i \in Live(entries)'
    PROVE  \/ \E ch : Commits(k, ch) /\ Saves(c, k, ch) /\ i = job[c].id
           \/ \E ch : Commits(k, ch) /\ Creates(c, ch) /\ i = c /\ writers[c] = {}
           \/ Free(k) /\ i \in Pending(k) /\ i = pool[k].opener /\ i \notin retired
<1>1. Goes(c, k) /\ entries' # entries
    BY DEF Moves, Live, Present
<1>2. PICK ch : Committing(c, k, ch)
    BY <1>1 DEF Moves, Deferring, Defers, Dropping, Drops
<1>3. Statement(c, k, ch) /\ Commits(k, ch)
    BY <1>2 DEF Committing
<1>4. RowsOfIds(ch) /\ entries'[i] = IF i \in DOMAIN ch THEN ch[i]
                    ELSE IF i \in Pending(k) THEN pool[k].writes[i] ELSE entries[i]
    BY <1>1, <1>3, StatementRows, CommitRows
<1>5. entries'[i] # NIL /\ ~ entries'[i].removed
    BY DEF Live, Present
<1>6. CASE i \in DOMAIN ch
  <2>1. ASSUME Creates(c, ch) PROVE i = c /\ writers[c] = {}
    <3>1. i = c
        BY <2>1, <1>6 DEF Creates, Change
    <3>2. RowMade(c) /\ step[c] \in {"insert", "source", "order"}
        BY <2>1, BaseParts DEF Creates
    <3> QED
        BY <3>1, <3>2 DEF RowMade
  <2>2. ASSUME Saves(c, k, ch) PROVE i = job[c].id
      BY <2>2, <1>6 DEF Saves, Change
  <2>3. ~ SoftDeletes(c, k, ch)
    <3>1. ASSUME SoftDeletes(c, k, ch) PROVE i = job[c].id
        BY <3>1, <1>6, SoftDeleteRow
    <3> QED
        BY <3>1, <1>4, <1>5, <1>6, SoftDeleteRow, ZenonT(30)
  <2>4. ~ Deletes(c, k, ch)
      BY <1>4, <1>5, <1>6 DEF Deletes
  <2>5. ch # NoChange
      BY <1>6, NoChangeFacts
  <2> QED
      BY <2>1, <2>2, <2>3, <2>4, <2>5, <1>3 DEF Statement
<1>7. CASE i \notin DOMAIN ch
  <2>1. i \in Pending(k) /\ pool[k].writes[i] # NIL /\ ~ pool[k].writes[i].removed
      BY <1>4, <1>5, <1>7 DEF Live, Present
  <2>2. Free(k) /\ ConnectionFits(k)
      BY <2>1, <1>3, BaseParts DEF Commits
  <2> QED
      BY <2>1, <2>2 DEF ConnectionFits
<1> QED
    BY <1>6, <1>7

\* A live row that a step has taken away overtakes the calls that had loaded it.
LEMMA GoneOvertakes ==
    ASSUME Base, NEW c \in Requests, NEW k \in Connections, Moves(c, k),
           NEW d \in Going, job[d].id \in Live(entries) \ Live(entries)'
    PROVE  d \in overtaken'
<1>1. entries' # entries
    BY DEF Live, Present
<1>2. PICK ch : Commits(k, ch)
    BY <1>1 DEF Moves, Committing, Deferring, Defers, Dropping, Drops
<1> QED
    BY <1>2 DEF Commits

LEMMA LoadedStays ==
    ASSUME Base, \A d \in Requests : LoadedIsLive(d),
           NEW c \in Requests, NEW k \in Connections, Moves(c, k), NEW d \in Requests
    PROVE  LoadedIsLive(d)'
<1>1. Goes(c, k) /\ overtaken \subseteq overtaken'
    BY DEF Moves, Goes
<1> SUFFICES ASSUME step'[d] \in {"name", "code", "save"}
             PROVE  job'[d].id \in Live(entries)' \/ d \in overtaken'
    BY DEF LoadedIsLive
<1>2. CASE d # c
  <2>1. /\ step[d] \in {"name", "code", "save"} /\ job'[d] = job[d] /\ d \in Going
        /\ job[d].id \in Live(entries) \/ d \in overtaken
      BY <1>1, <1>2 DEF Goes, Going, LoadedIsLive
  <2> QED
      BY <2>1, <1>1, GoneOvertakes
<1>3. CASE d = c
  <2>1. CASE step[c] \in {"name", "code", "save"} /\ entries' = entries
    <3>1. job'[c] = job[c] /\ Live(entries)' = Live(entries)
        BY <2>1, <1>1 DEF Goes, Live, Present
    <3> QED
        BY <2>1, <3>1, <1>1, <1>3 DEF LoadedIsLive
  <2> QED
      BY <2>1, <1>1, <1>3 DEF Goes
<1> QED
    BY <1>2, <1>3

LoadedInv == Base /\ \A c \in Requests : LoadedIsLive(c)

LEMMA LoadedInit == DirectoryInit => LoadedInv
BY BaseInit DEF DirectoryInit, LoadedInv, LoadedIsLive

LEMMA LoadedNext == ASSUME LoadedInv, [DirectoryNext]_directoryVars PROVE LoadedInv'
<1>1. Base /\ (\A c \in Requests : LoadedIsLive(c)) /\ Base'
    BY BaseNext, BaseStutters DEF LoadedInv
<1>2. CASE \E c \in Requests, k \in Connections : Moves(c, k)
    BY <1>1, <1>2, LoadedStays DEF LoadedInv
<1>3. CASE \E k \in Connections : CloseConnection(k)
  <2>1. UNCHANGED <<entries, overtaken, job, step>>
      BY <1>3 DEF CloseConnection, unchangedRows
  <2> QED
      BY <2>1, <1>1 DEF LoadedInv, LoadedIsLive, Live, Present
<1>4. CASE UNCHANGED directoryVars
    BY <1>4, <1>1 DEF LoadedInv, LoadedIsLive, Live, Present, directoryVars
<1> QED
    BY <1>1, <1>2, <1>3, <1>4, StepMoves

LEMMA LoadedInvariant == DirectorySpec => []LoadedInv
BY LoadedInit, LoadedNext, PTL DEF DirectorySpec

\* A store or supplier that was removed comes back only by the save of an update that
\* had loaded it before, or in an old snapshot: update reads the row, waits, and saves
\* it whole.
THEOREM RemovedRowsStayRemoved == DirectorySpec => RemovedStaysRemoved
<1>1. ASSUME LoadedInv, DirectoryNext, NEW i \in retired, i \notin Live(entries), i \in Live(entries)'
      PROVE  \E c \in overtaken : job[c].id = i /\ step[c] = "save" /\ step'[c] = "end"
  <2>1. Base /\ (\A c \in Requests : LoadedIsLive(c)) /\ i \in Ids
      BY <1>1 DEF LoadedInv, Live
  <2>2. PICK c \in Requests, k \in Connections : Moves(c, k)
    <3>1. ASSUME NEW k \in Connections, CloseConnection(k) PROVE FALSE
        BY <3>1, <1>1 DEF CloseConnection, unchangedRows, Live, Present
    <3> QED
        BY <3>1, <2>1, <1>1, StepMoves
  <2>3. \/ \E ch : Commits(k, ch) /\ Saves(c, k, ch) /\ i = job[c].id
        \/ \E ch : Commits(k, ch) /\ Creates(c, ch) /\ i = c /\ writers[c] = {}
        \/ Free(k) /\ i \in Pending(k) /\ i = pool[k].opener /\ i \notin retired
      BY <2>1, <2>2, <1>1, NewlyLive
  <2>4. ~ (i = c /\ writers[c] = {})
      BY <2>1, <1>1, BaseParts DEF RowMade
  <2>5. step[c] = "save" /\ step'[c] = "end" /\ i = job[c].id
      BY <2>3, <2>4, <1>1 DEF Saves
  <2>6. c \in overtaken
      BY <2>1, <2>5, <1>1 DEF LoadedIsLive
  <2> QED
      BY <2>5, <2>6
<1>2. LoadedInv /\ [DirectoryNext]_directoryVars =>
          [\A i \in retired : i \notin Live(entries) /\ i \in Live(entries') =>
               \E c \in overtaken : job[c].id = i /\ step[c] = "save" /\ step'[c] = "end"
          ]_directoryVars
  <2>1. Live(entries') = Live(entries)'
      BY DEF Live, Present
  <2> QED
      BY <1>1, <2>1
<1> QED
    BY <1>2, LoadedInvariant, PTL DEF DirectorySpec, RemovedStaysRemoved

-----------------------------------------------------------------------------
(* Two live stores of one name have met other calls.                       *)

\* A call that has met no other uses a connection without a transaction.
LEMMA AloneSees ==
    ASSUME Base, NEW c \in Requests, NEW k \in Connections, Contest(c, k), Free(k),
           c \notin contested'
    PROVE  Seen(k) = entries /\ Latest(k) = entries
<1>1. ~ pool[k].open
    BY DEF Contest
<1>2. Pending(k) = {}
    BY <1>1, BaseParts DEF ConnectionFits
<1> QED
    BY <1>1, <1>2, BaseParts, LatestIsCommitted DEF Seen

\* Such a call is the only one.
LEMMA AloneGoes ==
    ASSUME NEW c \in Requests, NEW k \in Connections, Goes(c, k), Contest(c, k),
           NEW d \in Requests, d # c
    PROVE  NameIsChecked(d)'
<1>1. step'[d] = step[d]
    BY DEF Goes
<1>2. d \in Going => d \in contested'
    BY DEF Contest
<1> QED
    BY <1>1, <1>2 DEF NameIsChecked, Going

LEMMA CheckedOnItsWay ==
    ASSUME Base, NEW c \in Requests, NEW k \in Connections, NameIsChecked(c),
           Contest(c, k), CheckNew(c, k) \/ CheckName(c, k) \/ CheckCode(c, k) \/ Load(c, k)
    PROVE  NameIsChecked(c)'
<1>1. Moves(c, k) /\ Free(k) /\ contested \subseteq contested'
    BY ReadMoves, LoadMoves, CallMeets DEF CheckNew, CheckName, CheckCode, Load
<1>2. entries' = entries
    BY DEF CheckNew, CheckName, CheckCode, Load, unchangedRows
<1> SUFFICES ASSUME c \notin contested', step'[c] \notin {"new", "end"},
                    job'[c].row # NIL, job'[c].row.table = "store"
             PROVE  /\ step'[c] = "insert" =>
                           \A i \in LiveIn(entries, "store") \ {job'[c].id} :
                               entries[i].name # job'[c].row.name
                    /\ job'[c].op = "update" => entries[job'[c].id] = job'[c].memory
                    /\ step'[c] \in {"code", "save"} /\ job'[c].row.name # job'[c].memory.name =>
                           \A i \in LiveIn(entries, "store") \ {job'[c].id} :
                               entries[i].name # job'[c].row.name
    BY <1>2 DEF NameIsChecked, Going, Renames, LiveIn, Live, Present
<1>3. Seen(k) = entries /\ c \notin contested
    BY <1>1, AloneSees
<1>4. JobFits(c) /\ CallTypes
    BY BaseParts, TypesAre
<1>5. CASE CheckNew(c, k)
  <2>1. PICK t \in {"store", "category", "supplier"}, l \in Labels :
            /\ Ask(c, "create", c, Entry(t, l, NIL), NIL)
            /\ IF \E i \in LiveIn(Seen(k), t) : SameLabel(Entry(t, l, NIL), Seen(k)[i])
               THEN Reply(c, "refused") ELSE Continue(c, "insert")
      BY <1>5 DEF CheckNew
  <2>2. /\ job'[c].row = Entry(t, l, NIL) /\ job'[c].op = "create" /\ job'[c].id = c
      BY <2>1, <1>4 DEF Ask, Asked, CallTypes
  <2>3. t = "store"
      BY <2>2 DEF Entry
  <2>4. /\ step'[c] = "insert"
        /\ \A i \in LiveIn(entries, "store") : ~ SameLabel(Entry(t, l, NIL), entries[i])
      BY <2>1, <2>3, <1>3, <1>4 DEF Reply, Continue, CallTypes
  <2> QED
      BY <2>2, <2>4 DEF SameLabel
<1>6. CASE Load(c, k)
  <2>1. PICK t \in Tables \ {"order"} : \E i \in Findable(Seen(k), t), l \in Labels :
        \E s \in IF t = "source" THEN LiveIn(Latest(k), "supplier") ELSE {NIL} :
           /\ Ask(c, "update", i, Entry(t, l, s), Seen(k)[i])
           /\ Continue(c, IF Entry(t, l, s).name # Seen(k)[i].name THEN "name"
                          ELSE IF Entry(t, l, s).code # Seen(k)[i].code THEN "code"
                          ELSE "save")
      BY <1>6 DEF Load
  <2>2. PICK i \in Findable(Seen(k), t), l \in Labels,
             s \in IF t = "source" THEN LiveIn(Latest(k), "supplier") ELSE {NIL} :
           /\ Ask(c, "update", i, Entry(t, l, s), Seen(k)[i])
           /\ Continue(c, IF Entry(t, l, s).name # Seen(k)[i].name THEN "name"
                          ELSE IF Entry(t, l, s).code # Seen(k)[i].code THEN "code"
                          ELSE "save")
      BY <2>1
  <2> DEFINE row == Entry(t, l, s)
  <2> HIDE DEF row
  <2>3. job'[c] = Asked("update", i, row, Seen(k)[i])
      BY <2>2, <1>4 DEF Ask, CallTypes, row
  <2>4. job'[c].row = row /\ job'[c].memory = entries[i] /\ job'[c].id = i
      BY <2>3, <1>3 DEF Asked
  <2>5. row.name # entries[i].name => step'[c] = "name"
      BY <2>2, <1>3, <1>4 DEF Continue, CallTypes, row
  <2>6. step'[c] # "insert"
      BY <2>2, <1>4 DEF Continue, CallTypes
  <2> QED
      BY <2>4, <2>5, <2>6
<1>7. CASE CheckName(c, k) \/ CheckCode(c, k)
  <2>1. job' = job /\ job[c].op = "update" /\ step[c] \in {"name", "code"} /\ c \in Going
      BY <1>4, <1>7 DEF CheckName, CheckCode, JobFits, Going
  <2>2. /\ entries[job[c].id] = job[c].memory
        /\ step[c] = "code" /\ Renames(c) =>
               \A i \in LiveIn(entries, "store") \ {job[c].id} : entries[i].name # job[c].row.name
      BY <2>1, <1>3 DEF NameIsChecked
  <2>3. step'[c] # "insert"
      BY <1>4, <1>7 DEF CheckName, CheckCode, Reply, Continue, CallTypes
  <2>4. step[c] = "name" =>
           \A i \in LiveIn(entries, "store") \ {job[c].id} : entries[i].name # job[c].row.name
    <3>1. ASSUME CheckName(c, k)
          PROVE  ~ \E i \in LiveIn(Seen(k), job[c].row.table) :
                     /\ Seen(k)[i].name = job[c].row.name
                     /\ job[c].row.table # "supplier" => i # job[c].id
        BY <3>1, <1>4 DEF CheckName, Reply, CallTypes
    <3>2. CheckCode(c, k) => step[c] = "code"
        BY DEF CheckCode
    <3> QED
        BY <3>1, <3>2, <2>1, <1>3, <1>7
  <2> QED
      BY <2>1, <2>2, <2>3, <2>4 DEF Renames
<1> QED
    BY <1>5, <1>6, <1>7

\* The other steps end the call, or are not about a name.
LEMMA CheckedElsewhere ==
    ASSUME Base, NEW c \in Requests, NEW k \in Connections,
           \/ InsertNew(c, k) \/ Save(c, k)
           \/ LoadToRemove(c, k) \/ SoftDelete(c, k) \/ SoftRemove(c, k)
           \/ CountSources(c, k) \/ CountOrders(c, k) \/ CountLast(c, k)
           \/ DeleteSupplier(c, k)
           \/ Start(c, k, "source") \/ InsertSource(c, k)
           \/ Start(c, k, "order") \/ InsertOrder(c, k) \/ ReadBack(c, k)
           \/ RequestFails(c)
    PROVE  NameIsChecked(c)'
<1>1. JobFits(c) /\ CallTypes
    BY BaseParts, TypesAre
<1>2. \/ step'[c] = "end"
      \/ step'[c] \notin {"insert", "code", "save"} /\ job'[c].op # "update"
  <2>1. CASE InsertNew(c, k) \/ Save(c, k) \/ SoftDelete(c, k) \/ SoftRemove(c, k)
               \/ DeleteSupplier(c, k) \/ InsertSource(c, k) \/ ReadBack(c, k) \/ RequestFails(c)
    <3>1. \E a \in {"ok", "refused"} : Reply(c, a)
        BY <2>1 DEF InsertNew, Save, SoftDelete, SoftRemove, DeleteSupplier, InsertSource,
                    ReadBack, RequestFails
    <3> QED
        BY <3>1, <1>1 DEF Reply, CallTypes
  <2>2. CASE CountSources(c, k) \/ CountOrders(c, k) \/ CountLast(c, k)
    <3>1. step[c] \in RemovesSupplier /\ job' = job
        BY <2>2 DEF CountSources, CountOrders, CountUses, CountLast, RemovesSupplier
    <3>2. \E s \in {"sources", "orders", "used", "delete", "end"} : step' = [step EXCEPT ![c] = s]
        BY <2>2 DEF CountSources, CountOrders, CountUses, CountLast, Reply, Continue
    <3>3. job[c].op = "remove"
        BY <1>1, <3>1 DEF JobFits
    <3> QED
        BY <3>1, <3>2, <3>3, <1>1 DEF CallTypes
  <2>3. CASE LoadToRemove(c, k)
    <3>1. /\ \E i \in Ids : job' = [job EXCEPT ![c] = Asked("remove", i, NIL, NIL)]
          /\ \E s \in {"softDelete", "counts", "softRemove"} : step' = [step EXCEPT ![c] = s]
        BY <2>3 DEF LoadToRemove, Ask, Continue, LiveIn, Live
    <3> QED
        BY <3>1, <1>1 DEF CallTypes, Asked
  <2>4. ASSUME NEW t \in {"source", "order"}, Start(c, k, t)
        PROVE  step'[c] \notin {"insert", "code", "save"} /\ job'[c].op # "update"
    <3>1. /\ \E row : job' = [job EXCEPT ![c] = Asked("create", c, row, NIL)]
          /\ \E s \in {"end", t} : step' = [step EXCEPT ![c] = s]
        BY <2>4 DEF Start, Ask, Reply, Continue
    <3> QED
        BY <3>1, <1>1 DEF CallTypes, Asked
  <2>5. CASE InsertOrder(c, k)
      BY <2>5, <1>1 DEF InsertOrder, Reply, Continue, CallTypes, JobFits
  <2> QED
      BY <2>1, <2>2, <2>3, <2>4, <2>5
<1> QED
    BY <1>2 DEF NameIsChecked, Going

\* A live store after a commit was there before, or is what the statement wrote.
LEMMA StoreKept ==
    ASSUME Base, NEW c \in Requests, NEW k \in Connections, Goes(c, k),
           NEW ch, Statement(c, k, ch), Commits(k, ch),
           NEW n \in LiveIn(entries, "store")'
    PROVE  /\ n \in Ids
           /\ \/ n \in LiveIn(entries, "store") /\ entries'[n] = entries[n] /\ n \notin DOMAIN ch
              \/ /\ n = job[c].id /\ ch = Change(n, entries'[n])
                 /\ Creates(c, ch) \/ Saves(c, k, ch)
<1>1. n \in Ids /\ entries'[n] # NIL /\ ~ entries'[n].removed /\ entries'[n].table = "store"
    BY DEF LiveIn, Live, Present
<1>2. RowsOfIds(ch) /\ entries'[n] = IF n \in DOMAIN ch THEN ch[n]
                    ELSE IF n \in Pending(k) THEN pool[k].writes[n] ELSE entries[n]
    BY <1>1, StatementRows, CommitRows
<1>3. CASE n \in DOMAIN ch
  <2>1. ASSUME Creates(c, ch) PROVE n = job[c].id /\ ch = Change(n, ch[n])
    <3>1. job[c].op = "create" /\ job[c].id = c
        BY <2>1, BaseParts DEF Creates, JobFits
    <3> QED
        BY <2>1, <3>1, <1>3 DEF Creates, Change
  <2>2. ASSUME Saves(c, k, ch) PROVE n = job[c].id /\ ch = Change(n, ch[n])
      BY <2>2, <1>3 DEF Saves, Change
  <2>3. ~ SoftDeletes(c, k, ch)
    <3>1. ASSUME SoftDeletes(c, k, ch) PROVE n = job[c].id
        BY <3>1, <1>3, SoftDeleteRow
    <3> QED
        BY <3>1, <1>1, <1>2, <1>3, SoftDeleteRow
  <2>4. ~ Deletes(c, k, ch)
      BY <1>1, <1>2, <1>3 DEF Deletes
  <2>5. ch # NoChange
      BY <1>3, NoChangeFacts
  <2> QED
      BY <2>1, <2>2, <2>3, <2>4, <2>5, <1>1, <1>2, <1>3 DEF Statement
<1>4. CASE n \notin DOMAIN ch
  <2>1. n \notin Pending(k)
    <3> SUFFICES ASSUME n \in Pending(k) PROVE FALSE
        OBVIOUS
    <3>1. pool[k].writes[n] # NIL /\ ~ pool[k].writes[n].removed /\ pool[k].writes[n].table = "store"
          /\ Free(k) /\ ConnectionFits(k)
        BY <1>1, <1>2, <1>4, BaseParts DEF Commits
    <3>2. n = pool[k].opener /\ pool[k].open
        BY <3>1, BaseParts DEF ConnectionFits, Holdings
    <3>3. n \in Requests /\ job[n].row.table = "source" /\ n \notin DOMAIN Initial
        BY <3>1, <3>2, BaseParts, DirectoryAssumption DEF ConnectionFits, Free, Holdings
    <3>4. pool[k].writes[n].table = TableOf(n)
        BY <3>1 DEF ConnectionFits, Fitting, Pending
    <3> QED
        BY <3>1, <3>3, <3>4 DEF TableOf
  <2> QED
      BY <2>1, <1>1, <1>2, <1>4 DEF LiveIn, Live, Present
<1> QED
    BY <1>1, <1>3, <1>4

\* The written store has the name of another only if its call has met another.
LEMMA NamesChecked ==
    ASSUME Base, StoreNamesDiffer, NEW c \in Requests, NEW k \in Connections,
           Goes(c, k), NameIsChecked(c), Contest(c, k), c \notin contested',
           NEW n \in Ids, n = job[c].id, NEW row \in Entries, row.table = "store",
           Creates(c, Change(n, row)) \/ Saves(c, k, Change(n, row)),
           NEW m \in LiveIn(entries, "store"), m # n, entries[m].name = row.name
    PROVE  (writers[n] \cup writers[m]) \cap contested # {}
<1> DEFINE others == {i \in LiveIn(entries, "store") \ {job[c].id} : entries[i].name = job[c].row.name}
<1>1. JobFits(c) /\ job[c] \in Jobs /\ contested \subseteq contested'
    BY BaseParts, CallMeets
<1>2. CASE Creates(c, Change(n, row))
  <2>1. job[c].op = "create" /\ job[c].row \in Entries /\ step[c] \in {"insert", "source", "order"}
        /\ c \in Ids
      BY <1>1, <1>2 DEF Creates, JobFits, Jobs, Ids
  <2>2. job[c].id = c /\ job[c].row = row
    <3>1. job[c].id = c
        BY <1>1, <2>1 DEF JobFits
    <3>2. Change(n, row) = Change(c, job[c].row)
        BY <1>2 DEF Creates
    <3> QED
      <4>1. Change(n, row)[n] = row /\ Change(c, job[c].row)[c] = job[c].row
          BY <2>1 DEF Change
      <4> QED
          BY <3>1, <3>2, <4>1
  <2>3. step[c] = "insert"
      BY <1>1, <2>1, <2>2 DEF JobFits
  <2>4. others = {}
    <3>1. c \in Going \ contested /\ job[c].row # NIL /\ job[c].row.table = "store"
        BY <1>1, <2>1, <2>2, <2>3, DirectoryAssumption DEF Going
    <3> QED
        BY <2>3, <3>1 DEF NameIsChecked
  <2>5. m \in others
      BY <2>2
  <2> QED
      BY <2>4, <2>5
<1>3. CASE Saves(c, k, Change(n, row))
  <2>1. /\ step[c] = "save" /\ Free(k) /\ job[c].op = "update" /\ job[c].row \in Entries
        /\ job[c].row.table = TableOf(n) /\ job[c].memory # NIL /\ ~ job[c].memory.removed
        /\ job[c].memory.table = TableOf(n)
      BY <1>1, <1>3 DEF Saves, JobFits, Jobs
  <2>2. Seen(k) = entries /\ Latest(k) = entries
      BY <2>1, AloneSees
  <2>3. row = job[c].row
    <3>1. PICK r \in Entries : Change(n, row) = Change(n, r) /\ (Seen(k)[n] = Latest(k)[n] => r = job[c].row)
        BY <1>3 DEF Saves
    <3>2. r = row
      <4>1. Change(n, row)[n] = row /\ Change(n, r)[n] = r
          BY DEF Change
      <4> QED
          BY <3>1, <4>1
    <3> QED
        BY <3>1, <3>2, <2>2
  <2>4. c \in Going \ contested /\ job[c].row # NIL /\ job[c].row.table = "store"
      BY <1>1, <2>1, <2>3, DirectoryAssumption DEF Going
  <2>5. entries[n] = job[c].memory /\ (Renames(c) => others = {})
      BY <2>1, <2>4 DEF NameIsChecked
  <2>6. m \in others
      BY <2>3
  <2>7. entries[n].name = entries[m].name
      BY <2>3, <2>5, <2>6 DEF Renames
  <2>8. n \in LiveIn(entries, "store")
      BY <2>1, <2>3, <2>5 DEF LiveIn, Live, Present
  <2> QED
      BY <2>7, <2>8 DEF StoreNamesDiffer
<1> QED
    BY <1>2, <1>3

LEMMA StoreNamesStay ==
    ASSUME Base, StoreNamesDiffer, NEW c \in Requests, NEW k \in Connections,
           Moves(c, k), NameIsChecked(c), Contest(c, k) \/ RequestFails(c)
    PROVE  StoreNamesDiffer'
<1>1. Goes(c, k) /\ contested \subseteq contested'
    BY DEF Moves, Goes
<1>2. \A i \in Ids : writers[i] \subseteq writers'[i]
    BY <1>1 DEF Goes
<1> SUFFICES ASSUME NEW n \in LiveIn(entries, "store")', NEW m \in LiveIn(entries, "store")',
                    n # m, entries'[n].name = entries'[m].name
             PROVE  (writers'[n] \cup writers'[m]) \cap contested' # {}
    BY DEF StoreNamesDiffer
<1>3. n \in Ids /\ m \in Ids
    BY DEF LiveIn, Live
<1>4. CASE n \in LiveIn(entries, "store") /\ entries'[n] = entries[n]
           /\ m \in LiveIn(entries, "store") /\ entries'[m] = entries[m]
    BY <1>1, <1>2, <1>3, <1>4 DEF StoreNamesDiffer
<1>5. CASE entries' = entries
  <2>1. n \in LiveIn(entries, "store") /\ m \in LiveIn(entries, "store")
      BY <1>5 DEF LiveIn, Live, Present
  <2> QED
      BY <2>1, <1>4, <1>5
<1>6. CASE entries' # entries
  <2>1. PICK ch : Committing(c, k, ch)
      BY <1>6 DEF Moves, Deferring, Defers, Dropping, Drops
  <2>2. Statement(c, k, ch) /\ Commits(k, ch)
      BY <2>1 DEF Committing
  <2>3. Contest(c, k)
      BY <1>6 DEF RequestFails, unchangedRows
  <2>4. DirectoryTypeOK'
      BY DEF Moves
  <2>5. ASSUME NEW x \in LiveIn(entries, "store")', NEW y \in LiveIn(entries, "store")', x # y,
               entries'[x].name = entries'[y].name,
               x = job[c].id, ch = Change(x, entries'[x]), Creates(c, ch) \/ Saves(c, k, ch)
        PROVE  (writers'[x] \cup writers'[y]) \cap contested' # {}
    <3>1. c \in writers'[x] /\ x \in Ids /\ entries'[x] \in Entries /\ entries'[x].table = "store"
      <4>1. x \in Ids /\ entries'[x] # NIL /\ entries'[x].table = "store"
          BY DEF LiveIn, Live, Present
      <4>2. entries'[x] \in Entries
          BY <4>1, <2>4 DEF DirectoryTypeOK
      <4>3. ASSUME Creates(c, ch) PROVE c \in writers'[x]
        <5>1. job[c].id = c
            BY <4>3, BaseParts DEF Creates, JobFits
        <5> QED
            BY <4>3, <5>1, <2>5 DEF Creates
      <4>4. ASSUME Saves(c, k, ch) PROVE c \in writers'[x]
          BY <4>4, <2>5 DEF Saves
      <4> QED
          BY <4>1, <4>2, <4>3, <4>4, <2>5
    <3>2. y \in LiveIn(entries, "store") /\ entries'[y] = entries[y] /\ y \in Ids
      <4>1. \/ y \in LiveIn(entries, "store") /\ entries'[y] = entries[y]
            \/ y = job[c].id
          BY <1>1, <2>2, StoreKept
      <4> QED
          BY <4>1, <2>5 DEF LiveIn, Live
    <3>3. CASE c \in contested'
        BY <3>1, <3>3
    <3>4. CASE c \notin contested'
      <4>1. PICK row \in Entries : row = entries'[x]
          BY <3>1
      <4>2. (writers[x] \cup writers[y]) \cap contested # {}
          BY <4>1, <3>1, <3>2, <3>4, <2>3, <2>5, <1>1, NamesChecked
      <4> QED
          BY <4>2, <3>1, <3>2, <1>1, <1>2
    <3> QED
        BY <3>3, <3>4
  <2>6. \A x \in LiveIn(entries, "store")' :
            \/ x \in LiveIn(entries, "store") /\ entries'[x] = entries[x]
            \/ x = job[c].id /\ ch = Change(x, entries'[x]) /\ (Creates(c, ch) \/ Saves(c, k, ch))
      BY <1>1, <2>2, StoreKept
  <2> QED
      BY <2>5, <2>6, <1>4
<1> QED
    BY <1>5, <1>6

NamesInv == Base /\ (\A c \in Requests : NameIsChecked(c)) /\ StoreNamesDiffer

LEMMA NamesInit == DirectoryInit => NamesInv
<1> SUFFICES ASSUME DirectoryInit PROVE NamesInv
    OBVIOUS
<1>1. Base
    BY BaseInit
<1>2. \A c \in Requests : NameIsChecked(c)
    BY DEF DirectoryInit, NameIsChecked, Going
<1>3. StoreNamesDiffer
  <2>1. \A i \in LiveIn(entries, "store") :
            i \in DOMAIN Initial /\ entries[i] = Initial[i] /\ entries[i].table = "store" /\ ~ entries[i].removed
      BY DEF DirectoryInit, LiveIn, Live, Present
  <2> QED
      BY <2>1, DirectoryAssumption DEF StoreNamesDiffer
<1> QED
    BY <1>1, <1>2, <1>3 DEF NamesInv

\* Nothing that names depend on changes.
LEMMA NamesUnchanged ==
    ASSUME NamesInv, Base',
           entries' = entries, job' = job, contested' = contested, writers' = writers,
           \A d \in Requests : step'[d] = step[d] \/ step'[d] = "end"
    PROVE  NamesInv'
<1>1. LiveIn(entries, "store")' = LiveIn(entries, "store")
    BY DEF LiveIn, Live, Present
<1>2. StoreNamesDiffer'
    BY <1>1 DEF NamesInv, StoreNamesDiffer
<1>3. ASSUME NEW d \in Requests PROVE NameIsChecked(d)'
  <2>1. NameIsChecked(d)
      BY DEF NamesInv
  <2>2. d \in (Going \ contested)' => d \in Going \ contested /\ step'[d] = step[d]
      BY DEF Going
  <2> QED
      BY <2>1, <2>2, <1>1 DEF NameIsChecked, Renames
<1> QED
    BY <1>2, <1>3 DEF NamesInv

LEMMA NamesNext == ASSUME NamesInv, DirectoryNext PROVE NamesInv'
<1>1. Base /\ Base' /\ (\A c \in Requests : NameIsChecked(c)) /\ StoreNamesDiffer
    BY BaseNext DEF NamesInv
<1>2. ASSUME NEW c \in Requests, NEW k \in Connections,
             \/ CheckNew(c, k) \/ InsertNew(c, k)
             \/ Load(c, k) \/ CheckName(c, k) \/ CheckCode(c, k) \/ Save(c, k)
             \/ LoadToRemove(c, k) \/ SoftDelete(c, k) \/ SoftRemove(c, k)
             \/ CountSources(c, k) \/ CountOrders(c, k) \/ CountLast(c, k)
           \/ DeleteSupplier(c, k)
             \/ Start(c, k, "source") \/ InsertSource(c, k)
             \/ Start(c, k, "order") \/ InsertOrder(c, k) \/ ReadBack(c, k)
      PROVE  NamesInv'
  <2>1. Moves(c, k) /\ Contest(c, k)
      BY <1>1, <1>2, CallStepMoves
  <2>2. NameIsChecked(c)'
      BY <1>1, <1>2, <2>1, CheckedOnItsWay, CheckedElsewhere
  <2>3. \A d \in Requests : d # c => NameIsChecked(d)'
      BY <2>1, AloneGoes DEF Moves
  <2>4. StoreNamesDiffer'
      BY <1>1, <2>1, StoreNamesStay
  <2> QED
      BY <1>1, <2>2, <2>3, <2>4 DEF NamesInv
<1>3. ASSUME NEW c \in Requests, RequestFails(c) PROVE NamesInv'
  <2>1. /\ entries' = entries /\ job' = job /\ contested' = contested /\ writers' = writers
        /\ step' = [step EXCEPT ![c] = "end"]
      BY <1>3 DEF RequestFails, Reply, unchangedRows
  <2>2. \A d \in Requests : step'[d] = step[d] \/ step'[d] = "end"
      BY <2>1, <1>1, BaseParts, TypesAre DEF CallTypes
  <2> QED
      BY <1>1, <2>1, <2>2, NamesUnchanged
<1>4. ASSUME NEW k \in Connections, CloseConnection(k) PROVE NamesInv'
  <2>1. entries' = entries /\ job' = job /\ contested' = contested /\ writers' = writers /\ step' = step
      BY <1>4 DEF CloseConnection, unchangedRows
  <2> QED
      BY <1>1, <2>1, NamesUnchanged
<1> QED
    BY <1>2, <1>3, <1>4 DEF DirectoryNext

\* Two live stores bear one name only if the call that wrote one of them overlapped
\* another call, or checked the name in an old snapshot: the check is a plain read and
\* no key of the table forbids it.
THEOREM NamesDiffer == DirectorySpec => []StoreNamesDiffer
<1>1. DirectoryInit => NamesInv
    BY NamesInit
<1>2. NamesInv /\ [DirectoryNext]_directoryVars => NamesInv'
  <2>1. ASSUME NamesInv, UNCHANGED directoryVars PROVE NamesInv'
    <3>1. Base'
        BY <2>1, BaseStutters DEF NamesInv
    <3>2. /\ entries' = entries /\ job' = job /\ contested' = contested /\ writers' = writers
          /\ step' = step
        BY <2>1 DEF directoryVars
    <3> QED
        BY <2>1, <3>1, <3>2, NamesUnchanged
  <2> QED
      BY <2>1, NamesNext
<1>3. NamesInv => StoreNamesDiffer
    BY DEF NamesInv
<1> QED
    BY <1>1, <1>2, <1>3, PTL DEF DirectorySpec

-----------------------------------------------------------------------------
(* What was answered is kept.                                              *)

LEMMA SuppliersGrow ==
    ASSUME Base, NEW c \in Requests, NEW k \in Connections, Goes(c, k), NEW i \in Ids
    PROVE  /\ Suppliers(i) \subseteq Suppliers(i)'
           /\ RemovalAnswered(i) => RemovalAnswered(i)'
<1>1. \A d \in writers[i] : d \in writers'[i] /\ job'[d] = job[d]
  <2>1. \A d \in writers[i] : d \in Requests /\ step[d] # "new"
      BY BaseParts DEF JobFits
  <2> QED
      BY <2>1 DEF Goes
<1>2. Suppliers(i) \subseteq Suppliers(i)'
    BY <1>1 DEF Suppliers
<1>3. ASSUME NEW d \in Requests, answer[d] = "ok"
      PROVE  answer'[d] = "ok" /\ job'[d] = job[d]
  <2>1. d # c
      BY <1>3, BaseParts DEF JobFits, Goes
  <2> QED
      BY <2>1, <1>3 DEF Goes
<1>4. RemovalAnswered(i) => RemovalAnswered(i)'
    BY <1>2, <1>3 DEF RemovalAnswered
<1> QED
    BY <1>2, <1>4

LEMMA LatestSuppliers ==
    ASSUME Base, SuppliersFit, NEW k \in Connections, NEW i \in Requests, Latest(k)[i] # NIL
    PROVE  Latest(k)[i].supplier \in Suppliers(i)
<1>1. i \in Ids /\ entries \in DirectoryRows
      /\ Latest(k)[i] = IF i \in Pending(k) THEN pool[k].writes[i] ELSE entries[i]
    BY BaseParts, LatestRows DEF Ids
<1> QED
    BY <1>1 DEF SuppliersFit, SupplierGiven, Pending, DirectoryRows

\* The supplier of a row that is written was given, and a row that is deleted had one
\* that was removed, or was removed itself.
LEMMA StatementSuppliers ==
    ASSUME Base, SuppliersFit, NEW c \in Requests, NEW k \in Connections, Goes(c, k),
           NEW ch, Statement(c, k, ch), NEW i \in DOMAIN ch \cap Requests
    PROVE  /\ ch[i] # NIL => ch[i].supplier \in Suppliers(i)'
           /\ ch[i] = NIL => RemovalAnswered(i)'
<1>1. JobFits(c) /\ job[c] \in Jobs /\ i \in Ids /\ c \in Ids
    BY BaseParts DEF Ids
<1>2. Latest(k)[i] # NIL => Latest(k)[i].supplier \in Suppliers(i)'
    BY <1>1, LatestSuppliers, SuppliersGrow
<1>3. step[c] # "new" => job'[c] = job[c]
    BY DEF Goes
<1>4. CASE Creates(c, ch)
  <2>1. /\ i = c /\ ch[i] = job[c].row /\ ch[i] # NIL /\ job[c].op = "create"
        /\ job'[c] = job[c] /\ c \in writers'[c]
      BY <1>1, <1>3, <1>4 DEF Creates, Change, JobFits
  <2> QED
      BY <2>1 DEF Suppliers
<1>5. CASE Saves(c, k, ch)
  <2>1. /\ i = job[c].id /\ job[c].op = "update" /\ job'[c] = job[c] /\ c \in writers'[i]
      BY <1>1, <1>3, <1>5 DEF Saves, Change, JobFits
  <2>2. PICK row \in Entries :
           /\ ch = Change(job[c].id, row)
           /\ \/ row.supplier = job[c].row.supplier
              \/ Latest(k)[job[c].id] # NIL /\ row.supplier = Latest(k)[job[c].id].supplier
      BY <1>5 DEF Saves
  <2>3. ch[i] = row /\ row # NIL
      BY <2>1, <2>2, DirectoryAssumption DEF Change
  <2>4. job[c].row.supplier \in Suppliers(i)'
      BY <2>1 DEF Suppliers
  <2> QED
      BY <2>1, <2>2, <2>3, <2>4, <1>2
<1>6. CASE SoftDeletes(c, k, ch)
  <2>1. i = job[c].id /\ ch[i] # NIL /\ TableOf(i) = "store"
      BY <1>6, SoftDeleteRow, ZenonT(30)
  <2>2. ch[i] = [Latest(k)[i] EXCEPT !.removed = TRUE]
      BY <1>6, <2>1 DEF SoftDeletes, Change
  <2>3. Latest(k)[i] \in Entries /\ Latest(k)[i] # NIL
    <3>1. Latest(k)[i] # NIL
      <4>1. step[c] = "softDelete" /\ entries[i] # NIL /\ ConnectionFits(k)
            /\ Latest(k)[i] = IF i \in Pending(k) THEN pool[k].writes[i] ELSE entries[i]
          BY <1>1, <1>6, <2>1, BaseParts, LatestRows DEF SoftDeletes, JobFits
      <4> QED
          BY <4>1, <2>1 DEF ConnectionFits
    <3> QED
        BY <3>1, <1>1, RowsFit
  <2>4. ch[i].supplier = Latest(k)[i].supplier
      BY <2>2, <2>3 DEF Entries
  <2> QED
      BY <2>1, <2>3, <2>4, <1>2
<1>7. CASE Deletes(c, k, ch)
  <2>1. /\ ch[i] = NIL /\ i \in Using(Latest(k), "source", job[c].id) \cup {job[c].id}
        /\ answer'[c] = "ok" /\ job[c].op = "remove" /\ job'[c] = job[c]
      BY <1>1, <1>3, <1>7 DEF Deletes, JobFits, RemovesSupplier
  <2>2. job[c].id \in Suppliers(i)' \cup {i}
    <3>1. CASE i \in Using(Latest(k), "source", job[c].id)
      <4>1. Latest(k)[i] # NIL /\ Latest(k)[i].supplier = job[c].id
          BY <3>1 DEF Using, LiveIn, Live, Present
      <4> QED
          BY <4>1, <1>2
    <3>2. CASE i = job[c].id
        BY <3>2
    <3> QED
        BY <2>1, <3>1, <3>2
  <2> QED
      BY <2>1, <2>2 DEF RemovalAnswered
<1>8. ch # NoChange
    BY NoChangeFacts
<1> QED
    BY <1>4, <1>5, <1>6, <1>7, <1>8 DEF Statement

LEMMA SuppliersStay ==
    ASSUME Base, Base', SuppliersFit, NEW c \in Requests, NEW k \in Connections, Moves(c, k)
    PROVE  SuppliersFit'
<1>1. Goes(c, k) /\ entries \in DirectoryRows /\ entries' \in DirectoryRows /\ Requests \subseteq Ids
  <2>1. RowTypes'
      BY TypesWillBe DEF Moves
  <2> QED
      BY <2>1, BaseParts, TypesAre DEF Moves, RowTypes, Ids
<1>2. \A i \in Requests : entries[i] # NIL => entries[i].supplier \in Suppliers(i)'
    BY <1>1, SuppliersGrow DEF SuppliersFit, SupplierGiven, DirectoryRows
<1>3. \A l \in Connections : \A i \in Pending(l) \cap Requests :
          /\ pool[l].writes[i] # NIL => pool[l].writes[i].supplier \in Suppliers(i)'
          /\ pool[l].writes[i] = NIL => RemovalAnswered(i)'
    BY <1>1, SuppliersGrow DEF SuppliersFit, SupplierGiven, Pending
<1>4. ASSUME \A i \in Requests : entries'[i] # NIL => entries'[i].supplier \in Suppliers(i)',
             \A l \in Connections : \A i \in Pending(l)' \cap Requests :
                /\ pool'[l].writes[i] # NIL => pool'[l].writes[i].supplier \in Suppliers(i)'
                /\ pool'[l].writes[i] = NIL => RemovalAnswered(i)'
      PROVE  SuppliersFit'
    BY <1>1, <1>4 DEF SuppliersFit, SupplierGiven, Pending, DirectoryRows
<1>5. ASSUME NEW ch, Committing(c, k, ch) PROVE SuppliersFit'
  <2>1. Statement(c, k, ch) /\ Commits(k, ch) /\ RowsOfIds(ch)
      BY <1>1, <1>5, StatementRows DEF Committing
  <2>2. \A i \in Ids : entries'[i] = IF i \in DOMAIN ch THEN ch[i]
                  ELSE IF i \in Pending(k) THEN pool[k].writes[i] ELSE entries[i]
      BY <2>1, CommitRows
  <2>3. \A i \in DOMAIN ch \cap Requests : ch[i] # NIL => ch[i].supplier \in Suppliers(i)'
      BY <1>1, <2>1, StatementSuppliers
  <2>4. \A i \in Requests : entries'[i] # NIL => entries'[i].supplier \in Suppliers(i)'
      BY <1>1, <1>2, <1>3, <2>2, <2>3
  <2>5. Pending(k)' = {} /\ \A l \in Connections : l # k => pool'[l] = pool[l] /\ Pending(l)' = Pending(l)
      BY <2>1 DEF Commits, Pending
  <2> QED
      BY <1>3, <1>4, <2>4, <2>5
<1>6. ASSUME NEW ch, Deferring(c, k, ch) PROVE SuppliersFit'
  <2>1. Statement(c, k, ch) /\ Defers(k, ch) /\ RowsOfIds(ch) /\ RowsOfIds(pool[k].writes)
      BY <1>1, <1>6, StatementRows, BaseParts, LatestRows DEF Deferring
  <2>2. /\ entries' = entries
        /\ \A l \in Connections : l # k => pool'[l] = pool[l] /\ Pending(l)' = Pending(l)
        /\ pool'[k].writes = Over(ch, pool[k].writes)
      BY <2>1 DEF Defers, Pending
  <2>3. /\ DOMAIN Over(ch, pool[k].writes) = DOMAIN ch \cup DOMAIN pool[k].writes
        /\ \A i \in DOMAIN ch \cup DOMAIN pool[k].writes : Over(ch, pool[k].writes)[i] =
               IF i \in DOMAIN ch THEN ch[i] ELSE pool[k].writes[i]
      BY <2>1, OverChanges
  <2>4. \A i \in DOMAIN ch \cap Requests :
            /\ ch[i] # NIL => ch[i].supplier \in Suppliers(i)'
            /\ ch[i] = NIL => RemovalAnswered(i)'
      BY <1>1, <2>1, StatementSuppliers
  <2>5. \A i \in Pending(k)' \cap Requests :
            /\ pool'[k].writes[i] # NIL => pool'[k].writes[i].supplier \in Suppliers(i)'
            /\ pool'[k].writes[i] = NIL => RemovalAnswered(i)'
      BY <2>2, <2>3, <2>4, <1>3 DEF Pending
  <2> QED
      BY <1>2, <1>3, <1>4, <2>2, <2>5
<1>7. ASSUME Dropping(c) PROVE SuppliersFit'
  <2>1. entries' = entries /\ \A l \in Connections : pool'[l] = pool[l] \/ pool'[l] = Idle
      BY <1>7 DEF Dropping, Drops
  <2>2. \A l \in Connections : (pool'[l] = pool[l] /\ Pending(l)' = Pending(l)) \/ Pending(l)' = {}
      BY <2>1, IdleFits DEF Pending
  <2> QED
      BY <1>2, <1>3, <1>4, <2>1, <2>2
<1> QED
    BY <1>5, <1>6, <1>7 DEF Moves

\* A live row that waits is the source that its transaction was opened for.
LEMMA PendingLive ==
    ASSUME Base, NEW k \in Connections, NEW i \in Pending(k),
           pool[k].writes[i] # NIL, ~ pool[k].writes[i].removed
    PROVE  /\ i \in Requests /\ TableOf(i) = "source" /\ entries[i] = NIL
           /\ job[i].op = "create"
<1>1. ConnectionFits(k) /\ pool[k] \in Holdings
    BY BaseParts
<1>2. pool[k].open /\ pool[k].by = NIL /\ i = pool[k].opener /\ entries[i] = NIL
    BY <1>1 DEF ConnectionFits, Holdings
<1>3. i \in Requests /\ job[i].row.table = "source" /\ job[i].op = "create"
    BY <1>1, <1>2 DEF ConnectionFits, Holdings
<1>4. i \notin DOMAIN Initial
    BY <1>3, DirectoryAssumption
<1> QED
    BY <1>2, <1>3, <1>4 DEF TableOf

\* What waits, waits in a transaction that a source creation left open.
Waiting(i) == \E k \in Connections : i \in Pending(k)

LEMMA WaitingIsLeftOpen == ASSUME Base, NEW i, Waiting(i) PROVE LeftOpen(i)
<1>1. PICK k \in Connections : i \in Pending(k)
    BY DEF Waiting
<1>2. ConnectionFits(k) /\ pool[k] \in Holdings
    BY BaseParts
<1>3. pool[k].open /\ pool[k].by = NIL
    BY <1>1, <1>2 DEF ConnectionFits, Holdings
<1> QED
    BY <1>1, <1>2, <1>3 DEF ConnectionFits, LeftOpen, Free

\* What waits goes on to wait, goes with its connection, or is committed.
LEMMA WaitingGoesOn ==
    ASSUME Base, NEW c \in Requests, NEW k \in Connections, Moves(c, k), NEW i \in Ids, Waiting(i)
    PROVE  \/ Waiting(i)' \/ i \in closed'
           \/ i \in Pending(k) /\ \E ch : Statement(c, k, ch) /\ Commits(k, ch)
<1>1. PICK l \in Connections : i \in Pending(l)
    BY DEF Waiting
<1>2. ASSUME NEW ch, Committing(c, k, ch), l # k PROVE Waiting(i)'
    BY <1>1, <1>2 DEF Committing, Commits, Waiting, Pending
<1>3. ASSUME NEW ch, Deferring(c, k, ch) PROVE Waiting(i)'
  <2>1. Statement(c, k, ch) /\ Defers(k, ch) /\ RowsOfIds(ch) /\ RowsOfIds(pool[k].writes)
      BY <1>3, StatementRows, BaseParts, LatestRows DEF Deferring, Moves
  <2>2. \A m \in Connections : m # k => pool'[m] = pool[m]
      BY <2>1 DEF Defers
  <2>3. Pending(k) \subseteq Pending(k)'
    <3>1. DOMAIN Over(ch, pool[k].writes) = DOMAIN ch \cup DOMAIN pool[k].writes
        BY <2>1, OverChanges
    <3>2. pool'[k].writes = Over(ch, pool[k].writes)
        BY <2>1 DEF Defers
    <3> QED
        BY <3>1, <3>2 DEF Pending
  <2>4. i \in Pending(l)'
      BY <1>1, <2>2, <2>3 DEF Pending
  <2> QED
      BY <2>4 DEF Waiting
<1>4. ASSUME Dropping(c) PROVE Waiting(i)' \/ i \in closed'
  <2>1. pool'[l] = pool[l] \/ Pending(l) \subseteq closed'
      BY <1>4 DEF Dropping, Drops
  <2> QED
      BY <1>1, <2>1 DEF Waiting, Pending
<1> QED
    BY <1>1, <1>2, <1>3, <1>4 DEF Moves, Committing

\* AnsweredIsKept, for one call.
CreatedIsKept(d) ==
    answer[d] = "ok" /\ job[d].op = "create" =>
        \/ entries[d] # NIL \/ Waiting(d) \/ d \in closed \/ RemovalAnswered(d)
RemovedIsKept(d) ==
    answer[d] = "ok" /\ job[d].op = "remove" =>
        \/ job[d].id \notin Live(entries) \/ Waiting(job[d].id) \/ job[d].id \in closed
        \/ \E e \in overtaken : /\ answer[e] = "ok" /\ job[e].op = "update"
                                /\ job[e].id = job[d].id

KeptInv ==
    /\ LoadedInv /\ SuppliersFit
    /\ \A d \in Requests : CreatedIsKept(d) /\ RemovedIsKept(d)

LEMMA KeptIsKept == KeptInv => AnsweredIsKept
<1> SUFFICES ASSUME KeptInv, NEW d \in Requests
             PROVE  /\ answer[d] = "ok" /\ job[d].op = "create" =>
                          \/ Present(entries, job[d].id) \/ LeftOpen(job[d].id) \/ job[d].id \in closed
                          \/ \E e \in Requests : /\ answer[e] = "ok" /\ job[e].op = "remove"
                                                 /\ job[e].id \in Suppliers(job[d].id) \cup {job[d].id}
                    /\ answer[d] = "ok" /\ job[d].op = "remove" =>
                          \/ job[d].id \notin Live(entries) \/ LeftOpen(job[d].id) \/ job[d].id \in closed
                          \/ \E e \in overtaken : /\ answer[e] = "ok" /\ job[e].op = "update"
                                                  /\ job[e].id = job[d].id
    BY DEF AnsweredIsKept
<1>1. Base /\ CreatedIsKept(d) /\ RemovedIsKept(d)
    BY DEF KeptInv, LoadedInv
<1>2. job[d].op = "create" => job[d].id = d
    BY <1>1, BaseParts DEF JobFits
<1>3. Waiting(job[d].id) => LeftOpen(job[d].id)
    BY <1>1, WaitingIsLeftOpen
<1> QED
    BY <1>1, <1>2, <1>3 DEF CreatedIsKept, RemovedIsKept, RemovalAnswered, Present

\* A created row that a step has taken away had been asked to be removed.
LEMMA CreatedStays ==
    ASSUME Base, SuppliersFit, NEW c \in Requests, NEW k \in Connections, Moves(c, k),
           NEW d \in Requests, d # c, CreatedIsKept(d)
    PROVE  CreatedIsKept(d)'
<1>1. Goes(c, k) /\ d \in Ids /\ entries \in DirectoryRows
    BY BaseParts, LatestRows DEF Moves, Ids
<1>2. answer'[d] = answer[d] /\ job'[d] = job[d] /\ closed \subseteq closed'
    BY <1>1 DEF Goes
<1>3. RemovalAnswered(d) => RemovalAnswered(d)'
    BY <1>1, SuppliersGrow
<1>4. ASSUME NEW ch, Statement(c, k, ch), Commits(k, ch), entries[d] # NIL \/ d \in Pending(k)
      PROVE  entries'[d] # NIL \/ RemovalAnswered(d)'
  <2>1. RowsOfIds(ch)
      BY <1>1, <1>4, StatementRows
  <2>2. entries'[d] = IF d \in DOMAIN ch THEN ch[d]
                  ELSE IF d \in Pending(k) THEN pool[k].writes[d] ELSE entries[d]
      BY <1>1, <1>4, <2>1, CommitRows
  <2>3. d \in DOMAIN ch /\ ch[d] = NIL => RemovalAnswered(d)'
      BY <1>1, <1>4, StatementSuppliers
  <2>4. d \in Pending(k) /\ pool[k].writes[d] = NIL => RemovalAnswered(d)
      BY DEF SuppliersFit
  <2> QED
      BY <1>3, <1>4, <2>2, <2>3, <2>4
<1>5. entries[d] # NIL => entries'[d] # NIL \/ RemovalAnswered(d)'
  <2>1. entries' = entries \/ \E ch : Statement(c, k, ch) /\ Commits(k, ch)
      BY DEF Moves, Committing, Deferring, Defers, Dropping, Drops
  <2> QED
      BY <2>1, <1>4
<1>6. Waiting(d) => Waiting(d)' \/ d \in closed' \/ entries'[d] # NIL \/ RemovalAnswered(d)'
    BY <1>1, <1>4, WaitingGoesOn
<1> QED
    BY <1>2, <1>3, <1>5, <1>6 DEF CreatedIsKept

\* A creation that is answered has left its row.
LEMMA CreatedNow ==
    ASSUME Base, NEW c \in Requests, NEW k \in Connections, Moves(c, k)
    PROVE  CreatedIsKept(c)'
<1>1. Goes(c, k) /\ JobFits(c) /\ job[c] \in Jobs /\ c \in Ids
    BY BaseParts DEF Moves, Ids
<1> SUFFICES ASSUME answer'[c] = "ok", job'[c].op = "create"
             PROVE  entries'[c] # NIL \/ Waiting(c)'
    BY DEF CreatedIsKept
<1>2. ASSUME NEW ch, Statement(c, k, ch), Answers(c, k, ch)
      PROVE  ch = Change(c, job[c].row) /\ job[c].row # NIL /\ RowsOfIds(ch)
  <2>1. Creates(c, ch)
    <3>1. Creates(c, ch) \/ SoftDeletes(c, k, ch) \/ Deletes(c, k, ch)
        BY <1>2 DEF Answers
    <3>2. SoftDeletes(c, k, ch) \/ Deletes(c, k, ch) => job[c].op = "remove" /\ job'[c] = job[c]
        BY <1>1 DEF SoftDeletes, Deletes, JobFits, RemovesSupplier, Goes
    <3> QED
        BY <3>1, <3>2
  <2> QED
      BY <2>1, <1>1, <1>2, StatementRows DEF Creates, JobFits
<1>3. ASSUME NEW ch, Committing(c, k, ch) PROVE entries'[c] # NIL
  <2>1. ch = Change(c, job[c].row) /\ job[c].row # NIL /\ RowsOfIds(ch) /\ Commits(k, ch)
      BY <1>2, <1>3 DEF Committing
  <2>2. DOMAIN ch = {c} /\ ch[c] = job[c].row
      BY <2>1 DEF Change
  <2> QED
      BY <1>1, <2>1, <2>2, CommitRows
<1>4. ASSUME NEW ch, Deferring(c, k, ch) PROVE Waiting(c)'
  <2>1. ch = Change(c, job[c].row) /\ RowsOfIds(ch) /\ Defers(k, ch) /\ RowsOfIds(pool[k].writes)
      BY <1>2, <1>4, BaseParts, LatestRows DEF Deferring
  <2>2. DOMAIN Over(ch, pool[k].writes) = DOMAIN ch \cup DOMAIN pool[k].writes /\ c \in DOMAIN ch
      BY <2>1, OverChanges DEF Change
  <2> QED
      BY <2>1, <2>2 DEF Defers, Waiting, Pending
<1>5. ASSUME Dropping(c) PROVE entries'[c] # NIL
    BY <1>5 DEF Dropping, Drops
<1> QED
    BY <1>3, <1>4, <1>5 DEF Moves

\* A removed row that a step has brought back was saved by an update that was overtaken.
LEMMA RemovedStays ==
    ASSUME LoadedInv, NEW c \in Requests, NEW k \in Connections, Moves(c, k),
           NEW d \in Requests, d # c, RemovedIsKept(d)
    PROVE  RemovedIsKept(d)'
<1>1. Base /\ Goes(c, k) /\ JobFits(d) /\ job[d] \in Jobs /\ RowMade(c) /\ LoadedIsLive(c)
    BY BaseParts DEF LoadedInv, Moves
<1>2. answer'[d] = answer[d] /\ job'[d] = job[d] /\ closed \subseteq closed'
    BY <1>1 DEF Goes
<1> SUFFICES ASSUME answer[d] = "ok", job[d].op = "remove"
             PROVE  \/ job[d].id \notin Live(entries)' \/ Waiting(job[d].id)' \/ job[d].id \in closed'
                    \/ \E e \in overtaken' : /\ answer'[e] = "ok" /\ job'[e].op = "update"
                                             /\ job'[e].id = job[d].id
  <2>1. \A i : i = job[d].id => (Waiting(i)' <=> Waiting(job[d].id)')
      BY <1>2 DEF Waiting
  <2> QED
      BY <1>2, <2>1 DEF RemovedIsKept
<1>3. PICK n \in Ids : n = job[d].id
    BY <1>1 DEF JobFits, Jobs
<1>4. TableOf(n) \in {"store", "supplier"} /\ d # n
    BY <1>1, <1>3 DEF JobFits
<1>5. ~ (n = c /\ writers[c] = {})
    BY <1>1, <1>3 DEF RowMade
<1>6. ASSUME NEW ch, Saves(c, k, ch), n = job[c].id, c \in overtaken'
      PROVE  \E e \in overtaken' : answer'[e] = "ok" /\ job'[e].op = "update" /\ job'[e].id = n
  <2>1. answer'[c] = "ok" /\ job[c].op = "update" /\ job'[c] = job[c]
      BY <1>1, <1>6, BaseParts DEF Saves, JobFits, Goes
  <2> QED
      BY <2>1, <1>6
<1>7. CASE n \notin Live(entries) /\ n \in Live(entries)'
  <2>1. \/ \E ch : Commits(k, ch) /\ Saves(c, k, ch) /\ n = job[c].id
        \/ \E ch : Commits(k, ch) /\ Creates(c, ch) /\ n = c /\ writers[c] = {}
        \/ Free(k) /\ n \in Pending(k) /\ n = pool[k].opener /\ n \notin retired
      BY <1>1, <1>7, NewlyLive
  <2>2. ~ (Free(k) /\ n \in Pending(k) /\ n = pool[k].opener)
    <3> SUFFICES ASSUME Free(k), n \in Pending(k), n = pool[k].opener PROVE FALSE
        OBVIOUS
    <3>1. ConnectionFits(k) /\ pool[k] \in Holdings
        BY <1>1, BaseParts
    <3>2. pool[k].open /\ n \in Requests /\ job[n].row.table = "source" /\ n \notin DOMAIN Initial
        BY <3>1, DirectoryAssumption DEF ConnectionFits, Free, Holdings
    <3> QED
        BY <3>2, <1>4 DEF TableOf
  <2>3. PICK ch : Saves(c, k, ch) /\ n = job[c].id
      BY <2>1, <2>2, <1>5
  <2>4. c \in overtaken'
      BY <1>1, <1>7, <2>3 DEF LoadedIsLive, Saves, Goes
  <2> QED
      BY <2>3, <2>4, <1>3, <1>6
<1>8. CASE n \in Live(entries) /\ n \in Live(entries)' /\ Waiting(n)
  <2>1. \/ Waiting(n)' \/ n \in closed'
        \/ n \in Pending(k) /\ \E ch : Statement(c, k, ch) /\ Commits(k, ch)
      BY <1>1, <1>8, WaitingGoesOn
  <2>2. ASSUME n \in Pending(k), NEW ch, Statement(c, k, ch), Commits(k, ch)
        PROVE  \E e \in overtaken' : answer'[e] = "ok" /\ job'[e].op = "update" /\ job'[e].id = n
    <3>1. RowsOfIds(ch) /\ entries'[n] = IF n \in DOMAIN ch THEN ch[n] ELSE pool[k].writes[n]
        BY <1>1, <2>2, StatementRows, CommitRows
    <3>2. pool[k].writes[n] = NIL \/ pool[k].writes[n].removed
        BY <1>1, <1>4, <2>2, PendingLive
    <3>3. n \notin Live(Latest(k))
      <4>1. Latest(k)[n] = pool[k].writes[n]
          BY <1>1, <2>2, BaseParts, LatestRows
      <4> QED
          BY <3>2, <4>1 DEF Live, Present
    <3>4. entries'[n] # NIL /\ ~ entries'[n].removed
        BY <1>8 DEF Live, Present
    <3>5. n \in DOMAIN ch /\ ch[n] # NIL /\ ~ ch[n].removed
        BY <3>1, <3>2, <3>4
    <3>6. Saves(c, k, ch) /\ n = job[c].id
      <4>1. ASSUME Creates(c, ch) PROVE FALSE
        <5>1. n = c
            BY <4>1, <3>5 DEF Creates, Change
        <5>2. step[c] \in {"insert", "source", "order"}
            BY <4>1 DEF Creates
        <5> QED
            BY <5>1, <5>2, <1>1, <1>5 DEF RowMade
      <4>2. ASSUME Saves(c, k, ch) PROVE n = job[c].id
          BY <4>2, <3>5 DEF Saves, Change
      <4>3. ~ SoftDeletes(c, k, ch)
        <5>1. ASSUME SoftDeletes(c, k, ch) PROVE n = job[c].id
            BY <5>1, <1>1, <3>5, SoftDeleteRow
        <5> QED
            BY <5>1, <1>1, <3>5, SoftDeleteRow
      <4>4. ~ Deletes(c, k, ch)
          BY <3>5 DEF Deletes
      <4>5. ch # NoChange
          BY <3>5, NoChangeFacts
      <4> QED
          BY <4>1, <4>2, <4>3, <4>4, <4>5, <2>2 DEF Statement
    <3>7. c \in overtaken'
      <4>1. c \in Going
          BY <3>6 DEF Going, Saves
      <4> QED
          BY <4>1, <3>3, <3>6, <1>8, <2>2 DEF Commits
    <3> QED
        BY <3>6, <3>7, <1>6
  <2>3. Waiting(n)' => Waiting(job[d].id)'
      BY <1>2, <1>3 DEF Waiting
  <2> QED
      BY <2>1, <2>2, <2>3, <1>3
<1>9. CASE n \in closed
    BY <1>2, <1>3, <1>9
<1>10. ASSUME NEW e \in overtaken, answer[e] = "ok", job[e].op = "update", job[e].id = n
       PROVE  e \in overtaken' /\ answer'[e] = "ok" /\ job'[e].op = "update" /\ job'[e].id = n
  <2>1. e \in Requests /\ e # c
      BY <1>1, <1>10, BaseParts DEF DirectoryTypeOK, JobFits, Goes
  <2> QED
      BY <2>1, <1>1, <1>10 DEF Goes
<1>11. \/ n \notin Live(entries) \/ Waiting(n) \/ n \in closed
       \/ \E e \in overtaken : answer[e] = "ok" /\ job[e].op = "update" /\ job[e].id = n
    BY <1>3 DEF RemovedIsKept
<1> QED
    BY <1>3, <1>7, <1>8, <1>9, <1>10, <1>11

\* A removal that is answered has taken its row away, or waits.
LEMMA RemovedNow ==
    ASSUME Base, NEW c \in Requests, NEW k \in Connections, Moves(c, k)
    PROVE  RemovedIsKept(c)'
<1>1. Goes(c, k) /\ JobFits(c) /\ job[c] \in Jobs /\ c \in Ids
    BY BaseParts DEF Moves, Ids
<1> SUFFICES ASSUME answer'[c] = "ok", job'[c].op = "remove"
             PROVE  job'[c].id \notin Live(entries)' \/ Waiting(job[c].id)'
    BY DEF RemovedIsKept
<1>2. ASSUME NEW ch, Statement(c, k, ch), Answers(c, k, ch)
      PROVE  /\ job'[c] = job[c] /\ job[c].id \in Ids /\ RowsOfIds(ch) /\ job[c].id \in DOMAIN ch
             /\ ch[job[c].id] = NIL \/ ch[job[c].id].removed
  <2>1. SoftDeletes(c, k, ch) \/ Deletes(c, k, ch)
    <3>1. Creates(c, ch) \/ SoftDeletes(c, k, ch) \/ Deletes(c, k, ch)
        BY <1>2 DEF Answers
    <3>2. Creates(c, ch) => job[c].op = "create" /\ job'[c] = job[c]
        BY <1>1 DEF Creates, JobFits, Goes
    <3> QED
        BY <3>1, <3>2
  <2>2. job'[c] = job[c] /\ job[c].id \in Ids
      BY <1>1, <2>1 DEF SoftDeletes, Deletes, Goes, JobFits, Jobs
  <2>3. RowsOfIds(ch)
      BY <1>1, <1>2, StatementRows
  <2>4. Deletes(c, k, ch) => job[c].id \in DOMAIN ch /\ ch[job[c].id] = NIL
      BY DEF Deletes
  <2> QED
      BY <2>1, <2>2, <2>3, <2>4, SoftDeleteRow
<1>3. ASSUME NEW ch, Committing(c, k, ch) PROVE job'[c].id \notin Live(entries)'
  <2>1. PICK n \in Ids : n = job[c].id
      BY <1>2, <1>3 DEF Committing
  <2>2. /\ RowsOfIds(ch) /\ Commits(k, ch) /\ n \in DOMAIN ch /\ (ch[n] = NIL \/ ch[n].removed)
        /\ job'[c].id = n
      BY <1>2, <1>3, <2>1 DEF Committing
  <2>3. entries'[n] = ch[n]
      BY <2>2, CommitRows
  <2> QED
      BY <2>2, <2>3 DEF Live, Present
<1>4. ASSUME NEW ch, Deferring(c, k, ch) PROVE Waiting(job[c].id)'
  <2>1. /\ RowsOfIds(ch) /\ Defers(k, ch) /\ job[c].id \in DOMAIN ch /\ RowsOfIds(pool[k].writes)
        /\ job'[c] = job[c]
      BY <1>2, <1>4, BaseParts, LatestRows DEF Deferring
  <2>2. DOMAIN Over(ch, pool[k].writes) = DOMAIN ch \cup DOMAIN pool[k].writes
      BY <2>1, OverChanges
  <2> QED
      BY <2>1, <2>2 DEF Defers, Waiting, Pending
<1>5. ~ Dropping(c)
    BY DEF Dropping
<1> QED
    BY <1>3, <1>4, <1>5 DEF Moves

LEMMA KeptInit == DirectoryInit => KeptInv
<1> SUFFICES ASSUME DirectoryInit PROVE KeptInv
    OBVIOUS
<1>1. LoadedInv
    BY LoadedInit
<1>2. \A i \in Requests : entries[i] = NIL
    BY DirectoryAssumption DEF DirectoryInit, Ids
<1>3. \A k \in Connections : DOMAIN pool[k].writes = {}
    BY NoChangeFacts DEF DirectoryInit, Idle
<1>4. SuppliersFit
    BY <1>2, <1>3 DEF SuppliersFit, SupplierGiven, Pending
<1>5. \A d \in Requests : answer[d] = "none"
    BY DEF DirectoryInit
<1> QED
    BY <1>1, <1>4, <1>5 DEF KeptInv, CreatedIsKept, RemovedIsKept

\* A step of no call changes nothing of this.
LEMMA KeptUnchanged ==
    ASSUME KeptInv, LoadedInv', UNCHANGED <<entries, overtaken, job, answer, writers>>,
           closed \subseteq closed',
           \A k \in Connections :
               pool'[k] = pool[k] \/ (Pending(k)' = {} /\ Pending(k) \subseteq closed')
    PROVE  KeptInv'
<1>1. \A k \in Connections : \/ Pending(k)' = Pending(k) /\ pool'[k] = pool[k]
                             \/ Pending(k)' = {} /\ Pending(k) \subseteq closed'
    BY DEF Pending
<1>2. \A i : Suppliers(i)' = Suppliers(i) /\ RemovalAnswered(i)' = RemovalAnswered(i)
    BY DEF Suppliers, RemovalAnswered
<1>3. SupplierGiven(entries)'
    BY <1>2 DEF KeptInv, SuppliersFit, SupplierGiven
<1>4. ASSUME NEW k \in Connections
      PROVE  /\ SupplierGiven(pool[k].writes)'
             /\ \A i \in Pending(k)' \cap Requests : pool'[k].writes[i] = NIL => RemovalAnswered(i)'
  <2>1. CASE Pending(k)' = {}
      BY <2>1 DEF SupplierGiven, Pending
  <2>2. CASE Pending(k)' = Pending(k) /\ pool'[k] = pool[k]
      BY <2>2, <1>2 DEF KeptInv, SuppliersFit, SupplierGiven
  <2> QED
      BY <2>1, <2>2, <1>1
<1>5. SuppliersFit'
    BY <1>3, <1>4 DEF SuppliersFit
<1>6. \A i : Waiting(i) => Waiting(i)' \/ i \in closed'
    BY <1>1 DEF Waiting
<1>7. ASSUME NEW d \in Requests PROVE CreatedIsKept(d)'
    BY <1>2, <1>6 DEF KeptInv, CreatedIsKept
<1>8. ASSUME NEW d \in Requests PROVE RemovedIsKept(d)'
  <2>1. RemovedIsKept(d) /\ Live(entries)' = Live(entries)
      BY DEF KeptInv, Live, Present
  <2>2. Waiting(job[d].id) => Waiting(job[d].id)' \/ job[d].id \in closed'
    <3>1. PICK n : n = job[d].id
        OBVIOUS
    <3>2. Waiting(n)' <=> Waiting(job[d].id)'
        BY <3>1 DEF Waiting
    <3> QED
        BY <3>1, <3>2, <1>6
  <2> QED
      BY <2>1, <2>2 DEF RemovedIsKept
<1> QED
    BY <1>5, <1>7, <1>8 DEF KeptInv

LEMMA KeptNext == ASSUME KeptInv, [DirectoryNext]_directoryVars PROVE KeptInv'
<1>1. Base /\ LoadedInv /\ LoadedInv' /\ Base' /\ SuppliersFit
    BY LoadedNext, BaseNext, BaseStutters DEF KeptInv, LoadedInv
<1>2. ASSUME NEW c \in Requests, NEW k \in Connections, Moves(c, k) PROVE KeptInv'
  <2>1. SuppliersFit'
      BY <1>1, <1>2, SuppliersStay
  <2>2. ASSUME NEW d \in Requests, d # c PROVE CreatedIsKept(d)' /\ RemovedIsKept(d)'
    <3>1. CreatedIsKept(d) /\ RemovedIsKept(d)
        BY DEF KeptInv
    <3>2. CreatedIsKept(d)'
        BY <3>1, <2>2, <1>1, <1>2, CreatedStays
    <3>3. RemovedIsKept(d)'
        BY <3>1, <2>2, <1>1, <1>2, RemovedStays
    <3> QED
        BY <3>2, <3>3
  <2>3. CreatedIsKept(c)' /\ RemovedIsKept(c)'
      BY <1>1, <1>2, CreatedNow, RemovedNow
  <2> QED
      BY <1>1, <2>1, <2>2, <2>3 DEF KeptInv
<1>3. ASSUME NEW k \in Connections, CloseConnection(k) PROVE KeptInv'
  <2>1. /\ UNCHANGED <<entries, overtaken, job, answer, writers>>
        /\ pool' = [pool EXCEPT ![k] = Idle] /\ closed' = closed \cup Pending(k)
      BY <1>3 DEF CloseConnection, unchangedRows
  <2>2. \A l \in Connections : pool'[l] = IF l = k THEN Idle ELSE pool[l]
      BY <2>1, <1>1, BaseParts, TypesAre DEF RowTypes
  <2>3. Pending(k)' = {}
      BY <2>2, NoChangeFacts DEF Pending, Idle
  <2> QED
      BY <2>1, <2>2, <2>3, <1>1, KeptUnchanged
<1>4. CASE UNCHANGED directoryVars
    BY <1>1, <1>4, KeptUnchanged DEF directoryVars
<1> QED
    BY <1>1, <1>2, <1>3, <1>4, StepMoves

\* A row that was answered as created or removed is so in the database, except for
\* what waits in a transaction that a source creation never ends, went with its
\* connection, was removed later, or was saved back by an overtaken update.
THEOREM AnswersAreKept == DirectorySpec => []AnsweredIsKept
<1>1. DirectoryInit => KeptInv
    BY KeptInit
<1>2. KeptInv /\ [DirectoryNext]_directoryVars => KeptInv'
    BY KeptNext
<1>3. KeptInv => AnsweredIsKept
    BY KeptIsKept
<1> QED
    BY <1>1, <1>2, <1>3, PTL DEF DirectorySpec

=============================================================================
