---------------------------- MODULE Assets_proofs -----------------------------
(***************************************************************************)
(* Proofs about Assets: which images are stored and which row they belong  *)
(* to, for any number of calls, rows and files.                            *)
(***************************************************************************)
EXTENDS Assets, TLAPS

-----------------------------------------------------------------------------
(* The rows that save() writes.                                            *)

\* save() writes the entity in memory when it compares it with the row as it
\* stands, or when the row is still as it was read.
LEMMA MergedIsRow ==
    ASSUME NEW c \in Edits, task[c].row \in ItemRows,
           items[task[c].id] \in ItemRows,
           \/ ~ (task[c].op = "update" /\ IsProduct(c))
           \/ items[task[c].id] = task[c].base
    PROVE  Merged(c) = task[c].row
<1> DEFINE r == task[c].row
           b == items[task[c].id]
           D == {"kind", "images", "status", "removed"}
<1>1. DOMAIN r = D /\ DOMAIN b = D
    BY DEF ItemRows
<1>2. Merged(c) = [f \in D |-> IF r[f] # b[f] THEN r[f] ELSE b[f]]
    BY <1>1 DEF Merged
<1>3. r = [f \in D |-> r[f]]
    BY <1>1 DEF ItemRows
<1> QED
    BY <1>2, <1>3

\* Otherwise each field is the entity's or the row's.
LEMMA MergedFields ==
    ASSUME NEW c \in Edits, task[c].row \in ItemRows, task[c].base \in ItemRows,
           items[task[c].id] \in ItemRows,
           task[c].op = "update", IsProduct(c)
    PROVE  /\ Merged(c) \in ItemRows
           /\ Merged(c).images \in {task[c].row.images, items[task[c].id].images}
<1> DEFINE r == task[c].row
           b == task[c].base
           s == items[task[c].id]
           D == {"kind", "images", "status", "removed"}
           m(f) == IF r[f] # b[f] THEN r[f] ELSE s[f]
<1>1. DOMAIN r = D
    BY DEF ItemRows
<1>2. Merged(c) = [f \in D |-> m(f)]
    BY <1>1 DEF Merged
<1>3. Merged(c) = [kind |-> m("kind"), images |-> m("images"),
                   status |-> m("status"), removed |-> m("removed")]
    BY <1>2
<1>4. /\ r.kind \in {"business", "user", "product"} /\ s.kind \in {"business", "user", "product"}
      /\ r.images \in SUBSET Images /\ s.images \in SUBSET Images
      /\ r.status \in Statuses /\ s.status \in Statuses
      /\ r.removed \in BOOLEAN /\ s.removed \in BOOLEAN
    BY DEF ItemRows
<1>5. Merged(c).images = m("images")
    BY <1>3
<1> QED
    BY <1>3, <1>4, <1>5 DEF ItemRows

-----------------------------------------------------------------------------
(* The steps of one call, and what they leave alone.                       *)

\* A live row has its images, or a reason why not (ImagesExist, for one row).
FilesStored(i) ==
    items[i] # NONE /\ ~ items[i].removed =>
        \/ items[i].images \subseteq cloud \cup claimed
        \/ i \in shared \cup broken
        \/ \E c \in About(i) : Clears(c)

\* A stored image of row i is the row's or a call's, or there is a reason
\* (OrphansAreExplained, for one image).
Explained(image, i) ==
    \/ items[i] # NONE /\ image \in items[i].images
    \/ \E c \in About(i) : image \in task[c].kept \cup task[c].drop
    \/ image \in excused
    \/ i \in shared

\* A step of call c once it has begun: it stays about its row, touches no other
\* row, deletes images of its row, or that a body named, and stores only what it
\* uploads itself.
CallMoves(c) ==
    /\ \A d \in Edits : d # c => phase'[d] = phase[d] /\ task'[d] = task[d]
    /\ phase[c] \notin {"new", "end"} /\ phase'[c] # "new"
    /\ phase[c] \notin {"clear", "upload"} => phase'[c] \notin {"clear", "upload"}
    /\ task'[c].id = task[c].id
    /\ \A i \in Items : i # task[c].id => items'[i] = items[i]
    /\ items[task[c].id] # NONE => items'[task[c].id] # NONE
    /\ \A image \in cloud : image \notin cloud' =>
           RowOf(image) = task[c].id \/ image \in claimed
    /\ \A image \in cloud' : image \notin cloud =>
           /\ image[1] = c /\ phase[c] = "upload"
           /\ phase'[c] \notin {"clear", "upload"}
    /\ excused \subseteq excused' /\ shared' = shared /\ broken \subseteq broken'
    /\ audited \subseteq audited' /\ claimed' = claimed

\* What such a step must show of its own call, row and images.
Fits(c) ==
    LET i == task[c].id IN
    /\ CallFits(c)
    /\ items[i] # NONE => Owned(items[i].images, i)
    /\ FilesStored(i)
    /\ \A image \in cloud : RowOf(image) = i => Explained(image, i)

\* A stored image is of some row.
LEMMA RowIsItem ==
    ASSUME AssetsTypeOK, RowsOwnImages, \A c \in Edits : CallFits(c), NEW image \in cloud
    PROVE  RowOf(image) \in Items
<1>1. image[1] \in Items /\ Uploaded(image)
    BY DEF AssetsTypeOK, Images, RowsOwnImages
<1>2. CASE image[1] \in Edits
  <2>1. phase[image[1]] # "new" /\ CallFits(image[1]) /\ task[image[1]] \in Tasks
      BY <1>1, <1>2 DEF Uploaded, AssetsTypeOK
  <2>2. task[image[1]].id \in Items
      BY <2>1 DEF CallFits, TaskFits, Tasks
  <2> QED
      BY <1>2, <2>2 DEF RowOf
<1> QED
    BY <1>1, <1>2 DEF RowOf

\* Where an image belongs does not change, and what is uploaded stays uploaded.
LEMMA ImagesStayWhere ==
    ASSUME AssetsTypeOK, NEW c \in Edits, CallMoves(c), NEW image \in Images
    PROVE  /\ RowOf(image)' = RowOf(image) /\ claimed' = claimed
           /\ Uploaded(image) => Uploaded(image)'
BY DEF CallMoves, RowOf, Uploaded, Images, Items

\* The calls about a row are the same but for c.
LEMMA AboutStays ==
    ASSUME NEW c \in Edits, CallMoves(c), NEW i
    PROVE  /\ About(i)' \subseteq About(i)
           /\ \A d \in About(i) : d # c => d \in About(i)'
           /\ i # task[c].id => c \notin About(i)
BY DEF CallMoves, About, Working

\* What a call under way deletes is of its own row, or was named by a body.
LEMMA TaskOwned ==
    ASSUME AssetsTypeOK, NEW c \in Working, CallFits(c)
    PROVE  /\ Owned(task[c].drop, task[c].id)
           /\ Owned(task[c].kept, task[c].id) /\ Owned(task[c].row.images, task[c].id)
           /\ task[c].id \in Items
<1>1. c \in Edits /\ phase[c] \notin {"new", "end"}
    BY DEF Working
<1>2. task[c] \in Tasks
    BY <1>1 DEF AssetsTypeOK
<1>3. TaskFits(c)
    BY DEF CallFits
<1>4. task[c].id \in Items
    BY <1>1, <1>2, <1>3 DEF TaskFits, Tasks
<1>5. /\ task[c].op \in {"create", "update", "remove"}
      /\ Owned(task[c].kept, task[c].id) /\ Owned(task[c].row.images, task[c].id)
      /\ task[c].op # "create" => task[c].base # NONE
      /\ task[c].base # NONE => Owned(task[c].base.images, task[c].id)
    BY <1>3 DEF TaskFits
<1>6. Owned(task[c].drop, task[c].id)
    BY <1>3 DEF TaskFits
<1> QED
    BY <1>4, <1>5, <1>6

\* Another call goes on as it was: what it has read, keeps and deletes is of its
\* own row, so that nothing it relies on is gone, unless both are about one row.
LEMMA OthersStay ==
    ASSUME AssetsInv, NEW c \in Edits, CallMoves(c), NEW d \in Edits, d # c
    PROVE  CallFits(d)'
<1>1. AssetsTypeOK /\ CallFits(c) /\ CallFits(d)
    BY DEF AssetsInv
<1> DEFINE t == task[d]
           i == task[c].id
<1>2. phase'[d] = phase[d] /\ task'[d] = t /\ t \in Tasks /\ c \in Working
    BY <1>1 DEF CallMoves, AssetsTypeOK, Working
<1>3. (d \in Working)' <=> d \in Working
    BY <1>2 DEF Working
<1>4. IsProduct(d)' = IsProduct(d)
    BY <1>2 DEF IsProduct
<1>5. i \in Items /\ (c \in Working => CallFits(c))
    BY <1>1, <1>2, TaskOwned
<1>6. \A image \in Images : /\ RowOf(image)' = RowOf(image) /\ claimed' = claimed
                            /\ Uploaded(image) => Uploaded(image)'
    BY <1>1, ImagesStayWhere
<1>7. d \in Working /\ t.id = i => i \in shared
  <2> SUFFICES ASSUME d \in Working, t.id = i, i \notin shared PROVE FALSE
      OBVIOUS
  <2>1. c \in About(i) /\ d \in About(i) /\ i \in Items \ shared
      BY <1>2, <1>5 DEF About
  <2> QED
      BY <2>1 DEF AssetsInv, CallsApart
<1>8. TaskFits(d)'
  <2>1. TaskFits(d)
      BY <1>1 DEF CallFits
  <2>2. phase[d] = "new" => i # d
    <3> SUFFICES ASSUME phase[d] = "new", i = d PROVE FALSE
        OBVIOUS
    <3>1. items[d] = NONE
        BY <2>1 DEF TaskFits
    <3> QED
        BY <1>1, <1>2, <3>1 DEF CallFits, TaskFits
  <2>3. phase[d] = "new" => items'[d] = NONE
      BY <2>1, <2>2 DEF TaskFits, CallMoves, Items
  <2>4. ASSUME d \in Working, t.op # "create" PROVE items'[t.id] # NONE
    <3>1. items[t.id] # NONE /\ t.id \in Items
        BY <2>1, <2>4, <1>1, TaskOwned DEF TaskFits
    <3> QED
        BY <3>1 DEF CallMoves
  <2>5. t.kept \in SUBSET Images /\ t.row.images \in SUBSET Images
        /\ t.drop \in SUBSET Images
        /\ (t.base # NONE => t.base.images \in SUBSET Images)
      BY <1>2 DEF Tasks, ItemRows
  <2>6. task'[d] = task[d]
      BY <1>2
  <2>7. ASSUME d \in Working
        PROVE  /\ Owned(t.kept, t.id)' /\ Owned(t.row.images, t.id)' /\ Owned(t.drop, t.id)'
               /\ t.base # NONE => Owned(t.base.images, t.id)'
    <3>1. /\ Owned(t.kept, t.id) /\ Owned(t.row.images, t.id) /\ Owned(t.drop, t.id)
          /\ t.base # NONE => Owned(t.base.images, t.id)
        BY <2>1, <2>7 DEF TaskFits
    <3>2. Owned(t.kept, t.id)'
        BY <3>1, <2>5, <2>6, <1>6 DEF Owned
    <3>3. Owned(t.row.images, t.id)'
        BY <3>1, <2>5, <2>6, <1>6 DEF Owned
    <3>4. t.base # NONE => Owned(t.base.images, t.id)'
        BY <3>1, <2>5, <2>6, <1>6 DEF Owned
    <3>5. Owned(t.drop, t.id)'
        BY <3>1, <2>5, <2>6, <1>6 DEF Owned
    <3> QED
        BY <3>2, <3>3, <3>4, <3>5
  <2>8. t' = t
      BY <1>2
  <2> QED
      BY <2>1, <2>3, <2>4, <2>7, <2>8, <1>2, <1>3 DEF TaskFits
<1>9. EntityFits(d)'
    BY <1>1, <1>2, <1>3, <1>4 DEF CallFits, EntityFits
<1>10. PhaseFits(d)'
    BY <1>1, <1>2, <1>4 DEF CallFits, PhaseFits, CallMoves, Undoes, StatusAccepted, IsProduct
<1>11. RowAgrees(d)'
  <2>1. ASSUME d \in Working, t.id \notin shared PROVE items'[t.id] = items[t.id]
    <3>1. t.id \in Items
        BY <2>1, <1>1, TaskOwned
    <3> QED
        BY <2>1, <1>7, <3>1 DEF CallMoves
  <2>2. RowAgrees(d)
      BY <1>1 DEF CallFits
  <2>3. shared' = shared /\ broken \subseteq broken' /\ excused \subseteq excused'
      BY DEF CallMoves
  <2> QED
      BY <2>1, <2>2, <2>3, <1>2, <1>3 DEF RowAgrees
<1>12. ImagesAgree(d)'
  <2>1. ImagesAgree(d)
      BY <1>1 DEF CallFits
  <2>2. ASSUME d \in Working, t.id \notin shared, t.row.images \subseteq cloud \cup claimed
        PROVE  t.row.images \subseteq cloud' \cup claimed'
    <3>1. \A image \in t.row.images : RowOf(image) = t.id \/ image \in claimed
        BY <2>2, <1>1, TaskOwned DEF Owned
    <3> QED
        BY <2>2, <3>1, <1>7 DEF CallMoves
  <2>3. ASSUME d \in Working, t.drop \cap cloud \subseteq excused
        PROVE  t.drop \cap cloud' \subseteq excused'
    <3>1. \A image \in t.drop : Uploaded(image)
        BY <2>3, <1>1, TaskOwned DEF Owned
    <3>2. \A image \in t.drop : image \in cloud' => image \in cloud
        BY <3>1 DEF Uploaded, CallMoves
    <3> QED
        BY <2>3, <3>2 DEF CallMoves
  <2>4. shared' = shared /\ broken \subseteq broken'
      BY DEF CallMoves
  <2> QED
      BY <2>1, <2>2, <2>3, <2>4, <1>2, <1>3, <1>4 DEF ImagesAgree
<1> QED
    BY <1>8, <1>9, <1>10, <1>11, <1>12 DEF CallFits

\* So a step of one call keeps the invariant when it keeps its own part of it.
LEMMA FrameStep ==
    ASSUME AssetsInv, AssetsTypeOK', NEW c \in Edits, CallMoves(c), Fits(c)'
    PROVE  AssetsInv'
<1>1. AssetsTypeOK /\ CallsApart /\ RowsOwnImages /\ ImagesExist
      /\ OrphansAreExplained /\ (\A d \in Edits : CallFits(d))
    BY DEF AssetsInv
<1>2. c \in Working
    BY DEF CallMoves, Working
<1>3. PICK i \in Items : i = task[c].id
    BY <1>1, <1>2, TaskOwned
<1>4. \A image \in Images : /\ RowOf(image)' = RowOf(image) /\ claimed' = claimed
                            /\ Uploaded(image) => Uploaded(image)'
    BY <1>1, ImagesStayWhere
<1>5. /\ (items[i] # NONE => Owned(items[i].images, i))'
      /\ FilesStored(i)'
      /\ (\A image \in cloud : RowOf(image) = i => Explained(image, i))'
      /\ CallFits(c)'
  <2>1. task'[c].id = i
      BY <1>3 DEF CallMoves
  <2> QED
      BY <2>1 DEF Fits
<1>6. \A d \in Edits : CallFits(d)'
    BY <1>5, OthersStay
<1>7. CallsApart'
  <2>1. shared' = shared /\ (\A j \in Items : About(j)' \subseteq About(j))
      BY AboutStays DEF CallMoves
  <2> QED
      BY <2>1, <1>1 DEF CallsApart
<1>8. RowsOwnImages'
  <2>1. ASSUME NEW j \in Items, items'[j] # NONE PROVE Owned(items[j].images, j)'
    <3>1. CASE j = i
        BY <3>1, <2>1, <1>5
    <3>2. CASE j # i
      <4>1. items'[j] = items[j] /\ items[j] # NONE
          BY <3>2, <2>1, <1>3 DEF CallMoves
      <4>2. Owned(items[j].images, j)
          BY <4>1, <1>1 DEF RowsOwnImages
      <4>3. items[j].images \in SUBSET Images
          BY <4>1, <1>1 DEF AssetsTypeOK, ItemRows
      <4> QED
          BY <4>1, <4>2, <4>3, <1>4 DEF Owned
    <3> QED
        BY <3>1, <3>2
  <2>2. ASSUME NEW image \in cloud' PROVE Uploaded(image)'
    <3>1. CASE image \in cloud
      <4>1. image \in Images /\ Uploaded(image)
          BY <3>1, <1>1 DEF RowsOwnImages, AssetsTypeOK
      <4> QED
          BY <4>1, <1>4
    <3>2. CASE image \notin cloud
        BY <3>2, <2>2 DEF CallMoves, Uploaded
    <3> QED
        BY <3>1, <3>2
  <2> QED
      BY <2>1, <2>2 DEF RowsOwnImages
<1>9. ImagesExist'
  <2>1. ASSUME NEW j \in Items PROVE FilesStored(j)'
    <3>1. CASE j = i
        BY <3>1, <1>5
    <3>2. CASE j # i
      <4>1. items'[j] = items[j]
          BY <3>2, <1>3 DEF CallMoves
      <4> SUFFICES ASSUME items[j] # NONE, ~ items[j].removed
                   PROVE  \/ items[j].images \subseteq cloud' \cup claimed'
                          \/ j \in shared' \cup broken'
                          \/ \E d \in About(j)' : Clears(d)'
          BY <4>1 DEF FilesStored
      <4>2. FilesStored(j)
          BY <1>1 DEF ImagesExist, FilesStored
      <4>3. CASE j \in shared \cup broken
          BY <4>3 DEF CallMoves
      <4>4. CASE items[j].images \subseteq cloud \cup claimed
        <5>1. \A image \in items[j].images : RowOf(image) = j \/ image \in claimed
            BY <1>1 DEF RowsOwnImages, Owned
        <5> QED
            BY <4>4, <5>1, <3>2, <1>3 DEF CallMoves
      <4>5. CASE \E d \in About(j) : Clears(d)
        <5>1. PICK d \in About(j) : Clears(d)
            BY <4>5
        <5>2. d # c /\ d \in About(j)' /\ d \in Edits
            BY <3>2, <1>3, AboutStays DEF About, Working
        <5>3. Clears(d)'
            BY <5>1, <5>2 DEF CallMoves, Clears, IsProduct
        <5> QED
            BY <5>2, <5>3
      <4> QED
          BY <4>2, <4>3, <4>4, <4>5 DEF FilesStored
    <3> QED
        BY <3>1, <3>2
  <2> QED
      BY <2>1 DEF ImagesExist, FilesStored
<1>10. OrphansAreExplained'
  <2>1. ASSUME NEW image \in cloud' PROVE Explained(image, RowOf(image))'
    <3>1. image \in Images
        BY DEF AssetsTypeOK
    <3>2. RowOf(image)' = RowOf(image)
        BY <3>1, <1>4
    <3>3. CASE RowOf(image) = i
        BY <3>2, <3>3, <1>5
    <3>4. CASE RowOf(image) # i
      <4>1. image \in cloud
          BY <3>4, <2>1, <1>3 DEF CallMoves, RowOf
      <4>2. PICK j \in Items : j = RowOf(image)
          BY <4>1, <1>1, RowIsItem
      <4>3. Explained(image, j)
          BY <4>1, <4>2, <1>1 DEF OrphansAreExplained, Explained
      <4>4. items'[j] = items[j]
          BY <3>4, <4>2, <1>3 DEF CallMoves
      <4>5. ASSUME NEW d \in About(j) PROVE d \in About(j)' /\ task'[d] = task[d]
        <5>1. d \in Edits /\ d # c
            BY <4>5, <3>4, <4>2, <1>3 DEF About, Working
        <5> QED
            BY <5>1, <4>5, AboutStays DEF CallMoves
      <4>6. Explained(image, j)'
          BY <4>3, <4>4, <4>5 DEF Explained, CallMoves
      <4> QED
          BY <4>2, <4>6, <3>2
    <3> QED
        BY <3>3, <3>4
  <2> QED
      BY <2>1 DEF OrphansAreExplained, Explained
<1> QED
    BY <1>6, <1>7, <1>8, <1>9, <1>10 DEF AssetsInv

-----------------------------------------------------------------------------
(* What the step of a call starts from.                                    *)

\* A call under way is about a row of its kind of operation.
LEMMA Under ==
    ASSUME AssetsInv, NEW c \in Edits, c \in Working
    PROVE  /\ task[c] \in Tasks /\ task[c].id \in Items /\ c \in Items
           /\ task[c].row \in ItemRows
           /\ task[c].op \in {"create", "update", "remove"}
           /\ task[c].op = "create" => task[c].id = c /\ task[c].base = NONE
           /\ task[c].op # "create" =>
                /\ task[c].base \in ItemRows /\ items[task[c].id] \in ItemRows
                /\ \A image \in task[c].base.images : image[1] # c
           /\ \A image \in task[c].kept : image[1] = c
           /\ \A image \in task[c].drop : image[1] # c
           /\ phase[c] \in Phases
           /\ phase[c] \notin {"new", "end"}
<1>1. AssetsTypeOK /\ CallFits(c) /\ phase[c] \notin {"new", "end"}
    BY DEF AssetsInv, Working
<1>2. task[c] \in Tasks /\ phase[c] \in Phases
    BY <1>1 DEF AssetsTypeOK
<1>3. task[c].id \in Items
    BY <1>1, TaskOwned
<1>4. items[task[c].id] \in ItemRows \cup {NONE}
    BY <1>1, <1>3 DEF AssetsTypeOK
<1>5. TaskFits(c)
    BY <1>1 DEF CallFits
<1>6. task[c].row \in ItemRows /\ task[c].base \in ItemRows \cup {NONE}
    BY <1>2 DEF Tasks
<1> QED
    BY <1>1, <1>2, <1>3, <1>4, <1>5, <1>6 DEF TaskFits, Items

\* A row that no other call works on has its images, unless this call clears them.
LEMMA StoredBefore ==
    ASSUME AssetsInv, NEW c \in Edits, c \in Working, NEW i \in Items,
           i = task[c].id, i \notin shared \cup broken, ~ Clears(c),
           items[i] # NONE, ~ items[i].removed
    PROVE  items[i].images \subseteq cloud \cup claimed
<1>1. c \in About(i)
    BY DEF About
<1>2. \A d \in About(i) : d = c
    BY <1>1 DEF AssetsInv, CallsApart
<1> QED
    BY <1>2 DEF AssetsInv, ImagesExist

\* The images of such a row are in it, or its call holds them, or there is an
\* excuse.
LEMMA ExplainedBefore ==
    ASSUME AssetsInv, NEW c \in Edits, c \in Working, NEW i \in Items,
           i = task[c].id, i \notin shared, NEW image \in cloud, RowOf(image) = i
    PROVE  \/ items[i] # NONE /\ image \in items[i].images
           \/ image \in task[c].kept \cup task[c].drop
           \/ image \in excused
<1>1. \A d \in About(i) : d = c
  <2>1. c \in About(i)
      BY DEF About
  <2> QED
      BY <2>1 DEF AssetsInv, CallsApart
<1> QED
    BY <1>1 DEF AssetsInv, OrphansAreExplained

\* A call that ends fits, whatever it was.
LEMMA EndFits ==
    ASSUME AssetsInv, NEW c \in Edits, CallMoves(c), phase'[c] = "end"
    PROVE  CallFits(c)'
<1>1. c \in Working /\ (c \notin Working)'
    BY DEF CallMoves, Working
<1>2. task'[c].id # NONE
    BY <1>1, Under, AssetsAssumption DEF CallMoves
<1> QED
    BY <1>1, <1>2 DEF CallFits, TaskFits, EntityFits, PhaseFits, RowAgrees, ImagesAgree

\* A call that goes on with the same task has the same entity and reads.
LEMMA TaskStays ==
    ASSUME AssetsInv, NEW c \in Edits, CallMoves(c), task'[c] = task[c],
           phase[c] # "upload", phase'[c] = "upload" => phase[c] = "clear"
    PROVE  TaskFits(c)' /\ EntityFits(c)'
<1>1. c \in Working /\ AssetsTypeOK /\ CallFits(c) /\ phase'[c] # "new"
    BY DEF CallMoves, Working, AssetsInv
<1>2. TaskFits(c) /\ EntityFits(c) /\ PhaseFits(c)
    BY <1>1 DEF CallFits
<1>3. PICK t \in Tasks : t = task[c]
    BY <1>1, Under
<1>4. \A set \in SUBSET Images : Owned(set, t.id) => Owned(set, t.id)'
    BY <1>1, ImagesStayWhere DEF Owned
<1>5. t.kept \in SUBSET Images /\ t.row.images \in SUBSET Images
      /\ t.drop \in SUBSET Images
      /\ (t.base # NONE => t.base.images \in SUBSET Images)
    BY <1>3 DEF Tasks, ItemRows
<1>6. items[t.id] # NONE => items'[t.id] # NONE
    BY <1>3 DEF CallMoves
<1>7. t.id # NONE
    BY <1>1, <1>3, Under, AssetsAssumption
<1>8. TaskFits(c)'
  <2>1. /\ Owned(t.kept, t.id)' /\ Owned(t.row.images, t.id)' /\ Owned(t.drop, t.id)'
        /\ t.base # NONE => Owned(t.base.images, t.id)'
    <3>1. /\ Owned(t.kept, t.id) /\ Owned(t.row.images, t.id) /\ Owned(t.drop, t.id)
          /\ t.base # NONE => Owned(t.base.images, t.id)
        BY <1>1, <1>2, <1>3 DEF TaskFits
    <3> QED
        BY <3>1, <1>4, <1>5
  <2> QED
      BY <2>1, <1>1, <1>2, <1>3, <1>6, <1>7 DEF TaskFits
<1>9. EntityFits(c)'
  <2>1. IsProduct(c)' = IsProduct(c)
      BY DEF IsProduct
  <2> QED
      BY <2>1, <1>1, <1>2, <1>3 DEF EntityFits, PhaseFits
<1> QED
    BY <1>8, <1>9

\* A step of one call keeps the invariant when its call fits, its row has images
\* of its own that are stored or about to be cleared, and none is left over.
LEMMA OwnStep ==
    ASSUME AssetsInv, AssetsTypeOK', NEW c \in Edits, CallMoves(c), CallFits(c)',
           NEW i \in Items, i = task[c].id,
           items'[i] # NONE => Owned(items'[i].images, i),
           i \notin shared \cup broken' =>
               (items'[i] # NONE /\ ~ items'[i].removed =>
                   \/ items'[i].images \subseteq cloud' \cup claimed'
                   \/ c \in Working' /\ Clears(c)'),
           i \notin shared =>
               \A image \in cloud' : RowOf(image) = i =>
                   \/ items'[i] # NONE /\ image \in items'[i].images
                   \/ c \in Working' /\ image \in task'[c].kept \cup task'[c].drop
                   \/ image \in excused'
    PROVE  AssetsInv'
<1>1. task'[c].id = i /\ shared' = shared
    BY DEF CallMoves
<1>2. AssetsTypeOK
    BY DEF AssetsInv
<1>3. \A image \in Images : /\ RowOf(image)' = RowOf(image) /\ claimed' = claimed
                            /\ Uploaded(image) => Uploaded(image)'
    BY <1>2, ImagesStayWhere
<1>4. items'[i] # NONE => Owned(items[i].images, i)'
  <2> SUFFICES ASSUME items'[i] # NONE PROVE Owned(items[i].images, i)'
      OBVIOUS
  <2>1. items'[i].images \in SUBSET Images
      BY DEF AssetsTypeOK, ItemRows
  <2> QED
      BY <2>1, <1>3 DEF Owned
<1>5. FilesStored(i)'
    BY <1>1 DEF FilesStored, About
<1>6. ASSUME NEW image \in cloud', RowOf(image)' = i PROVE Explained(image, i)'
  <2>1. image \in Images
      BY DEF AssetsTypeOK
  <2>2. RowOf(image) = i
      BY <2>1, <1>3, <1>6
  <2> QED
      BY <2>2, <1>1, <1>6 DEF Explained, About
<1>7. Fits(c)'
    BY <1>1, <1>4, <1>5, <1>6 DEF Fits
<1> QED
    BY <1>7, FrameStep

-----------------------------------------------------------------------------
(* The steps that delete and upload images.                                *)

LEMMA ClearStep ==
    ASSUME AssetsInv, NEW c \in Edits, ClearImages(c)
    PROVE  AssetsInv'
<1>1. c \in Working /\ phase[c] = "clear"
    BY DEF ClearImages, Working
<1> DEFINE t == task[c]
<1>2. /\ t \in Tasks /\ t.id \in Items /\ t.row \in ItemRows
      /\ t.op \in {"update", "remove"} /\ t.kept = {} /\ t.drop # {}
      /\ IsProduct(c) \/ t.op = "remove"
      /\ t.base \in ItemRows /\ items[t.id] \in ItemRows
  <2>1. PhaseFits(c)
      BY DEF AssetsInv, CallFits
  <2> QED
      BY <1>1, <2>1, Under DEF PhaseFits
<1>3. AssetsTypeOK /\ CallFits(c) /\ RowsOwnImages
    BY DEF AssetsInv
<1>4. PICK failed \in SUBSET t.drop :
          cloud' = cloud \ (t.drop \ failed) /\ excused' = excused \cup failed
    BY DEF ClearImages, DeleteImages
<1>5. phase' = [phase EXCEPT ![c] = IF t.op = "update" THEN "upload"
                                    ELSE IF IsProduct(c) THEN "save" ELSE "remove"]
    BY DEF ClearImages, To
<1>6. UNCHANGED <<items, task, holder, audited, shared, broken, claimed>>
    BY DEF ClearImages
<1>7. t.drop \subseteq Images /\ Owned(t.drop, t.id)
    BY <1>1, <1>2, <1>3, TaskOwned DEF Tasks
<1>8. AssetsTypeOK'
    BY <1>3, <1>4, <1>5, <1>6, <1>7 DEF AssetsTypeOK, Phases
<1>9. phase'[c] = IF t.op = "update" THEN "upload"
                  ELSE IF IsProduct(c) THEN "save" ELSE "remove"
    BY <1>3, <1>5 DEF AssetsTypeOK
<1>10. CallMoves(c)
    BY <1>1, <1>3, <1>4, <1>5, <1>6, <1>7, <1>9 DEF CallMoves, Owned, AssetsTypeOK
<1>11. CallFits(c)'
  <2>1. TaskFits(c)' /\ EntityFits(c)'
      BY <1>1, <1>6, <1>10, TaskStays
  <2>2. EntityFits(c) /\ PhaseFits(c) /\ RowAgrees(c) /\ ImagesAgree(c)
      BY <1>3 DEF CallFits
  <2>3. IsProduct(c)' = IsProduct(c)
      BY <1>6 DEF IsProduct
  <2>4. PhaseFits(c)'
      BY <1>2, <1>6, <1>9, <2>3 DEF PhaseFits
  <2>5. RowAgrees(c)'
      BY <1>1, <1>2, <1>6, <1>9, <2>2 DEF RowAgrees, EntityFits
  <2>6. ImagesAgree(c)'
    <3>1. t.drop \cap cloud' \subseteq excused'
        BY <1>4
    <3>2. t.op = "update" => t.row.images = t.base.images \ t.drop
        BY <1>1, <1>2, <2>2 DEF EntityFits
    <3>3. t.id \notin shared \cup broken /\ t.op = "update"
              => t.row.images \subseteq cloud' \cup claimed
        BY <1>1, <1>4, <2>2, <3>2 DEF ImagesAgree
    <3> QED
        BY <1>2, <1>6, <3>1, <3>3 DEF ImagesAgree
  <2> QED
      BY <2>1, <2>4, <2>5, <2>6 DEF CallFits
<1>12. c \in Working' /\ (Clears(c) => Clears(c)')
    BY <1>2, <1>6, <1>9 DEF Working, Clears, IsProduct
<1>13. ASSUME t.id \notin shared, NEW image \in cloud', RowOf(image) = t.id
       PROVE  \/ items'[t.id] # NONE /\ image \in items'[t.id].images
              \/ image \in t.kept \cup t.drop
              \/ image \in excused'
    BY <1>1, <1>2, <1>4, <1>6, <1>13, ExplainedBefore
<1>14. items'[t.id] # NONE => Owned(items'[t.id].images, t.id)
    BY <1>2, <1>3, <1>6 DEF RowsOwnImages
<1>15. t.id \in Items /\ task' = task
    BY <1>2, <1>6
<1>16. ASSUME t.id \notin shared \cup broken', items'[t.id] # NONE, ~ items'[t.id].removed,
              ~ Clears(c)
       PROVE  items'[t.id].images \subseteq cloud' \cup claimed'
  <2>1. items[t.id].images \subseteq cloud \cup claimed
      BY <1>1, <1>2, <1>6, <1>16, StoredBefore
  <2>2. items[t.id] = t.base
      BY <1>1, <1>3, <1>16 DEF CallFits, RowAgrees
  <2>3. t.drop \cap t.base.images = {}
      BY <1>2, <1>16 DEF Clears
  <2> QED
      BY <2>1, <2>2, <2>3, <1>4, <1>6
<1> QED
    BY <1>8, <1>10, <1>11, <1>12, <1>13, <1>14, <1>15, <1>16, OwnStep

LEMMA UploadStep ==
    ASSUME AssetsInv, NEW c \in Edits, UploadImages(c)
    PROVE  AssetsInv'
<1>1. c \in Working /\ phase[c] = "upload"
    BY DEF UploadImages, Working
<1>2. PICK t \in Tasks : t = task[c]
    BY <1>1, Under
<1> DEFINE new == {<<c, f>> : f \in t.files}
           u == task'[c]
<1>3. AssetsTypeOK /\ CallFits(c) /\ RowsOwnImages
    BY DEF AssetsInv
<1>4. /\ t.id \in Items /\ c \in Items /\ t.row \in ItemRows
      /\ t.op \in {"create", "update"} /\ t.kept = {}
      /\ t.op = "create" => t.id = c /\ t.base = NONE
      /\ t.op = "update" =>
           /\ t.base \in ItemRows /\ items[t.id] \in ItemRows
           /\ \A image \in t.base.images : image[1] # c
      /\ \A image \in t.drop : image[1] # c
  <2>1. PhaseFits(c)
      BY <1>3 DEF CallFits
  <2> QED
      BY <1>1, <1>2, <2>1, Under DEF PhaseFits
<1>5. new \subseteq Images
    BY <1>2, <1>4 DEF Tasks, Images
<1>6. \A image \in new : image[1] = c /\ RowOf(image) = t.id
    BY <1>2 DEF RowOf
<1>7. /\ cloud' = cloud \cup new
      /\ UNCHANGED <<items, holder, audited, assetsHistory>>
      /\ phase' = [phase EXCEPT ![c] = "save"]
    BY <1>2 DEF UploadImages, To
<1>8. task' = [task EXCEPT ![c].row.images = IF IsProduct(c) THEN @ \cup new ELSE new,
                           ![c].kept = new]
    BY <1>2 DEF UploadImages
<1>9. phase'[c] = "save" /\ \A d \in Edits : d # c => phase'[d] = phase[d] /\ task'[d] = task[d]
    BY <1>3, <1>7, <1>8 DEF AssetsTypeOK
<1>10. /\ u.op = t.op /\ u.id = t.id /\ u.base = t.base /\ u.drop = t.drop
       /\ u.kept = new /\ u.files = t.files
       /\ u.row.images = IF IsProduct(c) THEN t.row.images \cup new ELSE new
       /\ u.row.kind = t.row.kind /\ u.row.status = t.row.status
    BY <1>2, <1>3, <1>8 DEF AssetsTypeOK, Tasks, ItemRows
<1>11. task' \in [Edits -> Tasks]
  <2>1. u = [t EXCEPT !.row = [t.row EXCEPT !.images = IF IsProduct(c) THEN @ \cup new ELSE new],
                      !.kept = new]
      BY <1>2, <1>3, <1>8 DEF AssetsTypeOK, Tasks
  <2>2. t.row.images \cup new \in SUBSET Images /\ new \in SUBSET Images
      BY <1>4, <1>5 DEF ItemRows
  <2>3. [t.row EXCEPT !.images = IF IsProduct(c) THEN @ \cup new ELSE new] \in ItemRows
      BY <1>4, <2>2 DEF ItemRows
  <2>4. u \in Tasks
      BY <1>2, <2>1, <2>2, <2>3 DEF Tasks
  <2>5. DOMAIN task' = Edits /\ task' = [d \in Edits |-> task'[d]]
      BY <1>3, <1>8 DEF AssetsTypeOK
  <2> QED
      BY <1>3, <1>9, <2>4, <2>5 DEF AssetsTypeOK
<1>12. AssetsTypeOK'
    BY <1>3, <1>5, <1>7, <1>11 DEF AssetsTypeOK, assetsHistory, Phases
<1>13. CallMoves(c)
    BY <1>1, <1>2, <1>4, <1>6, <1>7, <1>9, <1>10 DEF CallMoves, assetsHistory
<1>14. IsProduct(c)' = IsProduct(c)
    BY <1>2, <1>10 DEF IsProduct
<1>15. TaskFits(c) /\ EntityFits(c) /\ RowAgrees(c) /\ ImagesAgree(c)
    BY <1>3 DEF CallFits
<1>16. CallFits(c)'
  <2>1. \A set \in SUBSET Images : Owned(set, t.id) => Owned(set, t.id)'
      BY <1>3, <1>13, ImagesStayWhere DEF Owned
  <2>2. Owned(new, t.id)'
      BY <1>9, <1>10 DEF Owned, RowOf, Uploaded
  <2>3. /\ Owned(t.row.images, t.id) /\ Owned(t.drop, t.id)
        /\ t.base # NONE => Owned(t.base.images, t.id)
      BY <1>1, <1>2, <1>15 DEF TaskFits
  <2>4. /\ t.row.images \in SUBSET Images /\ t.drop \in SUBSET Images
        /\ t.base # NONE => t.base.images \in SUBSET Images
      BY <1>2 DEF Tasks, ItemRows
  <2>5. /\ Owned(t.row.images, t.id)' /\ Owned(t.drop, t.id)'
        /\ t.base # NONE => Owned(t.base.images, t.id)'
      BY <2>1, <2>3, <2>4
  <2>6. /\ Owned(task[c].row.images, task[c].id)' /\ Owned(task[c].kept, task[c].id)'
        /\ Owned(task[c].drop, task[c].id)'
        /\ u.base # NONE => Owned(task[c].base.images, task[c].id)'
      BY <2>2, <2>5, <1>10 DEF Owned
  <2>7. TaskFits(c)'
    <3>1. u.id # NONE
        BY <1>4, <1>10, AssetsAssumption
    <3>2. u.op # "create" => u.base # NONE /\ items'[u.id] # NONE
        BY <1>4, <1>7, <1>10, AssetsAssumption
    <3> QED
        BY <3>1, <3>2, <2>6, <1>4, <1>6, <1>9, <1>10 DEF TaskFits
  <2>8. EntityFits(c)'
      BY <1>1, <1>2, <1>4, <1>9, <1>10, <1>14, <1>15 DEF EntityFits
  <2>9. PhaseFits(c)'
      BY <1>4, <1>9, <1>10 DEF PhaseFits
  <2>10. RowAgrees(c)'
      BY <1>1, <1>2, <1>7, <1>9, <1>10, <1>15 DEF RowAgrees, assetsHistory
  <2>11. ImagesAgree(c)'
    <3>1. t.id \notin shared \cup broken => u.row.images \subseteq cloud' \cup claimed
        BY <1>1, <1>2, <1>4, <1>7, <1>10, <1>15 DEF ImagesAgree
    <3>2. IsProduct(c) => t.drop \cap cloud' \subseteq excused'
      <4>1. IsProduct(c) => t.drop \cap cloud \subseteq excused
          BY <1>1, <1>2, <1>15 DEF ImagesAgree
      <4> QED
          BY <4>1, <1>4, <1>6, <1>7 DEF assetsHistory
    <3> QED
        BY <3>1, <3>2, <1>4, <1>7, <1>10, <1>14 DEF ImagesAgree, assetsHistory
  <2> QED
      BY <2>7, <2>8, <2>9, <2>10, <2>11 DEF CallFits
<1>17. ASSUME t.id \notin shared \cup broken', items'[t.id] # NONE, ~ items'[t.id].removed
       PROVE  \/ items'[t.id].images \subseteq cloud' \cup claimed'
              \/ c \in Working' /\ Clears(c)'
  <2>1. CASE Clears(c)
      BY <2>1, <1>2, <1>9, <1>10, <1>14 DEF Clears, Working
  <2>2. CASE ~ Clears(c)
      BY <2>2, <1>1, <1>2, <1>4, <1>7, <1>17, StoredBefore DEF assetsHistory
  <2> QED
      BY <2>1, <2>2
<1>18. ASSUME t.id \notin shared, NEW image \in cloud', RowOf(image) = t.id
       PROVE  \/ items'[t.id] # NONE /\ image \in items'[t.id].images
              \/ c \in Working' /\ image \in u.kept \cup u.drop
              \/ image \in excused'
  <2>1. c \in Working'
      BY <1>9 DEF Working
  <2>2. CASE image \in new
      BY <2>1, <2>2, <1>10
  <2>3. CASE image \in cloud
      BY <2>1, <2>3, <1>1, <1>2, <1>4, <1>7, <1>10, <1>18, ExplainedBefore DEF assetsHistory
  <2> QED
      BY <2>2, <2>3, <1>7
<1>19. items'[t.id] # NONE => Owned(items'[t.id].images, t.id)
    BY <1>3, <1>4, <1>7 DEF RowsOwnImages
<1> QED
    BY <1>2, <1>4, <1>12, <1>13, <1>16, <1>17, <1>18, <1>19, OwnStep

LEMMA UploadFailStep ==
    ASSUME AssetsInv, NEW c \in Edits, UploadFails(c)
    PROVE  AssetsInv'
<1>1. c \in Working /\ phase[c] = "upload"
    BY DEF UploadFails, Working
<1>2. PICK t \in Tasks : t = task[c]
    BY <1>1, Under
<1>3. AssetsTypeOK /\ CallFits(c) /\ RowsOwnImages
    BY DEF AssetsInv
<1>4. /\ t.id \in Items /\ c \in Items
      /\ t.op \in {"create", "update"} /\ t.kept = {}
      /\ t.op = "update" => t.base \in ItemRows /\ items[t.id] \in ItemRows
  <2>1. PhaseFits(c)
      BY <1>3 DEF CallFits
  <2> QED
      BY <1>1, <1>2, <2>1, Under DEF PhaseFits
<1>5. PICK left \in SUBSET {<<c, f>> : f \in t.files} :
          cloud' = cloud \cup left /\ excused' = excused \cup left
    BY <1>2 DEF UploadFails
<1>6. left \subseteq Images /\ \A image \in left : image[1] = c
    BY <1>2, <1>4 DEF Tasks, Images
<1>7. /\ UNCHANGED <<items, task, holder, audited, shared, claimed>>
      /\ phase' = [phase EXCEPT ![c] = "end"]
      /\ broken' = IF Clears(c) THEN broken \cup {t.id} ELSE broken
    BY <1>2 DEF UploadFails, Finish, To, Breaks
<1>8. phase'[c] = "end" /\ \A d \in Edits : d # c => phase'[d] = phase[d]
    BY <1>3, <1>7 DEF AssetsTypeOK
<1>9. AssetsTypeOK'
    BY <1>3, <1>4, <1>5, <1>6, <1>7 DEF AssetsTypeOK, Phases
<1>10. CallMoves(c)
    BY <1>1, <1>3, <1>5, <1>6, <1>7, <1>8 DEF CallMoves, AssetsTypeOK
<1>11. CallFits(c)'
    BY <1>8, <1>10, EndFits
<1>12. ASSUME t.id \notin shared \cup broken', items'[t.id] # NONE, ~ items'[t.id].removed
       PROVE  items'[t.id].images \subseteq cloud' \cup claimed'
    BY <1>1, <1>2, <1>4, <1>5, <1>7, <1>12, StoredBefore
<1>13. ASSUME t.id \notin shared, NEW image \in cloud', RowOf(image) = t.id
       PROVE  \/ items'[t.id] # NONE /\ image \in items'[t.id].images
              \/ image \in excused'
  <2>1. CASE image \in left
      BY <2>1, <1>5
  <2>2. CASE image \in cloud
    <3>1. \/ items[t.id] # NONE /\ image \in items[t.id].images
          \/ image \in t.drop
          \/ image \in excused
        BY <2>2, <1>1, <1>2, <1>4, <1>13, ExplainedBefore
    <3>2. CASE image \in t.drop
      <4>1. CASE IsProduct(c)
          BY <4>1, <3>2, <2>2, <1>1, <1>2, <1>3, <1>5 DEF CallFits, ImagesAgree
      <4>2. CASE ~ IsProduct(c)
        <5>1. t.op = "update" /\ t.drop = t.base.images
            BY <4>2, <3>2, <1>1, <1>2, <1>3, <1>4 DEF CallFits, EntityFits
        <5>2. items[t.id] = t.base
            BY <5>1, <1>1, <1>2, <1>3, <1>13 DEF CallFits, RowAgrees
        <5> QED
            BY <5>1, <5>2, <3>2, <1>4, <1>7, AssetsAssumption
      <4> QED
          BY <4>1, <4>2
    <3> QED
        BY <3>1, <3>2, <1>5, <1>7
  <2> QED
      BY <2>1, <2>2, <1>5
<1>14. items'[t.id] # NONE => Owned(items'[t.id].images, t.id)
    BY <1>3, <1>4, <1>7 DEF RowsOwnImages
<1> QED
    BY <1>2, <1>4, <1>9, <1>10, <1>11, <1>12, <1>13, <1>14, OwnStep

LEMMA TidyStep ==
    ASSUME AssetsInv, NEW c \in Edits, TidyPicture(c)
    PROVE  AssetsInv'
<1>1. c \in Working /\ phase[c] = "tidy"
    BY DEF TidyPicture, Working
<1>2. PICK t \in Tasks : t = task[c]
    BY <1>1, Under
<1>3. AssetsTypeOK /\ CallFits(c) /\ RowsOwnImages
    BY DEF AssetsInv
<1>4. /\ t.id \in Items /\ t.row \in ItemRows /\ t.op = "update" /\ ~ IsProduct(c)
      /\ t.base \in ItemRows /\ items[t.id] \in ItemRows
      /\ \A image \in t.drop : image[1] # c
      /\ \A image \in t.kept : image[1] = c
  <2>1. PhaseFits(c)
      BY <1>3 DEF CallFits
  <2> QED
      BY <1>1, <1>2, <2>1, Under DEF PhaseFits
<1>5. PICK failed \in SUBSET t.drop :
          cloud' = cloud \ (t.drop \ failed) /\ excused' = excused \cup failed
    BY <1>2 DEF TidyPicture, DeleteImages
<1>6. /\ UNCHANGED <<items, task, holder, audited, shared, broken, claimed>>
      /\ phase' = [phase EXCEPT ![c] = "end"]
    BY DEF TidyPicture, Finish, To
<1>7. phase'[c] = "end" /\ \A d \in Edits : d # c => phase'[d] = phase[d]
    BY <1>3, <1>6 DEF AssetsTypeOK
<1>8. t.drop \subseteq Images /\ Owned(t.drop, t.id)
    BY <1>1, <1>2, <1>3, TaskOwned DEF Tasks
<1>9. AssetsTypeOK'
    BY <1>3, <1>5, <1>6, <1>8 DEF AssetsTypeOK, Phases
<1>10. CallMoves(c)
    BY <1>1, <1>2, <1>3, <1>5, <1>6, <1>7, <1>8 DEF CallMoves, Owned, AssetsTypeOK
<1>11. CallFits(c)'
    BY <1>7, <1>10, EndFits
<1>12. /\ t.kept = {} \/ t.row.images = t.kept
       /\ t.drop = {} \/ (t.drop = t.base.images /\ t.row.images = t.kept)
    BY <1>1, <1>2, <1>3, <1>4 DEF CallFits, EntityFits
<1>13. t.id \notin shared => items[t.id] = t.row
    BY <1>1, <1>2, <1>3 DEF CallFits, RowAgrees
<1>14. t.id \notin shared \cup broken => t.row.images \subseteq cloud \cup claimed
    BY <1>1, <1>2, <1>3, <1>4 DEF CallFits, ImagesAgree
<1>15. t.id \notin shared \cup broken => t.row.images \subseteq cloud' \cup claimed'
    BY <1>4, <1>5, <1>6, <1>12, <1>14
<1>16. ASSUME t.id \notin shared, NEW image \in cloud', RowOf(image) = t.id
       PROVE  \/ items'[t.id] # NONE /\ image \in items'[t.id].images
              \/ image \in excused'
  <2>1. \/ items[t.id] # NONE /\ image \in items[t.id].images
        \/ image \in t.kept \cup t.drop
        \/ image \in excused
      BY <1>1, <1>2, <1>4, <1>5, <1>16, ExplainedBefore
  <2>2. image \in t.drop => image \in failed
      BY <1>5
  <2>3. image \in t.kept => image \in items[t.id].images
      BY <1>12, <1>13, <1>16
  <2> QED
      BY <2>1, <2>2, <2>3, <1>4, <1>5, <1>6, AssetsAssumption
<1>17. items'[t.id] # NONE => Owned(items'[t.id].images, t.id)
    BY <1>3, <1>4, <1>6 DEF RowsOwnImages
<1> QED
    BY <1>2, <1>4, <1>6, <1>9, <1>10, <1>11, <1>13, <1>15, <1>16, <1>17, OwnStep

LEMMA UndoStep ==
    ASSUME AssetsInv, NEW c \in Edits, UndoUploads(c)
    PROVE  AssetsInv'
<1>1. c \in Working /\ phase[c] = "undo"
    BY DEF UndoUploads, Working
<1>2. PICK t \in Tasks : t = task[c]
    BY <1>1, Under
<1>3. AssetsTypeOK /\ CallFits(c) /\ RowsOwnImages
    BY DEF AssetsInv
<1>4. /\ t.id \in Items /\ Undoes(c) /\ t.op \in {"create", "update"}
      /\ t.op = "create" => t.base = NONE
      /\ t.op = "update" => /\ t.base \in ItemRows /\ items[t.id] \in ItemRows
                            /\ \A image \in t.base.images : image[1] # c
      /\ \A image \in t.kept : image[1] = c
  <2>1. PhaseFits(c)
      BY <1>3 DEF CallFits
  <2> QED
      BY <1>1, <1>2, <2>1, Under DEF PhaseFits
<1>5. PICK failed \in SUBSET t.kept :
          cloud' = cloud \ (t.kept \ failed) /\ excused' = excused \cup failed
    BY <1>2 DEF UndoUploads, DeleteImages
<1>6. /\ UNCHANGED <<items, task, holder, audited, shared, broken, claimed>>
      /\ phase' = [phase EXCEPT ![c] = "end"]
    BY DEF UndoUploads, Finish, To
<1>7. phase'[c] = "end" /\ \A d \in Edits : d # c => phase'[d] = phase[d]
    BY <1>3, <1>6 DEF AssetsTypeOK
<1>8. t.kept \subseteq Images /\ Owned(t.kept, t.id)
    BY <1>1, <1>2, <1>3, TaskOwned DEF Tasks
<1>9. AssetsTypeOK'
    BY <1>3, <1>5, <1>6, <1>8 DEF AssetsTypeOK, Phases
<1>10. CallMoves(c)
    BY <1>1, <1>2, <1>3, <1>5, <1>6, <1>7, <1>8 DEF CallMoves, Owned, AssetsTypeOK
<1>11. CallFits(c)'
    BY <1>7, <1>10, EndFits
<1>12. t.id \notin shared =>
           \/ items[t.id] = t.base
           \/ t.id \in broken /\ t.drop \subseteq excused
  <2>1. RowAgrees(c)
      BY <1>3 DEF CallFits
  <2> QED
      BY <2>1, <1>1, <1>2 DEF RowAgrees
<1>13. /\ t.drop = {} \/ (t.op = "update" /\ t.drop = t.base.images)
       /\ ~ Clears(c)
  <2>1. EntityFits(c)
      BY <1>3 DEF CallFits
  <2> QED
      BY <2>1, <1>1, <1>2, <1>4 DEF EntityFits, Undoes, Clears
<1>14. ASSUME t.id \notin shared \cup broken', items'[t.id] # NONE, ~ items'[t.id].removed
       PROVE  items'[t.id].images \subseteq cloud' \cup claimed'
  <2>1. items[t.id].images \subseteq cloud \cup claimed
      BY <1>1, <1>2, <1>4, <1>6, <1>13, <1>14, StoredBefore
  <2>2. \A image \in items[t.id].images : image[1] # c
      BY <1>4, <1>6, <1>12, <1>14
  <2> QED
      BY <2>1, <2>2, <1>4, <1>5, <1>6
<1>15. ASSUME t.id \notin shared, NEW image \in cloud', RowOf(image) = t.id
       PROVE  \/ items'[t.id] # NONE /\ image \in items'[t.id].images
              \/ image \in excused'
  <2>1. \/ items[t.id] # NONE /\ image \in items[t.id].images
        \/ image \in t.kept \cup t.drop
        \/ image \in excused
      BY <1>1, <1>2, <1>4, <1>5, <1>15, ExplainedBefore
  <2>2. image \in t.kept => image \in failed
      BY <1>5
  <2>3. image \in t.drop => \/ items[t.id] # NONE /\ image \in items[t.id].images
                            \/ image \in excused
      BY <1>4, <1>12, <1>13, <1>15, AssetsAssumption
  <2> QED
      BY <2>1, <2>2, <2>3, <1>5, <1>6
<1>16. items'[t.id] # NONE => Owned(items'[t.id].images, t.id)
    BY <1>3, <1>4, <1>6 DEF RowsOwnImages
<1> QED
    BY <1>2, <1>4, <1>9, <1>10, <1>11, <1>14, <1>15, <1>16, OwnStep

-----------------------------------------------------------------------------
(* The steps that write rows.                                              *)

LEMMA InsertStep ==
    ASSUME AssetsInv, NEW c \in Edits, InsertItem(c)
    PROVE  AssetsInv'
<1>1. c \in Working /\ phase[c] = "save" /\ task[c].op = "create"
    BY DEF InsertItem, Working
<1>2. PICK t \in Tasks : t = task[c]
    BY <1>1, Under
<1>3. AssetsTypeOK /\ CallFits(c)
    BY DEF AssetsInv
<1>4. t.id = c /\ c \in Items /\ t.row \in ItemRows /\ t.base = NONE
    BY <1>1, <1>2, Under
<1>5. /\ items' = [items EXCEPT ![c] = t.row]
      /\ UNCHANGED <<cloud, task, holder, audited, assetsHistory>>
      /\ phase' = [phase EXCEPT ![c] = "end"]
    BY <1>2 DEF InsertItem, Finish, To
<1>6. phase'[c] = "end" /\ \A d \in Edits : d # c => phase'[d] = phase[d]
    BY <1>3, <1>5 DEF AssetsTypeOK
<1>7. items'[c] = t.row /\ t.row # NONE /\ \A j \in Items : j # c => items'[j] = items[j]
    BY <1>3, <1>4, <1>5, AssetsAssumption DEF AssetsTypeOK
<1>8. AssetsTypeOK'
    BY <1>3, <1>4, <1>5 DEF AssetsTypeOK, assetsHistory, Phases
<1>9. CallMoves(c)
    BY <1>1, <1>2, <1>4, <1>5, <1>6, <1>7 DEF CallMoves, assetsHistory
<1>10. CallFits(c)'
    BY <1>6, <1>9, EndFits
<1>11. t.drop = {} /\ t.row.images = t.kept
    BY <1>1, <1>2, <1>3 DEF CallFits, EntityFits
<1>12. t.id \notin shared \cup broken' => t.row.images \subseteq cloud' \cup claimed'
    BY <1>1, <1>2, <1>3, <1>5 DEF CallFits, ImagesAgree, assetsHistory
<1>13. t.id \notin shared => items[c] = NONE
    BY <1>1, <1>2, <1>3, <1>4 DEF CallFits, RowAgrees
<1>14. ASSUME t.id \notin shared, NEW image \in cloud', RowOf(image) = t.id
       PROVE  \/ image \in items'[t.id].images
              \/ image \in excused'
    BY <1>1, <1>2, <1>4, <1>5, <1>7, <1>11, <1>13, <1>14, ExplainedBefore DEF assetsHistory
<1>15. Owned(items'[t.id].images, t.id)
    BY <1>1, <1>2, <1>3, <1>4, <1>7, TaskOwned
<1> QED
    BY <1>2, <1>4, <1>7, <1>8, <1>9, <1>10, <1>12, <1>14, <1>15, OwnStep

LEMMA SavePictureStep ==
    ASSUME AssetsInv, NEW c \in Edits, SavePicture(c)
    PROVE  AssetsInv'
<1>1. c \in Working /\ phase[c] = "save" /\ task[c].op = "update" /\ ~ IsProduct(c)
    BY DEF SavePicture, Working
<1>2. PICK t \in Tasks : t = task[c]
    BY <1>1, Under
<1>3. AssetsTypeOK /\ CallFits(c)
    BY DEF AssetsInv
<1>4. t.id \in Items /\ t.row \in ItemRows /\ t.base \in ItemRows /\ items[t.id] \in ItemRows
    BY <1>1, <1>2, Under
<1>5. Merged(c) = t.row
    BY <1>1, <1>2, <1>4, MergedIsRow
<1>6. /\ items' = [items EXCEPT ![t.id] = t.row]
      /\ excused' = IF t.kept = {} THEN excused \cup Replaced(c) ELSE excused
      /\ UNCHANGED <<cloud, task, holder, audited, shared, broken, claimed>>
      /\ phase' = [phase EXCEPT ![c] = IF t.drop = {} THEN "end" ELSE "tidy"]
      /\ Replaced(c) = t.base.images \ t.row.images
    BY <1>1, <1>2, <1>5 DEF SavePicture, To, Replaced
<1>7. /\ phase'[c] = IF t.drop = {} THEN "end" ELSE "tidy"
      /\ \A d \in Edits : d # c => phase'[d] = phase[d]
    BY <1>3, <1>6 DEF AssetsTypeOK
<1>8. items'[t.id] = t.row /\ t.row # NONE /\ \A j \in Items : j # t.id => items'[j] = items[j]
    BY <1>3, <1>4, <1>6, AssetsAssumption DEF AssetsTypeOK
<1>9. AssetsTypeOK'
    BY <1>3, <1>4, <1>6 DEF AssetsTypeOK, ItemRows, Phases
<1>10. CallMoves(c)
    BY <1>1, <1>2, <1>4, <1>6, <1>7, <1>8 DEF CallMoves
<1>11. CallFits(c)'
  <2>1. TaskFits(c)' /\ EntityFits(c)'
      BY <1>1, <1>2, <1>6, <1>7, <1>10, TaskStays
  <2>2. PhaseFits(c)'
      BY <1>1, <1>2, <1>6, <1>7 DEF PhaseFits, IsProduct
  <2>3. RowAgrees(c)'
      BY <1>2, <1>6, <1>7, <1>8 DEF RowAgrees, Working
  <2>4. ImagesAgree(c)'
      BY <1>1, <1>2, <1>3, <1>6 DEF CallFits, ImagesAgree, IsProduct
  <2> QED
      BY <2>1, <2>2, <2>3, <2>4 DEF CallFits
<1>12. /\ t.kept = {} \/ t.row.images = t.kept
       /\ t.drop = {} \/ t.drop = t.base.images
       /\ t.drop = t.base.images \/ t.kept = {}
    BY <1>1, <1>2, <1>3 DEF CallFits, EntityFits
<1>13. t.id \notin shared => items[t.id] = t.base
    BY <1>1, <1>2, <1>3 DEF CallFits, RowAgrees
<1>14. t.id \notin shared \cup broken' => t.row.images \subseteq cloud' \cup claimed'
    BY <1>1, <1>2, <1>3, <1>6 DEF CallFits, ImagesAgree
<1>15. t.drop # {} => c \in Working'
    BY <1>7 DEF Working
<1>16. ASSUME t.id \notin shared, NEW image \in cloud', RowOf(image) = t.id
       PROVE  \/ image \in items'[t.id].images
              \/ c \in Working' /\ image \in t.drop
              \/ image \in excused'
  <2>1. \/ image \in t.base.images
        \/ image \in t.kept \cup t.drop
        \/ image \in excused
      BY <1>1, <1>2, <1>4, <1>6, <1>13, <1>16, ExplainedBefore
  <2> QED
      BY <2>1, <1>6, <1>8, <1>12, <1>15
<1>17. Owned(items'[t.id].images, t.id)
    BY <1>1, <1>2, <1>3, <1>8, TaskOwned
<1>18. task'[c] = t
    BY <1>2, <1>6
<1> QED
    BY <1>2, <1>4, <1>8, <1>9, <1>10, <1>11, <1>14, <1>16, <1>17, <1>18, OwnStep

LEMMA SaveWithoutImagesStep ==
    ASSUME AssetsInv, NEW c \in Edits, SaveWithoutImages(c)
    PROVE  AssetsInv'
<1>1. c \in Working /\ phase[c] = "save" /\ task[c].op = "remove"
    BY DEF SaveWithoutImages, Working
<1>2. PICK t \in Tasks : t = task[c]
    BY <1>1, Under
<1>3. AssetsTypeOK /\ CallFits(c)
    BY DEF AssetsInv
<1>4. t.id \in Items /\ t.row \in ItemRows /\ t.base \in ItemRows /\ items[t.id] \in ItemRows
    BY <1>1, <1>2, Under
<1>5. Merged(c) = t.row
    BY <1>1, <1>2, <1>4, MergedIsRow
<1>6. /\ items' = [items EXCEPT ![t.id] = t.row]
      /\ UNCHANGED <<cloud, task, holder, audited, assetsHistory>>
      /\ phase' = [phase EXCEPT ![c] = "remove"]
    BY <1>2, <1>5 DEF SaveWithoutImages, To
<1>7. phase'[c] = "remove" /\ \A d \in Edits : d # c => phase'[d] = phase[d]
    BY <1>3, <1>6 DEF AssetsTypeOK
<1>8. items'[t.id] = t.row /\ t.row # NONE /\ \A j \in Items : j # t.id => items'[j] = items[j]
    BY <1>3, <1>4, <1>6, AssetsAssumption DEF AssetsTypeOK
<1>9. AssetsTypeOK'
    BY <1>3, <1>4, <1>6 DEF AssetsTypeOK, assetsHistory, Phases
<1>10. CallMoves(c)
    BY <1>1, <1>2, <1>4, <1>6, <1>7, <1>8 DEF CallMoves, assetsHistory
<1>11. CallFits(c)'
  <2>1. TaskFits(c)' /\ EntityFits(c)'
      BY <1>1, <1>2, <1>6, <1>7, <1>10, TaskStays
  <2>2. PhaseFits(c)'
      BY <1>1, <1>2, <1>6, <1>7 DEF PhaseFits
  <2>3. RowAgrees(c)'
      BY <1>2, <1>6, <1>7, <1>8 DEF RowAgrees
  <2>4. ImagesAgree(c)'
      BY <1>1, <1>2, <1>3, <1>6 DEF CallFits, ImagesAgree, IsProduct, assetsHistory
  <2> QED
      BY <2>1, <2>2, <2>3, <2>4 DEF CallFits
<1>12. t.kept = {} /\ t.drop = t.base.images /\ t.row.images = {}
  <2>1. EntityFits(c) /\ PhaseFits(c)
      BY <1>3 DEF CallFits
  <2>2. IsProduct(c)
      BY <2>1, <1>1 DEF PhaseFits
  <2> QED
      BY <2>1, <2>2, <1>1, <1>2, <1>4 DEF EntityFits, ItemRows
<1>13. t.id \notin shared => items[t.id] = t.base
    BY <1>1, <1>2, <1>3 DEF CallFits, RowAgrees
<1>14. c \in Working' /\ task'[c] = t
    BY <1>2, <1>6, <1>7 DEF Working
<1>15. ASSUME t.id \notin shared, NEW image \in cloud', RowOf(image) = t.id
       PROVE  image \in t.drop \/ image \in excused'
    BY <1>1, <1>2, <1>4, <1>6, <1>12, <1>13, <1>15, ExplainedBefore DEF assetsHistory
<1>16. items'[t.id].images \subseteq cloud' /\ Owned(items'[t.id].images, t.id)
    BY <1>8, <1>12 DEF Owned
<1> QED
    BY <1>2, <1>4, <1>9, <1>10, <1>11, <1>14, <1>15, <1>16, OwnStep

LEMMA RemoveStep ==
    ASSUME AssetsInv, NEW c \in Edits, SoftRemoveItem(c)
    PROVE  AssetsInv'
<1>1. c \in Working /\ phase[c] = "remove"
    BY DEF SoftRemoveItem, Working
<1>2. PICK t \in Tasks : t = task[c]
    BY <1>1, Under
<1>3. AssetsTypeOK /\ CallFits(c) /\ RowsOwnImages
    BY DEF AssetsInv
<1>4. /\ t.op = "remove" /\ t.id \in Items /\ t.row \in ItemRows
      /\ t.base \in ItemRows /\ items[t.id] \in ItemRows
  <2>1. PhaseFits(c)
      BY <1>3 DEF CallFits
  <2> QED
      BY <1>1, <1>2, <2>1, Under DEF PhaseFits
<1> DEFINE gone == [items[t.id] EXCEPT !.removed = TRUE]
<1>5. gone \in ItemRows /\ gone.images = items[t.id].images /\ gone.removed = TRUE
    BY <1>4 DEF ItemRows
<1>6. /\ items' = [items EXCEPT ![t.id] = gone]
      /\ UNCHANGED <<cloud, task, holder, audited, assetsHistory>>
      /\ phase' = [phase EXCEPT ![c] = IF IsProduct(c) THEN "audit" ELSE "end"]
    BY <1>2 DEF SoftRemoveItem, To
<1>7. /\ phase'[c] = IF IsProduct(c) THEN "audit" ELSE "end"
      /\ \A d \in Edits : d # c => phase'[d] = phase[d]
    BY <1>3, <1>6 DEF AssetsTypeOK
<1> HIDE DEF gone
<1>8. items'[t.id] = gone /\ gone # NONE /\ \A j \in Items : j # t.id => items'[j] = items[j]
    BY <1>3, <1>4, <1>5, <1>6, AssetsAssumption DEF AssetsTypeOK
<1>9. AssetsTypeOK'
    BY <1>3, <1>4, <1>5, <1>6 DEF AssetsTypeOK, assetsHistory, Phases
<1>10. CallMoves(c)
    BY <1>1, <1>2, <1>4, <1>6, <1>7, <1>8 DEF CallMoves, assetsHistory
<1>11. CallFits(c)'
  <2>1. TaskFits(c)' /\ EntityFits(c)'
      BY <1>1, <1>2, <1>6, <1>7, <1>10, TaskStays
  <2>2. PhaseFits(c)'
      BY <1>2, <1>4, <1>6, <1>7 DEF PhaseFits, IsProduct
  <2>3. RowAgrees(c)'
      BY <1>2, <1>4, <1>6, <1>7 DEF RowAgrees, Working
  <2>4. ImagesAgree(c)'
      BY <1>1, <1>2, <1>3, <1>4, <1>6 DEF CallFits, ImagesAgree, IsProduct, assetsHistory
  <2> QED
      BY <2>1, <2>2, <2>3, <2>4 DEF CallFits
<1>12. t.kept = {} /\ t.drop = t.base.images /\ (~ IsProduct(c) => t.row = t.base)
    BY <1>1, <1>2, <1>3, <1>4 DEF CallFits, EntityFits
<1>13. t.id \notin shared => items[t.id] = t.row
    BY <1>1, <1>2, <1>3 DEF CallFits, RowAgrees
<1>14. IsProduct(c) => c \in Working'
    BY <1>7 DEF Working
<1>15. ASSUME t.id \notin shared, NEW image \in cloud', RowOf(image) = t.id
       PROVE  \/ image \in items'[t.id].images
              \/ c \in Working' /\ image \in t.drop
              \/ image \in excused'
  <2>1. \/ image \in items[t.id].images
        \/ image \in t.drop
        \/ image \in excused
      BY <1>1, <1>2, <1>4, <1>6, <1>12, <1>15, ExplainedBefore DEF assetsHistory
  <2>2. ~ IsProduct(c) => t.drop = items[t.id].images
      BY <1>12, <1>13, <1>15
  <2> QED
      BY <2>1, <2>2, <1>5, <1>6, <1>8, <1>14 DEF assetsHistory
<1>16. Owned(items'[t.id].images, t.id)
    BY <1>3, <1>4, <1>5, <1>8, AssetsAssumption DEF RowsOwnImages
<1>17. task'[c] = t
    BY <1>2, <1>6
<1> QED
    BY <1>2, <1>4, <1>5, <1>8, <1>9, <1>10, <1>11, <1>15, <1>16, <1>17, OwnStep

\* The transaction of a product goes on: nothing of rows or images changes.
LEMMA ProductGoesOn ==
    ASSUME AssetsInv, NEW c \in Edits, SaveProduct(c) \/ Audit(c)
    PROVE  AssetsInv'
<1>1. c \in Working /\ task[c].op = "update" /\ phase[c] \in {"save", "audit"}
    BY DEF SaveProduct, Audit, Working
<1>2. PICK t \in Tasks : t = task[c]
    BY <1>1, Under
<1>3. AssetsTypeOK /\ CallFits(c) /\ RowsOwnImages
    BY DEF AssetsInv
<1>4. t.id \in Items /\ t.row \in ItemRows /\ t.base \in ItemRows /\ items[t.id] \in ItemRows
    BY <1>1, <1>2, Under
<1>5. IsProduct(c) /\ StatusAccepted(c)
  <2>1. PhaseFits(c)
      BY <1>3 DEF CallFits
  <2> QED
      BY <2>1, <1>1 DEF PhaseFits, SaveProduct, Audit
<1>6. /\ UNCHANGED <<items, cloud, task, assetsHistory>>
      /\ audited \subseteq audited' /\ audited' \subseteq audited \cup {c}
      /\ phase' = [phase EXCEPT ![c] = IF phase[c] = "save" THEN "audit" ELSE "commit"]
      /\ phase[c] = "audit" => c \in audited'
    BY DEF SaveProduct, Audit, To
<1>7. holder' \in [Items -> Edits \cup {NONE}]
    BY <1>3 DEF SaveProduct, Audit, AssetsTypeOK
<1>8. /\ phase'[c] = IF phase[c] = "save" THEN "audit" ELSE "commit"
      /\ \A d \in Edits : d # c => phase'[d] = phase[d]
    BY <1>3, <1>6 DEF AssetsTypeOK
<1>9. AssetsTypeOK'
    BY <1>3, <1>6, <1>7 DEF AssetsTypeOK, assetsHistory, Phases
<1>10. CallMoves(c)
    BY <1>1, <1>2, <1>4, <1>6, <1>8 DEF CallMoves, assetsHistory
<1>11. CallFits(c)'
  <2>1. TaskFits(c)' /\ EntityFits(c)'
      BY <1>1, <1>6, <1>8, <1>10, TaskStays
  <2>2. StatusAccepted(c)' /\ IsProduct(c)'
      BY <1>5, <1>6 DEF StatusAccepted, IsProduct
  <2>3. PhaseFits(c)'
      BY <2>2, <1>1, <1>2, <1>6, <1>8 DEF PhaseFits
  <2>4. RowAgrees(c)'
      BY <1>1, <1>2, <1>3, <1>6, <1>8 DEF CallFits, RowAgrees, assetsHistory
  <2>5. ImagesAgree(c)'
      BY <1>1, <1>2, <1>3, <1>6, <1>8 DEF CallFits, ImagesAgree, IsProduct, assetsHistory
  <2> QED
      BY <2>1, <2>3, <2>4, <2>5 DEF CallFits
<1>12. c \in Working' /\ task'[c] = t
    BY <1>2, <1>6, <1>8 DEF Working
<1>13. Clears(c)' <=> Clears(c)
    BY <1>6 DEF Clears, IsProduct
<1>14. ASSUME t.id \notin shared \cup broken', items'[t.id] # NONE, ~ items'[t.id].removed,
              ~ Clears(c)
       PROVE  items'[t.id].images \subseteq cloud' \cup claimed'
    BY <1>1, <1>2, <1>4, <1>6, <1>14, StoredBefore DEF assetsHistory
<1>15. ASSUME t.id \notin shared, NEW image \in cloud', RowOf(image) = t.id
       PROVE  \/ items'[t.id] # NONE /\ image \in items'[t.id].images
              \/ image \in t.kept \cup t.drop
              \/ image \in excused'
    BY <1>1, <1>2, <1>4, <1>6, <1>15, ExplainedBefore DEF assetsHistory
<1>16. items'[t.id] # NONE => Owned(items'[t.id].images, t.id)
    BY <1>3, <1>4, <1>6 DEF RowsOwnImages
<1> QED
    BY <1>2, <1>4, <1>9, <1>10, <1>11, <1>12, <1>13, <1>14, <1>15, <1>16, OwnStep

LEMMA CommitStep ==
    ASSUME AssetsInv, NEW c \in Edits, CommitProduct(c)
    PROVE  AssetsInv'
<1>1. c \in Working /\ phase[c] = "commit"
    BY DEF CommitProduct, Working
<1>2. PICK t \in Tasks : t = task[c]
    BY <1>1, Under
<1>3. AssetsTypeOK /\ CallFits(c) /\ RowsOwnImages
    BY DEF AssetsInv
<1>4. /\ t.op = "update" /\ IsProduct(c) /\ t.id \in Items /\ t.row \in ItemRows
      /\ t.base \in ItemRows /\ items[t.id] \in ItemRows
  <2>1. PhaseFits(c)
      BY <1>3 DEF CallFits
  <2> QED
      BY <1>1, <1>2, <2>1, Under DEF PhaseFits
<1>5. PICK m \in ItemRows : /\ m = Merged(c)
                            /\ m.images \in {t.row.images, items[t.id].images}
    BY <1>2, <1>4, MergedFields
<1>6. t.id \notin shared => items[t.id] = t.base /\ m = t.row
  <2>1. t.id \notin shared => items[t.id] = t.base
      BY <1>1, <1>2, <1>3 DEF CallFits, RowAgrees
  <2> QED
      BY <2>1, <1>2, <1>4, <1>5, MergedIsRow
<1>7. /\ items' = [items EXCEPT ![t.id] = m]
      /\ holder' = [holder EXCEPT ![t.id] = NONE]
      /\ UNCHANGED <<cloud, task, audited, assetsHistory>>
      /\ phase' = [phase EXCEPT ![c] = "end"]
    BY <1>2, <1>5 DEF CommitProduct, Finish, To
<1>8. phase'[c] = "end" /\ \A d \in Edits : d # c => phase'[d] = phase[d]
    BY <1>3, <1>7 DEF AssetsTypeOK
<1>9. items'[t.id] = m /\ m # NONE /\ \A j \in Items : j # t.id => items'[j] = items[j]
    BY <1>3, <1>4, <1>7, AssetsAssumption DEF AssetsTypeOK
<1>10. AssetsTypeOK'
    BY <1>3, <1>4, <1>7 DEF AssetsTypeOK, assetsHistory, Phases
<1>11. CallMoves(c)
    BY <1>1, <1>2, <1>4, <1>7, <1>8, <1>9 DEF CallMoves, assetsHistory
<1>12. CallFits(c)'
    BY <1>8, <1>11, EndFits
<1>13. t.row.images = (t.base.images \ t.drop) \cup t.kept
    BY <1>1, <1>2, <1>3, <1>4 DEF CallFits, EntityFits
<1>14. /\ t.id \notin shared \cup broken => t.row.images \subseteq cloud \cup claimed
       /\ t.drop \cap cloud \subseteq excused
    BY <1>1, <1>2, <1>3, <1>4 DEF CallFits, ImagesAgree
<1>15. t.id \notin shared \cup broken' => items'[t.id].images \subseteq cloud' \cup claimed'
    BY <1>6, <1>7, <1>9, <1>14 DEF assetsHistory
<1>16. ASSUME t.id \notin shared, NEW image \in cloud', RowOf(image) = t.id
       PROVE  image \in items'[t.id].images \/ image \in excused'
  <2>1. \/ image \in t.base.images
        \/ image \in t.kept \cup t.drop
        \/ image \in excused
      BY <1>1, <1>2, <1>4, <1>6, <1>7, <1>16, ExplainedBefore DEF assetsHistory
  <2> QED
      BY <2>1, <1>6, <1>7, <1>9, <1>13, <1>14, <1>16 DEF assetsHistory
<1>17. Owned(items'[t.id].images, t.id)
  <2>1. Owned(t.row.images, t.id)
      BY <1>1, <1>2, <1>3, TaskOwned
  <2>2. Owned(items[t.id].images, t.id)
      BY <1>3, <1>4, AssetsAssumption DEF RowsOwnImages
  <2> QED
      BY <2>1, <2>2, <1>5, <1>9
<1> QED
    BY <1>2, <1>4, <1>9, <1>10, <1>11, <1>12, <1>15, <1>16, <1>17, OwnStep

LEMMA FailStep ==
    ASSUME AssetsInv, NEW c \in Edits, EditFails(c)
    PROVE  AssetsInv'
<1>1. c \in Working /\ phase[c] \in {"save", "remove", "audit", "commit"}
    BY DEF EditFails, Working
<1>2. PICK t \in Tasks : t = task[c]
    BY <1>1, Under
<1>3. AssetsTypeOK /\ CallFits(c) /\ RowsOwnImages
    BY DEF AssetsInv
<1>4. /\ t.id \in Items /\ t.row \in ItemRows /\ t.op \in {"create", "update", "remove"}
      /\ t.op # "create" => t.base \in ItemRows /\ items[t.id] \in ItemRows
    BY <1>1, <1>2, Under
<1> DEFINE undo == t.kept # {} /\ Undoes(c)
<1>5. /\ UNCHANGED <<items, cloud, task, audited, shared, claimed>>
      /\ phase' = [phase EXCEPT ![c] = IF undo THEN "undo" ELSE "end"]
      /\ holder' = Released(c)
      /\ broken' = IF Clears(c) THEN broken \cup {t.id} ELSE broken
      /\ excused' = IF IsProduct(c) /\ t.op = "update"
                    THEN excused \cup t.kept ELSE excused
    BY <1>2 DEF EditFails, To, Breaks, Undo
<1>6. /\ phase'[c] = IF undo THEN "undo" ELSE "end"
      /\ \A d \in Edits : d # c => phase'[d] = phase[d]
    BY <1>3, <1>5 DEF AssetsTypeOK
<1>7. AssetsTypeOK'
  <2>1. holder' \in [Items -> Edits \cup {NONE}]
      BY <1>3, <1>5 DEF Released, AssetsTypeOK
  <2>2. phase' \in [Edits -> Phases]
      BY <1>3, <1>5 DEF AssetsTypeOK, Phases
  <2>3. excused' \subseteq Images /\ broken' \subseteq Items
      BY <1>2, <1>3, <1>4, <1>5 DEF AssetsTypeOK, Tasks
  <2> QED
      BY <2>1, <2>2, <2>3, <1>3, <1>5 DEF AssetsTypeOK
<1>8. CallMoves(c)
    BY <1>1, <1>2, <1>4, <1>5, <1>6 DEF CallMoves
<1>9. undo => phase[c] = "save" /\ t.op # "remove" /\ ~ (IsProduct(c) /\ t.op = "update")
  <2>1. PhaseFits(c) /\ EntityFits(c)
      BY <1>3 DEF CallFits
  <2> QED
      BY <2>1, <1>1, <1>2, <1>4 DEF PhaseFits, EntityFits, Undoes
<1>10. CallFits(c)'
  <2>1. TaskFits(c)' /\ EntityFits(c)'
      BY <1>1, <1>5, <1>6, <1>8, TaskStays
  <2>2. CASE ~ undo
      BY <2>2, <1>6, <1>8, EndFits
  <2>3. CASE undo
    <3>1. PhaseFits(c)'
        BY <2>3, <1>2, <1>5, <1>6, <1>9 DEF PhaseFits, Undoes, IsProduct
    <3>2. RowAgrees(c)'
        BY <2>3, <1>1, <1>2, <1>3, <1>5, <1>6, <1>9 DEF CallFits, RowAgrees
    <3>3. ImagesAgree(c)'
        BY <2>3, <1>1, <1>2, <1>3, <1>5, <1>6, <1>9 DEF CallFits, ImagesAgree, IsProduct
    <3> QED
        BY <2>1, <3>1, <3>2, <3>3 DEF CallFits
  <2> QED
      BY <2>2, <2>3
<1>11. ASSUME t.id \notin shared \cup broken', items'[t.id] # NONE, ~ items'[t.id].removed
       PROVE  items'[t.id].images \subseteq cloud' \cup claimed'
    BY <1>1, <1>2, <1>4, <1>5, <1>11, StoredBefore
<1>12. ASSUME t.id \notin shared, NEW image \in cloud', RowOf(image) = t.id
       PROVE  \/ items'[t.id] # NONE /\ image \in items'[t.id].images
              \/ c \in Working' /\ image \in t.kept \cup t.drop
              \/ image \in excused'
  <2>1. \/ items[t.id] # NONE /\ image \in items[t.id].images
        \/ image \in t.kept \cup t.drop
        \/ image \in excused
      BY <1>1, <1>2, <1>4, <1>5, <1>12, ExplainedBefore
  <2>2. CASE undo
      BY <2>1, <2>2, <1>5, <1>6 DEF Working
  <2>3. CASE ~ undo
    <3>1. image \in t.kept => image \in excused'
        BY <2>3, <1>2, <1>4, <1>5 DEF Undoes
    <3>2. ASSUME image \in t.drop
          PROVE  image \in excused \/ (items[t.id] # NONE /\ image \in items[t.id].images)
      <4>1. CASE IsProduct(c) \/ t.op = "remove"
          BY <4>1, <3>2, <1>1, <1>2, <1>3, <1>5, <1>12 DEF CallFits, ImagesAgree
      <4>2. CASE ~ IsProduct(c) /\ t.op # "remove"
        <5>1. t.op = "update" /\ t.drop = t.base.images
            BY <4>2, <3>2, <1>1, <1>2, <1>3, <1>4 DEF CallFits, EntityFits
        <5>2. phase[c] = "save"
            BY <4>2, <1>1, <1>2, <1>3 DEF CallFits, PhaseFits
        <5>3. items[t.id] = t.base
            BY <5>1, <5>2, <1>1, <1>2, <1>3, <1>12 DEF CallFits, RowAgrees
        <5> QED
            BY <5>1, <5>3, <3>2, <1>4, AssetsAssumption
      <4> QED
          BY <4>1, <4>2
    <3> QED
        BY <2>1, <3>1, <3>2, <1>5
  <2> QED
      BY <2>2, <2>3
<1>13. items'[t.id] # NONE => Owned(items'[t.id].images, t.id)
    BY <1>3, <1>4, <1>5 DEF RowsOwnImages
<1>14. task'[c] = t
    BY <1>2, <1>5
<1> QED
    BY <1>2, <1>4, <1>7, <1>8, <1>10, <1>11, <1>12, <1>13, <1>14, OwnStep

\* What is written when the answer to a commit is lost: the entity in memory, or
\* the removed row.
LEMMA LostWrite ==
    ASSUME AssetsInv, NEW c \in Edits, Writes(c)
    PROVE  LET t == task[c] w == RowWritten(c) IN
           /\ c \in Working /\ w \in ItemRows
           /\ phase[c] # "remove" =>
                  /\ phase[c] \in {"save", "commit"}
                  /\ t.op = "update" /\ IsProduct(c) <=> phase[c] = "commit"
                  /\ t.id \notin shared => w = t.row /\ items[t.id] = t.base
                  /\ w.images \in {t.row.images, items[t.id].images}
                  /\ t.op = "create" => w = t.row
           /\ phase[c] = "remove" =>
                  /\ t.op = "remove" /\ w.removed /\ w.images = items[t.id].images
                  /\ w.status = items[t.id].status
<1> DEFINE t == task[c]
           w == RowWritten(c)
<1>1. c \in Working
    BY DEF Writes, Working
<1>2. /\ PhaseFits(c) /\ RowAgrees(c) /\ phase[c] \in {"save", "commit", "remove"}
      /\ phase[c] = "save" => ~ (t.op = "update" /\ IsProduct(c))
    BY DEF AssetsInv, CallFits, Writes
<1>3. /\ t.id \in Items /\ t.row \in ItemRows /\ t.op \in {"create", "update", "remove"}
      /\ t.op # "create" => t.base \in ItemRows /\ items[t.id] \in ItemRows
    BY <1>1, Under
<1>4. CASE phase[c] = "remove"
  <2>1. t.op = "remove"
      BY <1>2, <1>4 DEF PhaseFits
  <2>2. w = [items[t.id] EXCEPT !.removed = TRUE]
      BY <1>4, <2>1 DEF RowWritten
  <2>3. /\ w \in ItemRows /\ w.removed /\ w.images = items[t.id].images
        /\ w.status = items[t.id].status
      BY <1>3, <2>1, <2>2 DEF ItemRows
  <2> QED
      BY <1>1, <1>4, <2>1, <2>3
<1>5. CASE phase[c] # "remove"
  <2>1. t.op = "update" /\ IsProduct(c) <=> phase[c] = "commit"
      BY <1>2, <1>5 DEF PhaseFits
  <2>2. t.id \notin shared => items[t.id] = t.base
      BY <1>1, <1>2, <1>5 DEF RowAgrees
  <2>3. CASE t.op = "create"
    <3>1. w = t.row
        BY <2>3 DEF RowWritten
    <3> QED
        BY <1>1, <1>2, <1>3, <1>5, <2>1, <2>2, <2>3, <3>1
  <2>4. CASE t.op # "create"
    <3>1. w = Merged(c)
        BY <2>4, <1>5 DEF RowWritten
    <3>2. t.id \notin shared \/ phase[c] # "commit" => w = t.row
        BY <2>1, <2>2, <2>4, <3>1, <1>3, MergedIsRow
    <3>3. phase[c] = "commit" => w \in ItemRows /\ w.images \in {t.row.images, items[t.id].images}
        BY <2>1, <2>4, <3>1, <1>3, MergedFields
    <3> QED
        BY <1>1, <1>2, <1>3, <1>5, <2>1, <2>2, <2>4, <3>2, <3>3
  <2> QED
      BY <2>3, <2>4
<1> QED
    BY <1>4, <1>5

LEMMA AnswerLostStep ==
    ASSUME AssetsInv, NEW c \in Edits, AnswerLost(c)
    PROVE  AssetsInv'
<1>1. c \in Working /\ Writes(c)
    BY LostWrite DEF AnswerLost
<1>2. PICK t \in Tasks : t = task[c]
    BY <1>1, Under
<1>3. AssetsTypeOK /\ CallFits(c) /\ RowsOwnImages
    BY DEF AssetsInv
<1>4. /\ t.id \in Items /\ t.row \in ItemRows /\ t.op \in {"create", "update", "remove"}
      /\ t.op = "create" => t.base = NONE
      /\ t.op # "create" => /\ t.base \in ItemRows /\ items[t.id] \in ItemRows
                            /\ \A image \in t.base.images : image[1] # c
      /\ \A image \in t.kept : image[1] = c
    BY <1>1, <1>2, Under
<1>5. PICK w \in ItemRows :
         /\ w = RowWritten(c)
         /\ phase[c] # "remove" =>
                /\ phase[c] \in {"save", "commit"}
                /\ t.op = "update" /\ IsProduct(c) <=> phase[c] = "commit"
                /\ t.id \notin shared => w = t.row /\ items[t.id] = t.base
                /\ w.images \in {t.row.images, items[t.id].images}
                /\ t.op = "create" => w = t.row
         /\ phase[c] = "remove" =>
                t.op = "remove" /\ w.removed /\ w.images = items[t.id].images
    BY <1>1, <1>2, LostWrite
<1> DEFINE undo == t.kept # {} /\ Undoes(c)
<1>6. /\ items' = [items EXCEPT ![t.id] = w]
      /\ UNCHANGED <<cloud, task, audited, shared, claimed>>
      /\ phase' = [phase EXCEPT ![c] = IF undo THEN "undo" ELSE "end"]
      /\ holder' = Released(c)
      /\ broken' = IF undo THEN broken \cup {t.id} ELSE broken
      /\ excused' = excused \cup Replaced(c)
    BY <1>2, <1>5 DEF AnswerLost, To, Undo
<1>7. /\ phase'[c] = IF undo THEN "undo" ELSE "end"
      /\ \A d \in Edits : d # c => phase'[d] = phase[d]
    BY <1>3, <1>6 DEF AssetsTypeOK
<1>8. items'[t.id] = w /\ w # NONE /\ \A j \in Items : j # t.id => items'[j] = items[j]
    BY <1>3, <1>4, <1>6, AssetsAssumption DEF AssetsTypeOK
<1>9. AssetsTypeOK'
  <2>1. holder' \in [Items -> Edits \cup {NONE}]
      BY <1>3, <1>6 DEF Released, AssetsTypeOK
  <2>2. phase' \in [Edits -> Phases]
      BY <1>3, <1>6 DEF AssetsTypeOK, Phases
  <2>3. Replaced(c) \subseteq Images
      BY <1>2, <1>4 DEF Replaced, ItemRows
  <2>4. excused' \subseteq Images /\ broken' \subseteq Items
      BY <2>3, <1>3, <1>4, <1>6 DEF AssetsTypeOK
  <2>5. items' \in [Items -> ItemRows \cup {NONE}]
      BY <1>3, <1>4, <1>6 DEF AssetsTypeOK
  <2> QED
      BY <2>1, <2>2, <2>4, <2>5, <1>3, <1>6 DEF AssetsTypeOK
<1>10. CallMoves(c)
    BY <1>1, <1>2, <1>4, <1>5, <1>6, <1>7, <1>8 DEF CallMoves
<1>11. EntityFits(c) /\ PhaseFits(c) /\ ImagesAgree(c)
    BY <1>3 DEF CallFits
<1>12. /\ t.op = "create" => t.drop = {} /\ t.row.images = t.kept
       /\ t.op = "update" /\ IsProduct(c) => t.row.images = (t.base.images \ t.drop) \cup t.kept
       /\ t.op = "update" /\ ~ IsProduct(c) =>
              /\ t.drop = {} \/ t.drop = t.base.images
              /\ t.kept # {} => t.drop = t.base.images
              /\ t.kept = {} \/ t.row.images = t.kept
              /\ Replaced(c) = t.base.images \ t.row.images
       /\ t.op = "remove" => /\ t.drop = t.base.images /\ t.kept = {}
                             /\ IsProduct(c) => t.row.images = {}
  <2>1. phase[c] # "upload"
      BY <1>5
  <2>2. t.op = "update" /\ ~ IsProduct(c) => Replaced(c) = t.base.images \ t.row.images
      BY <1>2 DEF Replaced
  <2>3. t.op = "remove" /\ IsProduct(c) => t.row.images = {}
      BY <1>1, <1>2, <1>4, <1>11 DEF EntityFits, ItemRows
  <2> QED
      BY <2>1, <2>2, <2>3, <1>1, <1>2, <1>4, <1>11 DEF EntityFits
<1>13. undo => t.op \in {"create", "update"} /\ ~ (t.op = "update" /\ IsProduct(c))
               /\ t.drop \subseteq Replaced(c) /\ t.id \in broken'
  <2>1. undo => t.op \in {"create", "update"} /\ ~ (t.op = "update" /\ IsProduct(c))
      BY <1>2, <1>4, <1>12 DEF Undoes
  <2>2. undo => t.drop \subseteq Replaced(c)
      BY <2>1, <1>4, <1>12
  <2> QED
      BY <2>1, <2>2, <1>6
<1>14. CallFits(c)'
  <2>1. CASE ~ undo
      BY <2>1, <1>7, <1>10, EndFits
  <2>2. CASE undo
    <3>1. TaskFits(c)' /\ EntityFits(c)'
        BY <2>2, <1>5, <1>6, <1>7, <1>10, TaskStays
    <3>2. PhaseFits(c)'
        BY <2>2, <1>2, <1>6, <1>7, <1>13 DEF PhaseFits, Undoes, IsProduct
    <3>3. RowAgrees(c)'
        BY <2>2, <1>2, <1>6, <1>7, <1>13 DEF RowAgrees
    <3>4. ImagesAgree(c)'
        BY <2>2, <1>1, <1>2, <1>5, <1>6, <1>7, <1>11, <1>13 DEF ImagesAgree, IsProduct
    <3> QED
        BY <3>1, <3>2, <3>3, <3>4 DEF CallFits
  <2> QED
      BY <2>1, <2>2
<1>15. ASSUME t.id \notin shared \cup broken', items'[t.id] # NONE, ~ items'[t.id].removed
       PROVE  items'[t.id].images \subseteq cloud' \cup claimed'
  <2>1. phase[c] # "remove" /\ w = t.row /\ t.id \notin shared \cup broken
      BY <1>5, <1>6, <1>8, <1>15
  <2>2. t.op # "remove" => t.row.images \subseteq cloud \cup claimed
      BY <2>1, <1>1, <1>2, <1>5, <1>11 DEF ImagesAgree
  <2>3. t.op = "remove" => t.row.images = {}
      BY <2>1, <1>2, <1>5, <1>11, <1>12 DEF PhaseFits
  <2> QED
      BY <2>1, <2>2, <2>3, <1>6, <1>8
<1>16. ASSUME t.id \notin shared, NEW image \in cloud', RowOf(image) = t.id
       PROVE  image \in items'[t.id].images \/ image \in excused'
  <2>1. \/ items[t.id] # NONE /\ image \in items[t.id].images
        \/ image \in t.kept \cup t.drop
        \/ image \in excused
      BY <1>1, <1>2, <1>4, <1>6, <1>16, ExplainedBefore
  <2>2. IsProduct(c) \/ t.op = "remove" => (image \in t.drop => image \in excused)
      BY <1>1, <1>2, <1>5, <1>6, <1>11, <1>16 DEF ImagesAgree
  <2>3. CASE phase[c] = "remove"
      BY <2>1, <2>2, <2>3, <1>5, <1>6, <1>8, <1>12
  <2>4. CASE phase[c] # "remove"
    <3>1. w = t.row /\ items[t.id] = t.base
        BY <2>4, <1>5, <1>16
    <3>2. CASE t.op = "create"
        BY <3>1, <3>2, <2>1, <1>4, <1>6, <1>8, <1>12
    <3>3. CASE t.op = "remove"
        BY <3>1, <3>3, <2>1, <2>2, <1>6, <1>12
    <3>4. CASE t.op = "update" /\ IsProduct(c)
        BY <3>1, <3>4, <2>1, <2>2, <1>6, <1>8, <1>12
    <3>5. CASE t.op = "update" /\ ~ IsProduct(c)
        BY <3>1, <3>5, <2>1, <1>6, <1>8, <1>12
    <3> QED
        BY <3>2, <3>3, <3>4, <3>5, <1>4
  <2> QED
      BY <2>3, <2>4
<1>17. Owned(items'[t.id].images, t.id)
  <2>1. Owned(t.row.images, t.id)
      BY <1>1, <1>2, <1>3, TaskOwned
  <2>2. t.op # "create" => Owned(items[t.id].images, t.id)
      BY <1>3, <1>4, AssetsAssumption DEF RowsOwnImages
  <2> QED
      BY <2>1, <2>2, <1>5, <1>8
<1> QED
    BY <1>2, <1>4, <1>8, <1>9, <1>10, <1>14, <1>15, <1>16, <1>17, OwnStep

-----------------------------------------------------------------------------
(* The start of a call, and the end of the process.                        *)

\* Nothing that is stored, or that a call or a row holds, is of a call that has not
\* begun.
LEMMA NotYetUploaded ==
    ASSUME NEW c \in Edits, phase[c] = "new", NEW image, Uploaded(image)
    PROVE  image[1] # c
BY DEF Uploaded

LEMMA BeginStep ==
    ASSUME AssetsInv, NEW c \in Edits, NEW t \in Tasks, NEW p \in Phases \ {"new", "end"},
           NEW named \in SUBSET Images, Begin(c, t, named, p), t.id \in Items, CallFits(c)'
    PROVE  AssetsInv'
<1>1. /\ AssetsTypeOK /\ CallsApart /\ RowsOwnImages /\ ImagesExist
      /\ OrphansAreExplained /\ (\A d \in Edits : CallFits(d))
    BY DEF AssetsInv
<1>2. /\ phase[c] = "new" /\ c \notin Working
      /\ UNCHANGED <<items, cloud, holder, audited, broken, excused>>
      /\ shared' = IF About(t.id) = {} THEN shared ELSE shared \cup {t.id}
      /\ claimed' = claimed \cup named
      /\ task' = [task EXCEPT ![c] = t] /\ phase' = [phase EXCEPT ![c] = p]
    BY DEF Begin, To, Working
<1>3. /\ task'[c] = t /\ phase'[c] = p
      /\ \A d \in Edits : d # c => task'[d] = task[d] /\ phase'[d] = phase[d]
    BY <1>1, <1>2 DEF AssetsTypeOK
<1>4. AssetsTypeOK'
    BY <1>1, <1>2 DEF AssetsTypeOK
<1>5. shared \subseteq shared' /\ claimed \subseteq claimed'
    BY <1>2
<1>6. c \in Working' /\ \A d \in Edits : d # c => (d \in Working' <=> d \in Working)
    BY <1>3 DEF Working
<1>7. \A d : d \in Working => d \in Edits /\ d # c
    BY <1>2 DEF Working
<1>8. ASSUME NEW image \in Images, Uploaded(image)
      PROVE  RowOf(image)' = RowOf(image) /\ Uploaded(image)'
  <2>1. image[1] # c
      BY <1>2, <1>8, NotYetUploaded
  <2> QED
      BY <2>1, <1>3, <1>8 DEF RowOf, Uploaded
<1>9. ASSUME NEW i \in Items, NEW set \in SUBSET Images, Owned(set, i)
      PROVE  Owned(set, i)'
    BY <1>5, <1>8, <1>9 DEF Owned
<1>10. ASSUME NEW d \in Edits, d # c PROVE CallFits(d)'
  <2>1. task'[d] = task[d] /\ phase'[d] = phase[d] /\ (d \in Working' <=> d \in Working)
        /\ CallFits(d)
      BY <1>1, <1>3, <1>6, <1>10
  <2>2. TaskFits(d)'
    <3>1. ASSUME d \in Working
          PROVE  /\ Owned(task[d].kept, task[d].id)'
                 /\ Owned(task[d].row.images, task[d].id)'
                 /\ Owned(task[d].drop, task[d].id)'
                 /\ task[d].base # NONE => Owned(task[d].base.images, task[d].id)'
      <4>1. PICK u \in Tasks : u = task[d] /\ u.id \in Items
          BY <3>1, Under
      <4>2. /\ u.kept \in SUBSET Images /\ u.row.images \in SUBSET Images
            /\ u.drop \in SUBSET Images
            /\ u.base # NONE => u.base.images \in SUBSET Images
          BY <4>1 DEF Tasks, ItemRows
      <4>3. /\ Owned(u.kept, u.id) /\ Owned(u.row.images, u.id) /\ Owned(u.drop, u.id)
            /\ u.base # NONE => Owned(u.base.images, u.id)
          BY <3>1, <4>1, <2>1 DEF CallFits, TaskFits
      <4>4. /\ Owned(u.kept, u.id)' /\ Owned(u.row.images, u.id)' /\ Owned(u.drop, u.id)'
            /\ u.base # NONE => Owned(u.base.images, u.id)'
          BY <4>1, <4>2, <4>3, <1>9
      <4> QED
          BY <4>1, <4>4, <2>1
    <3> QED
        BY <2>1, <3>1, <1>2 DEF CallFits, TaskFits
  <2>3. EntityFits(d)'
      BY <2>1 DEF CallFits, EntityFits, IsProduct
  <2>4. PhaseFits(d)'
      BY <2>1, <1>2 DEF CallFits, PhaseFits, IsProduct, StatusAccepted, Undoes
  <2>5. RowAgrees(d)'
      BY <2>1, <1>2, <1>5 DEF CallFits, RowAgrees
  <2>6. ImagesAgree(d)'
      BY <2>1, <1>2, <1>5 DEF CallFits, ImagesAgree, IsProduct
  <2> QED
      BY <2>2, <2>3, <2>4, <2>5, <2>6 DEF CallFits
<1>11. ASSUME NEW i \in Items
       PROVE  /\ About(i) \subseteq About(i)'
              /\ About(i)' \subseteq About(i) \cup {c}
              /\ i # t.id => About(i)' = About(i)
    BY <1>3, <1>6, <1>7 DEF About, Working
<1>12. CallsApart'
  <2> SUFFICES ASSUME NEW i \in Items \ shared', NEW d \in About(i)', NEW e \in About(i)'
               PROVE  d = e
      BY DEF CallsApart
  <2>1. CASE i # t.id
      BY <2>1, <1>1, <1>5, <1>11 DEF CallsApart
  <2>2. CASE i = t.id
      BY <2>2, <1>2, <1>11
  <2> QED
      BY <2>1, <2>2
<1>13. RowsOwnImages'
  <2>1. ASSUME NEW i \in Items, items'[i] # NONE PROVE Owned(items[i].images, i)'
    <3>1. items'[i] = items[i] /\ items[i].images \in SUBSET Images
        BY <2>1, <1>1, <1>2 DEF AssetsTypeOK, ItemRows
    <3>2. Owned(items[i].images, i)
        BY <2>1, <1>1, <1>2 DEF RowsOwnImages
    <3> QED
        BY <3>1, <3>2, <1>9
  <2>2. ASSUME NEW image \in cloud' PROVE Uploaded(image)'
      BY <1>1, <1>2, <1>8 DEF RowsOwnImages, AssetsTypeOK
  <2> QED
      BY <2>1, <2>2 DEF RowsOwnImages
<1>14. ImagesExist'
  <2>1. ASSUME NEW i \in Items, items'[i] # NONE, ~ items'[i].removed
        PROVE  \/ items'[i].images \subseteq cloud' \cup claimed'
               \/ i \in shared' \cup broken'
               \/ \E d \in About(i)' : Clears(d)'
    <3>1. CASE \E d \in About(i) : Clears(d)
      <4>1. PICK d \in About(i) : Clears(d)
          BY <3>1
      <4>2. d \in About(i)' /\ d \in Edits /\ d # c
          BY <1>7, <1>11 DEF About
      <4>3. Clears(d)'
          BY <4>1, <4>2, <1>3 DEF Clears, IsProduct
      <4> QED
          BY <4>2, <4>3
    <3> QED
        BY <2>1, <3>1, <1>1, <1>2, <1>5 DEF ImagesExist
  <2> QED
      BY <2>1 DEF ImagesExist
<1>15. OrphansAreExplained'
  <2>1. ASSUME NEW image \in cloud' PROVE Explained(image, RowOf(image))'
    <3>1. image \in cloud /\ image \in Images /\ Uploaded(image)
        BY <1>1, <1>2 DEF RowsOwnImages, AssetsTypeOK
    <3>2. PICK i \in Items : i = RowOf(image)
        BY <3>1, <1>1, RowIsItem
    <3>3. RowOf(image)' = i
        BY <3>1, <3>2, <1>8
    <3>4. Explained(image, i)
        BY <3>1, <3>2, <1>1 DEF Explained, OrphansAreExplained
    <3>5. \A d \in About(i) : d \in About(i)' /\ task'[d] = task[d]
        BY <1>3, <1>7, <1>11 DEF About
    <3>6. Explained(image, i)'
        BY <3>4, <3>5, <1>2, <1>5 DEF Explained
    <3> QED
        BY <3>3, <3>6
  <2> QED
      BY <2>1 DEF OrphansAreExplained, Explained
<1> QED
    BY <1>4, <1>10, <1>12, <1>13, <1>14, <1>15 DEF AssetsInv

\* What a new call has read belongs to its row and to no upload of its own.
LEMMA RowRead ==
    ASSUME AssetsInv, NEW c \in Edits, phase[c] = "new", NEW i \in Items, items[i] # NONE
    PROVE  /\ items[i] \in ItemRows /\ i # c
           /\ \A image \in items[i].images : image \in Images /\ image[1] # c
           /\ Owned(items[i].images, i)
<1>1. items[i] \in ItemRows
    BY DEF AssetsInv, AssetsTypeOK
<1>2. Owned(items[i].images, i)
    BY DEF AssetsInv, RowsOwnImages
<1>3. items[c] = NONE
    BY DEF AssetsInv, CallFits, TaskFits
<1> QED
    BY <1>1, <1>2, <1>3, NotYetUploaded DEF Owned, ItemRows

LEMMA CreateStep ==
    ASSUME AssetsInv, NEW c \in Edits, NEW kind \in {"business", "user", "product"},
           CreateItem(c, kind)
    PROVE  AssetsInv'
<1>1. PICK fs \in Uploads(kind) :
          Begin(c, Task("create", c, NONE, NewItem(kind), fs, {}), {},
                IF fs = {} THEN "save" ELSE "upload")
    BY DEF CreateItem
<1> DEFINE t == Task("create", c, NONE, NewItem(kind), fs, {})
           p == IF fs = {} THEN "save" ELSE "upload"
<1>2. NewItem(kind) \in ItemRows /\ NewItem(kind).images = {}
    BY DEF NewItem, ItemRows, Statuses
<1>3. fs \in SUBSET Files
    BY DEF Uploads
<1>4. t \in Tasks /\ c \in Items
    BY <1>2, <1>3 DEF Task, Tasks, Items
<1>5. phase[c] = "new" /\ items[c] = NONE /\ AssetsTypeOK
  <2>1. phase[c] = "new"
      BY <1>1 DEF Begin
  <2> QED
      BY <2>1 DEF AssetsInv, CallFits, TaskFits
<1>6. task'[c] = t /\ phase'[c] = p /\ items' = items
    BY <1>1, <1>5 DEF Begin, To, AssetsTypeOK
<1>7. /\ t.op = "create" /\ t.id = c /\ t.base = NONE /\ t.kept = {} /\ t.drop = {}
      /\ t.row.images = {}
    BY <1>2 DEF Task
<1> HIDE DEF t
<1>8. CallFits(c)'
  <2>1. TaskFits(c)'
      BY <1>4, <1>5, <1>6, <1>7, AssetsAssumption DEF TaskFits, Owned
  <2>2. EntityFits(c)'
      BY <1>6, <1>7 DEF EntityFits
  <2>3. PhaseFits(c)'
      BY <1>6, <1>7 DEF PhaseFits
  <2>4. RowAgrees(c)'
      BY <1>5, <1>6, <1>7 DEF RowAgrees
  <2>5. ImagesAgree(c)'
      BY <1>6, <1>7 DEF ImagesAgree
  <2> QED
      BY <2>1, <2>2, <2>3, <2>4, <2>5 DEF CallFits
<1>9. p \in Phases \ {"new", "end"}
    BY DEF Phases
<1>10. Begin(c, t, {}, p) /\ {} \in SUBSET Images
    BY <1>1 DEF t
<1> QED
    BY <1>4, <1>7, <1>8, <1>9, <1>10, BeginStep

\* An update or a removal begins with the row as it stands; its images are stored if
\* no other call works on it, and those that its body names have been uploaded.
LEMMA ReadStep ==
    ASSUME AssetsInv, NEW c \in Edits, NEW i \in Items, items[i] # NONE, ~ items[i].removed,
           NEW op \in {"update", "remove"}, NEW row \in ItemRows, NEW fs \in SUBSET Files,
           NEW named \in SUBSET Images, \A image \in named : Uploaded(image),
           NEW drop \in SUBSET (items[i].images \cup named),
           row.images \subseteq items[i].images \cup named,
           NEW p \in {"clear", "upload", "save", "remove"},
           Begin(c, Task(op, i, items[i], row, fs, drop), named, p),
           p = "remove" => row = items[i],
           p # "clear" /\ (row.kind = "product" \/ op = "remove") => drop = {},
           EntityFits(c)', PhaseFits(c)'
    PROVE  AssetsInv'
<1> DEFINE t == Task(op, i, items[i], row, fs, drop)
<1>1. phase[c] = "new" /\ AssetsTypeOK /\ items' = items /\ cloud' = cloud /\ broken' = broken
    BY DEF Begin, AssetsInv
<1>2. /\ items[i] \in ItemRows /\ i # c
      /\ \A image \in items[i].images : image \in Images /\ image[1] # c
      /\ Owned(items[i].images, i)
      /\ \A image \in named : image[1] # c
    BY <1>1, RowRead, NotYetUploaded
<1>3. t \in Tasks
    BY <1>2 DEF Task, Tasks
<1>4. task'[c] = t /\ phase'[c] = p
    BY <1>1 DEF Begin, To, AssetsTypeOK
<1>5. /\ t.op = op /\ t.id = i /\ t.base = items[i] /\ t.kept = {} /\ t.drop = drop
      /\ t.row = row
    BY DEF Task
<1>6. Begin(c, t, named, p) /\ claimed' = claimed \cup named
    BY DEF Begin
<1> HIDE DEF t
<1>7. \A image \in items[i].images \cup named :
          (RowOf(image)' = i \/ image \in claimed') /\ Uploaded(image)'
  <2>1. \A d \in Edits : d # c => task'[d] = task[d] /\ phase'[d] = phase[d]
      BY <1>1, <1>6 DEF Begin, To, AssetsTypeOK
  <2>2. \A image \in items[i].images \cup named :
            /\ image[1] # c /\ Uploaded(image)
            /\ RowOf(image) = i \/ image \in claimed \cup named
      BY <1>2 DEF Owned
  <2> QED
      BY <2>1, <2>2, <1>6 DEF RowOf, Uploaded
<1>8. TaskFits(c)'
  <2>1. /\ Owned(task[c].row.images, task[c].id)' /\ Owned(task[c].base.images, task[c].id)'
        /\ Owned(task[c].kept, task[c].id)' /\ Owned(task[c].drop, task[c].id)'
      BY <1>4, <1>5, <1>7 DEF Owned
  <2>2. t.id # NONE /\ t.base # NONE /\ items'[t.id] # NONE
      BY <1>1, <1>5, AssetsAssumption
  <2> QED
      BY <2>1, <2>2, <1>2, <1>4, <1>5 DEF TaskFits
<1>9. RowAgrees(c)'
    BY <1>1, <1>4, <1>5 DEF RowAgrees
<1>10. ImagesAgree(c)'
  <2>1. i \notin shared' \cup broken => items[i].images \subseteq cloud \cup claimed
    <3>1. shared' = IF About(i) = {} THEN shared ELSE shared \cup {i}
        BY <1>5, <1>6 DEF Begin
    <3> QED
        BY <3>1 DEF AssetsInv, ImagesExist
  <2> QED
      BY <2>1, <1>1, <1>4, <1>5, <1>6 DEF ImagesAgree, IsProduct
<1>11. CallFits(c)'
    BY <1>8, <1>9, <1>10 DEF CallFits
<1>12. p \in Phases \ {"new", "end"}
    BY DEF Phases
<1> QED
    BY <1>3, <1>5, <1>6, <1>11, <1>12, BeginStep

LEMMA ReplaceStep ==
    ASSUME AssetsInv, NEW c \in Edits, NEW kind \in {"business", "user"},
           ReplacePicture(c, kind)
    PROVE  AssetsInv'
<1>1. PICK i \in Standing(kind), fs \in Uploads(kind) :
          Begin(c, Task("update", i, items[i], items[i], fs,
                        IF fs = {} THEN {} ELSE items[i].images), {},
                AfterPicture(items[i].images, fs))
    BY DEF ReplacePicture
<1> DEFINE drop == IF fs = {} THEN {} ELSE items[i].images
           p == IF fs = {} THEN "save" ELSE "upload"
           t == Task("update", i, items[i], items[i], fs, drop)
<1>2. /\ i \in Items /\ items[i] # NONE /\ items[i].kind = kind /\ ~ items[i].removed
      /\ fs \in SUBSET Files
    BY DEF Standing, Uploads
<1>3. Begin(c, t, {}, p) /\ phase[c] = "new" /\ AssetsTypeOK
    BY <1>1 DEF AfterPicture, Begin, AssetsInv
<1>4. items[i] \in ItemRows
    BY <1>2, <1>3 DEF AssetsTypeOK
<1>5. task'[c] = t /\ phase'[c] = p
    BY <1>3 DEF Begin, To, AssetsTypeOK
<1>6. /\ t.op = "update" /\ t.base = items[i] /\ t.kept = {} /\ t.drop = drop
      /\ t.row = items[i]
    BY DEF Task
<1>7. EntityFits(c)' /\ PhaseFits(c)'
  <2> HIDE DEF t
  <2> QED
      BY <1>2, <1>5, <1>6 DEF EntityFits, PhaseFits, IsProduct
<1>8. drop \in SUBSET (items[i].images \cup {}) /\ p \in {"clear", "upload", "save", "remove"}
      /\ p # "remove"
    OBVIOUS
<1> HIDE DEF p, drop
<1> QED
    BY <1>2, <1>3, <1>4, <1>7, <1>8, ReadStep

\* The logo of a body has been uploaded, for whatever row.
LEMMA GiveLogoStep ==
    ASSUME AssetsInv, NEW c \in Edits, GiveLogo(c)
    PROVE  AssetsInv'
<1>1. PICK i \in Standing("business"), logo \in {{}} \cup {{image} : image \in cloud} :
          Begin(c, Task("update", i, items[i], [items[i] EXCEPT !.images = logo],
                        {}, {}), logo \ items[i].images, "save")
    BY DEF GiveLogo
<1> DEFINE row == [items[i] EXCEPT !.images = logo]
           named == logo \ items[i].images
           t == Task("update", i, items[i], row, {}, {})
<1>2. i \in Items /\ items[i] # NONE /\ items[i].kind = "business" /\ ~ items[i].removed
    BY DEF Standing
<1>3. phase[c] = "new" /\ AssetsTypeOK /\ RowsOwnImages /\ Begin(c, t, named, "save")
    BY <1>1 DEF Begin, AssetsInv
<1>4. items[i] \in ItemRows
    BY <1>2, <1>3 DEF AssetsTypeOK
<1>5. logo \in SUBSET Images /\ logo \subseteq cloud
    BY <1>3 DEF AssetsTypeOK
<1>6. /\ row \in ItemRows /\ row.kind = "business" /\ row.images = logo
      /\ row.status = items[i].status
    BY <1>2, <1>4, <1>5 DEF ItemRows
<1>7. task'[c] = t /\ phase'[c] = "save"
    BY <1>3 DEF Begin, To, AssetsTypeOK
<1>8. /\ t.op = "update" /\ t.base = items[i] /\ t.kept = {} /\ t.drop = {}
      /\ t.row = row
    BY DEF Task
<1> HIDE DEF row
<1>9. EntityFits(c)' /\ PhaseFits(c)'
  <2> HIDE DEF t
  <2> QED
      BY <1>6, <1>7, <1>8 DEF EntityFits, PhaseFits, IsProduct
<1>10. /\ named \in SUBSET Images /\ \A image \in named : Uploaded(image)
       /\ row.images \subseteq items[i].images \cup named
    BY <1>3, <1>5, <1>6 DEF RowsOwnImages
<1>11. {} \in SUBSET (items[i].images \cup named) /\ {} \in SUBSET Files
    OBVIOUS
<1>12. Begin(c, Task("update", i, items[i], row, {}, {}), named, "save")
    BY <1>3
<1> HIDE DEF t, named
<1> QED
    BY <1>2, <1>6, <1>9, <1>10, <1>11, <1>12, ReadStep

LEMMA SaveAgainStep ==
    ASSUME AssetsInv, NEW c \in Edits, SaveUserAgain(c)
    PROVE  AssetsInv'
<1>1. PICK i \in Standing("user") :
          Begin(c, Task("update", i, items[i], items[i], {}, {}), {}, "save")
    BY DEF SaveUserAgain
<1> DEFINE t == Task("update", i, items[i], items[i], {}, {})
<1>2. i \in Items /\ items[i] # NONE /\ items[i].kind = "user" /\ ~ items[i].removed
    BY DEF Standing
<1>3. phase[c] = "new" /\ AssetsTypeOK
    BY <1>1 DEF Begin, AssetsInv
<1>4. items[i] \in ItemRows
    BY <1>2, <1>3 DEF AssetsTypeOK
<1>5. task'[c] = t /\ phase'[c] = "save"
    BY <1>1, <1>3 DEF Begin, To, AssetsTypeOK
<1>6. /\ t.op = "update" /\ t.base = items[i] /\ t.kept = {} /\ t.drop = {}
      /\ t.row = items[i]
    BY DEF Task
<1>7. EntityFits(c)' /\ PhaseFits(c)'
  <2> HIDE DEF t
  <2> QED
      BY <1>2, <1>5, <1>6 DEF EntityFits, PhaseFits, IsProduct
<1> QED
    BY <1>1, <1>2, <1>4, <1>7, ReadStep

LEMMA UpdateProductStep ==
    ASSUME AssetsInv, NEW c \in Edits, UpdateProduct(c)
    PROVE  AssetsInv'
<1>1. PICK i \in Standing("product"), fs \in Uploads("product"), s \in Statuses :
          \E gone \in SUBSET (cloud \cup items[i].images) :
              Begin(c, Task("update", i, items[i],
                            [items[i] EXCEPT !.images = @ \ gone, !.status = s],
                            fs, gone), gone \ items[i].images,
                    IF gone # {} THEN "clear" ELSE "upload")
    BY DEF UpdateProduct
<1>2. PICK gone \in SUBSET (cloud \cup items[i].images) :
          Begin(c, Task("update", i, items[i],
                        [items[i] EXCEPT !.images = @ \ gone, !.status = s],
                        fs, gone), gone \ items[i].images,
                IF gone # {} THEN "clear" ELSE "upload")
    BY <1>1
<1> DEFINE row == [items[i] EXCEPT !.images = @ \ gone, !.status = s]
           named == gone \ items[i].images
           p == IF gone # {} THEN "clear" ELSE "upload"
           t == Task("update", i, items[i], row, fs, gone)
<1>3. /\ i \in Items /\ items[i] # NONE /\ items[i].kind = "product" /\ ~ items[i].removed
      /\ fs \in SUBSET Files
    BY DEF Standing, Uploads
<1>4. phase[c] = "new" /\ AssetsTypeOK /\ Begin(c, t, named, p)
    BY <1>2 DEF Begin, AssetsInv
<1>5. items[i] \in ItemRows
    BY <1>3, <1>4 DEF AssetsTypeOK
<1>6. row \in ItemRows /\ row.kind = "product" /\ row.images = items[i].images \ gone
    BY <1>3, <1>5 DEF ItemRows
<1>7. p \in {"clear", "upload", "save", "remove"} /\ (p = "clear" <=> gone # {})
      /\ p \in {"clear", "upload"}
    OBVIOUS
<1>8. task'[c] = t /\ phase'[c] = p
    BY <1>4 DEF Begin, To, AssetsTypeOK
<1>9. /\ t.op = "update" /\ t.base = items[i] /\ t.kept = {} /\ t.drop = gone
      /\ t.row = row
    BY DEF Task
<1> HIDE DEF p, row
<1>10. EntityFits(c)' /\ PhaseFits(c)'
  <2> HIDE DEF t
  <2> QED
      BY <1>6, <1>7, <1>8, <1>9 DEF EntityFits, PhaseFits, IsProduct
<1>11. /\ gone \in SUBSET (items[i].images \cup named)
       /\ row.images \subseteq items[i].images \cup named
       /\ p \in {"clear", "upload", "save", "remove"}
       /\ p = "remove" => row = items[i]
       /\ p # "clear" => gone = {}
    BY <1>6, <1>7
<1>12. Begin(c, Task("update", i, items[i], row, fs, gone), named, p)
    BY <1>4
<1>13. /\ named \in SUBSET Images /\ \A image \in named : Uploaded(image)
  <2>1. named \subseteq cloud
      OBVIOUS
  <2> QED
      BY <2>1, <1>4 DEF AssetsInv, RowsOwnImages, AssetsTypeOK
<1>14. row \in ItemRows /\ fs \in SUBSET Files
    BY <1>3, <1>6
<1> HIDE DEF t, named
<1> QED
    BY <1>3, <1>10, <1>11, <1>12, <1>13, <1>14, ReadStep, Zenon

LEMMA BeginRemoveStep ==
    ASSUME AssetsInv, NEW c \in Edits, NEW kind \in {"business", "product"},
           RemoveItem(c, kind)
    PROVE  AssetsInv'
<1>1. PICK i \in Standing(kind) :
          Begin(c, Task("remove", i, items[i],
                        IF kind = "product" THEN [items[i] EXCEPT !.images = {}]
                        ELSE items[i], {}, items[i].images), {},
                IF items[i].images # {} THEN "clear"
                ELSE IF kind = "product" THEN "save" ELSE "remove")
    BY DEF RemoveItem
<1> DEFINE row == IF kind = "product" THEN [items[i] EXCEPT !.images = {}] ELSE items[i]
           drop == items[i].images
           p == IF items[i].images # {} THEN "clear"
                ELSE IF kind = "product" THEN "save" ELSE "remove"
           t == Task("remove", i, items[i], row, {}, drop)
<1>2. i \in Items /\ items[i] # NONE /\ items[i].kind = kind /\ ~ items[i].removed
    BY DEF Standing
<1>3. phase[c] = "new" /\ AssetsTypeOK /\ Begin(c, t, {}, p)
    BY <1>1 DEF Begin, AssetsInv
<1>4. items[i] \in ItemRows
    BY <1>2, <1>3 DEF AssetsTypeOK
<1>5. row \in ItemRows /\ row.kind = kind /\ row.images \subseteq items[i].images
    BY <1>2, <1>4 DEF ItemRows
<1>6. row = IF kind = "product" THEN [items[i] EXCEPT !.images = {}] ELSE items[i]
    OBVIOUS
<1>7. /\ p \in {"clear", "upload", "save", "remove"} /\ p # "upload"
      /\ p = "clear" <=> drop # {} 
      /\ p = "save" => kind = "product"
      /\ p = "remove" => row = items[i]
    OBVIOUS
<1>8. task'[c] = t /\ phase'[c] = p
    BY <1>3 DEF Begin, To, AssetsTypeOK
<1>9. /\ t.op = "remove" /\ t.base = items[i] /\ t.kept = {} /\ t.drop = items[i].images
      /\ t.row = row
    BY DEF Task
<1> HIDE DEF p, row
<1>10. EntityFits(c)' /\ PhaseFits(c)'
  <2> HIDE DEF t
  <2> QED
      BY <1>5, <1>6, <1>7, <1>8, <1>9 DEF EntityFits, PhaseFits, IsProduct
<1>11. /\ drop \in SUBSET (items[i].images \cup {}) /\ {} \in SUBSET Files
       /\ p # "clear" => drop = {}
       /\ p = "remove" => row = items[i]
    BY <1>7
<1>12. Begin(c, Task("remove", i, items[i], row, {}, drop), {}, p)
    BY <1>3
<1>13. /\ {} \in SUBSET Images /\ row.images \subseteq items[i].images \cup {}
       /\ \A image \in {} : Uploaded(image)
    BY <1>5
<1> HIDE DEF drop, t
<1> QED
    BY <1>2, <1>5, <1>7, <1>10, <1>11, <1>12, <1>13, ReadStep, Zenon

\* The process ends: no call is left, and what the calls held is excused.
LEMMA StopStep ==
    ASSUME AssetsInv, ProcessStops
    PROVE  AssetsInv'
<1>1. /\ AssetsTypeOK /\ RowsOwnImages /\ ImagesExist /\ OrphansAreExplained
      /\ \A c \in Edits : CallFits(c)
    BY DEF AssetsInv
<1>2. /\ UNCHANGED <<items, cloud, task, audited, shared, claimed>>
      /\ phase' = [c \in Edits |-> IF c \in Working THEN "end" ELSE phase[c]]
      /\ holder' = [i \in Items |-> NONE]
      /\ excused' = excused \cup UNION {task[c].kept \cup task[c].drop : c \in Working}
      /\ broken' = broken \cup {task[c].id : c \in {d \in Working : Clears(d)}}
    BY DEF ProcessStops
<1>3. \A c \in Edits : phase'[c] \in {"new", "end"} /\ (phase'[c] = "new" <=> phase[c] = "new")
    BY <1>2 DEF Working
<1>4. Working' = {}
    BY <1>3 DEF Working
<1>5. \A c \in Working : c \in Edits /\ task[c] \in Tasks /\ task[c].id \in Items
    BY Under DEF Working
<1>6. AssetsTypeOK'
  <2>1. phase' \in [Edits -> Phases]
      BY <1>1, <1>2 DEF AssetsTypeOK, Phases
  <2>2. holder' \in [Items -> Edits \cup {NONE}]
      BY <1>2
  <2>3. \A c \in Working : task[c].kept \subseteq Images /\ task[c].drop \subseteq Images
      BY <1>5 DEF Tasks
  <2>4. excused' \subseteq Images
      BY <2>3, <1>1, <1>2 DEF AssetsTypeOK
  <2>5. broken' \subseteq Items
      BY <1>1, <1>2, <1>5 DEF AssetsTypeOK
  <2> QED
      BY <2>1, <2>2, <2>4, <2>5, <1>1, <1>2 DEF AssetsTypeOK
<1>7. \A image : RowOf(image)' = RowOf(image)
    BY <1>2 DEF RowOf
<1>8. ASSUME NEW image, Uploaded(image) PROVE Uploaded(image)'
  <2>1. image[1] \in Edits => phase'[image[1]] \in {phase[image[1]], "end"}
      BY <1>2
  <2> QED
      BY <2>1, <1>8 DEF Uploaded
<1>9. \A c \in Edits : CallFits(c)'
  <2> SUFFICES ASSUME NEW c \in Edits PROVE CallFits(c)'
      OBVIOUS
  <2>1. TaskFits(c)'
      BY <1>1, <1>2, <1>3, <1>4 DEF CallFits, TaskFits
  <2>2. PhaseFits(c)'
      BY <1>3 DEF PhaseFits
  <2>3. c \notin Working'
      BY <1>4
  <2> QED
      BY <2>1, <2>2, <2>3 DEF CallFits, EntityFits, RowAgrees, ImagesAgree
<1>10. CallsApart'
    BY <1>4 DEF CallsApart, About
<1>11. RowsOwnImages'
  <2>1. ASSUME NEW i \in Items, items'[i] # NONE PROVE Owned(items[i].images, i)'
    <3>1. Owned(items[i].images, i)
        BY <2>1, <1>1, <1>2 DEF RowsOwnImages
    <3> QED
        BY <3>1, <1>2, <1>7, <1>8 DEF Owned
  <2> QED
      BY <2>1, <1>1, <1>2, <1>8 DEF RowsOwnImages
<1>12. ImagesExist'
  <2>1. ASSUME NEW i \in Items, items'[i] # NONE, ~ items'[i].removed
        PROVE  items'[i].images \subseteq cloud' \cup claimed' \/ i \in shared' \cup broken'
    <3>1. CASE \E c \in About(i) : Clears(c)
        BY <3>1, <1>2 DEF About
    <3> QED
        BY <3>1, <2>1, <1>1, <1>2 DEF ImagesExist
  <2> QED
      BY <2>1 DEF ImagesExist
<1>13. OrphansAreExplained'
  <2>1. ASSUME NEW image \in cloud' PROVE Explained(image, RowOf(image))'
    <3>1. Explained(image, RowOf(image))
        BY <2>1, <1>1, <1>2 DEF Explained, OrphansAreExplained
    <3>2. RowOf(image)' = RowOf(image)
        BY <1>7
    <3>3. CASE \E c \in About(RowOf(image)) : image \in task[c].kept \cup task[c].drop
        BY <3>3, <1>2 DEF Explained, About
    <3> QED
        BY <3>1, <3>2, <3>3, <1>2 DEF Explained
  <2> QED
      BY <2>1 DEF OrphansAreExplained, Explained
<1> QED
    BY <1>6, <1>9, <1>10, <1>11, <1>12, <1>13 DEF AssetsInv

-----------------------------------------------------------------------------
(* The invariant.                                                          *)

LEMMA AssetsStart == AssetsInit => AssetsInv
<1> SUFFICES ASSUME AssetsInit PROVE AssetsInv
    OBVIOUS
<1>1. PICK s \in Statuses :
          items = [i \in Items |-> IF i \in Existing THEN StartRow(i, s) ELSE NONE]
    BY DEF AssetsInit
<1>2. /\ cloud = {ImageOf(i) : i \in Existing}
      /\ task = [c \in Edits |-> Untasked] /\ phase = [c \in Edits |-> "new"]
      /\ holder = [i \in Items |-> NONE]
      /\ audited = {} /\ shared = {} /\ broken = {} /\ excused = {} /\ claimed = {}
    BY DEF AssetsInit
<1>3. \A i \in Items : ImageOf(i) \in Images /\ ImageOf(i)[1] = i
    BY AssetsAssumption DEF ImageOf, Images
<1>4. \A i \in Existing : i \in Items /\ i \notin Edits
    BY AssetsAssumption DEF Items
<1>5. \A i \in Existing : StartRow(i, s) \in ItemRows /\ StartRow(i, s).images = {ImageOf(i)}
    BY <1>3, <1>4 DEF StartRow, ItemRows, Statuses
<1>6. /\ Untasked \in Tasks /\ Untasked.id = NONE
  <2>1. NewItem("product") \in ItemRows
      BY DEF NewItem, ItemRows, Statuses
  <2> QED
      BY <2>1 DEF Untasked, Task, Tasks
<1>7. AssetsTypeOK
    BY <1>1, <1>2, <1>3, <1>4, <1>5, <1>6 DEF AssetsTypeOK, Phases
<1>8. Working = {}
    BY <1>2 DEF Working
<1>9. \A i \in Existing : RowOf(ImageOf(i)) = i /\ Uploaded(ImageOf(i))
    BY <1>3, <1>4 DEF RowOf, Uploaded
<1>10. \A c \in Edits : CallFits(c)
  <2> SUFFICES ASSUME NEW c \in Edits PROVE CallFits(c)
      OBVIOUS
  <2>1. c \notin Existing /\ c \in Items /\ c \notin Working
      BY <1>4, <1>8 DEF Items
  <2>2. TaskFits(c)
      BY <2>1, <1>1, <1>2, <1>6 DEF TaskFits
  <2>3. PhaseFits(c)
      BY <1>2 DEF PhaseFits
  <2> QED
      BY <2>1, <2>2, <2>3 DEF CallFits, EntityFits, RowAgrees, ImagesAgree
<1>11. CallsApart
    BY <1>8 DEF CallsApart, About
<1>12. RowsOwnImages
    BY <1>1, <1>2, <1>4, <1>5, <1>9 DEF RowsOwnImages, Owned
<1>13. ImagesExist
    BY <1>1, <1>2, <1>4, <1>5 DEF ImagesExist
<1>14. OrphansAreExplained
    BY <1>1, <1>2, <1>4, <1>5, <1>9, AssetsAssumption DEF OrphansAreExplained
<1> QED
    BY <1>7, <1>10, <1>11, <1>12, <1>13, <1>14 DEF AssetsInv

LEMMA AssetsStep == AssetsInv /\ [AssetsNext]_assetsVars => AssetsInv'
<1> SUFFICES ASSUME AssetsInv, [AssetsNext]_assetsVars PROVE AssetsInv'
    OBVIOUS
<1>1. CASE ProcessStops
    BY <1>1, StopStep
<1>2. CASE UNCHANGED assetsVars
  <2>1. AssetsInv' <=> AssetsInv
      BY <1>2 DEF assetsVars, AssetsInv, AssetsTypeOK, CallFits, TaskFits, EntityFits,
         PhaseFits, RowAgrees, ImagesAgree, CallsApart, RowsOwnImages, ImagesExist,
         OrphansAreExplained, Owned, Uploaded, RowOf, About, Working, IsProduct, Clears,
         Undoes, StatusAccepted
  <2> QED
      BY <2>1
<1>3. ASSUME NEW c \in Edits,
             \/ \E kind \in {"business", "user", "product"} : CreateItem(c, kind)
             \/ \E kind \in {"business", "user"} : ReplacePicture(c, kind)
             \/ GiveLogo(c) \/ SaveUserAgain(c) \/ UpdateProduct(c)
             \/ \E kind \in {"business", "product"} : RemoveItem(c, kind)
      PROVE  AssetsInv'
    BY <1>3, CreateStep, ReplaceStep, GiveLogoStep, SaveAgainStep, UpdateProductStep,
       BeginRemoveStep
<1>4. ASSUME NEW c \in Edits,
             \/ ClearImages(c) \/ UploadImages(c) \/ UploadFails(c)
             \/ TidyPicture(c) \/ EditFails(c) \/ AnswerLost(c) \/ UndoUploads(c)
      PROVE  AssetsInv'
    BY <1>4, ClearStep, UploadStep, UploadFailStep, TidyStep, FailStep, AnswerLostStep,
       UndoStep
<1>5. ASSUME NEW c \in Edits,
             \/ InsertItem(c) \/ SavePicture(c) \/ SaveWithoutImages(c)
             \/ SoftRemoveItem(c) \/ SaveProduct(c) \/ Audit(c) \/ CommitProduct(c)
      PROVE  AssetsInv'
    BY <1>5, InsertStep, SavePictureStep, SaveWithoutImagesStep, RemoveStep,
       ProductGoesOn, CommitStep
<1> QED
    BY <1>1, <1>2, <1>3, <1>4, <1>5 DEF AssetsNext

\* The inductive invariant: every call under way has read and uploads what its step
\* says, and rows that calls do not share are as their call has left them.
THEOREM CallsFitTheirRows == AssetsSpec => []AssetsInv
<1>1. AssetsInit => AssetsInv
    BY AssetsStart
<1>2. AssetsInv /\ [AssetsNext]_assetsVars => AssetsInv'
    BY AssetsStep
<1> QED
    BY <1>1, <1>2, PTL DEF AssetsSpec

\* Rows, images and tasks keep their types.
THEOREM AssetTypes == AssetsSpec => []AssetsTypeOK
<1>1. AssetsInv => AssetsTypeOK
    BY DEF AssetsInv
<1> QED
    BY <1>1, CallsFitTheirRows, PTL

\* The images of a business, user or product are stored whatever fails or stops
\* (update saves before it deletes), except where calls about the row overlap, one of
\* them clears them first (products.service update and remove), or a body has named
\* them for another row (imagesToDelete, logo).
THEOREM ImagesStayStored == AssetsSpec => []ImagesExist
<1>1. AssetsInv => ImagesExist
    BY DEF AssetsInv
<1> QED
    BY <1>1, CallsFitTheirRows, PTL

\* An image that its row does not have is left over from a deletion, an upload or an
\* update of a product that failed, from an answer that was lost, a logo that a body
\* replaced, a stop, or calls that overlapped.
THEOREM OrphansHaveReasons == AssetsSpec => []OrphansAreExplained
<1>1. AssetsInv => OrphansAreExplained
    BY DEF AssetsInv
<1> QED
    BY <1>1, CallsFitTheirRows, PTL

-----------------------------------------------------------------------------
(* The status of a product.                                                *)

\* A step may change a status.
StatusStep ==
    \A i \in Items \ shared :
        items[i] # NONE /\ items'[i] # NONE /\ items[i].status # items'[i].status =>
            /\ items'[i].status \in Transitions[items[i].status]
            /\ \E c \in audited : phase[c] = "commit" /\ task[c].id = i

\* A new row had no status before.
LEMMA InsertKeepsStatus ==
    ASSUME AssetsInv, NEW c \in Edits, c \in Working, phase[c] = "save",
           task[c].op = "create",
           \A i \in Items : i # task[c].id => items'[i] = items[i]
    PROVE  StatusStep
<1>1. task[c].id = c /\ task[c].base = NONE
    BY Under
<1>2. c \notin shared => items[c] = NONE
    BY <1>1 DEF AssetsInv, CallFits, RowAgrees
<1> QED
    BY <1>1, <1>2 DEF StatusStep

\* save() of the entity in memory writes the status that was read.
LEMMA WritesKeepStatus ==
    ASSUME AssetsInv, NEW c \in Edits, c \in Working, phase[c] = "save",
           task[c].op \in {"update", "remove"}, task[c].op = "update" => ~ IsProduct(c),
           items' = [items EXCEPT ![task[c].id] = Merged(c)]
    PROVE  StatusStep
<1>1. PICK t \in Tasks : t = task[c]
    BY Under
<1>2. t.id \in Items /\ t.row \in ItemRows /\ t.base \in ItemRows /\ items[t.id] \in ItemRows
    BY <1>1, Under
<1>3. Merged(c) = t.row
    BY <1>1, <1>2, MergedIsRow
<1>4. AssetsTypeOK /\ EntityFits(c) /\ RowAgrees(c)
    BY DEF AssetsInv, CallFits
<1>5. t.row.status = t.base.status
    BY <1>1, <1>2, <1>4 DEF EntityFits, ItemRows
<1>6. t.id \notin shared => items[t.id] = t.base
    BY <1>1, <1>4 DEF RowAgrees
<1>7. items'[t.id] = t.row /\ \A i \in Items : i # t.id => items'[i] = items[i]
    BY <1>1, <1>2, <1>3, <1>4 DEF AssetsTypeOK
<1> QED
    BY <1>5, <1>6, <1>7 DEF StatusStep

LEMMA RemoveKeepsStatus ==
    ASSUME AssetsInv, NEW c \in Edits, SoftRemoveItem(c)
    PROVE  StatusStep
<1>1. \A i \in Items : items[i] # NONE => items'[i].status = items[i].status
  <2>1. items' = [items EXCEPT ![task[c].id].removed = TRUE]
      BY DEF SoftRemoveItem
  <2>2. \A i \in Items : items[i] # NONE => items[i] \in ItemRows
      BY DEF AssetsInv, AssetsTypeOK
  <2>3. items \in [Items -> ItemRows \cup {NONE}]
      BY DEF AssetsInv, AssetsTypeOK
  <2> QED
      BY <2>1, <2>2, <2>3 DEF ItemRows
<1> QED
    BY <1>1 DEF StatusStep

\* The commit writes the status that updateProduct has checked against the snapshot,
\* which is the row as long as no other call works on it.
LEMMA CommitFollows ==
    ASSUME AssetsInv, NEW c \in Edits, c \in Working, phase[c] = "commit",
           items' = [items EXCEPT ![task[c].id] = Merged(c)]
    PROVE  StatusStep
<1>1. PICK t \in Tasks : t = task[c]
    BY Under
<1>2. AssetsTypeOK /\ CallFits(c)
    BY DEF AssetsInv
<1>3. t.op = "update" /\ IsProduct(c) /\ c \in audited /\ StatusAccepted(c)
  <2>1. PhaseFits(c)
      BY <1>2 DEF CallFits
  <2> QED
      BY <1>1, <2>1 DEF PhaseFits
<1>4. t.id \in Items /\ t.row \in ItemRows /\ t.base \in ItemRows /\ items[t.id] \in ItemRows
    BY <1>1, <1>3, Under
<1>5. t.id \notin shared => items[t.id] = t.base
    BY <1>1, <1>2 DEF CallFits, RowAgrees
<1>6. t.id \notin shared => Merged(c) = t.row
    BY <1>1, <1>4, <1>5, MergedIsRow
<1>7. items'[t.id] = Merged(c) /\ \A i \in Items : i # t.id => items'[i] = items[i]
    BY <1>1, <1>2, <1>4 DEF AssetsTypeOK
<1> QED
    BY <1>1, <1>3, <1>5, <1>6, <1>7 DEF StatusStep, StatusAccepted

\* A write whose answer is lost is one of these.
LEMMA LostKeepsStatus ==
    ASSUME AssetsInv, NEW c \in Edits, AnswerLost(c)
    PROVE  StatusStep
<1>1. Writes(c) /\ items' = [items EXCEPT ![task[c].id] = RowWritten(c)]
    BY DEF AnswerLost
<1>2. PICK i \in Items : i = task[c].id
    BY <1>1, LostWrite, Under
<1>3. c \in Working /\ AssetsTypeOK /\ PhaseFits(c)
    BY <1>1, LostWrite DEF AssetsInv, CallFits
<1>4. items'[i] = RowWritten(c) /\ \A j \in Items : j # i => items'[j] = items[j]
    BY <1>1, <1>2, <1>3 DEF AssetsTypeOK
<1>5. CASE phase[c] = "remove"
  <2>1. items'[i].status = items[i].status
      BY <1>1, <1>2, <1>4, <1>5, LostWrite
  <2> QED
      BY <2>1, <1>4 DEF StatusStep
<1>6. CASE phase[c] = "save" /\ task[c].op = "create"
    BY <1>2, <1>3, <1>4, <1>6, InsertKeepsStatus
<1>7. CASE phase[c] \in {"save", "commit"} /\ task[c].op # "create"
  <2>1. items' = [items EXCEPT ![task[c].id] = Merged(c)]
      BY <1>1, <1>7 DEF RowWritten
  <2>2. CASE phase[c] = "commit"
      BY <2>1, <2>2, <1>3, CommitFollows
  <2>3. CASE phase[c] = "save"
    <3>1. task[c].op \in {"update", "remove"} /\ (task[c].op = "update" => ~ IsProduct(c))
        BY <2>3, <1>1, <1>3, <1>7, Under DEF Writes
    <3> QED
        BY <2>1, <2>3, <3>1, <1>3, WritesKeepStatus
  <2> QED
      BY <2>2, <2>3, <1>7
<1>8. phase[c] = "commit" => task[c].op # "create"
    BY <1>3 DEF PhaseFits
<1> QED
    BY <1>1, <1>5, <1>6, <1>7, <1>8 DEF Writes

LEMMA StatusKept == ASSUME items' = items PROVE StatusStep
BY DEF StatusStep

LEMMA StatusesStep == AssetsInv /\ [AssetsNext]_assetsVars => StatusStep
<1> SUFFICES ASSUME AssetsInv, [AssetsNext]_assetsVars PROVE StatusStep
    OBVIOUS
<1>1. CASE ProcessStops \/ UNCHANGED assetsVars
    BY <1>1, StatusKept DEF ProcessStops, assetsVars
<1>2. ASSUME NEW c \in Edits,
             \/ \E kind \in {"business", "user", "product"} : CreateItem(c, kind)
             \/ \E kind \in {"business", "user"} : ReplacePicture(c, kind)
             \/ GiveLogo(c) \/ SaveUserAgain(c) \/ UpdateProduct(c)
             \/ \E kind \in {"business", "product"} : RemoveItem(c, kind)
      PROVE  StatusStep
  <2>1. items' = items
      BY <1>2 DEF CreateItem, ReplacePicture, GiveLogo, SaveUserAgain, UpdateProduct,
         RemoveItem, Begin
  <2> QED
      BY <2>1, StatusKept
<1>3. ASSUME NEW c \in Edits,
             \/ ClearImages(c) \/ UploadImages(c) \/ UploadFails(c)
             \/ TidyPicture(c) \/ EditFails(c) \/ UndoUploads(c)
             \/ SaveProduct(c) \/ Audit(c)
      PROVE  StatusStep
  <2>1. items' = items
      BY <1>3 DEF ClearImages, UploadImages, UploadFails, TidyPicture, EditFails,
         UndoUploads, SaveProduct, Audit
  <2> QED
      BY <2>1, StatusKept
<1>4. ASSUME NEW c \in Edits,
             \/ InsertItem(c) \/ SavePicture(c) \/ SaveWithoutImages(c)
             \/ SoftRemoveItem(c) \/ CommitProduct(c) \/ AnswerLost(c)
      PROVE  StatusStep
  <2>1. CASE SavePicture(c) \/ SaveWithoutImages(c)
      BY <2>1, WritesKeepStatus DEF SavePicture, SaveWithoutImages, Working
  <2>2. CASE InsertItem(c)
    <3>1. c \in Working /\ phase[c] = "save" /\ task[c].op = "create"
        BY <2>2 DEF InsertItem, Working
    <3>2. task[c].id = c
        BY <3>1, Under
    <3>3. \A i \in Items : i # task[c].id => items'[i] = items[i]
        BY <2>2, <3>2 DEF InsertItem, AssetsInv, AssetsTypeOK
    <3> QED
        BY <3>1, <3>3, InsertKeepsStatus
  <2>3. CASE CommitProduct(c)
      BY <2>3, CommitFollows DEF CommitProduct, Working
  <2> QED
      BY <2>1, <2>2, <2>3, <1>4, RemoveKeepsStatus, LostKeepsStatus
<1> QED
    BY <1>1, <1>2, <1>3, <1>4 DEF AssetsNext

\* A product that one call works on at a time changes its status along
\* allowedTransitions, and only by a commit that has saved its audit entry.
THEOREM StatusesFollow == AssetsSpec => StatusFollowsTransitions
<1>1. AssetsInv /\ [AssetsNext]_assetsVars =>
          [\A i \in Items \ shared :
              items[i] # NONE /\ items'[i] # NONE
                  /\ items[i].status # items'[i].status =>
              /\ items'[i].status \in Transitions[items[i].status]
              /\ \E c \in audited : phase[c] = "commit" /\ task[c].id = i
          ]_assetsVars
    BY StatusesStep DEF StatusStep
<1> QED
    BY <1>1, CallsFitTheirRows, PTL DEF AssetsSpec, StatusFollowsTransitions

=============================================================================
